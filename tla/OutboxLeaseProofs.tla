-------------------------- MODULE OutboxLeaseProofs --------------------------
(***************************************************************************)
(* What a message in hand is protected from: being overtaken, at any       *)
(* timing; and when rounds and their calls end within the lease (Timely),  *)
(* being handled twice, and what rests on that.                            *)
(*                                                                         *)
(* A message that was claimed is in one pair of hands: in the round of the *)
(* worker its row is leased to, or in one call that worker has left        *)
(* behind.  Every call in flight or late names messages no other call      *)
(* names, so executing it frees what it names and touches nothing else.    *)
(***************************************************************************)
EXTENDS OutboxOrderProofs

\* The stages of two messages of a key in one round, the first of them first.
Follows(s, t) ==
  /\ t.st \in {"sending", "sent", "failed"} => s.st = "sent"
  /\ t.st = "held" => s.st \in {"sent", "failed"} \/ (s.st = "held" /\ s.retry_at = t.retry_at)
  /\ t.st = "todo" => s.st \in {"todo", "sending", "sent"}

GroupShape ==
  \A w \in Workers : \A i, j \in Batch(w) : i < j /\ SameKey(rows, i, j) =>
    Follows(task[w][i], task[w][j])

Leased(i, w) == rows[i].leased_by = w /\ rows[i].lease_until > 0

OneHand ==
  /\ \A w \in Workers : \A i \in Batch(w) : Leased(i, w)
  /\ \A c \in late : \A i \in c.ids : Leased(i, c.worker_id) /\ i \notin Batch(c.worker_id)
  /\ \A c, d \in late : c # d => c.ids \cap d.ids = {}

HoldInv == Sound /\ Fresh /\ GroupShape /\ OneHand

-----------------------------------------------------------------------------
(* Rounds.                                                                 *)

\* What a failed publish does to the tasks, in full.
LEMMA FailTasks ==
  ASSUME TypeOK, NEW w0 \in Workers, NEW i0 \in Ids, NEW d, Fail(w0, i0, d)
  PROVE  \E retry : \A w \in Workers, i \in Ids :
           /\ w # w0 => task'[w][i] = task[w][i]
           /\ i = i0 /\ w = w0 => /\ task'[w][i].st = "failed"
                                  /\ task'[w][i].attempts = task[w][i].attempts
           /\ i \in Group(w0, i0) /\ i > i0 /\ w = w0 =>
                task'[w][i].st = "held" /\ task'[w][i].retry_at = retry
           /\ i # i0 /\ ~(i \in Group(w0, i0) /\ i > i0) => task'[w][i] = task[w][i]
<1> DEFINE retry == IF Exhausted(w0, i0) THEN 0 ELSE d
           f == [j \in Ids |->
                   CASE j = i0 -> [task[w0][j] EXCEPT !.st = "failed", !.retry_at = retry]
                     [] j \in {x \in Group(w0, i0) : x > i0} ->
                          [NoTask EXCEPT !.st = "held", !.retry_at = retry]
                     [] OTHER -> task[w0][j]]
<1>1. task' = [task EXCEPT ![w0] = f]
  BY DEF Fail, TypeOK
<1>2. \A j \in Ids : task[w0][j] \in Task
  BY DEF TypeOK
<1> HIDE DEF retry
<1>3. f[i0].st = "failed" /\ f[i0].attempts = task[w0][i0].attempts
  <2>0. ~(i0 > i0)
    BY TableAssumption DEF Ids
  <2>1. f[i0] = [task[w0][i0] EXCEPT !.st = "failed", !.retry_at = retry]
    BY <2>0
  <2> HIDE DEF f
  <2> QED
    BY <1>2, <2>1 DEF Task
<1>4. \A i \in Ids : i # i0 /\ i \in Group(w0, i0) /\ i > i0 =>
        f[i].st = "held" /\ f[i].retry_at = retry
  BY DEF NoTask
<1>5. \A i \in Ids : i # i0 /\ ~(i \in Group(w0, i0) /\ i > i0) => f[i] = task[w0][i]
  OBVIOUS
<1> HIDE DEF f
<1>6. \A w \in Workers : task'[w] = IF w = w0 THEN f ELSE task[w]
  BY <1>1 DEF TypeOK
<1>7. \A i \in Ids : i > i0 => i # i0
  BY TableAssumption DEF Ids
<1>8. ASSUME NEW w \in Workers, NEW i \in Ids
      PROVE  /\ w # w0 => task'[w][i] = task[w][i]
             /\ i = i0 /\ w = w0 => /\ task'[w][i].st = "failed"
                                    /\ task'[w][i].attempts = task[w][i].attempts
             /\ i \in Group(w0, i0) /\ i > i0 /\ w = w0 =>
                  task'[w][i].st = "held" /\ task'[w][i].retry_at = retry
             /\ i # i0 /\ ~(i \in Group(w0, i0) /\ i > i0) => task'[w][i] = task[w][i]
  BY <1>3, <1>4, <1>5, <1>6, <1>7
<1> QED
  BY <1>8

\* Two calls a round has in flight name different messages.
LEMMA InFlightDisjoint ==
  ASSUME TypeOK, GroupShape, NEW w \in Workers, NEW c \in InFlight(w), NEW d \in InFlight(w),
         NEW i \in c.ids, i \in d.ids
  PROVE  c = d
<1>0. i \in Ids /\ c.ids \subseteq Ids
  BY InFlightCalls DEF Call
<1>1. CASE task[w][i].st = "failed"
  <2>1. ASSUME NEW e \in InFlight(w), i \in e.ids PROVE e = FailureCall(w, i)
    <3>1. e \in Failures(w)
      BY <1>1, <2>1 DEF InFlight, Releases, Releasable, Acks, NewCall
    <3> QED
      BY <2>1, <3>1 DEF Failures, FailureCall, NewCall
  <2> QED
    BY <2>1
<1>2. CASE task[w][i].st = "sent"
  <2>1. ASSUME NEW e \in InFlight(w), i \in e.ids PROVE e = NewCall("ack", w, Batch(w), 0)
    <3>1. e \in Acks(w)
      BY <1>2, <2>1 DEF InFlight, Failures, FailureCall, Releases, Releasable, NewCall
    <3> QED
      BY <3>1 DEF Acks
  <2> QED
    BY <2>1
<1>3. CASE task[w][i].st = "held"
  <2>1. ASSUME NEW e \in InFlight(w), i \in e.ids
        PROVE  e = NewCall("release", w, Group(w, i) \cap Releasable(w), task[w][i].retry_at)
    <3>1. e \in Releases(w)
      BY <1>3, <2>1 DEF InFlight, Failures, FailureCall, Acks, NewCall, Batch
    <3>2. PICK a \in Releasable(w) :
            e = NewCall("release", w, Group(w, a) \cap Releasable(w), task[w][a].retry_at)
      BY <3>1 DEF Releases
    <3>3. i \in Group(w, a) /\ i \in Batch(w) /\ a \in Batch(w) /\ a \in Ids
          /\ task[w][a].st = "held"
      BY <1>3, <2>1, <3>2 DEF NewCall, Releasable, Group, Batch
    <3>4. Group(w, a) = Group(w, i)
      BY <3>3 DEF Group, SameKey
    <3>5. task[w][a].retry_at = task[w][i].retry_at
      <4>1. a = i \/ a < i \/ i < a
        BY <1>0, <3>3 DEF Ids
      <4>2. a = i \/ (SameKey(rows, a, i) /\ SameKey(rows, i, a))
        BY <3>3 DEF Group, SameKey
      <4> QED
        BY <1>3, <3>3, <4>1, <4>2 DEF GroupShape, Follows
    <3> QED
      BY <3>2, <3>4, <3>5
  <2> QED
    BY <2>1
<1> QED
  BY <1>1, <1>2, <1>3, InFlightCalls

\* What a step does to a task, in full.
LEMMA TaskEffects ==
  ASSUME Sound, [Next]_vars, task' # task
  PROVE  \/ \E w \in Workers : ClaimBatch(w)
         \/ \E w \in Workers, i \in Ids : StartPublish(w, i) \/ PublishOk(w, i)
         \/ \E w \in Workers, i \in Ids, d \in Delays :
              task[w][i].st = "sending" /\ Fail(w, i, d) /\ rows' = rows
         \/ \E w \in Workers, S \in SUBSET Ids : Drop(w, S)
         \/ Tick
<1>1. \A w \in Workers : \A c \in InFlight(w) : c.ids \in SUBSET Ids
  BY InFlightCalls DEF Sound, Call
<1>2. ASSUME NEW w \in Workers, RoundStep(w) \/ FaultStep(w)
      PROVE  \/ \E i \in Ids : StartPublish(w, i) \/ PublishOk(w, i)
             \/ \E i \in Ids, d \in Delays : task[w][i].st = "sending" /\ Fail(w, i, d) /\ rows' = rows
             \/ \E S \in SUBSET Ids : Drop(w, S)
  <2>1. ASSUME NEW c \in InFlight(w), Report(w, c) \/ ReportError(w, c)
        PROVE  \E S \in SUBSET Ids : Drop(w, S)
    BY <1>1, <2>1 DEF Report, ReportError
  <2>2. CASE CancelRound(w) \/ Crash(w)
    <3>1. {i \in Ids : task[w][i].st # "sent"} \in SUBSET Ids /\ Ids \in SUBSET Ids
      OBVIOUS
    <3> QED
      BY <2>2, <3>1 DEF CancelRound, PublishCancelled, Crash
  <2>3. ASSUME NEW i \in Ids, NEW d \in Delays, PublishRaises(w, i, d) \/ PublishTimeout(w, i, d)
        PROVE  task[w][i].st = "sending" /\ Fail(w, i, d) /\ rows' = rows
    BY <2>3 DEF PublishRaises, PublishTimeout
  <2>4. ASSUME NEW i \in Ids, PublishCancelled(w, i) PROVE \E S \in SUBSET Ids : Drop(w, S)
    <3>1. {j \in Group(w, i) : j >= i} \in SUBSET Ids
      BY DEF Group, Batch
    <3> QED
      BY <2>4, <3>1 DEF PublishCancelled
  <2> QED
    BY <1>2, <2>1, <2>2, <2>3, <2>4 DEF RoundStep, FaultStep, ClaimLost
<1> QED
  BY <1>2 DEF Next, vars, Produce, PurgeDone, Restart, ExecuteLate, LoseLate, Arrive

\* A step keeps the shape of every group.
LEMMA ShapeStep ==
  ASSUME Sound, Fresh, GroupShape, [Next]_vars
  PROVE  GroupShape'
<1>0. TypeOK
  BY DEF Sound
<1>1. \A w \in Workers, i \in Ids : task[w][i] \in Task
  BY <1>0 DEF TypeOK
\* Messages of a round keep their keys.
<1>2. \A w \in Workers : \A i, j \in Batch(w) : SameKey(rows, i, j)' => SameKey(rows, i, j)
  <2>1. \A w \in Workers : \A i \in Batch(w) : i \in Ids /\ rows[i].status # "absent"
    BY <1>0 DEF Fresh, Batch
  <2> QED
    BY <1>0, <2>1, RowsStep DEF RowStep, SameKey
<1>3. SUFFICES ASSUME task' # task PROVE GroupShape'
  BY <1>0, <1>2 DEF GroupShape, Batch
<1>4. ASSUME NEW w \in Workers, ClaimBatch(w) PROVE GroupShape'
  <2>1. \A v \in Workers, i \in Ids : \/ v # w /\ task'[v][i] = task[v][i]
                                      \/ v = w /\ task'[v][i].st \in {"none", "todo"}
    BY <1>0, <1>4 DEF ClaimBatch, TypeOK, NoTask
  <2> QED
    BY <1>0, <1>2, <2>1 DEF GroupShape, Batch, Follows
<1>5. ASSUME NEW w \in Workers, NEW k \in Ids, StartPublish(w, k) \/ PublishOk(w, k) PROVE GroupShape'
  <2>1. /\ \A v \in Workers, i \in Ids : v # w \/ i # k => task'[v][i] = task[v][i]
        /\ rows' = rows
        /\ k \in Batch(w) /\ k \in Ids
        /\ \/ task[w][k].st = "todo" /\ task'[w][k].st = "sending" /\ Turn(w, k)
           \/ task[w][k].st = "sending" /\ task'[w][k].st = "sent"
    <3>1. CASE StartPublish(w, k)
      BY <1>0, <1>1, <3>1 DEF StartPublish, TypeOK, Batch, Task
    <3>2. CASE PublishOk(w, k)
      BY <1>0, <1>1, <3>2 DEF PublishOk, TypeOK, Batch, NoTask
    <3> QED
      BY <1>5, <3>1, <3>2
  <2>2. ASSUME NEW v \in Workers, NEW i \in Batch(v)', NEW j \in Batch(v)', i < j, SameKey(rows, i, j)'
        PROVE  Follows(task[v][i], task[v][j])'
    <3>1. i \in Batch(v) /\ j \in Batch(v) /\ i \in Ids /\ j \in Ids /\ SameKey(rows, i, j)
      BY <1>2, <2>1, <2>2 DEF Batch
    <3>2. Follows(task[v][i], task[v][j])
      BY <1>0, <2>2, <3>1 DEF GroupShape
    <3>3. CASE v # w \/ (i # k /\ j # k)
      BY <2>1, <3>1, <3>2, <3>3 DEF Follows
    <3>4. CASE v = w /\ i = k
      <4>1. j # k
        BY <2>2, <3>4, <3>1 DEF Ids
      <4> QED
        BY <2>1, <3>1, <3>2, <3>4, <4>1, <1>1 DEF Follows, Task, Stage
    <3>5. CASE v = w /\ j = k
      <4>1. i # k
        BY <2>2, <3>5, <3>1 DEF Ids
      <4>2. Turn(w, k) => task[w][i].st = "sent"
        BY <2>2, <3>1, <3>5 DEF Turn, Group, SameKey
      <4> QED
        BY <2>1, <3>1, <3>2, <3>5, <4>1, <4>2 DEF Follows
    <3> QED
      BY <3>3, <3>4, <3>5
  <2> QED
    BY <2>2 DEF GroupShape
<1>6. ASSUME NEW w \in Workers, NEW k \in Ids, NEW d \in Delays,
             task[w][k].st = "sending", Fail(w, k, d), rows' = rows
      PROVE  GroupShape'
  <2>1. PICK retry : \A v \in Workers, i \in Ids :
           /\ v # w => task'[v][i] = task[v][i]
           /\ i = k /\ v = w => /\ task'[v][i].st = "failed"
                                /\ task'[v][i].attempts = task[v][i].attempts
           /\ i \in Group(w, k) /\ i > k /\ v = w =>
                task'[v][i].st = "held" /\ task'[v][i].retry_at = retry
           /\ i # k /\ ~(i \in Group(w, k) /\ i > k) => task'[v][i] = task[v][i]
    BY <1>0, <1>6, FailTasks
  <2>2. ASSUME NEW v \in Workers, NEW i \in Batch(v)', NEW j \in Batch(v)', i < j, SameKey(rows, i, j)'
        PROVE  Follows(task[v][i], task[v][j])'
    <3>1. i \in Batch(v) /\ j \in Batch(v) /\ i \in Ids /\ j \in Ids /\ SameKey(rows, i, j)
          /\ k \in Batch(w)
      BY <1>2, <1>6, <2>1, <2>2 DEF Batch, Group
    <3>2. Follows(task[v][i], task[v][j])
      BY <1>0, <2>2, <3>1 DEF GroupShape
    <3>3. CASE v # w \/ (i \notin Group(w, k) /\ j \notin Group(w, k))
      <4>1. k \in Group(w, k)
        BY <3>1 DEF Group
      <4>2. task'[v][i] = task[v][i] /\ task'[v][j] = task[v][j]
        BY <2>1, <3>1, <3>3, <4>1
      <4> QED
        BY <3>2, <4>2
    <3>4. CASE v = w /\ (i \in Group(w, k) \/ j \in Group(w, k))
      <4>1. i \in Group(w, k) /\ j \in Group(w, k)
            /\ (i # k => SameKey(rows, i, k) /\ SameKey(rows, k, i))
            /\ (j # k => SameKey(rows, j, k) /\ SameKey(rows, k, j))
        BY <3>1, <3>4 DEF Group, SameKey
      <4>2. i < k => task[w][i].st = "sent"
        BY <1>0, <1>6, <3>1, <3>4, <4>1 DEF GroupShape, Follows, Ids
      <4>3. j < k => task[w][j].st = "sent"
        BY <1>0, <1>6, <3>1, <3>4, <4>1 DEF GroupShape, Follows, Ids
      <4>4. CASE j < k
        <5>1. i < k /\ i # k /\ j # k /\ ~(i > k) /\ ~(j > k)
          BY <2>2, <3>1, <4>4 DEF Ids
        <5>2. task'[v][i] = task[v][i] /\ task'[v][j] = task[v][j]
          BY <2>1, <3>1, <5>1
        <5> QED
          BY <3>2, <5>2
      <4>5. CASE j = k
        <5>1. i < k /\ i # k /\ ~(i > k)
          BY <2>2, <3>1, <4>5 DEF Ids
        <5>2. task'[w][i].st = "sent" /\ task'[w][j].st = "failed"
          BY <2>1, <3>1, <4>2, <4>5, <5>1
        <5> QED
          BY <3>4, <5>2 DEF Follows
      <4>6. CASE j > k
        <5>1. task'[w][j].st = "held" /\ task'[w][j].retry_at = retry
          BY <2>1, <3>1, <4>1, <4>6
        <5>2. CASE i < k
          <6>1. i # k /\ ~(i > k)
            BY <3>1, <5>2 DEF Ids
          <6>2. task'[w][i].st = "sent"
            BY <2>1, <3>1, <4>2, <5>2, <6>1
          <6> QED
            BY <3>4, <5>1, <6>2 DEF Follows
        <5>3. CASE i = k
          <6>1. task'[w][i].st = "failed"
            BY <2>1, <3>1, <5>3
          <6> QED
            BY <3>4, <5>1, <6>1 DEF Follows
        <5>4. CASE i > k
          <6>1. task'[w][i].st = "held" /\ task'[w][i].retry_at = retry
            BY <2>1, <3>1, <4>1, <5>4
          <6> QED
            BY <3>4, <5>1, <6>1 DEF Follows
        <5> QED
          BY <3>1, <5>2, <5>3, <5>4 DEF Ids
      <4> QED
        BY <3>1, <4>4, <4>5, <4>6 DEF Ids
    <3> QED
      BY <3>3, <3>4
  <2> QED
    BY <2>2 DEF GroupShape
<1>7. ASSUME NEW w \in Workers, NEW S \in SUBSET Ids, Drop(w, S) PROVE GroupShape'
  <2>1. \A v \in Workers, i \in Ids : task'[v][i].st = "none" \/ task'[v][i] = task[v][i]
    BY <1>0, <1>7, DropStep DEF NoTask
  <2> QED
    BY <1>0, <1>2, <2>1 DEF GroupShape, Batch
<1>8. ASSUME Tick PROVE GroupShape'
  <2>1. \A w \in Workers, i \in Ids : /\ task'[w][i].st = task[w][i].st
                                      /\ task'[w][i].retry_at = Sooner(task[w][i].retry_at)
    BY <1>1, <1>8 DEF Tick, Task
  <2> QED
    BY <1>0, <1>2, <2>1 DEF GroupShape, Batch, Follows
<1> QED
  BY <1>0, <1>3, <1>4, <1>5, <1>6, <1>7, <1>8, TaskEffects

-----------------------------------------------------------------------------
(* Overtaking.  This needs no lease either: while a message waits for its  *)
(* turn or is sent, the earlier ones that were pending when its round took *)
(* it are still in that round.                                             *)

Ahead ==
  \A w \in Workers, i, j \in Ids :
    task[w][j].st \in {"todo", "sending"} /\ i < j /\ SameKey(rows, i, j) =>
      rows[i].status # "pending" \/ i \in Batch(w)

TurnInv == Sound /\ Fresh /\ GroupShape /\ (StrictOrdering => Ahead)

\* What is ahead of a message that goes on in its round is not dropped from it.
LEMMA AheadKept ==
  ASSUME Sound, GroupShape, [Next]_vars, NEW w \in Workers, NEW i \in Ids, NEW j \in Ids,
         i < j, SameKey(rows, i, j), i \in Batch(w),
         task[w][j].st \in {"todo", "sending"}, task'[w][j].st \in {"todo", "sending"}
  PROVE  i \in Batch(w)'
<1>0. TypeOK /\ j \in Batch(w)
  BY DEF Sound, Batch
<1>1. task[w][i].st \in {"todo", "sending", "sent"}
  BY <1>0 DEF GroupShape, Follows
<1> SUFFICES ASSUME task'[w][i].st = "none" PROVE FALSE
  BY DEF Batch
<1>2. ASSUME NEW v \in Workers, NEW S, Drop(v, S) PROVE v = w /\ i \in S /\ j \notin S
  BY <1>0, <1>1, <1>2, DropStep DEF NoTask
<1>3. ASSUME NEW v \in Workers, NEW c \in InFlight(v), Drop(v, c.ids) PROVE FALSE
  <2>1. v = w /\ i \in c.ids /\ j \notin c.ids
    BY <1>2, <1>3
  <2>2. task[w][i].st = "sent"
    BY <1>0, <1>1, <2>1, InFlightCalls
  <2>3. c = NewCall("ack", w, Batch(w), 0)
    BY <2>1, <2>2 DEF InFlight, Failures, FailureCall, Releases, Releasable, Acks, NewCall
  <2> QED
    BY <1>0, <2>1, <2>3 DEF NewCall
<1>4. ASSUME NEW v \in Workers, NEW S, Drop(v, S), \A x \in Ids : task[v][x].st # "sent" => x \in S
      PROVE  FALSE
  BY <1>2, <1>4
<1>5. TaskStep(w, i)
  BY TasksStep
<1>6. ASSUME NEW v \in Workers, RoundStep(v) \/ FaultStep(v), task' # task PROVE FALSE
  <2>1. \A x \in Ids : ~StartPublish(v, x) /\ ~PublishOk(v, x)
    <3>1. ASSUME NEW x \in Ids, StartPublish(v, x) PROVE FALSE
      <4>1. task[v][x] \in Task
        BY <1>0 DEF TypeOK
      <4>2. task'[v][x].st = "sending" /\ \A u \in Workers, y \in Ids : u # v \/ y # x => task'[u][y] = task[u][y]
        BY <1>0, <3>1, <4>1 DEF StartPublish, TypeOK, Task
      <4> QED
        BY <1>1, <4>2
    <3>2. ASSUME NEW x \in Ids, PublishOk(v, x) PROVE FALSE
      <4>1. task'[v][x].st = "sent" /\ \A u \in Workers, y \in Ids : u # v \/ y # x => task'[u][y] = task[u][y]
        BY <1>0, <3>2 DEF PublishOk, TypeOK, NoTask
      <4> QED
        BY <1>1, <4>1
    <3> QED
      BY <3>1, <3>2
  <2>2. ASSUME NEW x \in Ids, NEW d, Fail(v, x, d) PROVE FALSE
    BY <1>0, <1>1, <2>2, FailStep
  <2>3. CASE CancelRound(v)
    BY <1>4, <2>3 DEF CancelRound
  <2>4. CASE Crash(v)
    BY <1>4, <2>4 DEF Crash
  <2>5. ASSUME NEW k \in Ids, PublishCancelled(v, k) PROVE FALSE
    <3> DEFINE S == {x \in Group(v, k) : x >= k}
    <3>1. Drop(v, S)
      BY <2>5 DEF PublishCancelled
    <3>2. v = w /\ i \in S /\ j \notin S
      BY <1>2, <3>1
    <3> QED
      BY <1>0, <3>2, TailDropped
  <2> QED
    BY <1>3, <1>6, <2>1, <2>2, <2>3, <2>4, <2>5
       DEF RoundStep, FaultStep, PublishRaises, Report, ClaimLost, PublishTimeout, ReportError
<1>7. ASSUME NEW v \in Workers, ClaimBatch(v) PROVE FALSE
  <2>1. v # w
    BY <1>0, <1>7 DEF ClaimBatch, Idle
  <2> QED
    BY <1>0, <1>1, <1>7, <2>1 DEF ClaimBatch, TypeOK
<1>8. ASSUME Tick PROVE FALSE
  <2>1. task[w][i] \in Task
    BY <1>0 DEF TypeOK
  <2>2. task'[w][i].st = task[w][i].st
    BY <1>8, <2>1 DEF Tick, Task
  <2> QED
    BY <1>1, <2>2
<1> QED
  BY <1>1, <1>6, <1>7, <1>8
     DEF Next, vars, Produce, PurgeDone, Restart, ExecuteLate, LoseLate, Arrive

\* Every step keeps what is ahead of a message in its round.
LEMMA AheadStep ==
  ASSUME Sound, Fresh, GroupShape, StrictOrdering, Ahead, [Next]_vars
  PROVE  Ahead'
<1>1. SUFFICES ASSUME NEW w \in Workers, NEW i \in Ids, NEW j \in Ids,
                      task'[w][j].st \in {"todo", "sending"}, i < j, SameKey(rows, i, j)',
                      rows'[i].status = "pending"
               PROVE  i \in Batch(w)'
  BY DEF Ahead
<1>2. RowStep(i) /\ RowStep(j) /\ TaskStep(w, j)
  BY RowsStep, TasksStep
<1>3. rows \in Table
  BY DEF Sound, SoundTable
<1>4. CASE task[w][j].st \in {"todo", "sending"}
  <2>1. rows[i].status # "absent" /\ rows[j].status # "absent"
    BY <1>4, <1>1 DEF Fresh
  <2>2. SameKey(rows, i, j) /\ rows[i].status = "pending"
    BY <1>1, <1>2, <2>1 DEF RowStep, SameKey
  <2>3. i \in Batch(w)
    BY <1>1, <1>4, <2>2 DEF Ahead
  <2> QED
    BY <1>1, <1>4, <2>2, <2>3, AheadKept
<1>5. CASE ClaimBatch(w) /\ j \in ClaimSet(rows)
  <2>1. rows[j].status = "pending" /\ j \in Ids
    BY <1>5 DEF ClaimSet, FirstIds, Candidates, Claimable
  <2>2. rows[i].status # "absent"
    BY <1>1, <2>1 DEF Fresh
  <2>3. SameKey(rows, i, j) /\ rows[i].status = "pending"
    BY <1>1, <1>2, <2>1, <2>2 DEF RowStep, SameKey
  <2>4. i \in ClaimSet(rows)
    BY <1>1, <1>3, <1>5, <2>3, ClaimSetPrefix
  <2> QED
    BY <1>5, <2>4 DEF ClaimBatch, Sound, TypeOK, NoTask, Batch
<1> QED
  BY <1>1, <1>2, <1>4, <1>5 DEF TaskStep

(***************************************************************************)
(* With strict ordering no message is published while an earlier one of    *)
(* its key waits, is leased or awaits its write-back; at any timing.       *)
(***************************************************************************)
THEOREM NothingIsOvertaken == Spec => []NoOvertaking
<1>1. Init => TurnInv
  <2> SUFFICES ASSUME Init PROVE TurnInv
    OBVIOUS
  <2>1. \A w \in Workers, i \in Ids : task[w][i].st = "none"
    BY DEF Init, NoTask
  <2> QED
    BY <2>1, DeliveryInit DEF TurnInv, DeliveryInv, GroupShape, Batch, Ahead
<1>2. TurnInv /\ [Next]_vars => TurnInv'
  BY SoundStep, FreshStep, ShapeStep, AheadStep DEF TurnInv
<1>3. TurnInv => NoOvertaking
  <2> SUFFICES ASSUME TurnInv, StrictOrdering, NEW w \in Workers, NEW i \in Ids, NEW j \in Ids,
                      task[w][j].st = "sending", i < j, SameKey(rows, i, j),
                      rows[i].status = "pending"
               PROVE  task[w][i].st = "sent"
    BY DEF NoOvertaking
  <2>1. i \in Batch(w) /\ j \in Batch(w)
    BY DEF TurnInv, Ahead, Batch
  <2> QED
    BY <2>1 DEF TurnInv, GroupShape, Follows
<1> QED
  BY <1>1, <1>2, <1>3, PTL DEF Spec

-----------------------------------------------------------------------------
(* Mutual exclusion.                                                       *)

\* Batches only grow by a claim.
LEMMA BatchStep ==
  ASSUME Sound, [Next]_vars, NEW w \in Workers, NEW i \in Batch(w)', i \notin Batch(w)
  PROVE  ClaimBatch(w) /\ i \in ClaimSet(rows)
  BY TasksStep DEF TaskStep, Batch

\* Steps that end no lease and leave calls behind only by giving up their messages.
LEMMA HandsKept ==
  ASSUME Sound, GroupShape, OneHand, NEW w \in Workers,
         \A i \in Ids, v \in Workers : Leased(i, v) => Leased(i, v)',
         \A v \in Workers : Batch(v)' \subseteq Batch(v),
         late' \subseteq late \cup InFlight(w),
         \A c \in late' \ late : c.ids \cap Batch(w)' = {}
  PROVE  OneHand'
<1>1. \A c \in late' : c \in late \/ c \in InFlight(w)
  OBVIOUS
<1>2. \A c \in late : c.ids \subseteq Ids /\ c.worker_id \in Workers
  BY DEF Sound, TypeOK, Call
<1>3. \A c \in InFlight(w) : c.ids \subseteq Ids /\ c.worker_id = w /\ c.ids \subseteq Batch(w)
  BY InFlightCalls DEF Sound, Call, Batch
<1>4. \A v \in Workers : \A i \in Batch(v)' : Leased(i, v)'
  BY DEF OneHand, Batch
<1>5. \A c \in late' : \A i \in c.ids : Leased(i, c.worker_id)' /\ i \notin Batch(c.worker_id)'
  <2>1. ASSUME NEW c \in late', NEW i \in c.ids, c \in late
        PROVE  Leased(i, c.worker_id)' /\ i \notin Batch(c.worker_id)'
    BY <1>2, <2>1 DEF OneHand
  <2>2. ASSUME NEW c \in late', NEW i \in c.ids, c \notin late
        PROVE  Leased(i, c.worker_id)' /\ i \notin Batch(c.worker_id)'
    BY <1>1, <1>3, <2>2 DEF OneHand
  <2> QED
    BY <2>1, <2>2
<1>6. ASSUME NEW c \in late', NEW d \in late', NEW i \in c.ids, i \in d.ids
      PROVE  c = d
  <2>1. CASE c \in late /\ d \in late
    BY <1>6, <2>1 DEF OneHand
  <2>2. CASE c \in InFlight(w) /\ d \in InFlight(w)
    BY <1>6, <2>2, InFlightDisjoint DEF Sound
  <2>3. ASSUME NEW a \in late, NEW b \in InFlight(w), i \in a.ids, i \in b.ids
        PROVE  FALSE
    <3>1. Leased(i, w) /\ i \in Batch(w)
      BY <1>3, <2>3 DEF OneHand
    <3> QED
      BY <2>3, <3>1 DEF OneHand, Leased
  <2> QED
    BY <1>1, <1>6, <2>1, <2>2, <2>3
<1> QED
  BY <1>4, <1>5, <1>6 DEF OneHand

\* Executing a call frees what it names; nobody else has that in hand.
LEMMA HandsFreed ==
  ASSUME Sound, GroupShape, OneHand, NEW c \in Call, rows' = Execute(rows, c),
         \A v \in Workers : Batch(v)' \subseteq Batch(v),
         late' \subseteq late \ {c}, c \in late \/ c \in InFlight(c.worker_id),
         c.ids \cap Batch(c.worker_id)' = {}
  PROVE  OneHand'
<1>1. \A i \in Ids : i \notin c.ids => rows'[i] = rows[i]
  BY ExecuteEffect DEF Sound
<1>2. c.worker_id \in Workers /\ c.ids \subseteq Ids
      /\ \A d \in late : d.worker_id \in Workers /\ d.ids \subseteq Ids
  BY DEF Sound, TypeOK, Call
<1>3. \A i \in c.ids : Leased(i, c.worker_id)
  BY <1>2, InFlightCalls DEF OneHand, Sound, Batch
<1>4. ASSUME NEW v \in Workers, NEW i \in Batch(v)' PROVE Leased(i, v)'
  <2>1. i \in Ids /\ Leased(i, v)
    BY <1>4 DEF OneHand, Batch
  <2>2. i \notin c.ids
    BY <1>3, <1>4, <2>1 DEF Leased
  <2> QED
    BY <1>1, <2>1, <2>2 DEF Leased
<1>5. ASSUME NEW d \in late', NEW i \in d.ids
      PROVE  Leased(i, d.worker_id)' /\ i \notin Batch(d.worker_id)'
  <2>1. d \in late /\ d # c /\ i \in Ids /\ Leased(i, d.worker_id) /\ i \notin Batch(d.worker_id)
    BY <1>2 DEF OneHand
  <2>2. i \notin c.ids
    <3>1. CASE c \in late
      BY <2>1, <3>1 DEF OneHand
    <3>2. CASE c \in InFlight(c.worker_id)
      <4>1. i \in c.ids => i \in Batch(c.worker_id) /\ Leased(i, c.worker_id)
        BY <1>2, <1>3, <2>1, <3>2, InFlightCalls DEF Sound, Batch
      <4> QED
        BY <2>1, <4>1 DEF Leased
    <3> QED
      BY <3>1, <3>2
  <2> QED
    BY <1>1, <1>2, <2>1, <2>2 DEF Leased
<1> QED
  BY <1>4, <1>5 DEF OneHand

\* A claim takes rows nobody has in hand.
LEMMA ClaimedRow ==
  ASSUME NEW w \in Workers, rows' = Claim(rows, w), rows \in Table
  PROVE  \A i \in Ids :
           /\ i \in ClaimSet(rows) =>
                /\ rows[i].lease_until = 0 /\ rows[i].status = "pending" /\ rows[i].retry_at = 0
                /\ Leased(i, w)' /\ rows'[i].attempts = rows[i].attempts + 1
           /\ i \notin ClaimSet(rows) => rows'[i] = rows[i]
<1>1. \A i \in ClaimSet(rows) :
        rows[i].lease_until = 0 /\ rows[i].status = "pending" /\ rows[i].retry_at = 0
  BY DEF ClaimSet, FirstIds, Candidates, Claimable
<1>2. \A i \in Ids : i \notin ClaimSet(rows) => rows'[i] = rows[i]
  BY DEF Claim
<1>3. ASSUME NEW i \in Ids, i \in ClaimSet(rows)
      PROVE  Leased(i, w)' /\ rows'[i].attempts = rows[i].attempts + 1
  <2> DEFINE n == rows[i].attempts + 1
  <2>1. rows'[i] = [rows[i] EXCEPT !.attempts = n, !.leased_by = w, !.lease_until = Lease,
                                   !.retry_at = 0]
    BY <1>3 DEF Claim
  <2>2. rows[i] \in Row /\ Lease > 0
    BY TableAssumption DEF Table
  <2> HIDE DEF n
  <2>3. rows'[i].leased_by = w /\ rows'[i].lease_until = Lease /\ rows'[i].attempts = n
    BY <2>1, <2>2 DEF Row
  <2> QED
    BY <2>2, <2>3 DEF Leased, n
<1> QED
  BY <1>1, <1>2, <1>3

LEMMA HandStep ==
  ASSUME Timely, HoldInv, [Next]_vars
  PROVE  OneHand'
<1>0. Sound /\ TypeOK /\ GroupShape /\ OneHand /\ rows \in Table /\ SoundTable(rows)
  BY DEF HoldInv, Sound, SoundTable
<1>1. \A i \in Ids : rows[i] \in Row /\ rows[i].lease_until \in Nat /\ rows[i].attempts \in Nat
  BY <1>0, RowNumbers DEF Table
<1>2. \A v \in Workers : ~ClaimBatch(v) => Batch(v)' \subseteq Batch(v)
  BY <1>0, BatchStep
<1>3. ASSUME NEW w \in Workers, ClaimBatch(w) PROVE OneHand'
  <2>1. rows' = Claim(rows, w) /\ late' = late
    BY <1>3 DEF ClaimBatch, ClaimNext
  <2>2. /\ Batch(w)' \subseteq ClaimSet(rows)
        /\ \A v \in Workers \ {w} : Batch(v)' = Batch(v)
    BY <1>0, <1>3 DEF ClaimBatch, Batch, TypeOK, NoTask
  <2>3. \A i \in Ids : \/ i \in ClaimSet(rows) /\ rows[i].lease_until = 0 /\ Leased(i, w)'
                       \/ i \notin ClaimSet(rows) /\ rows'[i] = rows[i]
    BY <1>0, <2>1, ClaimedRow
  <2>4. \A v \in Workers : \A i \in Batch(v) : i \in Ids /\ Leased(i, v) /\ i \notin ClaimSet(rows)
    BY <1>0, <1>1, <2>3 DEF OneHand, Batch, Leased
  <2>5. \A c \in late : \A i \in c.ids : i \in Ids /\ i \notin ClaimSet(rows)
    BY <1>0, <1>1, <2>3 DEF OneHand, Leased, TypeOK, Call
  <2>6. \A v \in Workers : \A i \in Batch(v)' : Leased(i, v)'
    BY <2>2, <2>3, <2>4 DEF Leased, Batch
  <2>7. \A c \in late : \A i \in c.ids : Leased(i, c.worker_id)' /\ i \notin Batch(c.worker_id)'
    BY <1>0, <2>2, <2>3, <2>5 DEF OneHand, Leased, TypeOK, Call
  <2> QED
    BY <1>0, <2>1, <2>6, <2>7 DEF OneHand
<1>4. ASSUME NEW w \in Workers, NEW c \in InFlight(w), Report(w, c) PROVE OneHand'
  <2>1. c \in Call /\ c.worker_id = w /\ c.ids \subseteq Ids /\ c.ids \subseteq Batch(w)
    BY <1>0, InFlightCalls DEF Call, Batch
  <2>2. c \notin late
    <3>1. c.ids # {}
      <4>1. \A i \in Releasable(w) : i \in Group(w, i) \cap Releasable(w)
        BY DEF Releasable, Group, Batch
      <4> QED
        BY <1>4, <4>1 DEF InFlight, Failures, FailureCall, Releases, Acks, NewCall
    <3> QED
      BY <1>0, <2>1, <3>1 DEF OneHand
  <2>3. rows' = Execute(rows, c) /\ late' = late
    BY <1>4 DEF Report
  <2>4. \A v \in Workers, i \in Ids :
          task'[v][i] = IF v = w /\ i \in c.ids THEN NoTask ELSE task[v][i]
    BY <1>0, <1>4, DropStep DEF Report
  <2>5. c.ids \cap Batch(w)' = {} /\ \A v \in Workers : Batch(v)' \subseteq Batch(v)
    BY <2>4 DEF Batch, NoTask
  <2> QED
    BY <1>0, <1>4, <2>1, <2>2, <2>3, <2>5, HandsFreed
<1>5. ASSUME NEW c \in late, ExecuteLate(c) PROVE OneHand'
  <2>1. c \in Call /\ c.worker_id \in Workers /\ rows' = Execute(rows, c) /\ late' = late \ {c}
        /\ \A v \in Workers : Batch(v)' = Batch(v)
    BY <1>0, <1>5 DEF ExecuteLate, TypeOK, Call, Batch
  <2>2. c.ids \cap Batch(c.worker_id)' = {}
    BY <1>0, <2>1 DEF OneHand
  <2> QED
    BY <1>0, <2>1, <2>2, HandsFreed
<1>6. ASSUME Tick PROVE OneHand'
  <2>1. /\ \A v \in Workers : Batch(v)' = Batch(v)
        /\ late' = {[c EXCEPT !.retry_at = Sooner(@)] : c \in late}
    <3>1. \A v \in Workers, i \in Ids : task[v][i] \in Task
      BY <1>0 DEF TypeOK
    <3>2. \A v \in Workers, i \in Ids : task'[v][i].st = task[v][i].st
      BY <1>6, <3>1 DEF Tick, Task
    <3> QED
      BY <1>6, <3>2 DEF Tick, Batch
  <2>2. \A i \in Ids, v \in Workers : Leased(i, v) /\ Handled(v, i) => Leased(i, v)'
    <3> SUFFICES ASSUME NEW i \in Ids, NEW v \in Workers, Leased(i, v), Handled(v, i)
                 PROVE  Leased(i, v)'
      OBVIOUS
    <3>1. rows[i].lease_until # 1
      BY <1>6 DEF Tick, Leased
    <3>2. rows'[i].leased_by = rows[i].leased_by
          /\ rows'[i].lease_until = Sooner(rows[i].lease_until)
      BY <1>1, <1>6 DEF Tick, Elapse, Row
    <3> QED
      BY <1>1, <3>1, <3>2 DEF Leased, Sooner
  <2>3. \A v \in Workers : \A i \in Batch(v)' : Leased(i, v)'
    BY <1>0, <2>1, <2>2 DEF OneHand, Handled, Batch
  <2>4. \A c \in late : c.ids \subseteq Ids /\ c.worker_id \in Workers
    BY <1>0 DEF TypeOK, Call
  <2>5. \A c \in late' : \E b \in late : c = [b EXCEPT !.retry_at = Sooner(@)]
    BY <2>1
  <2>6. \A b \in late : LET c == [b EXCEPT !.retry_at = Sooner(@)]
                        IN  c.ids = b.ids /\ c.worker_id = b.worker_id
    BY <1>0 DEF TypeOK, Call
  <2>7. \A c \in late' : \A i \in c.ids : Leased(i, c.worker_id)' /\ i \notin Batch(c.worker_id)'
    <3> SUFFICES ASSUME NEW c \in late', NEW i \in c.ids
                 PROVE  Leased(i, c.worker_id)' /\ i \notin Batch(c.worker_id)'
      OBVIOUS
    <3>1. PICK b \in late : c = [b EXCEPT !.retry_at = Sooner(@)]
      BY <2>5
    <3>2. c.ids = b.ids /\ c.worker_id = b.worker_id
      BY <2>6, <3>1
    <3>3. Leased(i, b.worker_id) /\ i \notin Batch(b.worker_id) /\ Handled(b.worker_id, i)
      BY <1>0, <3>2 DEF OneHand, Handled
    <3> QED
      BY <2>1, <2>2, <2>4, <3>2, <3>3
  <2>8. \A c, d \in late' : c # d => c.ids \cap d.ids = {}
    <3> SUFFICES ASSUME NEW c \in late', NEW d \in late', c # d
                 PROVE  c.ids \cap d.ids = {}
      OBVIOUS
    <3>1. PICK a \in late, b \in late : /\ c = [a EXCEPT !.retry_at = Sooner(@)]
                                        /\ d = [b EXCEPT !.retry_at = Sooner(@)]
      BY <2>5
    <3>2. a # b
      BY <3>1
    <3> QED
      BY <1>0, <2>6, <3>1, <3>2 DEF OneHand
  <2> QED
    BY <2>3, <2>7, <2>8 DEF OneHand
<1>7. ASSUME rows' = rows \/ (\E w \in Workers : rows' = Claim(rows, w))
             \/ (\E i \in Ids, k \in Keys \cup {NULL} : Produce(i, k))
             \/ (\E old \in SUBSET Ids : PurgeDone(old))
      PROVE  \A i \in Ids, v \in Workers : Leased(i, v) => Leased(i, v)'
  <2> SUFFICES ASSUME NEW i \in Ids, NEW v \in Workers, Leased(i, v)
               PROVE  Leased(i, v)'
    OBVIOUS
  <2>1. rows[i].status = "pending"
    BY <1>0, TableAssumption DEF Leased, SoundTable
  <2>2. ASSUME NEW w \in Workers, rows' = Claim(rows, w) PROVE rows'[i] = rows[i]
    BY <1>0, <1>1, <2>2, ClaimedRow DEF Leased
  <2>3. ASSUME NEW j \in Ids, NEW k \in Keys \cup {NULL}, Produce(j, k) PROVE rows'[i] = rows[i]
    BY <1>0, <2>1, <2>3, InsertEffect DEF Produce, NextId
  <2>4. ASSUME NEW old \in SUBSET Ids, PurgeDone(old) PROVE rows'[i] = rows[i]
    BY <1>0, <2>1, <2>4 DEF PurgeDone, Purge
  <2>5. rows'[i] = rows[i]
    BY <1>7, <2>2, <2>3, <2>4
  <2> QED
    BY <2>5 DEF Leased
<1>8. ASSUME NEW w \in Workers,
             \A i \in Ids, v \in Workers : Leased(i, v) => Leased(i, v)',
             \A v \in Workers : Batch(v)' \subseteq Batch(v),
             late' \subseteq late
      PROVE  OneHand'
  BY <1>0, <1>8, HandsKept
<1>9. ASSUME NEW w \in Workers, \A v \in Workers : ~ClaimBatch(v), RoundStep(w) \/ FaultStep(w)
      PROVE  OneHand'
  <2>1. \A v \in Workers : Batch(v)' \subseteq Batch(v)
    BY <1>2, <1>9
  <2>2. ASSUME NEW i \in Ids,
               \/ StartPublish(w, i) \/ PublishOk(w, i)
               \/ \E d \in Delays : PublishRaises(w, i, d) \/ PublishTimeout(w, i, d)
        PROVE  OneHand'
    BY <1>7, <1>8, <2>1, <2>2 DEF StartPublish, PublishOk, PublishRaises, PublishTimeout
  <2>3. CASE ClaimLost(w)
    BY <1>7, <1>8, <2>1, <2>3 DEF ClaimLost, ClaimNext
  <2>4. ASSUME NEW S, Drop(w, S), rows' = rows, late' \subseteq late \cup InFlight(w),
               \A c \in late' \ late : c.ids \subseteq S
        PROVE  OneHand'
    <3>1. \A c \in late' \ late : c.ids \cap Batch(w)' = {}
      BY <1>0, <2>4, DropStep DEF Batch, NoTask
    <3>2. \A i \in Ids, v \in Workers : Leased(i, v) => Leased(i, v)'
      BY <1>7, <2>4
    <3> QED
      BY <1>0, <2>1, <2>4, <3>1, <3>2, HandsKept
  <2>5. \A c \in InFlight(w) : c.ids \subseteq Ids
    BY <1>0, InFlightCalls DEF Call
  <2>6. ASSUME NEW c \in InFlight(w), ReportError(w, c) PROVE OneHand'
    BY <2>4, <2>6 DEF ReportError
  <2>7. CASE CancelRound(w)
    <3>1. Acks(w) = {}
      BY <2>7 DEF CancelRound, Acks
    <3>2. \A c \in InFlight(w) : \A i \in c.ids : task[w][i].st # "sent"
      BY <3>1 DEF InFlight, Failures, FailureCall, Releases, Releasable, NewCall
    <3> QED
      BY <2>4, <2>5, <2>7, <3>2 DEF CancelRound, Abandon
  <2>8. CASE Crash(w)
    BY <2>4, <2>5, <2>8 DEF Crash, Abandon
  <2>9. ASSUME NEW i \in Ids, PublishCancelled(w, i) PROVE OneHand'
    BY <2>4, <2>9 DEF PublishCancelled
  <2> QED
    BY <1>4, <1>9, <2>2, <2>3, <2>6, <2>7, <2>8, <2>9 DEF RoundStep, FaultStep
<1>10. ASSUME \A v \in Workers : ~ClaimBatch(v), NEW w \in Workers, late' \subseteq late,
              \/ rows' = rows
              \/ \E i \in Ids, k \in Keys \cup {NULL} : Produce(i, k)
              \/ \E old \in SUBSET Ids : PurgeDone(old)
       PROVE  OneHand'
  BY <1>2, <1>7, <1>8, <1>10
<1>11. CASE Workers = {}
  <2>1. late' \subseteq Call
    BY <1>0, SoundStep DEF Sound, TypeOK
  <2> QED
    BY <1>11, <2>1 DEF OneHand, Call
<1>12. ASSUME NEW u \in Workers, \A v \in Workers : ~ClaimBatch(v) PROVE OneHand'
  <2>1. CASE (\E i \in Ids, k \in Keys \cup {NULL} : Produce(i, k)) \/ (\E old \in SUBSET Ids : PurgeDone(old))
    BY <1>10, <1>12, <2>1 DEF Produce, PurgeDone
  <2>2. CASE \/ \E w \in Workers : Restart(w)
             \/ \E c \in late : LoseLate(c)
             \/ \E i \in Ids : Arrive(i)
             \/ UNCHANGED vars
    BY <1>10, <1>12, <2>2 DEF Restart, LoseLate, Arrive, vars
  <2> QED
    BY <1>5, <1>6, <1>9, <1>12, <2>1, <2>2 DEF Next
<1> QED
  BY <1>3, <1>11, <1>12

\* Every step keeps the invariant of the leases.
LEMMA HoldStep == Timely /\ HoldInv /\ [Next]_vars => HoldInv'
<1> SUFFICES ASSUME Timely, HoldInv, [Next]_vars PROVE HoldInv'
  OBVIOUS
<1>1. Sound' /\ Fresh'
  BY SoundStep, FreshStep DEF HoldInv
<1> QED
  BY <1>1, ShapeStep, HandStep DEF HoldInv

LEMMA HoldInit == Init => HoldInv
<1> SUFFICES ASSUME Init PROVE HoldInv
  OBVIOUS
<1>1. Sound /\ Fresh
  BY DeliveryInit DEF DeliveryInv
<1>2. \A w \in Workers : Batch(w) = {}
  BY DEF Init, Batch, NoTask
<1>3. late = {}
  BY DEF Init
<1> QED
  BY <1>1, <1>2, <1>3 DEF HoldInv, GroupShape, OneHand

(***************************************************************************)
(* Mutual exclusion: what a round works on is leased to it and pending, if *)
(* rounds and calls end within the lease.                                  *)
(***************************************************************************)
THEOREM RoundHoldsItsLease == Spec => []RoundHoldsLease
<1>1. HoldInv /\ Timely => RoundHoldsLease
  <2> SUFFICES ASSUME HoldInv, NEW w \in Workers, NEW i \in Batch(w)
               PROVE  rows[i].leased_by = w /\ rows[i].lease_until > 0 /\ rows[i].status = "pending"
    BY DEF RoundHoldsLease
  <2> QED
    BY TableAssumption DEF HoldInv, OneHand, Leased, Sound, SoundTable, Batch
<1>2. CASE Timely
  <2>1. Init => HoldInv /\ Timely
    BY <1>2, HoldInit
  <2>2. HoldInv /\ Timely /\ [Next]_vars => (HoldInv /\ Timely)'
    BY HoldStep
  <2> QED
    BY <1>1, <2>1, <2>2, PTL DEF Spec
<1>3. CASE ~Timely
  <2>1. RoundHoldsLease
    BY <1>3 DEF RoundHoldsLease
  <2> QED
    BY <2>1, PTL
<1> QED
  BY <1>2, <1>3

-----------------------------------------------------------------------------
(* Attempts, tries and deliveries of one message.                          *)

\* What a step does to message i in the round of w.
TaskFate(w, i) ==
  LET s == task[w][i]
      n == task'[w][i]
  IN  \/ n.st = s.st /\ (s.st # "none" => n.attempts = s.attempts)
      \/ s.st = "todo" /\ n.st = "sending" /\ n.attempts = s.attempts /\ StartPublish(w, i)
      \/ s.st = "sending" /\ n.st = "sent" /\ PublishOk(w, i)
      \/ s.st = "sending" /\ n.st = "failed" /\ n.attempts = s.attempts
      \/ s.st = "todo" /\ n.st = "held"
      \/ /\ s.st # "none" /\ n.st = "none"
         /\ faults' = faults + 1 \/ \E c \in InFlight(w) : i \in c.ids /\ Report(w, c)
      \/ /\ s.st = "none" /\ n.st = "todo" /\ n.attempts = rows'[i].attempts
         /\ ClaimBatch(w) /\ i \in ClaimSet(rows)

LEMMA FateStep ==
  ASSUME Sound, GroupShape, [Next]_vars, NEW w \in Workers, NEW i \in Ids
  PROVE  TaskFate(w, i)
<1>0. TypeOK /\ \A v \in Workers, j \in Ids : task[v][j] \in Task
  BY DEF Sound, TypeOK
<1>1. CASE task' = task
  BY <1>1 DEF TaskFate
<1>2. ASSUME NEW v \in Workers, NEW S, Drop(v, S),
             v = w /\ i \in S => \/ faults' = faults + 1
                                 \/ \E c \in InFlight(w) : i \in c.ids /\ Report(w, c)
      PROVE  TaskFate(w, i)
  <2>1. (task'[w][i] = NoTask /\ v = w /\ i \in S) \/ task'[w][i] = task[w][i]
    BY <1>0, <1>2, DropStep
  <2>2. CASE task'[w][i] = task[w][i]
    BY <2>2 DEF TaskFate
  <2>3. CASE task'[w][i] = NoTask /\ v = w /\ i \in S /\ task[w][i].st # "none"
    BY <1>2, <2>3 DEF TaskFate, NoTask
  <2>4. CASE task'[w][i] = NoTask /\ task[w][i].st = "none"
    BY <2>4 DEF TaskFate, NoTask
  <2> QED
    BY <2>1, <2>2, <2>3, <2>4
<1>3. ASSUME NEW v \in Workers, ClaimBatch(v) PROVE TaskFate(w, i)
  <2>1. CASE v # w
    <3>1. task'[w][i] = task[w][i]
      BY <1>0, <1>3, <2>1 DEF ClaimBatch, TypeOK
    <3> QED
      BY <3>1 DEF TaskFate
  <2>2. CASE v = w
    <3>1. task[w][i].st = "none"
      BY <1>3, <2>2 DEF ClaimBatch, Idle, Batch
    <3>2. CASE i \in ClaimSet(rows)
      <4> DEFINE n == rows'[i].attempts
      <4>1. task'[w][i] = [NoTask EXCEPT !.st = "todo", !.attempts = n]
        BY <1>0, <1>3, <2>2, <3>2 DEF ClaimBatch, TypeOK
      <4> HIDE DEF n
      <4>2. task'[w][i].st = "todo" /\ task'[w][i].attempts = n
        BY <4>1 DEF NoTask
      <4> QED
        BY <1>3, <2>2, <3>1, <3>2, <4>2 DEF TaskFate, n
    <3>3. CASE i \notin ClaimSet(rows)
      <4>1. task'[w][i] = NoTask
        BY <1>0, <1>3, <2>2, <3>3 DEF ClaimBatch, TypeOK
      <4> QED
        BY <3>1, <4>1 DEF TaskFate, NoTask
    <3> QED
      BY <3>2, <3>3
  <2> QED
    BY <2>1, <2>2
<1>4. ASSUME NEW v \in Workers, NEW k \in Ids, StartPublish(v, k) PROVE TaskFate(w, i)
  <2>1. v # w \/ k # i => task'[w][i] = task[w][i]
    BY <1>0, <1>4 DEF StartPublish, TypeOK
  <2>2. v = w /\ k = i => task'[w][i] = [task[w][i] EXCEPT !.st = "sending"] /\ task[w][i].st = "todo"
    BY <1>0, <1>4 DEF StartPublish, TypeOK
  <2>3. v = w /\ k = i =>
          task'[w][i].st = "sending" /\ task'[w][i].attempts = task[w][i].attempts
          /\ task[w][i].st = "todo"
    BY <1>0, <2>2 DEF Task
  <2> QED
    BY <1>4, <2>1, <2>3 DEF TaskFate
<1>5. ASSUME NEW v \in Workers, NEW k \in Ids, PublishOk(v, k) PROVE TaskFate(w, i)
  <2>1. v # w \/ k # i => task'[w][i] = task[w][i]
    BY <1>0, <1>5 DEF PublishOk, TypeOK
  <2>2. v = w /\ k = i => task'[w][i].st = "sent" /\ task[w][i].st = "sending"
    BY <1>0, <1>5 DEF PublishOk, TypeOK, NoTask
  <2> QED
    BY <1>5, <2>1, <2>2 DEF TaskFate
<1>6. ASSUME NEW v \in Workers, NEW k \in Ids, NEW d, Fail(v, k, d), task[v][k].st = "sending"
      PROVE  TaskFate(w, i)
  <2>1. PICK retry : /\ w # v => task'[w][i] = task[w][i]
                     /\ i = k /\ w = v => /\ task'[w][i].st = "failed"
                                          /\ task'[w][i].attempts = task[w][i].attempts
                     /\ i \in Group(v, k) /\ i > k /\ w = v => task'[w][i].st = "held"
                     /\ i # k /\ ~(i \in Group(v, k) /\ i > k) => task'[w][i] = task[w][i]
    BY <1>0, <1>6, FailTasks
  <2>2. i \in Group(v, k) /\ i > k => task[v][i].st = "todo"
    <3> SUFFICES ASSUME i \in Group(v, k), i > k PROVE task[v][i].st = "todo"
      OBVIOUS
    <3>1. k < i /\ k # i /\ k \in Batch(v) /\ i \in Batch(v)
      BY <1>6, TableAssumption DEF Ids, Batch, Group
    <3>2. SameKey(rows, k, i) /\ task[v][i] \in Task
      BY <1>0, <3>1 DEF Group
    <3>3. Follows(task[v][k], task[v][i])
      BY <3>1, <3>2 DEF GroupShape
    <3> QED
      BY <1>6, <3>1, <3>2, <3>3 DEF Follows, Task, Stage, Batch
  <2> QED
    BY <1>6, <2>1, <2>2 DEF TaskFate
<1>7. ASSUME Tick PROVE TaskFate(w, i)
  <2>1. task'[w][i].st = task[w][i].st /\ task'[w][i].attempts = task[w][i].attempts
    BY <1>0, <1>7 DEF Tick, Task
  <2> QED
    BY <2>1 DEF TaskFate
<1>8. ASSUME NEW v \in Workers, RoundStep(v) \/ FaultStep(v) PROVE TaskFate(w, i)
  <2>1. ASSUME NEW c \in InFlight(v), Report(v, c) PROVE TaskFate(w, i)
    BY <1>2, <2>1 DEF Report
  <2>2. ASSUME NEW c \in InFlight(v), ReportError(v, c) PROVE TaskFate(w, i)
    BY <1>2, <2>2 DEF ReportError, Fault
  <2>3. CASE CancelRound(v)
    BY <1>2, <2>3 DEF CancelRound, Fault
  <2>4. CASE Crash(v)
    BY <1>2, <2>4 DEF Crash, Fault
  <2>7. ASSUME NEW k \in Ids, PublishCancelled(v, k) PROVE TaskFate(w, i)
    BY <1>2, <2>7 DEF PublishCancelled, Fault
  <2>5. ASSUME NEW k \in Ids, NEW d \in Delays, PublishRaises(v, k, d) \/ PublishTimeout(v, k, d)
        PROVE  TaskFate(w, i)
    BY <1>6, <2>5 DEF PublishRaises, PublishTimeout
  <2>6. CASE ClaimLost(v)
    BY <1>1, <2>6 DEF ClaimLost
  <2> QED
    BY <1>4, <1>5, <1>8, <2>1, <2>2, <2>3, <2>4, <2>5, <2>6, <2>7 DEF RoundStep, FaultStep
<1> QED
  BY <1>1, <1>3, <1>7, <1>8 DEF Next, vars, Produce, PurgeDone, Restart, ExecuteLate, LoseLate, Arrive

\* What the operation of a call in flight says about the messages it names.
LEMMA InFlightOps ==
  ASSUME TypeOK, NEW w \in Workers, NEW c \in InFlight(w), NEW i \in c.ids
  PROVE  /\ c.op = "release" <=> task[w][i].st = "held"
         /\ c.op = "ack" <=> task[w][i].st = "sent"
         /\ c.op = "nack" => task[w][i].st = "failed" /\ ~Exhausted(w, i)
<1>1. CASE c \in Failures(w)
  BY <1>1 DEF Failures, FailureCall, NewCall
<1>2. CASE c \in Releases(w)
  BY <1>2 DEF Releases, Releasable, NewCall
<1>3. CASE c \in Acks(w)
  BY <1>3 DEF Acks, NewCall
<1> QED
  BY <1>1, <1>2, <1>3 DEF InFlight

\* What a call does to a row its worker holds.
LEMMA ExecuteRow ==
  ASSUME NEW t, SoundTable(t), NEW c \in Call, NEW i \in c.ids, t[i].leased_by = c.worker_id
  PROVE  /\ c.op = "release" => Execute(t, c)[i].attempts = t[i].attempts - 1
         /\ c.op # "release" => Execute(t, c)[i].attempts = t[i].attempts
         /\ c.op \in {"ack", "dead_letter"} => Execute(t, c)[i].status # "pending"
<1>1. i \in Ids /\ t[i] \in Row /\ i \in Owned(t, c.ids, c.worker_id)
  BY DEF SoundTable, Table, Call, Owned
<1>2. CASE c.op = "ack"
  <2>1. Execute(t, c)[i] = [t[i] EXCEPT !.status = IF DeleteOnAck THEN "deleted" ELSE "done",
                                        !.leased_by = NULL, !.lease_until = 0]
    BY <1>1, <1>2 DEF Execute, Ack
  <2> QED
    BY <1>1, <1>2, <2>1 DEF Row
<1>3. CASE c.op = "nack"
  <2>1. Execute(t, c)[i] = [t[i] EXCEPT !.retry_at = c.retry_at, !.last_error = TRUE,
                                        !.leased_by = NULL, !.lease_until = 0]
    BY <1>1, <1>3 DEF Execute, Nack
  <2> QED
    BY <1>1, <1>3, <2>1 DEF Row
<1>4. CASE c.op = "release"
  <2> DEFINE n == t[i].attempts - 1
  <2>1. Execute(t, c)[i] = [t[i] EXCEPT !.attempts = n, !.retry_at = c.retry_at,
                                        !.leased_by = NULL, !.lease_until = 0]
    BY <1>1, <1>4 DEF Execute, Release
  <2> HIDE DEF n
  <2>2. Execute(t, c)[i].attempts = n
    BY <1>1, <2>1 DEF Row
  <2> QED
    BY <1>4, <2>2 DEF n
<1>5. CASE c.op = "dead_letter"
  <2>1. Execute(t, c)[i] = [t[i] EXCEPT !.status = "dead", !.last_error = TRUE,
                                        !.leased_by = NULL, !.lease_until = 0]
    BY <1>1, <1>5 DEF Execute, DeadLetter
  <2> QED
    BY <1>1, <1>5, <2>1 DEF Row
<1> QED
  BY <1>2, <1>3, <1>4, <1>5 DEF Call

\* What a step does to the attempts of a row.
Kept(i) == /\ rows'[i].attempts = rows[i].attempts
           /\ rows'[i].status = "pending" => rows[i].status = "pending"

Inserted(i) == rows[i].status = "absent" /\ rows[i].attempts = 0 /\ rows'[i].attempts = 0

Claimed(i) == /\ i \in ClaimSet(rows)
              /\ rows[i].status = "pending" /\ rows[i].lease_until = 0
              /\ rows'[i].attempts = rows[i].attempts + 1
              /\ \/ \E w \in Workers : ClaimBatch(w)
                 \/ faults' = faults + 1

Released(i) == \E c \in Call :
  /\ c.op = "release" /\ i \in c.ids
  /\ Leased(i, c.worker_id)
  /\ rows'[i].attempts = rows[i].attempts - 1
  /\ \/ c \in InFlight(c.worker_id) /\ Report(c.worker_id, c)
     \/ c \in late /\ ExecuteLate(c)

LEMMA AttemptsStep ==
  ASSUME HoldInv, [Next]_vars, NEW i \in Ids
  PROVE  Kept(i) \/ Inserted(i) \/ Claimed(i) \/ Released(i)
<1>0. Sound /\ TypeOK /\ OneHand /\ SoundTable(rows) /\ rows \in Table
  BY DEF HoldInv, Sound, SoundTable
<1>1. CASE rows' = rows
  BY <1>1 DEF Kept
<1>2. ASSUME NEW w \in Workers, ClaimBatch(w) \/ ClaimLost(w) PROVE Kept(i) \/ Claimed(i)
  <2>1. rows' = Claim(rows, w)
    BY <1>2 DEF ClaimBatch, ClaimLost, ClaimNext
  <2>2. CASE i \in ClaimSet(rows)
    BY <1>0, <1>2, <2>1, <2>2, ClaimedRow DEF Claimed, ClaimLost, Fault
  <2>3. CASE i \notin ClaimSet(rows)
    BY <1>0, <2>1, <2>3, ClaimedRow DEF Kept
  <2> QED
    BY <2>2, <2>3
<1>3. ASSUME NEW c \in Call, rows' = Execute(rows, c),
             \/ c \in InFlight(c.worker_id) /\ Report(c.worker_id, c)
             \/ c \in late /\ ExecuteLate(c)
      PROVE  Kept(i) \/ Released(i)
  <2>1. CASE i \notin c.ids
    BY <1>0, <1>3, <2>1, ExecuteEffect DEF Kept
  <2>2. CASE i \in c.ids
    <3>1. c.worker_id \in Workers
      BY DEF Call
    <3>2. Leased(i, c.worker_id)
      BY <1>0, <1>3, <2>2, <3>1, InFlightCalls DEF OneHand, Batch
    <3>3. rows[i].status = "pending"
      BY <1>0, <3>1, <3>2, TableAssumption DEF Leased, SoundTable
    <3> QED
      BY <1>0, <1>3, <2>2, <3>2, <3>3, ExecuteRow DEF Kept, Released, Leased
  <2> QED
    BY <2>1, <2>2
<1>4. ASSUME NEW w \in Workers, NEW c \in InFlight(w), Report(w, c) PROVE Kept(i) \/ Released(i)
  BY <1>0, <1>3, <1>4, InFlightCalls DEF Report
<1>5. ASSUME NEW c \in late, ExecuteLate(c) PROVE Kept(i) \/ Released(i)
  BY <1>0, <1>3, <1>5 DEF ExecuteLate, TypeOK
<1>6. ASSUME NEW k \in Ids, NEW key \in Keys \cup {NULL}, Produce(k, key) PROVE Kept(i) \/ Inserted(i)
  <2>1. CASE i # k
    BY <1>0, <1>6, <2>1, InsertEffect DEF Produce, NextId, Kept
  <2>2. CASE i = k
    <3>1. rows'[i].attempts = 0
      BY <1>0, <1>6, <2>2 DEF Produce, Insert, Absent, Table
    <3> QED
      BY <1>0, <1>6, <2>2, <3>1 DEF Produce, NextId, Inserted, SoundTable, Blank
  <2> QED
    BY <2>1, <2>2
<1>7. ASSUME NEW old \in SUBSET Ids, PurgeDone(old) PROVE Kept(i)
  <2>1. rows[i] \in Row
    BY <1>0 DEF Table
  <2>2. rows'[i] = IF rows[i].status = "done" /\ i \in old
                   THEN [rows[i] EXCEPT !.status = "deleted"] ELSE rows[i]
    BY <1>7 DEF PurgeDone, Purge
  <2> QED
    BY <2>1, <2>2 DEF Kept, Row
<1>8. CASE Tick
  <2>1. rows[i] \in Row
    BY <1>0 DEF Table
  <2> QED
    BY <1>8, <2>1 DEF Tick, Elapse, Kept, Row
<1> QED
  BY <1>1, <1>2, <1>4, <1>5, <1>6, <1>7, <1>8
     DEF Next, vars, RoundStep, FaultStep, Restart, LoseLate, Arrive, StartPublish, PublishOk,
         PublishRaises, PublishTimeout, ReportError, CancelRound,
         PublishCancelled, Crash

\* Whom a message in hand is not shared with.
LEMMA OnlyHand ==
  ASSUME HoldInv, NEW w \in Workers, NEW i \in Batch(w)
  PROVE  /\ i \in Ids /\ rows[i].leased_by = w /\ rows[i].lease_until > 0
         /\ rows[i].status = "pending"
         /\ \A v \in Workers : i \in Batch(v) => v = w
         /\ \A c \in late : i \notin c.ids
<1>1. i \in Ids /\ rows[i].leased_by = w /\ rows[i].lease_until > 0
  BY DEF HoldInv, OneHand, Leased, Batch
<1>2. rows[i].status = "pending"
  BY <1>1, TableAssumption DEF HoldInv, Sound, SoundTable
<1> QED
  BY <1>1, <1>2 DEF HoldInv, OneHand, Leased

\* A claimed row is in nobody's hands.
LEMMA ClaimedFree ==
  ASSUME HoldInv, NEW i \in Ids, Claimed(i), NEW w \in Workers
  PROVE  task[w][i].st = "none" /\ \A c \in late : i \notin c.ids
<1>1. ~(rows[i].lease_until > 0)
  BY DEF Claimed
<1> QED
  BY <1>1 DEF HoldInv, OneHand, Leased, Batch

\* A message that stays in its round, or in a late call, keeps its attempts.
LEMMA HeldKept ==
  ASSUME HoldInv, [Next]_vars, NEW w \in Workers, NEW i \in Batch(w), i \in Batch(w)'
  PROVE  Kept(i)
<1>1. i \in Ids /\ ~Inserted(i) /\ ~Claimed(i)
  BY OnlyHand, ClaimedFree DEF Inserted, Batch
<1>2. ASSUME Released(i) PROVE FALSE
  <2>1. PICK c \in Call : /\ i \in c.ids
                          /\ Leased(i, c.worker_id)
                          /\ \/ c \in InFlight(c.worker_id) /\ Report(c.worker_id, c)
                             \/ c \in late /\ ExecuteLate(c)
    BY <1>2 DEF Released
  <2>2. c.worker_id = w /\ c \notin late
    BY <2>1, OnlyHand DEF Leased
  <2>3. task'[w][i].st = "none"
    BY <1>1, <2>1, <2>2, DropStep DEF Report, HoldInv, Sound, NoTask
  <2> QED
    BY <2>3 DEF Batch
<1> QED
  BY <1>1, <1>2, AttemptsStep

\* Faults are counted and never forgotten.
LEMMA FaultsStep ==
  ASSUME Sound, [Next]_vars
  PROVE  /\ faults \in Nat /\ faults' \in Nat /\ faults' >= faults
         /\ faults' = 0 => faults = 0
<1>1. faults \in Nat
  BY RelayAssumption DEF Sound, TypeOK
<1>2. faults' = faults \/ faults' = faults + 1
  BY DEF Next, vars, Produce, PurgeDone, ClaimBatch, RoundStep, FaultStep, Restart, ExecuteLate,
         LoseLate, Arrive, Tick, StartPublish, PublishOk, PublishRaises, Report, ClaimLost,
         PublishTimeout, ReportError, CancelRound, PublishCancelled, Crash, Fault
<1> QED
  BY <1>1, <1>2

-----------------------------------------------------------------------------
(* A message is claimed at most max_attempts times, and once more for each *)
(* fault.                                                                  *)

InHand(i) == \E w \in Workers : i \in Batch(w)

BoundInv ==
  /\ \A w \in Workers, i \in Ids :
       task[w][i].st \in {"todo", "sending", "failed"} => task[w][i].attempts = rows[i].attempts
  /\ \A i \in Ids : rows[i].attempts <= MaxAttempts + faults
  /\ \A i \in Ids : rows[i].status = "pending" /\ ~InHand(i) =>
       rows[i].attempts < MaxAttempts + faults

LEMMA BoundStep ==
  ASSUME HoldInv, BoundInv, [Next]_vars
  PROVE  BoundInv'
<1>0. Sound /\ TypeOK /\ GroupShape /\ SoundTable(rows) /\ OneHand
  BY DEF HoldInv, Sound
<1>1. \A i \in Ids : rows[i].attempts \in Nat /\ rows'[i].attempts \in Nat
  <2>1. Sound'
    BY <1>0, SoundStep
  <2>2. \A i \in Ids : rows[i] \in Row /\ rows'[i] \in Row
    BY <1>0, <2>1 DEF Sound, SoundTable, Table
  <2> QED
    BY <2>2 DEF Row
<1>2. /\ faults \in Nat /\ faults' \in Nat /\ faults' >= faults
      /\ MaxAttempts \in Nat \ {0}
  BY <1>0, FaultsStep, RelayAssumption
<1>3. ASSUME NEW w \in Workers, NEW i \in Ids, task'[w][i].st \in {"todo", "sending", "failed"}
      PROVE  task'[w][i].attempts = rows'[i].attempts
  <2>1. TaskFate(w, i)
    BY <1>0, FateStep
  <2>2. CASE task[w][i].st = "none"
    BY <1>3, <2>1, <2>2 DEF TaskFate
  <2>3. CASE task[w][i].st # "none"
    <3>1. i \in Batch(w) /\ i \in Batch(w)'
      BY <1>3, <2>3 DEF Batch
    <3>2. rows'[i].attempts = rows[i].attempts
      BY <3>1, HeldKept DEF Kept
    <3>3. /\ task[w][i].st \in {"todo", "sending", "failed"}
          /\ task'[w][i].attempts = task[w][i].attempts
      BY <1>3, <2>1, <2>3 DEF TaskFate
    <3> QED
      BY <3>2, <3>3 DEF BoundInv
  <2> QED
    BY <2>2, <2>3
<1>4. ASSUME NEW i \in Ids PROVE rows'[i].attempts <= MaxAttempts + faults'
  <2>1. rows[i].attempts <= MaxAttempts + faults
    BY DEF BoundInv
  <2>2. Claimed(i) => rows[i].attempts < MaxAttempts + faults
    BY ClaimedFree DEF BoundInv, InHand, Batch, Claimed
  <2> QED
    BY <1>1, <1>2, <2>1, <2>2, AttemptsStep DEF Kept, Inserted, Claimed, Released
<1>5. ASSUME NEW i \in Ids, rows'[i].status = "pending", ~InHand(i)'
      PROVE  rows'[i].attempts < MaxAttempts + faults'
  <2>1. rows[i].attempts <= MaxAttempts + faults
    BY DEF BoundInv
  <2>2. CASE Inserted(i)
    <3>1. rows'[i].attempts = 0
      BY <2>2 DEF Inserted
    <3>2. MaxAttempts \in Nat /\ 0 < MaxAttempts
      BY RelayAssumption
    <3>3. \A m, n \in Nat : 0 < m => 0 < m + n
      OBVIOUS
    <3>4. 0 < MaxAttempts + faults'
      BY <1>2, <3>2, <3>3
    <3> QED
      BY <3>1, <3>4
  <2>3. CASE Released(i)
    BY <1>1, <1>2, <2>1, <2>3 DEF Released
  <2>4. CASE Claimed(i)
    <3>1. rows[i].attempts < MaxAttempts + faults
      BY <2>4, ClaimedFree DEF BoundInv, InHand, Batch, Claimed
    <3>2. ASSUME NEW w \in Workers, ClaimBatch(w) PROVE i \in Batch(w)'
      BY <1>0, <2>4, <3>2 DEF Claimed, ClaimBatch, Batch, TypeOK, NoTask
    <3>3. faults' = faults + 1
      BY <1>5, <2>4, <3>2 DEF Claimed, InHand
    <3>4. rows'[i].attempts = rows[i].attempts + 1
      BY <2>4 DEF Claimed
    <3> QED
      BY <1>1, <1>2, <3>1, <3>3, <3>4
  <2>5. CASE Kept(i) /\ ~InHand(i)
    BY <1>1, <1>2, <1>5, <2>5 DEF Kept, BoundInv
  <2>6. CASE Kept(i) /\ InHand(i)
    <3>1. PICK w \in Workers : i \in Batch(w)
      BY <2>6 DEF InHand
    <3>2. task[w][i].st # "none" /\ task'[w][i].st = "none"
      BY <1>5, <3>1 DEF InHand, Batch
    <3>3. faults' = faults + 1 \/ \E c \in InFlight(w) : i \in c.ids /\ Report(w, c)
      BY <1>0, <3>2, FateStep DEF TaskFate
    <3>4. CASE faults' = faults + 1
      BY <1>1, <1>2, <2>1, <2>6, <3>4 DEF Kept
    <3>5. ASSUME NEW c \in InFlight(w), i \in c.ids, Report(w, c)
          PROVE  rows'[i].attempts < MaxAttempts + faults'
      <4>1. c \in Call /\ c.worker_id = w /\ rows[i].leased_by = w
        BY <1>0, <3>1, InFlightCalls, OnlyHand
      <4>2. /\ rows' = Execute(rows, c)
            /\ c.op \in {"ack", "nack", "release", "dead_letter"}
        BY <3>5, <4>1 DEF Report, Call
      <4>3. c.op \notin {"ack", "dead_letter"}
        BY <1>0, <1>5, <3>5, <4>1, <4>2, ExecuteRow
      <4>4. CASE c.op = "release"
        BY <1>0, <1>1, <2>6, <3>5, <4>1, <4>2, <4>4, ExecuteRow DEF Kept
      <4>5. CASE c.op = "nack"
        <5>1. task[w][i].st = "failed" /\ ~Exhausted(w, i)
          BY <1>0, <3>5, <4>5, InFlightOps
        <5>2. rows[i].attempts = task[w][i].attempts
          BY <5>1 DEF BoundInv
        <5> QED
          BY <1>1, <1>2, <2>6, <5>1, <5>2 DEF Exhausted, Kept
      <4> QED
        BY <4>2, <4>3, <4>4, <4>5
    <3> QED
      BY <3>3, <3>4, <3>5
  <2> QED
    BY <2>2, <2>3, <2>4, <2>5, <2>6, AttemptsStep
<1> QED
  BY <1>3, <1>4, <1>5 DEF BoundInv

(***************************************************************************)
(* A poison message is not retried for ever: attempts is bounded by        *)
(* max_attempts and the number of faults.                                  *)
(***************************************************************************)
THEOREM AttemptsAreBounded == Spec => []AttemptsBounded
<1>1. Init => BoundInv
  <2> SUFFICES ASSUME Init PROVE BoundInv
    OBVIOUS
  <2>1. /\ \A w \in Workers, i \in Ids : task[w][i].st = "none"
        /\ \A i \in Ids : rows[i].attempts = 0 /\ rows[i].status = "absent"
        /\ faults = 0
    BY DEF Init, NoTask, EmptyTable, Absent
  <2>2. MaxAttempts \in Nat
    BY RelayAssumption
  <2> QED
    BY <2>1, <2>2 DEF BoundInv
<1>2. BoundInv => AttemptsBounded
  BY DEF BoundInv, AttemptsBounded
<1>3. CASE Timely
  <2>1. Init => HoldInv /\ BoundInv
    BY <1>1, HoldInit
  <2>2. HoldInv /\ BoundInv /\ [Next]_vars => (HoldInv /\ BoundInv)'
    BY <1>3, HoldStep, BoundStep
  <2> QED
    BY <1>2, <2>1, <2>2, PTL DEF Spec
<1>4. CASE ~Timely
  <2>1. AttemptsBounded
    BY <1>4 DEF AttemptsBounded
  <2> QED
    BY <2>1, PTL
<1> QED
  BY <1>3, <1>4

-----------------------------------------------------------------------------
(* With no fault the broker gets every message once.                       *)

OnceInv ==
  faults = 0 =>
    /\ late = {} /\ wire = {} /\ repeated = {}
    /\ \A i \in accepted : rows[i].status # "pending" \/ \E w \in Workers : task[w][i].st = "sent"
    /\ \A w \in Workers, i \in Ids : task[w][i].st \in {"todo", "sending"} => i \notin accepted

\* Without faults no call and no publish is abandoned.
LEMMA NothingAbandoned ==
  ASSUME Sound, OnceInv, [Next]_vars, faults' = 0
  PROVE  late' = {} /\ wire' = {}
<1>1. faults = 0 /\ late = {} /\ wire = {}
  BY FaultsStep DEF OnceInv
<1>2. ~Fault
  BY <1>1, FaultsStep DEF Fault
<1> QED
  BY <1>1, <1>2
     DEF Next, vars, Produce, PurgeDone, ClaimBatch, RoundStep, FaultStep, Restart, ExecuteLate,
         LoseLate, Arrive, Tick, StartPublish, PublishOk, PublishRaises, Report, ClaimLost,
         PublishTimeout, ReportError, CancelRound,
         PublishCancelled, Crash

\* What the broker accepts in a step.
LEMMA AcceptStep ==
  ASSUME [Next]_vars
  PROVE  \/ accepted' = accepted /\ repeated' = repeated
         \/ \E i \in Ids : /\ i \in wire \/ \E w \in Workers : PublishOk(w, i)
                           /\ Accept(i)
  BY DEF Next, vars, Produce, PurgeDone, ClaimBatch, RoundStep, FaultStep, Restart, ExecuteLate,
         LoseLate, Arrive, Tick, StartPublish, PublishOk, PublishRaises, Report, ClaimLost,
         PublishTimeout, ReportError, CancelRound,
         PublishCancelled, Crash

LEMMA OnceStep ==
  ASSUME HoldInv, OnceInv, [Next]_vars
  PROVE  OnceInv'
<1>0. Sound /\ TypeOK /\ GroupShape /\ SoundTable(rows) /\ Fresh /\ OneHand /\ accepted \subseteq Ids
  BY DEF HoldInv, Sound, TypeOK
<1> SUFFICES ASSUME faults' = 0
             PROVE  /\ late' = {} /\ wire' = {} /\ repeated' = {}
                    /\ \A i \in accepted' :
                         rows'[i].status # "pending" \/ \E w \in Workers : task'[w][i].st = "sent"
                    /\ \A w \in Workers, i \in Ids :
                         task'[w][i].st \in {"todo", "sending"} => i \notin accepted'
  BY DEF OnceInv
<1>1. /\ faults = 0 /\ faults \in Nat /\ late = {} /\ wire = {} /\ repeated = {}
      /\ \A i \in accepted : rows[i].status # "pending" \/ \E w \in Workers : task[w][i].st = "sent"
      /\ \A w \in Workers, i \in Ids : task[w][i].st \in {"todo", "sending"} => i \notin accepted
  BY <1>0, FaultsStep DEF OnceInv
<1>2. late' = {} /\ wire' = {}
  BY <1>0, NothingAbandoned
\* What is accepted in this step was being sent.
<1>3. ASSUME NEW k \in Ids, k \in wire \/ \E w \in Workers : PublishOk(w, k)
      PROVE  \E w \in Workers : /\ PublishOk(w, k)
                                /\ task[w][k].st = "sending" /\ task'[w][k].st = "sent"
  <2>1. PICK w \in Workers : PublishOk(w, k)
    BY <1>1, <1>3
  <2>2. task[w][k].st = "sending" /\ task'[w][k].st = "sent"
    BY <1>0, <2>1 DEF PublishOk, TypeOK, NoTask
  <2> QED
    BY <2>1, <2>2
<1>4. repeated' = {}
  <2>1. \A k \in Ids : k \in wire \/ (\E w \in Workers : PublishOk(w, k)) => k \notin accepted
    BY <1>1, <1>3
  <2> QED
    BY <1>1, <2>1, AcceptStep DEF Accept
<1>5. ASSUME NEW i \in accepted', rows'[i].status = "pending"
      PROVE  \E w \in Workers : task'[w][i].st = "sent"
  <2>1. CASE i \notin accepted
    BY <1>3, <1>5, <2>1, AcceptStep DEF Accept
  <2>2. CASE i \in accepted
    <3>1. i \in Ids /\ rows[i].status # "absent" /\ RowStep(i)
      BY <1>0, <2>2, RowsStep DEF Fresh
    <3>2. rows[i].status = "pending"
      BY <1>5, <3>1 DEF RowStep
    <3>3. PICK w \in Workers : task[w][i].st = "sent"
      BY <1>1, <2>2, <3>2
    <3>4. TaskFate(w, i)
      BY <1>0, <3>1, FateStep
    <3>5. ASSUME NEW c \in InFlight(w), i \in c.ids, Report(w, c) PROVE FALSE
      <4>1. c.op = "ack" /\ c \in Call /\ c.worker_id = w
        BY <1>0, <3>3, <3>5, InFlightCalls, InFlightOps
      <4>2. rows[i].leased_by = w
        BY <1>0, <3>1, <3>3, OnlyHand DEF Batch
      <4> QED
        BY <1>0, <1>5, <3>5, <4>1, <4>2, ExecuteRow DEF Report
    <3>6. faults' # faults + 1
      BY <1>1
    <3> QED
      BY <3>3, <3>4, <3>5, <3>6 DEF TaskFate
  <2> QED
    BY <2>1, <2>2
<1>6. ASSUME NEW w \in Workers, NEW i \in Ids, task'[w][i].st \in {"todo", "sending"}
      PROVE  i \notin accepted'
  <2>1. i \notin accepted
    <3>1. CASE task[w][i].st \in {"todo", "sending"}
      BY <1>1, <3>1
    <3>2. CASE i \in ClaimSet(rows)
      <4>1. rows[i].status = "pending" /\ ~(rows[i].lease_until > 0)
        BY <3>2 DEF ClaimSet, FirstIds, Candidates, Claimable
      <4>2. \A v \in Workers : task[v][i].st # "sent"
        BY <1>0, <4>1 DEF OneHand, Leased, Batch
      <4> QED
        BY <1>1, <4>1, <4>2
    <3> QED
      BY <1>0, <1>6, <3>1, <3>2, FateStep DEF TaskFate
  <2>2. ASSUME NEW v \in Workers, task[v][i].st = "sending", task'[v][i].st = "sent" PROVE FALSE
    <3>1. v # w
      BY <1>6, <2>2
    <3>2. task[w][i].st = "none"
      BY <2>2, <3>1, OnlyHand DEF Batch
    <3>3. i \in ClaimSet(rows)
      BY <1>0, <1>6, <3>2, FateStep DEF TaskFate
    <3>4. ~(rows[i].lease_until > 0)
      BY <3>3 DEF ClaimSet, FirstIds, Candidates, Claimable
    <3> QED
      BY <1>0, <2>2, <3>4 DEF OneHand, Leased, Batch
  <2> QED
    BY <1>3, <2>1, <2>2, AcceptStep DEF Accept
<1> QED
  BY <1>2, <1>4, <1>5, <1>6

LEMMA OnceInit == Init => OnceInv
  BY DEF Init, OnceInv, NoTask

(***************************************************************************)
(* A duplicate has a cause: without a fault the broker gets no message     *)
(* twice.                                                                  *)
(***************************************************************************)
THEOREM NothingIsRepeated == Spec => []NoDuplicates
<1>1. OnceInv => NoDuplicates
  BY DEF OnceInv, NoDuplicates
<1>2. CASE Timely
  <2>1. Init => HoldInv /\ OnceInv
    BY HoldInit, OnceInit
  <2>2. HoldInv /\ OnceInv /\ [Next]_vars => (HoldInv /\ OnceInv)'
    BY <1>2, HoldStep, OnceStep
  <2> QED
    BY <1>1, <2>1, <2>2, PTL DEF Spec
<1>3. CASE ~Timely
  <2>1. NoDuplicates
    BY <1>3 DEF NoDuplicates
  <2> QED
    BY <2>1, PTL
<1> QED
  BY <1>2, <1>3

-----------------------------------------------------------------------------
(* attempts counts the tries, and the claim in hand.                       *)

TriesInv ==
  /\ \A i \in Ids : tries[i] <= rows[i].attempts
  /\ \A w \in Workers, i \in Ids : task[w][i].st \in {"todo", "held"} => tries[i] < rows[i].attempts
  /\ \A c \in late : c.op = "release" => \A i \in c.ids : tries[i] < rows[i].attempts
  /\ faults = 0 => \A i \in Ids :
       /\ rows[i].attempts <= tries[i] + 1
       /\ tries[i] < rows[i].attempts => \E w \in Workers : task[w][i].st \in {"todo", "held"}

\* A try is a publish that starts.
Tried(w, i) == /\ task[w][i].st = "todo" /\ task'[w][i].st = "sending"
               /\ tries'[i] = tries[i] + 1 /\ rows' = rows /\ late' = late

LEMMA TriesStep ==
  ASSUME Sound, [Next]_vars, NEW i \in Ids
  PROVE  tries'[i] = tries[i] \/ \E w \in Workers : Tried(w, i)
<1>1. CASE tries' = tries
  BY <1>1
<1>2. ASSUME NEW w \in Workers, NEW k \in Ids, StartPublish(w, k)
      PROVE  tries'[i] = tries[i] \/ Tried(w, i)
  <2>1. CASE k # i
    BY <1>2, <2>1 DEF StartPublish, Sound, TypeOK
  <2>2. CASE k = i
    <3>1. task[w][i] \in Task
      BY DEF Sound, TypeOK
    <3>2. task'[w][i] = [task[w][i] EXCEPT !.st = "sending"]
      BY <1>2, <2>2 DEF StartPublish, Sound, TypeOK
    <3>3. task'[w][i].st = "sending"
      BY <3>1, <3>2 DEF Task
    <3>4. tries'[i] = tries[i] + 1
      BY <1>2, <2>2 DEF StartPublish, Sound, TypeOK
    <3> QED
      BY <1>2, <2>2, <3>3, <3>4 DEF StartPublish, Tried
  <2> QED
    BY <2>1, <2>2
<1> QED
  BY <1>1, <1>2
     DEF Next, vars, Produce, PurgeDone, ClaimBatch, RoundStep, FaultStep, Restart, ExecuteLate,
         LoseLate, Arrive, Tick, PublishOk, PublishRaises, Report, ClaimLost,
         PublishTimeout, ReportError, CancelRound,
         PublishCancelled, Crash

\* A message in a late call is tried by nobody and keeps its attempts, as long as the call is late.
LEMMA LateKept ==
  ASSUME HoldInv, [Next]_vars, NEW b \in late, NEW i \in b.ids, b \in late' \/ late' = late \/ Tick
  PROVE  Kept(i) /\ tries'[i] = tries[i]
<1>0. Sound /\ OneHand /\ Fresh
  BY DEF HoldInv
<1>1. i \in Ids /\ b.worker_id \in Workers /\ Leased(i, b.worker_id)
  BY <1>0 DEF OneHand, Sound, TypeOK, Call
<1>2. \A w \in Workers : task[w][i].st = "none"
  BY <1>1, OnlyHand DEF Batch
<1>3. tries'[i] = tries[i]
  BY <1>0, <1>1, <1>2, TriesStep DEF Tried
<1>4. ~Inserted(i)
  BY <1>0, <1>1, TableAssumption DEF Leased, Sound, SoundTable, Inserted
<1>5. ~Claimed(i)
  BY <1>1 DEF Leased, Claimed
<1>6. ASSUME Released(i) PROVE FALSE
  <2>1. PICK c \in Call : /\ i \in c.ids
                          /\ rows'[i].attempts = rows[i].attempts - 1
                          /\ \/ c \in InFlight(c.worker_id) /\ Report(c.worker_id, c)
                             \/ c \in late /\ ExecuteLate(c)
    BY <1>6 DEF Released
  <2>2. c.worker_id \in Workers
    BY DEF Call
  <2>3. c \notin InFlight(c.worker_id)
    BY <1>0, <1>1, <1>2, <2>1, <2>2, InFlightCalls DEF Sound
  <2>4. c \in late /\ late' = late \ {c}
    BY <2>1, <2>3 DEF ExecuteLate
  <2>5. c = b
    BY <1>0, <2>1, <2>4 DEF OneHand
  <2>6. Tick
    BY <2>4, <2>5
  <2>7. rows[i] \in Row /\ rows[i].attempts \in Nat
    BY <1>0, <1>1, RowNumbers DEF Sound, SoundTable, Table
  <2>8. rows'[i].attempts = rows[i].attempts
    BY <1>1, <2>6, <2>7 DEF Tick, Elapse, Row
  <2> QED
    BY <2>1, <2>7, <2>8
<1> QED
  BY <1>1, <1>3, <1>4, <1>5, <1>6, AttemptsStep

LEMMA TriesInvStep ==
  ASSUME HoldInv, TriesInv, [Next]_vars
  PROVE  TriesInv'
<1>0. Sound /\ TypeOK /\ GroupShape /\ SoundTable(rows) /\ Fresh /\ OneHand
  BY DEF HoldInv, Sound
<1>1. \A i \in Ids : /\ rows[i].attempts \in Nat /\ rows'[i].attempts \in Nat
                     /\ tries[i] \in Nat /\ tries'[i] \in Nat
  <2>1. Sound'
    BY <1>0, SoundStep
  <2>2. \A i \in Ids : rows[i] \in Row /\ rows'[i] \in Row
    BY <1>0, <2>1 DEF Sound, SoundTable, Table
  <2>3. tries \in [Ids -> Nat] /\ tries' \in [Ids -> Nat]
    BY <1>0, <2>1 DEF Sound, TypeOK
  <2> QED
    BY <2>2, <2>3 DEF Row
<1>2. ASSUME NEW i \in Ids, NEW w \in Workers, Tried(w, i)
      PROVE  /\ rows' = rows /\ tries'[i] = tries[i] + 1 /\ tries[i] < rows[i].attempts
             /\ \A v \in Workers : task'[v][i].st \notin {"todo", "held"}
  <2>1. rows' = rows /\ tries'[i] = tries[i] + 1 /\ tries[i] < rows[i].attempts
    BY <1>2 DEF Tried, TriesInv
  <2>2. ASSUME NEW v \in Workers, task'[v][i].st \in {"todo", "held"} PROVE FALSE
    <3>1. v # w
      BY <1>2, <2>2 DEF Tried
    <3>2. task[v][i].st = "none"
      BY <1>2, <3>1, OnlyHand DEF Batch, Tried
    <3>3. i \in ClaimSet(rows)
      BY <1>0, <2>2, <3>2, FateStep DEF TaskFate
    <3>4. ~(rows[i].lease_until > 0)
      BY <3>3 DEF ClaimSet, FirstIds, Candidates, Claimable
    <3> QED
      BY <1>0, <1>2, <3>4 DEF OneHand, Leased, Batch, Tried
  <2> QED
    BY <2>1, <2>2
\* A call that releases i found it held, or is late: the claim it gives back was no try.
<1>3. ASSUME NEW i \in Ids, Released(i)
      PROVE  tries[i] < rows[i].attempts /\ rows'[i].attempts = rows[i].attempts - 1
             /\ tries'[i] = tries[i]
  <2>1. PICK c \in Call : /\ c.op = "release" /\ i \in c.ids
                          /\ rows'[i].attempts = rows[i].attempts - 1
                          /\ \/ c \in InFlight(c.worker_id) /\ Report(c.worker_id, c)
                             \/ c \in late /\ ExecuteLate(c)
    BY <1>3 DEF Released
  <2>2. c.worker_id \in Workers
    BY DEF Call
  <2>3. tries[i] < rows[i].attempts
    BY <1>0, <2>1, <2>2, InFlightOps DEF TriesInv
  <2>4. tries' = tries
    BY <2>1 DEF Report, ExecuteLate
  <2> QED
    BY <2>1, <2>3, <2>4
<1>4. ASSUME NEW i \in Ids PROVE tries'[i] <= rows'[i].attempts
  <2>1. tries[i] <= rows[i].attempts
    BY DEF TriesInv
  <2>2. CASE \E w \in Workers : Tried(w, i)
    BY <1>1, <1>2, <2>2
  <2>3. CASE tries'[i] = tries[i]
    BY <1>1, <1>3, <2>1, <2>3, AttemptsStep DEF Kept, Inserted, Claimed
  <2> QED
    BY <1>0, <2>2, <2>3, TriesStep
<1>5. ASSUME NEW w \in Workers, NEW i \in Ids, task'[w][i].st \in {"todo", "held"}
      PROVE  tries'[i] < rows'[i].attempts
  <2>1. tries'[i] = tries[i]
    BY <1>0, <1>2, <1>5, TriesStep
  <2>2. CASE task[w][i].st = "none"
    <3>1. ClaimBatch(w) /\ i \in ClaimSet(rows)
      BY <1>0, <1>5, <2>2, FateStep DEF TaskFate
    <3>2. rows'[i].attempts = rows[i].attempts + 1
      BY <1>0, <3>1, ClaimedRow DEF ClaimBatch, ClaimNext, SoundTable
    <3>3. tries[i] <= rows[i].attempts
      BY DEF TriesInv
    <3> QED
      BY <1>1, <2>1, <3>2, <3>3
  <2>3. CASE task[w][i].st # "none"
    <3>1. task[w][i].st \in {"todo", "held"}
      BY <1>0, <1>5, <2>3, FateStep DEF TaskFate
    <3>2. Kept(i)
      BY <1>5, <2>3, HeldKept DEF Batch
    <3> QED
      BY <2>1, <3>1, <3>2 DEF Kept, TriesInv
  <2> QED
    BY <2>2, <2>3
<1>6. ASSUME NEW c \in late', c.op = "release", NEW i \in c.ids
      PROVE  tries'[i] < rows'[i].attempts
  <2>1. CASE Tick
    <3>1. PICK b \in late : c = [b EXCEPT !.retry_at = Sooner(@)]
      BY <2>1 DEF Tick
    <3>2. b \in Call
      BY <1>0, <3>1 DEF TypeOK
    <3>3. c.op = b.op /\ c.ids = b.ids
      BY <3>1, <3>2 DEF Call
    <3>4. tries[i] < rows[i].attempts
      BY <1>6, <3>3 DEF TriesInv
    <3> QED
      BY <2>1, <3>3, <3>4, LateKept DEF Kept
  <2>2. CASE c \in late
    <3>1. tries[i] < rows[i].attempts
      BY <1>6, <2>2 DEF TriesInv
    <3> QED
      BY <2>2, <3>1, LateKept DEF Kept
  <2>3. CASE c \notin late /\ ~Tick
    <3>1. \E w \in Workers : c \in InFlight(w) /\ rows' = rows /\ tries' = tries
      BY <2>3 DEF Next, vars, Produce, PurgeDone, ClaimBatch, RoundStep, FaultStep, Restart,
                  ExecuteLate, LoseLate, Arrive, StartPublish, PublishOk, PublishRaises, Report,
                  ClaimLost, PublishTimeout, ReportError, CancelRound,
         PublishCancelled, Crash, Abandon
    <3>2. PICK w \in Workers : c \in InFlight(w) /\ rows' = rows /\ tries' = tries
      BY <3>1
    <3>3. task[w][i].st = "held" /\ i \in Ids
      BY <1>0, <1>6, <3>2, InFlightOps, InFlightCalls DEF Call
    <3> QED
      BY <3>2, <3>3 DEF TriesInv
  <2> QED
    BY <2>1, <2>2, <2>3
<1>7. ASSUME faults' = 0, NEW i \in Ids
      PROVE  /\ rows'[i].attempts <= tries'[i] + 1
             /\ tries'[i] < rows'[i].attempts =>
                  \E w \in Workers : task'[w][i].st \in {"todo", "held"}
  <2>1. faults = 0
    BY <1>0, <1>7, FaultsStep
  <2>2. /\ rows[i].attempts <= tries[i] + 1
        /\ tries[i] < rows[i].attempts => \E w \in Workers : task[w][i].st \in {"todo", "held"}
    BY <2>1 DEF TriesInv
  <2>3. CASE \E w \in Workers : Tried(w, i)
    BY <1>1, <1>2, <2>2, <2>3
  <2>4. CASE Released(i)
    BY <1>1, <1>3, <2>2, <2>4
  <2>5. CASE Inserted(i) /\ tries'[i] = tries[i]
    BY <1>1, <2>5 DEF Inserted
  <2>6. CASE Claimed(i) /\ tries'[i] = tries[i]
    <3>1. ~(tries[i] < rows[i].attempts)
      BY <2>2, <2>6, ClaimedFree
    <3>2. rows'[i].attempts = rows[i].attempts + 1 /\ i \in ClaimSet(rows)
      BY <2>6 DEF Claimed
    <3>3. PICK w \in Workers : ClaimBatch(w)
      BY <1>7, <2>1, <2>6 DEF Claimed
    <3>4. task'[w][i].st = "todo"
      BY <1>0, <3>2, <3>3 DEF ClaimBatch, TypeOK, NoTask
    <3> QED
      BY <1>1, <2>6, <3>1, <3>2, <3>4
  <2>7. CASE Kept(i) /\ tries'[i] = tries[i] /\ ~Released(i)
    <3>1. rows'[i].attempts = rows[i].attempts
      BY <2>7 DEF Kept
    <3>2. ASSUME tries[i] < rows[i].attempts
          PROVE  \E w \in Workers : task'[w][i].st \in {"todo", "held"}
      <4>1. PICK w \in Workers : task[w][i].st \in {"todo", "held"}
        BY <2>2, <3>2
      <4>2. task'[w][i].st # "none"
        <5>1. ASSUME NEW c \in InFlight(w), i \in c.ids, Report(w, c) PROVE FALSE
          <6>1. c \in Call /\ c.worker_id = w /\ c.op = "release"
            BY <1>0, <4>1, <5>1, InFlightCalls, InFlightOps
          <6>2. rows[i].leased_by = w
            BY <4>1, OnlyHand DEF Batch
          <6>3. rows'[i].attempts = rows[i].attempts - 1
            BY <1>0, <5>1, <6>1, <6>2, ExecuteRow DEF Report
          <6> QED
            BY <1>1, <3>1, <6>3
        <5>2. faults' # faults + 1
          BY <1>7, <2>1
        <5> QED
          BY <1>0, <4>1, <5>1, <5>2, FateStep DEF TaskFate
      <4>3. ~StartPublish(w, i)
        BY <1>0, <1>1, <2>7 DEF StartPublish, TypeOK
      <4> QED
        BY <1>0, <4>1, <4>2, <4>3, FateStep DEF TaskFate
    <3> QED
      BY <2>2, <2>7, <3>1, <3>2
  <2> QED
    BY <1>0, <2>3, <2>4, <2>5, <2>6, <2>7, AttemptsStep, TriesStep
<1> QED
  BY <1>4, <1>5, <1>6, <1>7 DEF TriesInv

LEMMA TriesInit == Init => TriesInv
<1> SUFFICES ASSUME Init PROVE TriesInv
  OBVIOUS
<1>1. /\ \A w \in Workers, i \in Ids : task[w][i].st = "none"
      /\ \A i \in Ids : rows[i].attempts = 0 /\ tries[i] = 0
      /\ late = {}
  BY DEF Init, NoTask, EmptyTable, Absent
<1> QED
  BY <1>1 DEF TriesInv

(***************************************************************************)
(* attempts is never below the number of publish calls, and with no fault  *)
(* it is that number plus the claim in hand.                               *)
(***************************************************************************)
THEOREM AttemptsAreTries == Spec => []AttemptsCountTries
<1>1. HoldInv /\ TriesInv => AttemptsCountTries
  <2> SUFFICES ASSUME HoldInv, TriesInv, NEW i \in Ids
               PROVE  /\ rows[i].attempts >= tries[i]
                      /\ faults = 0 => rows[i].attempts = tries[i] + Cardinality(Untried(i))
    BY DEF AttemptsCountTries
  <2>1. rows[i].attempts \in Nat /\ tries[i] \in Nat
    <3>1. rows[i] \in Row
      BY DEF HoldInv, Sound, SoundTable, Table
    <3> QED
      BY <3>1, RowNumbers DEF HoldInv, Sound, TypeOK
  <2>2. tries[i] <= rows[i].attempts
    BY DEF TriesInv
  <2>3. CASE Untried(i) = {}
    <3>1. Cardinality(Untried(i)) = 0
      BY <2>3, FS_EmptySet
    <3>2. faults = 0 => ~(tries[i] < rows[i].attempts)
      BY <2>3 DEF TriesInv, Untried
    <3> QED
      BY <2>1, <2>2, <3>1, <3>2
  <2>4. ASSUME NEW w \in Untried(i)
        PROVE  faults = 0 => rows[i].attempts = tries[i] + Cardinality(Untried(i))
    <3>1. w \in Workers /\ i \in Batch(w) /\ tries[i] < rows[i].attempts
      BY <2>4 DEF Untried, Batch, TriesInv
    <3>2. Untried(i) = {w}
      BY <2>4, <3>1, OnlyHand DEF Untried, Batch
    <3>3. Cardinality(Untried(i)) = 1
      BY <3>2, FS_Singleton
    <3>4. faults = 0 => rows[i].attempts <= tries[i] + 1
      BY DEF TriesInv
    <3> QED
      BY <2>1, <3>1, <3>3, <3>4
  <2> QED
    BY <2>1, <2>2, <2>3, <2>4
<1>2. CASE Timely
  <2>1. Init => HoldInv /\ TriesInv
    BY HoldInit, TriesInit
  <2>2. HoldInv /\ TriesInv /\ [Next]_vars => (HoldInv /\ TriesInv)'
    BY <1>2, HoldStep, TriesInvStep
  <2> QED
    BY <1>1, <2>1, <2>2, PTL DEF Spec
<1>3. CASE ~Timely
  <2>1. AttemptsCountTries
    BY <1>3 DEF AttemptsCountTries
  <2> QED
    BY <2>1, PTL
<1> QED
  BY <1>2, <1>3

=============================================================================
