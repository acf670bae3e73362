-------------------------- MODULE OutboxOrderProofs --------------------------
(***************************************************************************)
(* Delivery: nothing is lost, and with strict ordering first deliveries    *)
(* follow the insertion order of their key.                                *)
(*                                                                         *)
(* Neither is inductive.  Order rests on what a round knows: a message     *)
(* whose publish was started has nothing unsettled before it, for ever;    *)
(* before that, whatever is unsettled before a claimed message is still    *)
(* ahead of it in the same round.  The second part is what claim           *)
(* establishes by never skipping a pending message of a key, and what      *)
(* _block_rest preserves by giving up the rest of a group.  Neither part   *)
(* mentions a lease: that is why an expired one cannot break the order.    *)
(***************************************************************************)
EXTENDS OutboxRelayProofs

Settled(i) == i \in accepted \/ rows[i].status = "dead"

\* Every message that comes before j is settled.
Clear(j) == \A i \in Ids : i < j /\ SameKey(rows, i, j) => Settled(i)

\* Whatever unsettled message comes before j is still to be published by the same round.
Queued(w, j) ==
  \A i \in Ids : i < j /\ SameKey(rows, i, j) =>
    Settled(i) \/ task[w][i].st \in {"todo", "sending"}

\* Ids are used in increasing order, and by nobody before their insertion.
Fresh ==
  /\ \A i, j \in Ids : i < j /\ rows[j].status # "absent" => rows[i].status # "absent"
  /\ \A i \in Ids : rows[i].status = "absent" =>
       i \notin accepted /\ i \notin wire /\ \A w \in Workers : task[w][i].st = "none"

\* What is acked, now or later, has been accepted.
AckedAccepted ==
  /\ NoneLost
  /\ \A w \in Workers, i \in Ids : task[w][i].st = "sent" => i \in accepted
  /\ \A c \in late : c.op = "ack" => c.ids \subseteq accepted

Ordered ==
  /\ \A j \in accepted \cup wire : Clear(j)
  /\ \A w \in Workers, j \in Ids : /\ task[w][j].st = "sending" => Clear(j)
                                   /\ task[w][j].st = "todo" => Queued(w, j)

DeliveryInv ==
  /\ Sound
  /\ Fresh
  /\ AckedAccepted
  /\ StrictOrdering => Ordered

-----------------------------------------------------------------------------
(* What a step does to the tasks of a round.                               *)

\* The steps of a task; what a worker does with one message depends on the others only
\* through the group.
TaskStep(w, i) ==
  LET s == task[w][i].st
      n == task'[w][i].st
  IN  \/ n = s
      \/ s = "todo" /\ n = "sending" /\ StartPublish(w, i)
      \/ s = "sending" /\ n = "sent" /\ i \in accepted'
      \/ n = "none"
      \/ s # "none" /\ n \in {"failed", "held"}
      \/ n = "todo" /\ ClaimBatch(w) /\ i \in ClaimSet(rows)

\* Dropping messages from the round of w0 sets them to "none" and does nothing else.
LEMMA DropStep ==
  ASSUME TypeOK, NEW w0 \in Workers, NEW S, Drop(w0, S), NEW w \in Workers, NEW i \in Ids
  PROVE  task'[w][i] = IF w = w0 /\ i \in S THEN NoTask ELSE task[w][i]
  BY DEF Drop, TypeOK

\* Giving up a message of a round and those of its group after it leaves no gap: what is ahead
\* of a message that stays, stays too.
LEMMA TailDropped ==
  ASSUME NEW w \in Workers, NEW k \in Ids, NEW i \in Ids, NEW j \in Batch(w),
         i < j, SameKey(rows, i, j), i \in {x \in Group(w, k) : x >= k}
  PROVE  j \in {x \in Group(w, k) : x >= k}
<1>1. i \in Group(w, k) /\ i >= k
  OBVIOUS
<1>2. j \in Ids /\ j > k
  BY <1>1, TableAssumption DEF Batch, Ids
<1>3. SameKey(rows, k, j)
  BY <1>1 DEF Group, SameKey
<1>4. j \in Group(w, k)
  BY <1>3 DEF Group
<1>5. j >= k
  BY <1>2, TableAssumption DEF Ids
<1> QED
  BY <1>4, <1>5

\* A failed publish of i0 by w0: i0 failed, the rest of its group held, nothing else moves.
LEMMA FailStep ==
  ASSUME TypeOK, NEW w0 \in Workers, NEW i0 \in Ids, NEW d, Fail(w0, i0, d),
         NEW w \in Workers, NEW i \in Ids
  PROVE  task'[w][i].st = IF w # w0 THEN task[w][i].st
                          ELSE IF i = i0 THEN "failed"
                          ELSE IF i \in Group(w0, i0) /\ i > i0 THEN "held"
                          ELSE task[w][i].st
<1> DEFINE retry == IF Exhausted(w0, i0) THEN 0 ELSE d
           f == [j \in Ids |->
                   CASE j = i0 -> [task[w0][j] EXCEPT !.st = "failed", !.retry_at = retry]
                     [] j \in {x \in Group(w0, i0) : x > i0} ->
                          [NoTask EXCEPT !.st = "held", !.retry_at = retry]
                     [] OTHER -> task[w0][j]]
<1>1. task' = [task EXCEPT ![w0] = f]
  BY DEF Fail, TypeOK
<1>2. \A j \in Ids : task[w0][j] \in Task
  BY DEF TypeOK
<1> HIDE DEF retry
<1>3. f[i0].st = "failed"
  <2>0. ~(i0 > i0)
    BY TableAssumption DEF Ids
  <2>1. f[i0] = [task[w0][i0] EXCEPT !.st = "failed", !.retry_at = retry]
    BY <2>0
  <2> HIDE DEF f
  <2> QED
    BY <1>2, <2>1 DEF Task
<1>4. i # i0 /\ i \in Group(w0, i0) /\ i > i0 => f[i].st = "held"
  BY DEF NoTask
<1>5. i # i0 /\ ~(i \in Group(w0, i0) /\ i > i0) => f[i] = task[w0][i]
  OBVIOUS
<1> HIDE DEF f
<1>6. task'[w] = IF w = w0 THEN f ELSE task[w]
  BY <1>1 DEF TypeOK
<1> QED
  BY <1>3, <1>4, <1>5, <1>6

\* How a step may change the stage of a message in a round.
LEMMA TasksStep ==
  ASSUME Sound, [Next]_vars
  PROVE  \A w \in Workers, i \in Ids : TaskStep(w, i)
<1> SUFFICES ASSUME NEW w \in Workers, NEW i \in Ids
             PROVE  TaskStep(w, i)
  OBVIOUS
<1> USE DEF Sound
<1>1. CASE task' = task
  BY <1>1 DEF TaskStep
<1>2. ASSUME NEW w0 \in Workers, NEW S, Drop(w0, S)
      PROVE  TaskStep(w, i)
  <2>1. task'[w][i] = NoTask \/ task'[w][i] = task[w][i]
    BY <1>2, DropStep
  <2> QED
    BY <2>1 DEF TaskStep, NoTask
<1>3. ASSUME NEW w0 \in Workers, NEW i0 \in Ids, NEW d, task[w0][i0].st = "sending",
             Fail(w0, i0, d)
      PROVE  TaskStep(w, i)
  BY <1>3, FailStep DEF TaskStep, Group, Batch
<1>4. ASSUME NEW w0 \in Workers, ClaimBatch(w0)
      PROVE  TaskStep(w, i)
  <2>1. task'[w][i].st = task[w][i].st \/ task'[w][i].st = "none"
        \/ (w = w0 /\ task'[w][i].st = "todo" /\ i \in ClaimSet(rows))
    BY <1>4 DEF ClaimBatch, TypeOK, NoTask
  <2> QED
    BY <1>4, <2>1 DEF TaskStep
<1>5. ASSUME NEW w0 \in Workers, NEW i0 \in Ids, StartPublish(w0, i0)
      PROVE  TaskStep(w, i)
  <2>1. task[w0][i0] \in Task
    BY DEF TypeOK
  <2>2. task'[w0][i0].st = "sending" /\ task[w0][i0].st = "todo"
    BY <1>5, <2>1 DEF StartPublish, TypeOK, Task
  <2>3. w # w0 \/ i # i0 => task'[w][i] = task[w][i]
    BY <1>5 DEF StartPublish, TypeOK
  <2> QED
    BY <1>5, <2>2, <2>3 DEF TaskStep
<1>6. ASSUME NEW w0 \in Workers, NEW i0 \in Ids, PublishOk(w0, i0)
      PROVE  TaskStep(w, i)
  <2>1. task'[w0][i0].st = "sent" /\ task[w0][i0].st = "sending" /\ i0 \in accepted'
    BY <1>6 DEF PublishOk, TypeOK, NoTask, Accept
  <2>2. w # w0 \/ i # i0 => task'[w][i] = task[w][i]
    BY <1>6 DEF PublishOk, TypeOK
  <2> QED
    BY <2>1, <2>2 DEF TaskStep
<1>7. ASSUME Tick
      PROVE  TaskStep(w, i)
  <2>1. task[w][i] \in Task
    BY DEF TypeOK
  <2>2. task'[w][i].st = task[w][i].st
    BY <1>7, <2>1 DEF Tick, Task
  <2> QED
    BY <2>2 DEF TaskStep
<1>8. ASSUME NEW w0 \in Workers, RoundStep(w0) \/ FaultStep(w0)
      PROVE  TaskStep(w, i)
  BY <1>1, <1>2, <1>3, <1>5, <1>6, <1>8
     DEF RoundStep, FaultStep, PublishRaises, Report, ClaimLost, PublishTimeout, ReportError,
         CancelRound, PublishCancelled, Crash
<1> QED
  BY <1>1, <1>4, <1>7, <1>8
     DEF Next, vars, Produce, PurgeDone, Restart, ExecuteLate, LoseLate, Arrive

\* What the broker has or may still get was published: by a publish in progress before.
LEMMA AcceptedStep ==
  ASSUME Sound, [Next]_vars
  PROVE  /\ accepted \subseteq accepted'
         /\ \A j \in accepted' \cup wire' :
              \/ j \in accepted \cup wire
              \/ j \in Ids /\ \E w \in Workers : task[w][j].st = "sending"
  BY DEF Next, vars, Produce, PurgeDone, ClaimBatch, RoundStep, FaultStep, Restart, ExecuteLate,
         LoseLate, Arrive, Tick, StartPublish, PublishOk, PublishRaises, Report, ClaimLost,
         PublishTimeout, ReportError, CancelRound, PublishCancelled, Crash, Accept, Abandon

\* Late calls come from calls in flight.
LEMMA LateStep ==
  ASSUME Sound, [Next]_vars, NEW c \in late'
  PROVE  \/ \E b \in late : c.op = b.op /\ c.ids = b.ids
         \/ \E w \in Workers : c \in InFlight(w)
<1>1. CASE Tick
  <2>1. PICK b \in late : c = [b EXCEPT !.retry_at = Sooner(@)]
    BY <1>1 DEF Tick
  <2>2. b \in Call
    BY <2>1 DEF Sound, TypeOK
  <2>3. c.op = b.op /\ c.ids = b.ids
    BY <2>1, <2>2 DEF Call
  <2> QED
    BY <2>3
<1>2. CASE ~Tick
  BY <1>2
     DEF Next, vars, Produce, PurgeDone, ClaimBatch, RoundStep, FaultStep, Restart, ExecuteLate,
         LoseLate, Arrive, StartPublish, PublishOk, PublishRaises, Report, ClaimLost,
         PublishTimeout, ReportError, CancelRound,
         PublishCancelled, Crash, Abandon
<1> QED
  BY <1>1, <1>2

\* A claimed message that stays claimed keeps its queue: what was ahead of it in the round is
\* ahead of it still, or has been accepted.
LEMMA QueueStep ==
  ASSUME Sound, [Next]_vars, NEW w \in Workers, NEW i \in Ids, NEW j \in Ids,
         i < j, SameKey(rows, i, j),
         task[w][j].st = "todo", task'[w][j].st = "todo",
         task[w][i].st \in {"todo", "sending"}
  PROVE  task'[w][i].st \in {"todo", "sending"} \/ i \in accepted'
<1> USE DEF Sound
<1>1. CASE task' = task
  BY <1>1
<1>2. ASSUME NEW w0 \in Workers, NEW i0 \in Ids, NEW d, Fail(w0, i0, d)
      PROVE  task'[w][i].st \in {"todo", "sending"}
  <2>1. CASE w = w0 /\ i = i0
    <3>1. j \in Group(w, i) /\ j > i /\ j # i
      BY TableAssumption DEF Group, Batch, Ids
    <3>2. task'[w][j].st = "held"
      BY <1>2, <2>1, <3>1, FailStep
    <3> QED
      BY <3>2
  <2>2. CASE w = w0 /\ i # i0 /\ i \in Group(w0, i0) /\ i > i0
    <3>1. SameKey(rows, i0, i) /\ i0 \in Ids
      BY <2>2 DEF Group
    <3>2. j \in Group(w0, i0) /\ j > i0 /\ j # i0
      BY <2>2, <3>1, TableAssumption DEF Group, Batch, SameKey, Ids
    <3>3. task'[w][j].st = "held"
      BY <1>2, <2>2, <3>2, FailStep
    <3> QED
      BY <3>3
  <2> QED
    BY <1>2, <2>1, <2>2, FailStep
<1>3. ASSUME NEW w0 \in Workers, NEW c \in InFlight(w0), Drop(w0, c.ids)
      PROVE  task'[w][i].st \in {"todo", "sending"}
  <2>1. w = w0 => i \notin c.ids
    BY <1>3, InFlightCalls
  <2> QED
    BY <1>3, <2>1, DropStep
<1>4. ASSUME NEW w0 \in Workers, NEW S, Drop(w0, S), \A x \in Ids : task[w0][x].st # "sent" => x \in S
      PROVE  task'[w][i].st \in {"todo", "sending"}
  <2>1. w # w0
    BY <1>4, DropStep DEF NoTask
  <2> QED
    BY <1>4, <2>1, DropStep
<1>5. ASSUME NEW w0 \in Workers, ClaimBatch(w0)
      PROVE  task'[w][i].st \in {"todo", "sending"}
  <2>1. w # w0
    BY <1>5 DEF ClaimBatch, Idle, Batch
  <2> QED
    BY <1>5, <2>1 DEF ClaimBatch, TypeOK
<1>6. ASSUME NEW w0 \in Workers, NEW i0 \in Ids, StartPublish(w0, i0)
      PROVE  task'[w][i].st \in {"todo", "sending"}
  <2>1. task[w0][i0] \in Task
    BY DEF TypeOK
  <2>2. task'[w0][i0].st = "sending"
    BY <1>6, <2>1 DEF StartPublish, TypeOK, Task
  <2>3. w # w0 \/ i # i0 => task'[w][i] = task[w][i]
    BY <1>6 DEF StartPublish, TypeOK
  <2> QED
    BY <2>2, <2>3
<1>7. ASSUME NEW w0 \in Workers, NEW i0 \in Ids, PublishOk(w0, i0)
      PROVE  task'[w][i].st \in {"todo", "sending"} \/ i \in accepted'
  <2>1. i0 \in accepted'
    BY <1>7 DEF PublishOk, Accept
  <2>2. w # w0 \/ i # i0 => task'[w][i] = task[w][i]
    BY <1>7 DEF PublishOk, TypeOK
  <2> QED
    BY <2>1, <2>2
<1>8. ASSUME Tick
      PROVE  task'[w][i].st \in {"todo", "sending"}
  <2>1. task[w][i] \in Task
    BY DEF TypeOK
  <2> QED
    BY <1>8, <2>1 DEF Tick, Task
<1>9. ASSUME NEW w0 \in Workers, RoundStep(w0) \/ FaultStep(w0)
       PROVE  task'[w][i].st \in {"todo", "sending"} \/ i \in accepted'
  <2>1. CASE CancelRound(w0)
    BY <1>4, <2>1 DEF CancelRound
  <2>2. CASE Crash(w0)
    BY <1>4, <2>2 DEF Crash
  <2>3. ASSUME NEW k \in Ids, PublishCancelled(w0, k) PROVE task'[w][i].st \in {"todo", "sending"}
    <3> DEFINE S == {x \in Group(w0, k) : x >= k}
    <3>1. Drop(w0, S)
      BY <2>3 DEF PublishCancelled
    <3>2. ~(w = w0 /\ j \in S)
      BY <3>1, DropStep DEF NoTask
    <3>3. ~(w = w0 /\ i \in S)
      BY <3>2, TailDropped DEF Batch
    <3> HIDE DEF S
    <3> QED
      BY <3>1, <3>3, DropStep
  <2> QED
    BY <1>1, <1>2, <1>3, <1>6, <1>7, <1>9, <2>1, <2>2, <2>3
       DEF RoundStep, FaultStep, PublishRaises, Report, ClaimLost, PublishTimeout, ReportError
<1> QED
  BY <1>1, <1>5, <1>8, <1>9
     DEF Next, vars, Produce, PurgeDone, Restart, ExecuteLate, LoseLate, Arrive

\* Rows become done only through the ack of a message that was accepted.
LEMMA DoneStep ==
  ASSUME Sound, AckedAccepted, [Next]_vars, NEW i \in Ids,
         rows[i].status = "pending", rows'[i].status \in {"done", "deleted"}
  PROVE  i \in accepted
<1> USE DEF Sound
<1>1. ASSUME NEW c \in Call, rows' = Execute(rows, c)
      PROVE  c.op = "ack" /\ i \in c.ids
  BY <1>1, ExecuteEffect
<1>2. ASSUME NEW w \in Workers, NEW c \in InFlight(w), Report(w, c)
      PROVE  i \in accepted
  <2>1. c \in Call /\ (c.op = "ack" => \A x \in c.ids : task[w][x].st = "sent")
    BY <1>2, InFlightCalls
  <2> QED
    BY <1>1, <1>2, <2>1 DEF Report, AckedAccepted
<1>3. ASSUME NEW c \in late, ExecuteLate(c)
      PROVE  i \in accepted
  BY <1>1, <1>3 DEF ExecuteLate, AckedAccepted, TypeOK
<1>4. ASSUME NEW i0 \in Ids, NEW k \in Keys \cup {NULL}, Produce(i0, k)
      PROVE  FALSE
  BY <1>4, InsertEffect DEF Produce, NextId
<1>5. ASSUME NEW old \in SUBSET Ids, PurgeDone(old)
      PROVE  FALSE
  BY <1>5, PurgeEffect DEF PurgeDone
<1>6. ASSUME NEW w \in Workers, ClaimNext(w)
      PROVE  FALSE
  BY <1>6, ClaimEffect DEF ClaimNext
<1>7. ASSUME Tick
      PROVE  FALSE
  BY <1>7, ElapseEffect DEF Tick
<1>8. rows' # rows
  OBVIOUS
<1> QED
  BY <1>2, <1>3, <1>4, <1>5, <1>6, <1>7, <1>8
     DEF Next, vars, ClaimBatch, RoundStep, FaultStep, Restart, LoseLate, Arrive, StartPublish,
         PublishOk, PublishRaises, ClaimLost, PublishTimeout, ReportError, CancelRound,
         PublishCancelled, Crash

-----------------------------------------------------------------------------
(* The invariant.                                                          *)

\* The delivery invariant holds at the start.
LEMMA DeliveryInit == Init => DeliveryInv
<1> SUFFICES ASSUME Init PROVE DeliveryInv
  OBVIOUS
<1>1. Sound
  BY SoundInit
<1>2. /\ \A w \in Workers, i \in Ids : task[w][i].st = "none"
      /\ \A i \in Ids : rows[i].status = "absent"
  BY DEF Init, NoTask, EmptyTable, Absent
<1>3. accepted = {} /\ wire = {} /\ late = {}
  BY DEF Init
<1>4. Fresh /\ AckedAccepted /\ Ordered
  BY <1>2, <1>3 DEF Fresh, AckedAccepted, NoneLost, Ordered
<1> QED
  BY <1>1, <1>4 DEF DeliveryInv

\* What is clear, or queued, has been inserted, so that nothing can slip in before it.
LEMMA SameKeyStep ==
  ASSUME Sound, Fresh, [Next]_vars, NEW i \in Ids, NEW j \in Ids, i < j,
         rows[j].status # "absent", SameKey(rows', i, j)
  PROVE  SameKey(rows, i, j) /\ (Settled(i) => Settled(i)')
<1>1. rows[i].status # "absent"
  BY DEF Fresh
<1>2. RowStep(i) /\ RowStep(j)
  BY RowsStep
<1>3. SameKey(rows, i, j)
  BY <1>1, <1>2 DEF RowStep, SameKey
<1>4. Settled(i) => Settled(i)'
  BY <1>2, AcceptedStep DEF Settled, RowStep
<1> QED
  BY <1>3, <1>4

\* What is not inserted stays in nobody's hands.
LEMMA FreshStep ==
  ASSUME Sound, Fresh, [Next]_vars
  PROVE  Fresh'
<1>1. \A i \in Ids : RowStep(i)
  BY RowsStep
<1>2. ASSUME NEW i \in Ids, NEW j \in Ids, i < j, rows'[j].status # "absent"
      PROVE  rows'[i].status # "absent"
  <2>1. rows[i].status # "absent"
    BY <1>1, <1>2 DEF RowStep, NextId, Fresh
  <2> QED
    BY <1>1, <2>1 DEF RowStep
<1>3. ASSUME NEW i \in Ids, rows'[i].status = "absent"
      PROVE  i \notin accepted' /\ i \notin wire' /\ \A w \in Workers : task'[w][i].st = "none"
  <2>1. rows[i].status = "absent"
    BY <1>1, <1>3 DEF RowStep
  <2>2. i \notin accepted /\ i \notin wire /\ \A w \in Workers : task[w][i].st = "none"
    BY <2>1 DEF Fresh
  <2>3. i \notin accepted' /\ i \notin wire'
    BY <2>2, AcceptedStep
  <2>4. ASSUME NEW w \in Workers
        PROVE  task'[w][i].st = "none"
    <3>1. i \notin ClaimSet(rows)
      BY <2>1 DEF ClaimSet, FirstIds, Candidates, Claimable
    <3>2. TaskStep(w, i)
      BY TasksStep
    <3> QED
      BY <2>2, <3>1, <3>2 DEF TaskStep
  <2> QED
    BY <2>3, <2>4
<1> QED
  BY <1>2, <1>3 DEF Fresh

\* What is or will be acked stays accepted.
LEMMA AckedStep ==
  ASSUME Sound, Fresh, AckedAccepted, [Next]_vars
  PROVE  AckedAccepted'
<1>1. accepted \subseteq accepted'
  BY AcceptedStep
<1>2. NoneLost'
  <2> SUFFICES ASSUME NEW i \in Ids, rows'[i].status \in {"done", "deleted"}
               PROVE  i \in accepted'
    BY DEF NoneLost
  <2>1. RowStep(i)
    BY RowsStep
  <2>2. CASE rows[i].status \in {"done", "deleted"}
    BY <1>1, <2>2 DEF AckedAccepted, NoneLost
  <2>3. CASE rows[i].status = "pending"
    BY <1>1, <2>3, DoneStep
  <2> QED
    BY <2>1, <2>2, <2>3 DEF RowStep
<1>3. ASSUME NEW w \in Workers, NEW i \in Ids, task'[w][i].st = "sent"
      PROVE  i \in accepted'
  <2>1. TaskStep(w, i)
    BY TasksStep
  <2> QED
    BY <1>1, <1>3, <2>1 DEF TaskStep, AckedAccepted
<1>4. ASSUME NEW c \in late', c.op = "ack"
      PROVE  c.ids \subseteq accepted'
  <2>1. CASE \E b \in late : c.op = b.op /\ c.ids = b.ids
    BY <1>1, <1>4, <2>1 DEF AckedAccepted
  <2>2. CASE \E w \in Workers : c \in InFlight(w)
    <3>1. PICK w \in Workers : c \in InFlight(w)
      BY <2>2
    <3>2. c \in Call /\ \A i \in c.ids : task[w][i].st = "sent"
      BY <1>4, <3>1, InFlightCalls DEF Sound
    <3>3. c.ids \subseteq Ids
      BY <3>2 DEF Call
    <3> QED
      BY <1>1, <3>2, <3>3 DEF AckedAccepted
  <2> QED
    BY <2>1, <2>2, LateStep
<1> QED
  BY <1>2, <1>3, <1>4 DEF AckedAccepted

\* A message whose publish may start has nothing unsettled before it.
LEMMA TurnClear ==
  ASSUME Ordered, NEW w \in Workers, NEW j \in Ids, StartPublish(w, j)
  PROVE  Clear(j)
<1> SUFFICES ASSUME NEW i \in Ids, i < j, SameKey(rows, i, j), ~Settled(i)
             PROVE  FALSE
  BY DEF Clear
<1>1. task[w][i].st \in {"todo", "sending"}
  BY DEF Ordered, Queued, StartPublish
<1>2. i \in Group(w, j)
  BY <1>1 DEF Group, Batch, SameKey
<1> QED
  BY <1>1, <1>2 DEF StartPublish, Turn

\* A claimed message is queued behind everything unsettled of its key.
LEMMA ClaimQueued ==
  ASSUME Sound, Fresh, AckedAccepted, StrictOrdering,
         NEW w \in Workers, ClaimBatch(w), NEW j \in ClaimSet(rows), NEW i \in Ids,
         i < j, SameKey(rows, i, j), ~Settled(i)
  PROVE  task'[w][i].st = "todo"
<1>1. rows \in Table
  BY DEF Sound, SoundTable
<1>2. j \in Ids /\ rows[j].status = "pending"
  BY DEF ClaimSet, FirstIds, Candidates, Claimable
<1>3. rows[i].status # "absent"
  BY <1>2 DEF Fresh
<1>4. rows[i].status \notin {"done", "deleted", "dead"}
  BY DEF Settled, AckedAccepted, NoneLost
<1>5. rows[i].status = "pending"
  BY <1>1, <1>3, <1>4 DEF Table, Row, Status
<1>6. i \in ClaimSet(rows)
  BY <1>1, <1>5, ClaimSetPrefix
<1> QED
  BY <1>6 DEF ClaimBatch, Sound, TypeOK, NoTask

\* The order of a key is kept.
LEMMA OrderedStep ==
  ASSUME Sound, Fresh, AckedAccepted, StrictOrdering, Ordered, [Next]_vars
  PROVE  Ordered'
<1>1. ASSUME NEW j \in Ids, rows[j].status # "absent", Clear(j)
      PROVE  Clear(j)'
  BY <1>1, SameKeyStep DEF Clear
<1>2. ASSUME NEW w \in Workers, NEW j \in Ids, task[w][j].st = "sending"
      PROVE  Clear(j) /\ rows[j].status # "absent"
  BY <1>2 DEF Ordered, Fresh
<1>3. ASSUME NEW j \in accepted' \cup wire'
      PROVE  Clear(j)'
  <2>1. CASE j \in accepted \cup wire
    <3>1. j \in Ids /\ rows[j].status # "absent" /\ Clear(j)
      BY <2>1 DEF Ordered, Fresh, Sound, TypeOK
    <3> QED
      BY <1>1, <3>1
  <2>2. CASE j \in Ids /\ \E w \in Workers : task[w][j].st = "sending"
    BY <1>1, <1>2, <2>2
  <2> QED
    BY <1>3, <2>1, <2>2, AcceptedStep
<1>4. ASSUME NEW w \in Workers, NEW j \in Ids, task'[w][j].st = "sending"
      PROVE  Clear(j)'
  <2>1. TaskStep(w, j)
    BY TasksStep
  <2>2. CASE task[w][j].st = "sending"
    BY <1>1, <1>2, <2>2
  <2>3. CASE task[w][j].st = "todo" /\ StartPublish(w, j)
    <3>1. Clear(j) /\ rows[j].status # "absent"
      BY <2>3, TurnClear DEF Fresh
    <3> QED
      BY <1>1, <3>1
  <2> QED
    BY <1>4, <2>1, <2>2, <2>3 DEF TaskStep
<1>5. ASSUME NEW w \in Workers, NEW j \in Ids, task'[w][j].st = "todo"
      PROVE  Queued(w, j)'
  <2> SUFFICES ASSUME NEW i \in Ids, i < j, SameKey(rows', i, j)
               PROVE  Settled(i)' \/ task'[w][i].st \in {"todo", "sending"}
    BY DEF Queued
  <2>1. TaskStep(w, j)
    BY TasksStep
  <2>2. CASE task[w][j].st = "todo"
    <3>1. rows[j].status # "absent"
      BY <2>2 DEF Fresh
    <3>2. SameKey(rows, i, j) /\ (Settled(i) => Settled(i)')
      BY <3>1, SameKeyStep
    <3>3. Settled(i) \/ task[w][i].st \in {"todo", "sending"}
      BY <2>2, <3>2 DEF Ordered, Queued
    <3>4. i \in accepted' => Settled(i)'
      BY DEF Settled
    <3> QED
      BY <1>5, <2>2, <3>2, <3>3, <3>4, QueueStep
  <2>3. CASE ClaimBatch(w) /\ j \in ClaimSet(rows)
    <3>1. rows[j].status # "absent"
      BY <2>3 DEF ClaimSet, FirstIds, Candidates, Claimable
    <3>2. SameKey(rows, i, j) /\ (Settled(i) => Settled(i)')
      BY <3>1, SameKeyStep
    <3> QED
      BY <2>3, <3>2, ClaimQueued
  <2> QED
    BY <1>5, <2>1, <2>2, <2>3 DEF TaskStep
<1> QED
  BY <1>3, <1>4, <1>5 DEF Ordered

\* Every step keeps the delivery invariant.
LEMMA DeliveryStep == DeliveryInv /\ [Next]_vars => DeliveryInv'
  BY SoundStep, FreshStep, AckedStep, OrderedStep DEF DeliveryInv

\* The invariant holds in every behaviour.
THEOREM DeliveryInvariant == Spec => []DeliveryInv
  BY DeliveryInit, DeliveryStep, PTL DEF Spec

(***************************************************************************)
(* With strict ordering, first deliveries follow the insertion order of    *)
(* their key: across retries, workers, expired leases, crashes, and calls  *)
(* and publishes that take effect late.                                    *)
(***************************************************************************)
THEOREM FirstDeliveryInOrder == Spec => []FirstDeliveryOrder
<1>1. DeliveryInv => FirstDeliveryOrder
  BY DEF DeliveryInv, Ordered, Clear, Settled, FirstDeliveryOrder
<1> QED
  BY <1>1, DeliveryInvariant, PTL

(***************************************************************************)
(* At least once: no row is done or deleted that the broker did not        *)
(* accept, whatever is cancelled, crashes or is written back late.         *)
(***************************************************************************)
THEOREM NothingLost == Spec => []NoneLost
<1>1. DeliveryInv => NoneLost
  BY DEF DeliveryInv, AckedAccepted
<1> QED
  BY <1>1, DeliveryInvariant, PTL

-----------------------------------------------------------------------------
(* The relays implement DeliveryContract.  A first delivery, an ack, a     *)
(* dead letter and an insertion are steps of the contract; everything else *)
(* is invisible.  The invariant above supplies the guards.                 *)


Keymap == [i \in Ids |-> rows[i].key]
Verdicts == [i \in Ids |-> Verdict(i)]

\* Nothing that the contract knows of changes.
Invisible == Keymap' = Keymap /\ Verdicts' = Verdicts /\ accepted' = accepted

\* A step that changes no key, no verdict and nothing accepted is invisible.
LEMMA InvisibleStutters == Invisible => UNCHANGED Contract!vars
  BY DEF Invisible, Keymap, Verdicts, Contract!vars

\* A message that is being published, or was and is still on its way, may be delivered.
LEMMA DeliverAllowed ==
  ASSUME DeliveryInv, NEW i \in Ids,
         i \in wire \/ \E w \in Workers : task[w][i].st = "sending",
         rows' = rows, accepted' = accepted \cup {i}
  PROVE  Contract!Deliver(i)
<1>1. rows[i].status # "absent"
  BY DEF DeliveryInv, Fresh
<1>2. StrictOrdering => Clear(i)
  BY DEF DeliveryInv, Ordered
<1>3. Verdicts[i] # "absent"
  BY <1>1 DEF Verdicts, Verdict
<1>4. StrictOrdering =>
        \A j \in Ids : j < i /\ Keymap[j] # NULL /\ Keymap[j] = Keymap[i] =>
                         j \in accepted \/ Verdicts[j] = "dead"
  BY <1>2 DEF Clear, Settled, SameKey, Keymap, Verdicts, Verdict
<1>5. Keymap' = Keymap /\ Verdicts' = Verdicts
  BY DEF Keymap, Verdicts, Verdict
<1> QED
  BY <1>3, <1>4, <1>5 DEF Contract!Deliver, Contract!Ids, Ids, Keymap, Verdicts

\* Executing a write-back confirms, parks or is invisible.
LEMMA ExecuteAllowed ==
  ASSUME Sound, NEW c \in Call, rows' = Execute(rows, c), accepted' = accepted,
         c.op = "ack" => c.ids \subseteq accepted
  PROVE  Contract!Next \/ Invisible
<1> DEFINE S == {i \in Ids : rows[i].status = "pending" /\ rows'[i].status # "pending"}
<1>1. \A i \in Ids : /\ rows'[i].key = rows[i].key
                     /\ i \notin S => rows'[i].status = rows[i].status
                     /\ i \in S => /\ i \in c.ids
                                   /\ \/ c.op = "ack" /\ rows'[i].status \in {"done", "deleted"}
                                      \/ c.op = "dead_letter" /\ rows'[i].status = "dead"
  BY ExecuteEffect DEF Sound
<1>2. Keymap' = Keymap
  BY <1>1 DEF Keymap
<1>3. \A i \in S : Verdicts[i] = "pending"
  BY DEF Verdicts, Verdict
<1>4. S \in SUBSET Ids
  OBVIOUS
<1>5. CASE c.op = "ack"
  <2>1. Verdicts' = [i \in Ids |-> IF i \in S THEN "delivered" ELSE Verdicts[i]]
    BY <1>1, <1>5 DEF Verdicts, Verdict
  <2>2. S \subseteq accepted
    BY <1>1, <1>5
  <2> HIDE DEF S
  <2>3. Contract!Confirm(S)
    BY <1>2, <1>3, <2>1, <2>2
       DEF Contract!Confirm, Contract!Settle, Contract!Ids, Ids, Keymap, Verdicts
  <2> QED
    BY <1>4, <2>3 DEF Contract!Next, Contract!Ids, Ids
<1>6. CASE c.op = "dead_letter"
  <2>1. Verdicts' = [i \in Ids |-> IF i \in S THEN "dead" ELSE Verdicts[i]]
    BY <1>1, <1>6 DEF Verdicts, Verdict
  <2> HIDE DEF S
  <2>2. Contract!Park(S)
    BY <1>2, <1>3, <2>1
       DEF Contract!Park, Contract!Settle, Contract!Ids, Ids, Keymap, Verdicts
  <2> QED
    BY <1>4, <2>2 DEF Contract!Next, Contract!Ids, Ids
<1>7. CASE c.op \notin {"ack", "dead_letter"}
  <2>1. Verdicts' = Verdicts
    BY <1>1, <1>7 DEF Verdicts, Verdict
  <2> QED
    BY <1>2, <2>1 DEF Invisible
<1> QED
  BY <1>5, <1>6, <1>7

\* Every step of the relays is a step of the contract or invisible.
LEMMA ContractStep == DeliveryInv /\ [Next]_vars => [Contract!Next]_(Contract!vars)
<1> SUFFICES ASSUME DeliveryInv, [Next]_vars PROVE Contract!Next \/ Invisible
  BY InvisibleStutters
<1>0. Sound /\ TypeOK /\ SoundTable(rows)
  BY DEF DeliveryInv, Sound
<1>1. ASSUME rows' = rows, accepted' = accepted
      PROVE  Invisible
  BY <1>1 DEF Invisible, Keymap, Verdicts, Verdict
<1>2. ASSUME NEW i \in Ids, Contract!Deliver(i)
      PROVE  Contract!Next
  BY <1>2 DEF Contract!Next, Contract!Ids, Ids
<1>3. ASSUME NEW i \in Ids, NEW k \in Keys \cup {NULL}, Produce(i, k)
      PROVE  Contract!Next
  <2>1. /\ rows' = [rows EXCEPT ![i] = [Absent EXCEPT !.status = "pending", !.key = k]]
        /\ rows \in [Ids -> Row] /\ accepted' = accepted
        /\ rows[i].status = "absent" /\ \A j \in Ids : j < i => rows[j].status # "absent"
    BY <1>0, <1>3 DEF Produce, NextId, Insert, SoundTable, Table
  <2>2. /\ rows'[i].status = "pending" /\ rows'[i].key = k
        /\ \A j \in Ids : j # i => rows'[j] = rows[j]
    BY <2>1 DEF Absent
  <2>3. Keymap' = [Keymap EXCEPT ![i] = k] /\ Verdicts' = [Verdicts EXCEPT ![i] = "pending"]
    BY <2>2 DEF Keymap, Verdicts, Verdict
  <2>4. Verdicts[i] = "absent" /\ \A j \in Ids : j < i => Verdicts[j] # "absent"
    BY <2>1 DEF Verdicts, Verdict
  <2>5. Contract!Submit(i, k)
    BY <2>1, <2>3, <2>4 DEF Contract!Submit, Contract!Ids, Ids, Keymap, Verdicts
  <2> QED
    BY <2>5 DEF Contract!Next, Contract!Ids, Ids
<1>4. ASSUME NEW old \in SUBSET Ids, PurgeDone(old)
      PROVE  Invisible
  BY <1>0, <1>4, PurgeEffect DEF PurgeDone, Invisible, Keymap, Verdicts, Verdict
<1>5. ASSUME NEW w \in Workers, ClaimNext(w), accepted' = accepted
      PROVE  Invisible
  BY <1>0, <1>5, ClaimEffect DEF ClaimNext, Invisible, Keymap, Verdicts, Verdict
<1>6. ASSUME Tick
      PROVE  Invisible
  BY <1>0, <1>6, ElapseEffect DEF Tick, Invisible, Keymap, Verdicts, Verdict
<1>7. ASSUME NEW w \in Workers, NEW i \in Ids, PublishOk(w, i)
      PROVE  Contract!Next
  BY <1>2, <1>7, DeliverAllowed DEF PublishOk, Accept
<1>8. ASSUME NEW i \in Ids, Arrive(i)
      PROVE  Contract!Next
  BY <1>2, <1>8, DeliverAllowed DEF Arrive, Accept
<1>9. ASSUME NEW w \in Workers, NEW c \in InFlight(w), Report(w, c)
      PROVE  Contract!Next \/ Invisible
  <2>1. c \in Call /\ (c.op = "ack" => \A i \in c.ids : task[w][i].st = "sent")
    BY <1>0, InFlightCalls
  <2>2. c.op = "ack" => c.ids \subseteq accepted
    BY <2>1 DEF Call, DeliveryInv, AckedAccepted
  <2> QED
    BY <1>0, <1>9, <2>1, <2>2, ExecuteAllowed DEF Report
<1>10. ASSUME NEW c \in late, ExecuteLate(c)
       PROVE  Contract!Next \/ Invisible
  <2>1. c \in Call /\ (c.op = "ack" => c.ids \subseteq accepted)
    BY <1>0 DEF DeliveryInv, AckedAccepted, TypeOK
  <2> QED
    BY <1>0, <1>10, <2>1, ExecuteAllowed DEF ExecuteLate
<1>11. ASSUME NEW w \in Workers, ClaimBatch(w) \/ RoundStep(w) \/ FaultStep(w) \/ Restart(w)
       PROVE  Contract!Next \/ Invisible
  BY <1>1, <1>5, <1>7, <1>9, <1>11
     DEF ClaimBatch, RoundStep, FaultStep, Restart, StartPublish, PublishRaises, ClaimLost,
         PublishTimeout, ReportError, CancelRound,
         PublishCancelled, Crash
<1> QED
  BY <1>1, <1>3, <1>4, <1>6, <1>8, <1>10, <1>11 DEF Next, vars, LoseLate

(***************************************************************************)
(* The relays, with all their workers, leases, retries and faults, keep    *)
(* the contract the application relies on.                                 *)
(***************************************************************************)
THEOREM ContractKept == Spec => KeepsContract
<1>1. Init => Contract!Init
  <2> SUFFICES ASSUME Init PROVE Contract!Init
    OBVIOUS
  <2>1. /\ Keymap = [i \in Ids |-> NULL] /\ Verdicts = [i \in Ids |-> "absent"]
        /\ accepted = {}
    BY DEF Init, EmptyTable, Absent, Keymap, Verdicts, Verdict
  <2> QED
    BY <2>1 DEF Contract!Init, Contract!Ids, Ids, Keymap, Verdicts
<1> QED
  BY <1>1, ContractStep, DeliveryInvariant, PTL DEF Spec, KeepsContract, Contract!Spec

-----------------------------------------------------------------------------
(***************************************************************************)
(* Leases and verdicts: a lease that runs is fenced, and a message is dead *)
(* only after max_attempts claims.                                         *)
(*                                                                         *)
(* The second rests on the credit of a row: its attempts, plus one if the  *)
(* row has no lease.  claim turns the extra one into an attempt, release   *)
(* turns an attempt back, and nothing else touches it, so the credit never *)
(* falls below the attempts any worker ever read.                          *)
(***************************************************************************)

\* A step that takes away a lease that runs executes a call its holder issued.
LEMMA LeaseStep ==
  ASSUME Sound, [Next]_vars, NEW i \in Ids, NEW w \in Workers,
         rows[i].leased_by = w, rows[i].lease_until > 0, rows'[i].leased_by # w
  PROVE  \E c \in InFlight(w) \cup late : c.worker_id = w /\ i \in c.ids
<1> USE DEF Sound
<1>1. w # NULL /\ rows[i].status = "pending"
  BY TableAssumption DEF SoundTable
<1>2. ASSUME NEW c \in Call, rows' = Execute(rows, c)
      PROVE  c.worker_id = w /\ i \in c.ids
  BY <1>2, ExecuteEffect
<1>3. ASSUME NEW v \in Workers, NEW c \in InFlight(v), Report(v, c)
      PROVE  \E d \in InFlight(w) \cup late : d.worker_id = w /\ i \in d.ids
  BY <1>2, <1>3, InFlightCalls DEF Report
<1>4. ASSUME NEW c \in late, ExecuteLate(c)
      PROVE  \E d \in InFlight(w) \cup late : d.worker_id = w /\ i \in d.ids
  BY <1>2, <1>4 DEF ExecuteLate, TypeOK
<1>5. ASSUME NEW i0 \in Ids, NEW k \in Keys \cup {NULL}, Produce(i0, k)
      PROVE  FALSE
  BY <1>1, <1>5, InsertEffect DEF Produce, NextId
<1>6. ASSUME NEW old \in SUBSET Ids, PurgeDone(old)
      PROVE  FALSE
  BY <1>6, PurgeEffect DEF PurgeDone
<1>7. ASSUME NEW v \in Workers, ClaimNext(v)
      PROVE  FALSE
  BY <1>7, ClaimEffect DEF ClaimNext
<1>8. ASSUME Tick
      PROVE  FALSE
  BY <1>8, ElapseEffect DEF Tick
<1>9. rows' # rows
  OBVIOUS
<1> QED
  BY <1>3, <1>4, <1>5, <1>6, <1>7, <1>8, <1>9
     DEF Next, vars, ClaimBatch, RoundStep, FaultStep, Restart, LoseLate, Arrive, StartPublish,
         PublishOk, PublishRaises, ClaimLost, PublishTimeout, ReportError, CancelRound,
         PublishCancelled, Crash

(***************************************************************************)
(* A lease that runs can be ended only by a call that its holder issued    *)
(* for that message.                                                       *)
(***************************************************************************)
THEOREM LeaseIsFenced == Spec => LeaseFenced
<1>1. Sound /\ [Next]_vars =>
        [\A i \in Ids, w \in Workers :
           rows[i].leased_by = w /\ rows[i].lease_until > 0 /\ rows'[i].leased_by # w =>
             \E c \in InFlight(w) \cup late : c.worker_id = w /\ i \in c.ids]_vars
  BY LeaseStep
<1> QED
  BY <1>1, SoundInit, SoundStep, PTL DEF Spec, LeaseFenced

-----------------------------------------------------------------------------

\* No worker remembers more attempts than the credit of the row, and no dead_letter is on its
\* way to a row without the credit for it.
CreditInv ==
  /\ Sound
  /\ DeadOnlyAfterMaxAttempts
  /\ \A w \in Workers, i \in Ids : task[w][i].attempts <= Credit(rows, i)
  /\ \A c \in late : c.op = "dead_letter" => \A i \in c.ids : Credit(rows, i) >= MaxAttempts

\* The attempts in a task are those of the claim, or are forgotten.
LEMMA RowAttemptsStep ==
  ASSUME Sound, [Next]_vars, NEW w \in Workers, NEW i \in Ids
  PROVE  \/ task'[w][i].attempts = task[w][i].attempts
         \/ task'[w][i].attempts = 0
         \/ ClaimBatch(w) /\ i \in ClaimSet(rows) /\ task'[w][i].attempts = rows'[i].attempts
<1> DEFINE Goal == \/ task'[w][i].attempts = task[w][i].attempts
                   \/ task'[w][i].attempts = 0
                   \/ /\ ClaimBatch(w) /\ i \in ClaimSet(rows)
                      /\ task'[w][i].attempts = rows'[i].attempts
<1> USE DEF Sound
<1>0. task[w][i] \in Task /\ NoTask.attempts = 0
  BY DEF TypeOK, NoTask
<1>1. CASE task' = task
  BY <1>1
<1>2. ASSUME NEW w0 \in Workers, NEW S, Drop(w0, S)
      PROVE  Goal
  BY <1>0, <1>2, DropStep
<1>3. ASSUME NEW w0 \in Workers, NEW i0 \in Ids, NEW d, Fail(w0, i0, d)
      PROVE  Goal
  <2> DEFINE retry == IF Exhausted(w0, i0) THEN 0 ELSE d
             rest  == {x \in Group(w0, i0) : x > i0}
             f == [j \in Ids |->
                     CASE j = i0      -> [task[w0][j] EXCEPT !.st = "failed", !.retry_at = retry]
                       [] j \in rest  -> [NoTask EXCEPT !.st = "held", !.retry_at = retry]
                       [] OTHER       -> task[w0][j]]
  <2>1. task' = [task EXCEPT ![w0] = f]
    BY <1>3 DEF Fail, TypeOK
  <2> HIDE DEF retry, rest
  <2>2. [NoTask EXCEPT !.st = "held", !.retry_at = retry].attempts = 0
    BY DEF NoTask
  <2>3. task[w0][i] \in Task
    BY DEF TypeOK
  <2>4. [task[w0][i] EXCEPT !.st = "failed", !.retry_at = retry].attempts = task[w0][i].attempts
    BY <2>3 DEF Task
  <2>5. f[i].attempts \in {0, task[w0][i].attempts}
    BY <2>2, <2>4
  <2> HIDE DEF f
  <2>6. task'[w] = IF w = w0 THEN f ELSE task[w]
    BY <2>1 DEF TypeOK
  <2> QED
    BY <2>5, <2>6
<1>4. ASSUME NEW w0 \in Workers, ClaimBatch(w0)
      PROVE  Goal
  <2>1. CASE w = w0 /\ i \in ClaimSet(rows)
    BY <1>4, <2>1 DEF ClaimBatch, TypeOK, NoTask
  <2>2. CASE ~(w = w0 /\ i \in ClaimSet(rows))
    BY <1>0, <1>4, <2>2 DEF ClaimBatch, TypeOK
  <2> QED
    BY <2>1, <2>2
<1>5. ASSUME NEW w0 \in Workers, NEW i0 \in Ids, StartPublish(w0, i0)
      PROVE  Goal
  BY <1>0, <1>5 DEF StartPublish, TypeOK, Task
<1>6. ASSUME NEW w0 \in Workers, NEW i0 \in Ids, PublishOk(w0, i0)
      PROVE  Goal
  BY <1>0, <1>6 DEF PublishOk, TypeOK, NoTask
<1>7. ASSUME Tick
      PROVE  Goal
  BY <1>0, <1>7 DEF Tick, Task
<1>8. ASSUME NEW w0 \in Workers, RoundStep(w0) \/ FaultStep(w0)
      PROVE  Goal
  BY <1>1, <1>2, <1>3, <1>5, <1>6, <1>8
     DEF RoundStep, FaultStep, PublishRaises, Report, ClaimLost, PublishTimeout, ReportError,
         CancelRound, PublishCancelled, Crash
<1> QED
  BY <1>1, <1>4, <1>7, <1>8
     DEF Next, vars, Produce, PurgeDone, Restart, ExecuteLate, LoseLate, Arrive

\* Rows become dead only with the credit for it.
LEMMA DeadStep ==
  ASSUME CreditInv, [Next]_vars, NEW i \in Ids,
         rows[i].status = "pending", rows'[i].status = "dead"
  PROVE  rows'[i].attempts >= MaxAttempts
<1> USE DEF Sound
<1> Sound
  BY DEF CreditInv
<1>1. ASSUME NEW c \in Call, rows' = Execute(rows, c)
      PROVE  c.op = "dead_letter" /\ i \in c.ids /\ rows'[i].attempts = Credit(rows, i)
  BY <1>1, ExecuteEffect
<1>2. ASSUME NEW w \in Workers, NEW c \in InFlight(w), Report(w, c)
      PROVE  rows'[i].attempts >= MaxAttempts
  <2>1. c \in Call /\ rows' = Execute(rows, c)
    BY <1>2, InFlightCalls DEF Report
  <2>2. c.op = "dead_letter" /\ i \in c.ids /\ rows'[i].attempts = Credit(rows, i)
    BY <1>1, <2>1
  <2>3. task[w][i].attempts >= MaxAttempts
    BY <1>2, <2>2, InFlightCalls
  <2>4. task[w][i].attempts <= Credit(rows, i)
    BY DEF CreditInv
  <2>5. task[w][i].attempts \in Nat /\ Credit(rows, i) \in Nat
    BY CreditNat DEF TypeOK, Task
  <2> QED
    BY <2>2, <2>3, <2>4, <2>5, RelayAssumption
<1>3. ASSUME NEW c \in late, ExecuteLate(c)
      PROVE  rows'[i].attempts >= MaxAttempts
  BY <1>1, <1>3 DEF ExecuteLate, CreditInv, TypeOK
<1>4. ASSUME NEW i0 \in Ids, NEW k \in Keys \cup {NULL}, Produce(i0, k)
      PROVE  FALSE
  BY <1>4, InsertEffect DEF Produce, NextId
<1>5. ASSUME NEW old \in SUBSET Ids, PurgeDone(old)
      PROVE  FALSE
  BY <1>5, PurgeEffect DEF PurgeDone
<1>6. ASSUME NEW w \in Workers, ClaimNext(w)
      PROVE  FALSE
  BY <1>6, ClaimEffect DEF ClaimNext
<1>7. ASSUME Tick
      PROVE  FALSE
  BY <1>7, ElapseEffect DEF Tick
<1>8. rows' # rows
  OBVIOUS
<1> QED
  BY <1>2, <1>3, <1>4, <1>5, <1>6, <1>7, <1>8
     DEF Next, vars, ClaimBatch, RoundStep, FaultStep, Restart, LoseLate, Arrive, StartPublish,
         PublishOk, PublishRaises, ClaimLost, PublishTimeout, ReportError, CancelRound,
         PublishCancelled, Crash

\* Every step keeps the attempts that rounds and late calls rely on.
LEMMA CreditStep == CreditInv /\ [Next]_vars => CreditInv'
<1> SUFFICES ASSUME CreditInv, [Next]_vars PROVE CreditInv'
  OBVIOUS
<1>1. Sound /\ Sound'
  BY SoundStep DEF CreditInv
<1>2. \A i \in Ids : RowStep(i) /\ Credit(rows, i) \in Nat /\ Credit(rows', i) \in Nat
  BY <1>1, RowsStep, CreditNat DEF Sound
<1>3. ASSUME NEW i \in Ids, rows'[i].status = "dead"
      PROVE  rows'[i].attempts >= MaxAttempts
  <2>1. CASE rows[i].status = "pending"
    BY <1>3, <2>1, DeadStep
  <2>2. CASE rows[i].status = "dead"
    <3>1. rows[i].leased_by = NULL /\ rows'[i].leased_by = NULL
      BY <1>1, <1>3, <2>2 DEF Sound, SoundTable
    <3>2. Credit(rows, i) = rows[i].attempts + 1 /\ Credit(rows', i) = rows'[i].attempts + 1
      BY <3>1 DEF Credit
    <3>3. rows[i].attempts \in Nat /\ rows'[i].attempts \in Nat
      BY <1>1, RowNumbers DEF Sound, SoundTable, Table
    <3>4. rows[i].attempts >= MaxAttempts
      BY <2>2 DEF CreditInv, DeadOnlyAfterMaxAttempts
    <3> QED
      BY <1>2, <3>2, <3>3, <3>4, RelayAssumption DEF RowStep
  <2> QED
    BY <1>2, <1>3, <2>1, <2>2 DEF RowStep
<1>4. ASSUME NEW w \in Workers, NEW i \in Ids
      PROVE  task'[w][i].attempts <= Credit(rows', i)
  <2>1. task[w][i].attempts <= Credit(rows, i) /\ task[w][i].attempts \in Nat
    BY <1>1 DEF CreditInv, Sound, TypeOK, Task
  <2>2. CASE task'[w][i].attempts \in {0, task[w][i].attempts}
    BY <1>2, <2>1, <2>2 DEF RowStep
  <2>3. CASE ClaimBatch(w) /\ i \in ClaimSet(rows) /\ task'[w][i].attempts = rows'[i].attempts
    <3>1. Credit(rows', i) = rows'[i].attempts
      BY <1>1, <2>3, ClaimEffect DEF ClaimBatch, ClaimNext, Sound
    <3> QED
      BY <1>2, <2>3, <3>1
  <2> QED
    BY <1>1, <2>2, <2>3, RowAttemptsStep
<1>5. ASSUME NEW c \in late', c.op = "dead_letter", NEW i \in c.ids
      PROVE  Credit(rows', i) >= MaxAttempts
  <2>1. i \in Ids
    BY <1>1, <1>5 DEF Sound, TypeOK, Call
  <2>2. Credit(rows, i) >= MaxAttempts
    <3>1. CASE \E b \in late : c.op = b.op /\ c.ids = b.ids
      BY <1>5, <3>1 DEF CreditInv
    <3>2. CASE \E w \in Workers : c \in InFlight(w)
      <4>1. PICK w \in Workers : c \in InFlight(w)
        BY <3>2
      <4>2. task[w][i].attempts >= MaxAttempts
        BY <1>1, <1>5, <4>1, InFlightCalls DEF Sound
      <4>3. task[w][i].attempts <= Credit(rows, i) /\ task[w][i].attempts \in Nat
        BY <1>1, <2>1 DEF CreditInv, Sound, TypeOK, Task
      <4> QED
        BY <1>2, <2>1, <4>2, <4>3, RelayAssumption
    <3> QED
      BY <1>1, <3>1, <3>2, LateStep
  <2> QED
    BY <1>2, <2>1, <2>2, RelayAssumption DEF RowStep
<1> QED
  BY <1>1, <1>3, <1>4, <1>5 DEF CreditInv, DeadOnlyAfterMaxAttempts

(***************************************************************************)
(* A message is parked only after max_attempts claims, although the        *)
(* decision is taken on the attempts read at the claim and executed        *)
(* later, possibly under another lease of the same worker.                 *)
(***************************************************************************)
THEOREM DeadAfterMaxAttempts == Spec => []DeadOnlyAfterMaxAttempts
<1>1. Init => CreditInv
  <2> SUFFICES ASSUME Init PROVE CreditInv
    OBVIOUS
  <2>1. Sound /\ late = {}
    BY SoundInit DEF Init
  <2>2. \A i \in Ids : rows[i].status = "absent" /\ Credit(rows, i) \in Nat
    BY <2>1, CreditNat DEF Init, EmptyTable, Absent, Sound
  <2>3. \A w \in Workers, i \in Ids : task[w][i].attempts = 0
    BY DEF Init, NoTask
  <2> QED
    BY <2>1, <2>2, <2>3 DEF CreditInv, DeadOnlyAfterMaxAttempts
<1>2. CreditInv => DeadOnlyAfterMaxAttempts
  BY DEF CreditInv
<1> QED
  BY <1>1, <1>2, CreditStep, PTL DEF Spec

=============================================================================
