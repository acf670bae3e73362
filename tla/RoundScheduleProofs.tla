------------------------ MODULE RoundScheduleProofs ------------------------
(***************************************************************************)
(* The two bounds on the length of a round, for every batch, concurrency   *)
(* and timeout.                                                            *)
(*                                                                         *)
(* Both count what Concurrency groups must have done while some group was  *)
(* kept waiting.  RoundBounded counts ticks of publishing: there are at    *)
(* most Timeout for each message, and a tick contributes Concurrency of    *)
(* them as long as a group waits, at least one afterwards.                 *)
(* HangingRoundBounded counts groups: if a group publishes at most one     *)
(* message, then within each Timeout ticks Concurrency more groups end.    *)
(***************************************************************************)
EXTENDS RoundSchedule, FiniteSetTheorems, TLAPS

\* The types; no publish is older than Timeout.
TypeInv ==
  /\ key \in [Msgs -> Keys \cup {NULL}]
  /\ stage \in [Msgs -> {"todo", "sending", "sent", "failed", "held"}]
  /\ age \in [Msgs -> 0..Timeout]
  /\ clock \in Nat

\* The stages of two messages of a group, the first of them first.
Follows(s, t) ==
  /\ t \in {"sending", "sent", "failed"} => s = "sent"
  /\ t = "todo" => s \in {"todo", "sending", "sent"}
  /\ t = "held" => s \in {"sent", "failed", "held"}

\* A group is published one message after another, up to the first failure.
Sequential ==
  /\ \A i \in Msgs : stage[i] = "todo" => age[i] = 0
  /\ \A i \in Msgs : \A j \in Group(i) : j < i => Follows(stage[j], stage[i])

\* Some group has not got into the semaphore yet.
SomeWaits == \E i \in Msgs : ~Started(Group(i))

\* The ticks of publishing so far, and those of one group.
Work == {w \in Msgs \X (1..Timeout) : w[2] <= age[w[1]]}
WorkOf(g) == {w \in g \X (1..Timeout) : w[2] <= age[w[1]]}

\* What a round that had one group running all the time would need to be that long.
Explains(g) == Concurrency * clock <= Cardinality(Work) + (Concurrency - 1) * Cardinality(WorkOf(g))

\* While a group waits Concurrency of them publish; then those that still run explain the
\* time, and at the end the last of them does.
WorkInv ==
  /\ SomeWaits => Concurrency * clock <= Cardinality(Work)
  /\ \A g \in Running : Explains(g)
  /\ \E g \in Groups : Explains(g)

\* The groups that have ended, or whose publish has gone on for k ticks.
Past(k) ==
  {g \in Groups : Started(g) /\ (Finished(g) \/ \E i \in g : stage[i] = "sending" /\ age[i] >= k)}

\* A group publishes one message at most.
Single == (\A i \in Msgs : stage[i] # "sent") \/ (\A i \in Msgs : key[i] = NULL)

\* Each Timeout ticks that a group waits, Concurrency others pass.
WavesPass ==
  SomeWaits => \A m \in Nat, r \in 1..Timeout :
                 clock = m * Timeout + r => Cardinality(Past(r)) >= Concurrency * (m + 1)

\* A publish began early enough to end within the bound.
BeganInTime ==
  \A i \in Msgs : stage[i] = "sending" =>
    clock - age[i] <= (Ceil(BatchSize, Concurrency) - 1) * Timeout

\* What HangingRoundBounded rests on.
WaveInv == Single => WavesPass /\ BeganInTime /\ clock <= WorstCaseRound

\* The inductive invariant.
SchedInv == TypeInv /\ Sequential /\ WorkInv /\ WaveInv

-----------------------------------------------------------------------------
(* Sets of naturals, and the batch.                                        *)

\* A set of naturals has a least element.
LEMMA Least ==
  ASSUME NEW S \in SUBSET Nat, S # {}
  PROVE  \E x \in S : \A y \in S : x <= y
<1> DEFINE R == StrictSubsetOrdering(Nat)
           F == FiniteSubsetsOf(Nat)
           T == {0..x : x \in S}
<1>1. T \subseteq F /\ T # {}
  <2>1. \A x \in S : 0..x \in SUBSET Nat /\ IsFiniteSet(0..x)
    BY FS_Interval
  <2> QED
    BY <2>1 DEF FiniteSubsetsOf
<1>2. PICK u \in T : \A v \in T : ~ (<<v, u>> \in R)
  <2>1. IsWellFoundedOn(R, F)
    BY FS_StrictSubsetOrderingWellFounded
  <2> HIDE DEF R, F, T
  <2> QED
    BY <1>1, <2>1, WFMin
<1>3. PICK x \in S : u = 0..x
  BY <1>2
<1>4. ASSUME NEW y \in S, y < x
      PROVE  FALSE
  <2>1. 0..y \in SUBSET Nat /\ 0..x \in SUBSET Nat /\ 0..y \subseteq 0..x
    BY <1>4
  <2>2. x \in 0..x /\ x \notin 0..y
    BY <1>4
  <2>3. <<0..y, 0..x>> \in R
    BY <2>1, <2>2 DEF StrictSubsetOrdering
  <2> QED
    BY <1>2, <1>3, <2>3
<1> QED
  BY <1>4

\* The maximum of a bounded set of naturals is one.
LEMMA MaxIsMax ==
  ASSUME NEW S \in SUBSET Nat, S # {}, NEW n \in Nat, \A x \in S : x <= n
  PROVE  Max(S) \in S /\ \A x \in S : x <= Max(S)
<1> DEFINE D == {d \in Nat : n - d \in S}
<1>1. D \in SUBSET Nat /\ D # {}
  <2>1. PICK x \in S : x \in Nat /\ x <= n
    OBVIOUS
  <2>2. n - x \in Nat /\ n - (n - x) = x
    BY <2>1
  <2> QED
    BY <2>1, <2>2
<1>2. PICK d \in D : \A e \in D : d <= e
  BY <1>1, Least
<1>3. ASSUME NEW x \in S
      PROVE  n - d >= x
  <2>1. n - x \in D
    <3>1. n - x \in Nat /\ n - (n - x) = x
      OBVIOUS
    <3> QED
      BY <3>1
  <2>2. d <= n - x
    BY <1>2, <2>1
  <2> QED
    BY <2>2
<1>4. \E x \in S : \A y \in S : x >= y
  BY <1>2, <1>3
<1>5. Max(S) \in S /\ \A x \in S : Max(S) >= x
  BY <1>4 DEF Max
<1> QED
  BY <1>5

\* The batch is finite.
LEMMA MsgsFinite == IsFiniteSet(Msgs) /\ Cardinality(Msgs) = BatchSize /\ Msgs \subseteq Nat
  BY FS_Interval, ScheduleAssumption DEF Msgs

\* The groups partition the batch.
LEMMA GroupOf ==
  /\ \A i \in Msgs : i \in Group(i) /\ Group(i) \in Groups /\ Group(i) \subseteq Msgs
  /\ \A i \in Msgs : \A j \in Group(i) : Group(j) = Group(i)
  /\ \A g \in Groups : \A i \in g : i \in Msgs /\ g = Group(i)
<1>1. \A i \in Msgs : i \in Group(i) /\ Group(i) \in Groups /\ Group(i) \subseteq Msgs
  BY DEF Group, Groups
<1>2. \A i \in Msgs : \A j \in Group(i) : Group(j) = Group(i)
  BY DEF Group
<1>3. \A g \in Groups : \A i \in g : i \in Msgs /\ g = Group(i)
  BY <1>1, <1>2 DEF Groups
<1> QED
  BY <1>1, <1>2, <1>3

\* There are no more groups than messages, and none is larger than the batch.
LEMMA GroupsFinite ==
  /\ IsFiniteSet(Groups) /\ Cardinality(Groups) <= BatchSize /\ Groups # {}
  /\ \A g \in Groups : IsFiniteSet(g) /\ Cardinality(g) \in 0..BatchSize
  /\ IsFiniteSet(Running) /\ Cardinality(Running) \in Nat
<1> DEFINE f == [i \in Msgs |-> Group(i)]
<1>1. f \in Surjection(Msgs, Groups)
  BY DEF Surjection, Groups
<1>2. IsFiniteSet(Groups) /\ Cardinality(Groups) <= BatchSize
  BY <1>1, MsgsFinite, FS_Surjection
<1>3. ASSUME NEW g \in Groups
      PROVE  IsFiniteSet(g) /\ Cardinality(g) \in 0..BatchSize
  <2>1. g \in SUBSET Msgs
    BY GroupOf
  <2>2. IsFiniteSet(g) /\ Cardinality(g) <= BatchSize
    BY <2>1, MsgsFinite, FS_Subset
  <2> QED
    BY <2>2, FS_CardinalityType, ScheduleAssumption
<1>4. Running \in SUBSET Groups
  BY DEF Running
<1>5. IsFiniteSet(Running) /\ Cardinality(Running) \in Nat
  BY <1>2, <1>4, FS_Subset, FS_CardinalityType
<1>6. 1 \in Msgs
  BY ScheduleAssumption DEF Msgs
<1> QED
  BY <1>2, <1>3, <1>5, <1>6, GroupOf

-----------------------------------------------------------------------------
(* One message after another.                                              *)

\* Groups depend on keys only.
LEMMA GroupsKept ==
  ASSUME key' = key
  PROVE  (\A i \in Msgs : Group(i)' = Group(i)) /\ Groups' = Groups
<1>1. \A i \in Msgs : Group(i)' = Group(i)
  BY DEF Group, Msgs
<1>2. Groups' = Groups
  BY <1>1 DEF Groups, Msgs
<1> QED
  BY <1>1, <1>2

\* Every step keeps the types, and groups sequential.
LEMMA BaseStep ==
  ASSUME TypeInv, Sequential, [Next]_vars
  PROVE  TypeInv' /\ Sequential'
<1> USE DEF TypeInv
<1>0. Msgs' = Msgs
  BY DEF Msgs
<1>1. CASE Tick
  <2>1. key' = key /\ stage' = stage /\ clock' \in Nat
    BY <1>1 DEF Tick
  <2>2. age' \in [Msgs -> 0..Timeout]
    <3>1. \A i \in Msgs : stage[i] = "sending" => age[i] + 1 \in 0..Timeout
      BY <1>1, ScheduleAssumption DEF Tick
    <3> QED
      BY <1>1, <3>1 DEF Tick
  <2>3. \A i \in Msgs : stage[i] = "todo" => age'[i] = age[i]
    BY <1>1 DEF Tick
  <2> QED
    BY <1>0, <2>1, <2>2, <2>3, GroupsKept DEF Sequential
<1>2. ASSUME NEW i \in Msgs, StartPublish(i)
      PROVE  TypeInv' /\ Sequential'
  <2>1. key' = key /\ age' = age /\ clock' = clock
    BY <1>2 DEF StartPublish
  <2>2. stage' \in [Msgs -> {"todo", "sending", "sent", "failed", "held"}]
    BY <1>2 DEF StartPublish
  <2>3. \A a \in Msgs : stage'[a] = IF a = i THEN "sending" ELSE stage[a]
    BY <1>2 DEF StartPublish
  <2>4. stage[i] = "todo" /\ \A b \in Group(i) : b < i => stage[b] = "sent"
    BY <1>2 DEF StartPublish, CanStart
  <2>5. ASSUME NEW a \in Msgs, NEW b \in Group(a), b < a
        PROVE  Follows(stage'[b], stage'[a])
    <3>1. b \in Msgs /\ b # a
      BY <2>5, GroupOf, MsgsFinite
    <3>2. Follows(stage[b], stage[a])
      BY <2>5 DEF Sequential
    <3> QED
      BY <2>3, <2>4, <2>5, <3>1, <3>2 DEF Follows
  <2> QED
    BY <1>0, <2>1, <2>2, <2>3, <2>4, <2>5, GroupsKept DEF Sequential
<1>3. ASSUME NEW i \in Msgs, PublishOk(i)
      PROVE  TypeInv' /\ Sequential'
  <2>1. key' = key /\ age' = age /\ clock' = clock /\ stage[i] = "sending"
    BY <1>3 DEF PublishOk
  <2>2. stage' \in [Msgs -> {"todo", "sending", "sent", "failed", "held"}]
    BY <1>3 DEF PublishOk
  <2>3. \A a \in Msgs : stage'[a] = IF a = i THEN "sent" ELSE stage[a]
    BY <1>3 DEF PublishOk
  <2>4. ASSUME NEW a \in Msgs, NEW b \in Group(a), b < a
        PROVE  Follows(stage'[b], stage'[a])
    <3>1. b \in Msgs /\ b # a
      BY <2>4, GroupOf, MsgsFinite
    <3>2. Follows(stage[b], stage[a])
      BY <2>4 DEF Sequential
    <3> QED
      BY <2>1, <2>3, <3>1, <3>2 DEF Follows
  <2> QED
    BY <1>0, <2>1, <2>2, <2>3, <2>4, GroupsKept DEF Sequential
<1>4. ASSUME NEW i \in Msgs, PublishFails(i)
      PROVE  TypeInv' /\ Sequential'
  <2>1. key' = key /\ age' = age /\ clock' = clock /\ stage[i] = "sending"
    BY <1>4 DEF PublishFails
  <2>2. stage' \in [Msgs -> {"todo", "sending", "sent", "failed", "held"}]
    BY <1>4 DEF PublishFails
  <2>3. /\ stage'[i] = "failed"
        /\ \A a \in Msgs \ {i} : a \in Group(i) /\ a > i => stage'[a] = "held"
        /\ \A a \in Msgs \ {i} : ~ (a \in Group(i) /\ a > i) => stage'[a] = stage[a]
    <3>1. ~ (i > i)
      BY DEF Msgs
    <3>2. \A a \in Msgs : stage'[a] = CASE a = i                   -> "failed"
                                        [] a \in Group(i) /\ a > i -> "held"
                                        [] OTHER                   -> stage[a]
      BY <1>4 DEF PublishFails
    <3> QED
      BY <3>1, <3>2
  <2>4. ASSUME NEW a \in Msgs, NEW b \in Group(a), b < a
        PROVE  Follows(stage'[b], stage'[a])
    <3>1. a \in Nat /\ b \in Nat /\ i \in Nat /\ b \in Msgs /\ b # a
      BY <2>4 DEF Group, Msgs
    <3>2. Follows(stage[b], stage[a])
      BY <2>4 DEF Sequential
    <3>3. CASE a \notin Group(i)
      <4>1. b \notin Group(i) /\ a # i /\ b # i
        BY <2>4, <3>3, GroupOf
      <4> QED
        BY <2>3, <3>1, <3>2, <3>3, <4>1
    <3>4. CASE a \in Group(i)
      <4>1. b \in Group(i)
        BY <3>4, GroupOf
      <4>2. b < i => stage[b] = "sent"
        BY <2>1, <4>1 DEF Sequential, Follows
      <4>3. stage'[a] # "failed" \/ a = i
        BY <2>3, <2>1, <3>4, <3>1, GroupOf DEF Sequential, Follows
      <4> QED
        BY <2>3, <2>1, <2>4, <3>1, <3>2, <3>4, <4>1, <4>2, <4>3 DEF Follows
    <3> QED
      BY <3>3, <3>4
  <2>5. \A a \in Msgs : stage'[a] = "todo" => stage[a] = "todo"
    BY <2>3
  <2> QED
    BY <1>0, <2>1, <2>2, <2>4, <2>5, GroupsKept DEF Sequential
<1>5. CASE UNCHANGED vars
  BY <1>0, <1>5, GroupsKept DEF vars, Sequential
<1> QED
  BY <1>1, <1>2, <1>3, <1>4, <1>5 DEF Next

-----------------------------------------------------------------------------
(* The semaphore.                                                          *)

\* When time passes every group inside the semaphore is publishing, and while a group
\* waits there are as many as the semaphore admits.
LEMMA TickRunning ==
  ASSUME TypeInv, Sequential, Tick
  PROVE  /\ \A g \in Running : \E i \in g : stage[i] = "sending"
         /\ SomeWaits => Cardinality(Running) >= Concurrency
         /\ Running # {}
<1>0. \A i \in Msgs : ~CanStart(i)
  BY DEF Tick
<1>1. ASSUME NEW g \in Running, \A i \in g : stage[i] # "sending"
      PROVE  FALSE
  <2> DEFINE S == {i \in g : stage[i] = "todo"}
  <2>1. g \in Groups /\ Started(g) /\ ~Finished(g)
    BY DEF Running
  <2>2. S \in SUBSET Nat /\ S # {}
    BY <1>1, <2>1, GroupOf, MsgsFinite DEF Finished
  <2>3. PICK i \in S : \A j \in S : i <= j
    BY <2>2, Least
  <2>4. i \in Msgs /\ Group(i) = g /\ stage[i] = "todo"
    BY <2>1, GroupOf
  <2>5. ASSUME NEW j \in Group(i), j < i
        PROVE  stage[j] = "sent"
    <3>1. stage[j] \in {"todo", "sending", "sent"}
      BY <2>4, <2>5 DEF Sequential, Follows
    <3>2. j \in Nat /\ i \in Nat /\ j \notin S
      BY <2>3, <2>4, <2>5 DEF Group, Msgs
    <3> QED
      BY <1>1, <2>4, <3>1, <3>2
  <2>6. CanStart(i)
    BY <2>1, <2>4, <2>5 DEF CanStart, Admits
  <2> QED
    BY <1>0, <2>4, <2>6
<1>2. ASSUME SomeWaits
      PROVE  Cardinality(Running) >= Concurrency
  <2> DEFINE S == {i \in Msgs : ~Started(Group(i))}
  <2>1. S \in SUBSET Nat /\ S # {}
    BY <1>2, MsgsFinite DEF SomeWaits
  <2>2. PICK i \in S : \A j \in S : i <= j
    BY <2>1, Least
  <2>3. \A j \in Msgs : j < i => Started(Group(j))
    BY <2>2, MsgsFinite
  <2>4. stage[i] = "todo"
    BY GroupOf DEF Started
  <2>5. ASSUME NEW j \in Group(i), j < i
        PROVE  FALSE
    BY <2>3, <2>5, GroupOf
  <2>6. ~ (Cardinality(Running) < Concurrency)
    BY <1>0, <2>3, <2>4, <2>5 DEF CanStart, Admits
  <2> QED
    BY <2>6, GroupsFinite, ScheduleAssumption
<1>3. Running # {}
  <2>1. PICK i \in Msgs : stage[i] = "sending"
    BY DEF Tick
  <2>2. Group(i) \in Running
    BY <2>1, GroupOf DEF Running, Started, Finished
  <2> QED
    BY <2>2
<1> QED
  BY <1>1, <1>2, <1>3

-----------------------------------------------------------------------------
(* Ticks of publishing.                                                    *)

\* What a set of messages can have of them.
LEMMA TicksFinite ==
  ASSUME NEW S, IsFiniteSet(S), NEW W \in SUBSET (S \X (1..Timeout))
  PROVE  IsFiniteSet(W) /\ Cardinality(W) \in 0..(Cardinality(S) * Timeout)
<1>1. IsFiniteSet(1..Timeout) /\ Cardinality(1..Timeout) = Timeout
  BY FS_Interval, ScheduleAssumption
<1>2. IsFiniteSet(S \X (1..Timeout)) /\ Cardinality(S \X (1..Timeout)) = Cardinality(S) * Timeout
  BY <1>1, FS_Product
<1>3. IsFiniteSet(W) /\ Cardinality(W) <= Cardinality(S) * Timeout
  BY <1>2, FS_Subset
<1>4. Cardinality(W) \in Nat /\ Cardinality(S) * Timeout \in Nat
  BY <1>2, <1>3, FS_CardinalityType
<1> QED
  BY <1>3, <1>4

\* No more than Timeout ticks for each message, of the batch and of a group.
LEMMA WorkFinite ==
  /\ IsFiniteSet(Work) /\ Cardinality(Work) \in 0..(BatchSize * Timeout)
  /\ \A g \in Groups : /\ IsFiniteSet(WorkOf(g))
                      /\ Cardinality(WorkOf(g)) \in 0..(Cardinality(g) * Timeout)
<1>1. Work \in SUBSET (Msgs \X (1..Timeout))
  BY DEF Work
<1>2. \A g \in Groups : WorkOf(g) \in SUBSET (g \X (1..Timeout))
  BY DEF WorkOf
<1> QED
  BY <1>1, <1>2, MsgsFinite, GroupsFinite, TicksFinite

\* A tick is a tick of publishing for every group inside the semaphore.
LEMMA TickWork ==
  ASSUME TypeInv, Sequential, Tick, TypeInv'
  PROVE  /\ Cardinality(Work') >= Cardinality(Work) + Cardinality(Running)
         /\ \A g \in Running : Cardinality(WorkOf(g)') >= Cardinality(WorkOf(g)) + 1
<1> DEFINE New == {w \in Msgs \X (1..Timeout) : stage[w[1]] = "sending" /\ w[2] = age[w[1]] + 1}
           f == [w \in New |-> Group(w[1])]
<1>1. /\ \A i \in Msgs : age[i] \in 0..Timeout /\ age'[i] \in 0..Timeout
      /\ \A i \in Msgs : stage[i] = "sending" => age'[i] = age[i] + 1
      /\ \A i \in Msgs : stage[i] # "sending" => age'[i] = age[i]
  BY DEF Tick, TypeInv
<1>2. Msgs' = Msgs
  BY DEF Msgs
<1>3. Work \cup New \in SUBSET Work' /\ Work \cap New = {}
  BY <1>1, <1>2 DEF Work
<1>4. New \in SUBSET (Msgs \X (1..Timeout))
  OBVIOUS
<1>5. IsFiniteSet(New)
  BY <1>4, MsgsFinite, TicksFinite
<1>6. Running \in SUBSET Groups
  BY DEF Running
<1>7. ASSUME NEW g \in Running
      PROVE  \E i \in g : i \in Msgs /\ stage[i] = "sending" /\ <<i, age[i] + 1>> \in New
                       /\ Group(i) = g
  <2>1. PICK i \in g : stage[i] = "sending"
    BY TickRunning
  <2>2. i \in Msgs /\ Group(i) = g
    BY <1>6, GroupOf
  <2>3. age[i] + 1 \in 1..Timeout
    BY <1>1, <2>1, <2>2, ScheduleAssumption
  <2> QED
    BY <2>1, <2>2, <2>3
<1>8. f \in Surjection(New, Running)
  <2>1. ASSUME NEW w \in New
        PROVE  Group(w[1]) \in Running
    <3>1. w[1] \in Msgs /\ stage[w[1]] = "sending"
      OBVIOUS
    <3> QED
      BY <3>1, GroupOf DEF Running, Started, Finished
  <2>2. ASSUME NEW g \in Running
        PROVE  \E w \in New : Group(w[1]) = g
    BY <1>7
  <2> QED
    BY <2>1, <2>2 DEF Surjection
<1>9. Cardinality(Running) <= Cardinality(New)
  BY <1>5, <1>8, FS_Surjection
<1>10. Cardinality(Work \cup New) = Cardinality(Work) + Cardinality(New)
  <2> HIDE DEF New
  <2>1. Cardinality(Work \cup New)
          = Cardinality(Work) + Cardinality(New) - Cardinality(Work \cap New)
    BY <1>5, WorkFinite, FS_Union
  <2>2. Cardinality(Work \cap New) = 0
    BY <1>3, FS_EmptySet
  <2>3. Cardinality(Work) \in Nat /\ Cardinality(New) \in Nat
    BY <1>5, WorkFinite, FS_CardinalityType
  <2> QED
    BY <2>1, <2>2, <2>3
<1>11. IsFiniteSet(Work') /\ Cardinality(Work') >= Cardinality(Work \cup New)
  <2>1. Work' \in SUBSET (Msgs \X (1..Timeout))
    BY <1>2 DEF Work
  <2>2. IsFiniteSet(Work')
    BY <2>1, MsgsFinite, TicksFinite
  <2> QED
    BY <1>3, <2>2, FS_Subset
<1>12. ASSUME NEW g \in Running
       PROVE  Cardinality(WorkOf(g)') >= Cardinality(WorkOf(g)) + 1
  <2>1. PICK i \in g : i \in Msgs /\ <<i, age[i] + 1>> \in New /\ age'[i] = age[i] + 1
    BY <1>1, <1>7
  <2> DEFINE w == <<i, age[i] + 1>>
  <2>2. IsFiniteSet(WorkOf(g)) /\ IsFiniteSet(g) /\ g \in SUBSET Msgs
    BY <1>6, WorkFinite, GroupsFinite, GroupOf
  <2>3. w \notin WorkOf(g) /\ w \in WorkOf(g)' /\ WorkOf(g) \subseteq WorkOf(g)'
    BY <1>1, <2>1, <2>2 DEF WorkOf
  <2>4. Cardinality(WorkOf(g) \cup {w}) = Cardinality(WorkOf(g)) + 1
    BY <2>2, <2>3, FS_AddElement
  <2>5. IsFiniteSet(WorkOf(g)')
    <3>1. WorkOf(g)' \in SUBSET (g \X (1..Timeout))
      BY DEF WorkOf
    <3> QED
      BY <2>2, <3>1, TicksFinite
  <2> QED
    BY <2>3, <2>4, <2>5, FS_Subset
<1> QED
  <2>1. /\ Cardinality(Work) \in Nat /\ Cardinality(New) \in Nat /\ Cardinality(Running) \in Nat
    BY <1>5, WorkFinite, GroupsFinite, FS_CardinalityType
  <2>2. Cardinality(Work') >= Cardinality(Work) + Cardinality(New)
    BY <1>10, <1>11
  <2>3. Cardinality(Work') \in Nat
    BY <1>11, FS_CardinalityType
  <2> QED
    BY <1>9, <1>12, <2>1, <2>2, <2>3

-----------------------------------------------------------------------------
(* What a step other than a tick does to groups.                           *)

PublishStep == \E i \in Msgs : StartPublish(i) \/ PublishOk(i) \/ PublishFails(i)

\* A message that has been started stays so, and only one that waits is started: a group
\* enters the semaphore only from among those that wait, and none enters it again.
LEMMA PublishSteps ==
  ASSUME TypeInv, Sequential, PublishStep
  PROVE  /\ key' = key /\ age' = age /\ clock' = clock /\ Groups' = Groups
         /\ \A g \in Groups : Started(g) => Started(g)'
         /\ SomeWaits' => SomeWaits
         /\ \A g \in Running' : g \in Running \/ (SomeWaits /\ g \in Groups)
<1>1. key' = key /\ age' = age /\ clock' = clock
  BY DEF PublishStep, StartPublish, PublishOk, PublishFails
<1>2. Groups' = Groups /\ (\A i \in Msgs : Group(i)' = Group(i)) /\ Msgs' = Msgs
  BY <1>1, GroupsKept DEF Msgs
<1>3. \A a \in Msgs : stage[a] # "todo" => stage'[a] # "todo"
  BY DEF PublishStep, StartPublish, PublishOk, PublishFails, TypeInv
<1>4. \A g \in Groups : Started(g) => Started(g)'
  BY <1>3, GroupOf DEF Started
<1>5. SomeWaits' => SomeWaits
  BY <1>2, <1>4, GroupOf DEF SomeWaits
<1>6. ASSUME NEW g \in Running'
      PROVE  g \in Running \/ (SomeWaits /\ g \in Groups)
  <2>1. g \in Groups /\ Started(g)' /\ ~Finished(g)'
    BY <1>2 DEF Running
  <2>2. CASE ~Started(g)
    <3>1. \E i \in Msgs : g = Group(i)
      BY <2>1 DEF Groups
    <3> QED
      BY <2>1, <2>2, <3>1 DEF SomeWaits
  <2>3. CASE Started(g)
    <3>1. PICK a \in g : stage'[a] \in {"todo", "sending"}
      BY <2>1 DEF Finished
    <3>2. a \in Msgs
      BY <2>1, GroupOf
    <3>3. stage[a] \in {"todo", "sending"}
      <4>1. ASSUME NEW i \in Msgs, StartPublish(i)
            PROVE  stage[a] \in {"todo", "sending"}
        BY <3>1, <3>2, <4>1 DEF StartPublish, CanStart, TypeInv
      <4>2. ASSUME NEW i \in Msgs, PublishOk(i)
            PROVE  stage[a] \in {"todo", "sending"}
        BY <3>1, <3>2, <4>2 DEF PublishOk, TypeInv
      <4>3. ASSUME NEW i \in Msgs, PublishFails(i)
            PROVE  stage[a] \in {"todo", "sending"}
        BY <3>1, <3>2, <4>3 DEF PublishFails, TypeInv
      <4> QED
        BY <4>1, <4>2, <4>3 DEF PublishStep
    <3> QED
      BY <2>1, <2>3, <3>3 DEF Running, Finished
  <2> QED
    BY <2>2, <2>3
<1> QED
  BY <1>1, <1>2, <1>4, <1>5, <1>6

-----------------------------------------------------------------------------
(* The bound for every batch.                                              *)

\* A tick adds Concurrency ticks of publishing while a group waits; later it adds one to a
\* group that runs, which counts Concurrency - 1 times more in what explains the clock.
LEMMA WorkStep ==
  ASSUME TypeInv, Sequential, WorkInv, [Next]_vars
  PROVE  WorkInv'
<1> DEFINE C == Concurrency
<1>1. CASE Tick
  <2>1. key' = key /\ stage' = stage /\ clock' = clock + 1
    BY <1>1 DEF Tick
  <2>2. Groups' = Groups /\ Running' = Running /\ SomeWaits' = SomeWaits
    BY <2>1, GroupsKept DEF Running, Started, Finished, SomeWaits, Msgs
  <2>3. /\ Cardinality(Work') >= Cardinality(Work) + Cardinality(Running)
        /\ \A g \in Running : Cardinality(WorkOf(g)') >= Cardinality(WorkOf(g)) + 1
    BY <1>1, BaseStep, TickWork
  <2>4. /\ clock \in Nat /\ C \in Nat \ {0}
        /\ Cardinality(Work) \in Nat /\ Cardinality(Running) \in Nat
        /\ \A g \in Groups : Cardinality(WorkOf(g)) \in Nat
    <3>1. \A a, b \in Nat : \A x \in 0..(a * b) : x \in Nat
      OBVIOUS
    <3> QED
      BY <3>1, WorkFinite, GroupsFinite, ScheduleAssumption DEF TypeInv
  <2>5. Cardinality(Work') \in Nat
    <3>1. Work' \in SUBSET (Msgs \X (1..Timeout))
      BY DEF Work, Msgs
    <3> QED
      BY <3>1, MsgsFinite, TicksFinite, FS_CardinalityType
  <2>6. ASSUME NEW g \in Running
        PROVE  Explains(g)'
    <3>1. g \in Groups /\ IsFiniteSet(g)
      BY GroupsFinite DEF Running
    <3>2. Cardinality(Running) >= 1
      BY <2>4, <2>6, GroupsFinite, FS_EmptySet
    <3>3. Cardinality(WorkOf(g)') \in Nat
      <4>1. WorkOf(g)' \in SUBSET (g \X (1..Timeout))
        BY DEF WorkOf
      <4> QED
        BY <3>1, <4>1, TicksFinite, FS_CardinalityType
    <3>4. C * clock <= Cardinality(Work) + (C - 1) * Cardinality(WorkOf(g))
      BY DEF WorkInv, Explains
    <3>5. ASSUME NEW k \in Nat, NEW w \in Nat, NEW w1 \in Nat, NEW v \in Nat, NEW v1 \in Nat,
                 C * k <= w + (C - 1) * v, w1 >= w + 1, v1 >= v + 1
          PROVE  C * (k + 1) <= w1 + (C - 1) * v1
      <4>1. (C - 1) * v1 >= (C - 1) * (v + 1)
        BY <2>4, <3>5
      <4>2. (C - 1) * (v + 1) = (C - 1) * v + (C - 1) /\ C * (k + 1) = C * k + C
        BY <2>4
      <4>3. C * k \in Int /\ (C - 1) * v \in Int /\ (C - 1) * v1 \in Int
        BY <2>4
      <4> HIDE DEF C
      <4> QED
        BY <2>4, <3>5, <4>1, <4>2, <4>3
    <3>6. Cardinality(Work') >= Cardinality(Work) + 1
      BY <2>3, <2>4, <2>5, <3>2
    <3>7. C * (clock + 1) <= Cardinality(Work') + (C - 1) * Cardinality(WorkOf(g)')
      BY <2>3, <2>4, <2>5, <3>1, <3>3, <3>4, <3>5, <3>6
    <3> QED
      BY <2>1, <3>7 DEF Explains
  <2>7. ASSUME SomeWaits
        PROVE  C * clock' <= Cardinality(Work')
    <3>1. Cardinality(Running) >= C
      BY <1>1, <2>7, TickRunning
    <3>2. C * clock <= Cardinality(Work)
      BY <2>7 DEF WorkInv
    <3>3. C * (clock + 1) = C * clock + C /\ C * clock \in Int
      BY <2>4
    <3> HIDE DEF C
    <3> QED
      BY <2>1, <2>3, <2>4, <2>5, <3>1, <3>2, <3>3
  <2>8. PICK g \in Running : g \in Groups
    BY <1>1, TickRunning DEF Running
  <2> QED
    BY <2>2, <2>6, <2>7, <2>8 DEF WorkInv
<1>2. CASE PublishStep
  <2>1. /\ key' = key /\ age' = age /\ clock' = clock /\ Groups' = Groups
        /\ SomeWaits' => SomeWaits
        /\ \A g \in Running' : g \in Running \/ (SomeWaits /\ g \in Groups)
    BY <1>2, PublishSteps
  <2>2. Work' = Work /\ \A g : WorkOf(g)' = WorkOf(g)
    BY <2>1 DEF Work, WorkOf, Msgs
  <2>3. \A g : Explains(g)' <=> Explains(g)
    BY <2>1, <2>2 DEF Explains
  <2>4. ASSUME SomeWaits, NEW g \in Groups
        PROVE  Explains(g)
    <3>1. C * clock <= Cardinality(Work)
      BY <2>4 DEF WorkInv
    <3>2. Cardinality(Work) \in Nat /\ Cardinality(WorkOf(g)) \in Nat
      BY WorkFinite, FS_CardinalityType
    <3>3. C * clock \in Int /\ (C - 1) * Cardinality(WorkOf(g)) \in Nat
      BY <3>2, ScheduleAssumption DEF TypeInv
    <3> QED
      BY <3>1, <3>2, <3>3 DEF Explains
  <2>5. \A g \in Running' : Explains(g)'
    BY <2>1, <2>3, <2>4 DEF WorkInv
  <2>6. SomeWaits' => Concurrency * clock' <= Cardinality(Work')
    BY <2>1, <2>2 DEF WorkInv
  <2>7. \E g \in Groups' : Explains(g)'
    BY <2>1, <2>3 DEF WorkInv
  <2> QED
    BY <2>5, <2>6, <2>7 DEF WorkInv
<1>3. CASE UNCHANGED vars
  <2>1. key' = key /\ stage' = stage /\ age' = age /\ clock' = clock
    BY <1>3 DEF vars
  <2>2. Groups' = Groups /\ Running' = Running /\ SomeWaits' = SomeWaits
    BY <2>1, GroupsKept DEF Running, Started, Finished, SomeWaits, Msgs
  <2>3. Work' = Work /\ \A g : WorkOf(g)' = WorkOf(g)
    BY <2>1 DEF Work, WorkOf, Msgs
  <2>4. \A g : Explains(g)' <=> Explains(g)
    BY <2>1, <2>3 DEF Explains
  <2> QED
    BY <2>1, <2>2, <2>3, <2>4 DEF WorkInv
<1> QED
  BY <1>1, <1>2, <1>3 DEF Next, PublishStep

-----------------------------------------------------------------------------
(* The bound of worst_case_round.                                          *)

\* What a quotient and a remainder are.
LEMMA Division ==
  ASSUME NEW a \in Nat, NEW b \in Nat \ {0}
  PROVE  /\ a \div b \in Nat /\ a % b \in 0..(b - 1) /\ a = b * (a \div b) + (a % b)
         /\ a < b * ((a \div b) + 1)
  OBVIOUS

\* Any time after the claim lies in one of the stretches of Timeout ticks.
LEMMA Stretch ==
  ASSUME NEW n \in Nat \ {0}
  PROVE  \E m \in Nat, r \in 1..Timeout : n = m * Timeout + r
<1> DEFINE m == (n - 1) \div Timeout
           r == (n - 1) % Timeout
<1>1. n - 1 \in Nat /\ Timeout \in Nat \ {0}
  BY ScheduleAssumption
<1>2. m \in Nat /\ r \in 0..(Timeout - 1) /\ n - 1 = Timeout * m + r
  BY <1>1, Division
<1> HIDE DEF m, r
<1>3. r + 1 \in 1..Timeout /\ n = m * Timeout + (r + 1)
  BY <1>1, <1>2
<1> QED
  BY <1>2, <1>3

\* Ceil rounds up.
LEMMA CeilAtLeast ==
  /\ Ceil(BatchSize, Concurrency) \in Nat /\ Ceil(BatchSize, Concurrency) >= 1
  /\ \A k \in Nat : BatchSize >= Concurrency * k + 1 => Ceil(BatchSize, Concurrency) >= k + 1
<1> DEFINE B == BatchSize
           C == Concurrency
           q == (B + C - 1) \div C
<1>1. B \in Nat \ {0} /\ C \in Nat \ {0} /\ B + C - 1 \in Nat
  BY ScheduleAssumption
<1>2. q \in Nat /\ B + C - 1 < C * (q + 1)
  BY <1>1, Division
<1>3. Ceil(B, C) = q
  BY DEF Ceil
<1> HIDE DEF B, C, q
<1>4. ASSUME NEW k \in Nat, B >= C * k + 1
      PROVE  q >= k + 1
  <2>1. C * (k + 1) = C * k + C /\ C * k \in Nat
    BY <1>1
  <2>2. C * (k + 1) < C * (q + 1)
    BY <1>1, <1>2, <1>4, <2>1
  <2>3. ASSUME q <= k
        PROVE  FALSE
    <3>1. C * (q + 1) <= C * (k + 1)
      BY <1>1, <1>2, <2>3
    <3> QED
      BY <1>1, <1>2, <2>2, <3>1
  <2> QED
    BY <1>2, <2>3
<1>5. B >= C * 0 + 1
  BY <1>1
<1> QED
  BY <1>2, <1>3, <1>4, <1>5 DEF B, C

\* The groups that have passed are some of the groups.
LEMMA PastFinite ==
  \A k : /\ IsFiniteSet(Past(k)) /\ Cardinality(Past(k)) \in Nat
         /\ Past(k) \subseteq Groups /\ Cardinality(Past(k)) <= Cardinality(Groups)
<1>1. \A k : Past(k) \in SUBSET Groups
  BY DEF Past
<1> QED
  BY <1>1, GroupsFinite, FS_Subset, FS_CardinalityType

\* What was sent stays sent; so if a group publishes one message at most, it did before.
LEMMA SingleBefore ==
  ASSUME TypeInv, Sequential, PublishStep, Single'
  PROVE  Single
<1>1. key' = key
  BY PublishSteps
<1>2. ASSUME NEW a \in Msgs, stage[a] = "sent"
      PROVE  stage'[a] = "sent"
  <2>1. ASSUME NEW i \in Msgs, StartPublish(i) \/ PublishOk(i)
        PROVE  stage'[a] = "sent"
    BY <1>2, <2>1 DEF StartPublish, CanStart, PublishOk, TypeInv
  <2>2. ASSUME NEW i \in Msgs, PublishFails(i)
        PROVE  stage'[a] = "sent"
    <3>1. stage[i] = "sending"
      BY <2>2 DEF PublishFails
    <3>2. a # i /\ ~ (a \in Group(i) /\ a > i)
      BY <1>2, <3>1, GroupOf, MsgsFinite DEF Sequential, Follows
    <3> QED
      BY <1>2, <2>2, <3>2 DEF PublishFails
  <2> QED
    BY <2>1, <2>2 DEF PublishStep
<1> QED
  BY <1>1, <1>2 DEF Single, Msgs

\* A publish that ends is the last of its group.
LEMMA PastStays ==
  ASSUME TypeInv, Sequential, PublishStep, Single', NEW k
  PROVE  Past(k) \subseteq Past(k)'
<1>1. /\ key' = key /\ age' = age /\ Groups' = Groups
      /\ \A g \in Groups : Started(g) => Started(g)'
  BY PublishSteps
<1>2. SUFFICES ASSUME NEW g \in Past(k)
               PROVE  Finished(g)' \/ \E a \in g : stage'[a] = "sending" /\ age[a] >= k
  BY <1>1 DEF Past
<1>3. g \in Groups /\ \A a \in g : a \in Msgs /\ g = Group(a) /\ a \in Nat
  BY GroupOf, MsgsFinite DEF Past
<1>4. CASE Finished(g)
  <2>1. ASSUME NEW i \in Msgs, StartPublish(i) \/ PublishOk(i)
        PROVE  Finished(g)'
    <3>1. i \notin g
      BY <1>4, <2>1 DEF StartPublish, CanStart, PublishOk, Finished
    <3> QED
      BY <1>3, <1>4, <2>1, <3>1 DEF StartPublish, PublishOk, Finished, TypeInv
  <2>2. ASSUME NEW i \in Msgs, PublishFails(i)
        PROVE  Finished(g)'
    <3>1. i \notin g
      BY <1>4, <2>2 DEF PublishFails, Finished
    <3>2. \A a \in g : a \notin Group(i) /\ a # i
      BY <1>3, <3>1, GroupOf
    <3> QED
      BY <1>3, <1>4, <2>2, <3>2 DEF PublishFails, Finished
  <2> QED
    BY <2>1, <2>2 DEF PublishStep
<1>5. CASE \E a \in g : stage[a] = "sending" /\ age[a] >= k
  <2>1. PICK a \in g : stage[a] = "sending" /\ age[a] >= k
    BY <1>5
  <2>2. ASSUME NEW i \in Msgs, StartPublish(i)
        PROVE  stage'[a] = "sending"
    BY <1>3, <2>1, <2>2 DEF StartPublish, TypeInv
  <2>3. ASSUME NEW i \in Msgs, PublishOk(i)
        PROVE  stage'[a] = "sending" \/ Finished(g)'
    <3>1. CASE i # a
      BY <1>3, <2>1, <2>3, <3>1 DEF PublishOk, TypeInv
    <3>2. CASE i = a
      <4>1. stage'[a] = "sent"
        BY <1>3, <2>3, <3>2 DEF PublishOk, TypeInv
      <4>2. \A j \in Msgs : key[j] = NULL
        BY <1>1, <1>3, <4>1 DEF Single, Msgs
      <4>3. g = {a}
        BY <1>3, <4>2 DEF Group
      <4> QED
        BY <4>1, <4>3 DEF Finished
    <3> QED
      BY <3>1, <3>2
  <2>4. ASSUME NEW i \in Msgs, PublishFails(i)
        PROVE  stage'[a] = "sending" \/ Finished(g)'
    <3>1. stage[i] = "sending" /\ i \in Nat
      BY <2>4, MsgsFinite DEF PublishFails
    <3>2. CASE i = a
      <4>1. ASSUME NEW b \in g
            PROVE  stage'[b] \notin {"todo", "sending"}
        <5>1. b < a => stage[b] = "sent"
          BY <1>3, <2>1, <4>1 DEF Sequential, Follows
        <5>2. b \in Group(i) /\ (b < a \/ b = a \/ b > a)
          BY <1>3, <3>2
        <5>3. stage'[b] = CASE b = i -> "failed" [] b \in Group(i) /\ b > i -> "held"
                          [] OTHER -> stage[b]
          BY <1>3, <2>4 DEF PublishFails
        <5> QED
          BY <3>1, <3>2, <5>1, <5>2, <5>3
      <4> QED
        BY <4>1 DEF Finished
    <3>3. CASE i # a
      <4>1. a \notin Group(i)
        <5>1. ASSUME a \in Group(i)
              PROVE  FALSE
          <6>1. i \in Group(a) /\ (i < a \/ a < i)
            BY <1>3, <3>1, <3>3, <5>1, GroupOf
          <6> QED
            BY <1>3, <2>1, <3>1, <5>1, <6>1 DEF Sequential, Follows
        <5> QED
          BY <5>1
      <4> QED
        BY <1>3, <2>1, <2>4, <3>3, <4>1 DEF PublishFails
    <3> QED
      BY <3>2, <3>3
  <2> QED
    BY <2>1, <2>2, <2>3, <2>4 DEF PublishStep
<1> QED
  BY <1>4, <1>5 DEF Past

\* While a group waits, a tick takes the groups that had passed along, and at the end of a
\* stretch the groups that are publishing begin a new wave.
LEMMA WavesTick ==
  ASSUME TypeInv, Sequential, WavesPass, Tick
  PROVE  WavesPass'
<1>1. key' = key /\ stage' = stage /\ clock' = clock + 1 /\ clock \in Nat
  BY DEF Tick, TypeInv
<1>2. Groups' = Groups /\ SomeWaits' = SomeWaits
  BY <1>1, GroupsKept DEF SomeWaits, Started, Msgs
<1>3. \A i \in Msgs : stage[i] = "sending" => age'[i] = age[i] + 1 /\ age[i] \in 0..(Timeout - 1)
  BY ScheduleAssumption DEF Tick, TypeInv
<1>4. SUFFICES ASSUME SomeWaits, NEW m \in Nat, NEW r \in 1..Timeout,
                      clock + 1 = m * Timeout + r
               PROVE  Cardinality(Past(r)') >= Concurrency * (m + 1)
  BY <1>1, <1>2 DEF WavesPass
<1>5. IsFiniteSet(Past(r)') /\ Cardinality(Past(r)') \in Nat
  <2>1. Past(r)' \in SUBSET Groups
    BY <1>2 DEF Past
  <2> QED
    BY <2>1, GroupsFinite, FS_Subset, FS_CardinalityType
<1>6. Running \subseteq Past(1)'
  <2>1. ASSUME NEW g \in Running
        PROVE  g \in Past(1)'
    <3>1. PICK i \in g : stage[i] = "sending"
      BY TickRunning
    <3>2. g \in Groups /\ Started(g) /\ i \in Msgs
      BY GroupOf DEF Running
    <3>3. stage'[i] = "sending" /\ age'[i] >= 1
      BY <1>1, <1>3, <3>1, <3>2
    <3> QED
      BY <1>1, <1>2, <3>2, <3>3 DEF Past, Started
  <2> QED
    BY <2>1
<1>7. Cardinality(Running) >= Concurrency /\ Cardinality(Running) \in Nat
  BY <1>4, TickRunning, GroupsFinite
<1>8. CASE r > 1
  <2>1. r - 1 \in 1..Timeout /\ clock = m * Timeout + (r - 1)
    BY <1>1, <1>4, <1>8, ScheduleAssumption
  <2>2. Cardinality(Past(r - 1)) >= Concurrency * (m + 1)
    BY <1>4, <2>1 DEF WavesPass
  <2>3. Past(r - 1) \subseteq Past(r)'
    <3>1. ASSUME NEW g \in Groups, NEW i \in g, stage[i] = "sending", age[i] >= r - 1
          PROVE  stage'[i] = "sending" /\ age'[i] >= r
      BY <1>1, <1>3, <3>1, GroupOf
    <3> QED
      BY <1>1, <1>2, <3>1 DEF Past, Started, Finished
  <2>4. Cardinality(Past(r - 1)) <= Cardinality(Past(r)')
    BY <1>5, <2>3, FS_Subset
  <2>5. Concurrency * (m + 1) \in Int /\ Cardinality(Past(r - 1)) \in Int
    BY PastFinite, ScheduleAssumption
  <2> QED
    BY <1>5, <2>2, <2>4, <2>5
<1>9. CASE r = 1 /\ m = 0
  <2>1. Cardinality(Running) <= Cardinality(Past(r)')
    BY <1>5, <1>6, <1>9, FS_Subset
  <2> QED
    BY <1>5, <1>7, <1>9, <2>1, ScheduleAssumption
<1>10. CASE r = 1 /\ m > 0
  <2>1. m - 1 \in Nat /\ Timeout \in 1..Timeout /\ clock = (m - 1) * Timeout + Timeout
    BY <1>1, <1>4, <1>10, ScheduleAssumption
  <2>2. Cardinality(Past(Timeout)) >= Concurrency * m
    <3>1. (m - 1) + 1 = m
      OBVIOUS
    <3> QED
      BY <1>4, <2>1, <3>1 DEF WavesPass
  <2>3. \A g \in Past(Timeout) : g \in Groups /\ Started(g) /\ Finished(g)
    BY <1>3, GroupOf, ScheduleAssumption DEF Past
  <2>4. Past(Timeout) \subseteq Past(r)' /\ Past(Timeout) \cap Running = {}
    BY <1>1, <1>2, <2>3 DEF Past, Started, Finished, Running
  <2>5. Cardinality(Past(Timeout) \cup Running) = Cardinality(Past(Timeout)) + Cardinality(Running)
    <3>1. Cardinality(Past(Timeout) \cup Running)
            = Cardinality(Past(Timeout)) + Cardinality(Running) - Cardinality(Past(Timeout) \cap Running)
      BY PastFinite, GroupsFinite, FS_Union
    <3>2. Cardinality(Past(Timeout) \cap Running) = 0
      BY <2>4, FS_EmptySet
    <3> QED
      BY <1>7, <3>1, <3>2, PastFinite
  <2>6. Cardinality(Past(Timeout) \cup Running) <= Cardinality(Past(r)')
    <3>1. Past(Timeout) \cup Running \in SUBSET (Past(r)')
      BY <1>6, <1>10, <2>4
    <3> QED
      BY <1>5, <3>1, FS_Subset
  <2>7. Concurrency * (m + 1) = Concurrency * m + Concurrency /\ Concurrency * m \in Int
        /\ Concurrency \in Int /\ Cardinality(Past(Timeout)) \in Int
    BY PastFinite, ScheduleAssumption
  <2> QED
    BY <1>5, <1>7, <2>2, <2>5, <2>6, <2>7
<1> QED
  BY <1>8, <1>9, <1>10

\* A group that begins to publish has left at most as many waves behind it as the batch has.
LEMMA BeginsInTime ==
  ASSUME TypeInv, SomeWaits, WavesPass
  PROVE  clock <= (Ceil(BatchSize, Concurrency) - 1) * Timeout
<1> DEFINE Q == Ceil(BatchSize, Concurrency)
<1>1. Q \in Nat /\ Q >= 1 /\ Timeout \in Nat /\ clock \in Nat
  BY CeilAtLeast, ScheduleAssumption DEF TypeInv
<1>2. CASE clock = 0
  <2>1. (Q - 1) * Timeout >= 0
    BY <1>1
  <2> QED
    BY <1>2, <2>1
<1>3. CASE clock # 0
  <2>1. PICK m \in Nat, r \in 1..Timeout : clock = m * Timeout + r
    BY <1>1, <1>3, Stretch
  <2>2. Cardinality(Past(r)) >= Concurrency * (m + 1)
    BY <2>1 DEF WavesPass
  <2>3. PICK i \in Msgs : ~Started(Group(i))
    BY DEF SomeWaits
  <2>4. Group(i) \in Groups /\ Group(i) \notin Past(r)
    BY <2>3, GroupOf DEF Past
  <2>5. Cardinality(Past(r)) + 1 <= Cardinality(Groups)
    <3>1. Cardinality(Past(r) \cup {Group(i)}) = Cardinality(Past(r)) + 1
      BY <2>4, PastFinite, FS_AddElement
    <3>2. Past(r) \cup {Group(i)} \in SUBSET Groups
      BY <2>4, PastFinite
    <3>3. Cardinality(Past(r) \cup {Group(i)}) <= Cardinality(Groups)
      BY <3>2, GroupsFinite, FS_Subset
    <3> QED
      BY <3>1, <3>3
  <2>6. BatchSize >= Concurrency * (m + 1) + 1
    <3>1. Cardinality(Groups) \in Nat /\ Cardinality(Groups) <= BatchSize
          /\ Cardinality(Past(r)) \in Nat /\ BatchSize \in Nat /\ Concurrency * (m + 1) \in Nat
      BY GroupsFinite, PastFinite, FS_CardinalityType, ScheduleAssumption
    <3> QED
      BY <2>2, <2>5, <3>1
  <2>7. Q >= m + 2
    BY <2>6, CeilAtLeast
  <2> HIDE DEF Q
  <2>8. (Q - 1) * Timeout >= (m + 1) * Timeout
    BY <1>1, <2>7
  <2>9. (m + 1) * Timeout = m * Timeout + Timeout /\ m * Timeout \in Nat
    BY <1>1
  <2>10. (Q - 1) * Timeout \in Nat
    BY <1>1
  <2> QED
    BY <1>1, <2>1, <2>8, <2>9, <2>10 DEF Q
<1> QED
  BY <1>2, <1>3

\* Every step keeps the waves, and so the bound.
LEMMA WaveStep ==
  ASSUME TypeInv, Sequential, WaveInv, [Next]_vars
  PROVE  WaveInv'
<1> DEFINE S == (Ceil(BatchSize, Concurrency) - 1) * Timeout
<1>0. S \in Nat /\ WorstCaseRound = S + Timeout /\ WorstCaseRound' = WorstCaseRound
      /\ Timeout \in Nat
  <2> DEFINE Q == Ceil(BatchSize, Concurrency)
  <2>1. Q \in Nat /\ Q >= 1 /\ Timeout \in Nat
    BY CeilAtLeast, ScheduleAssumption
  <2>2. WorstCaseRound = Q * Timeout /\ WorstCaseRound' = WorstCaseRound
    BY DEF WorstCaseRound
  <2> HIDE DEF Q
  <2>3. (Q - 1) * Timeout \in Nat /\ Q * Timeout = (Q - 1) * Timeout + Timeout
    BY <2>1
  <2> QED
    BY <2>1, <2>2, <2>3 DEF Q
<1>00. BeganInTime <=> \A i \in Msgs : stage[i] = "sending" => clock - age[i] <= S
  BY DEF BeganInTime
<1>01. BeganInTime' <=> \A i \in Msgs : stage'[i] = "sending" => clock' - age'[i] <= S
  BY DEF BeganInTime, Ceil, Msgs
<1> HIDE DEF S
<1>1. CASE Tick
  <2>1. key' = key /\ stage' = stage /\ clock' = clock + 1 /\ clock \in Nat
    BY <1>1 DEF Tick, TypeInv
  <2>2. Single' = Single
    BY <2>1 DEF Single, Msgs
  <2>3. SUFFICES ASSUME Single
                 PROVE  WavesPass' /\ BeganInTime' /\ clock' <= WorstCaseRound
    BY <1>0, <2>2 DEF WaveInv
  <2>4. WavesPass'
    BY <1>1, <2>3, WavesTick DEF WaveInv
  <2>5. \A i \in Msgs : stage[i] = "sending" =>
          age'[i] = age[i] + 1 /\ age[i] \in 0..Timeout /\ age[i] < Timeout
    BY <1>1 DEF Tick, TypeInv
  <2>6. \A i \in Msgs : stage[i] = "sending" => clock - age[i] <= S
    BY <1>00, <2>3 DEF WaveInv
  <2>7. BeganInTime'
    BY <1>0, <1>01, <2>1, <2>5, <2>6
  <2>8. PICK i \in Msgs : stage[i] = "sending"
    BY <1>1 DEF Tick
  <2>9. clock + 1 <= S + Timeout
    BY <1>0, <2>1, <2>5, <2>6, <2>8
  <2> QED
    BY <1>0, <2>1, <2>4, <2>7, <2>9
<1>2. CASE PublishStep
  <2>1. key' = key /\ age' = age /\ clock' = clock /\ Groups' = Groups /\ (SomeWaits' => SomeWaits)
    BY <1>2, PublishSteps
  <2>2. SUFFICES ASSUME Single'
                 PROVE  WavesPass' /\ BeganInTime' /\ clock' <= WorstCaseRound
    BY <1>0 DEF WaveInv
  <2>3. Single /\ WavesPass /\ BeganInTime /\ clock <= WorstCaseRound
    BY <1>2, <2>2, SingleBefore DEF WaveInv
  <2>4. ASSUME SomeWaits', NEW m \in Nat, NEW r \in 1..Timeout, clock' = m * Timeout + r
        PROVE  Cardinality(Past(r)') >= Concurrency * (m + 1)
    <3>1. Cardinality(Past(r)) >= Concurrency * (m + 1)
      BY <2>1, <2>3, <2>4 DEF WavesPass
    <3>2. Past(r) \subseteq Past(r)'
      BY <1>2, <2>2, PastStays
    <3>3. Past(r)' \in SUBSET Groups
      BY <2>1 DEF Past
    <3>4. IsFiniteSet(Past(r)') /\ Cardinality(Past(r)') \in Nat
      BY <3>3, GroupsFinite, FS_Subset, FS_CardinalityType
    <3>5. Cardinality(Past(r)) <= Cardinality(Past(r)')
      BY <3>2, <3>4, FS_Subset
    <3>6. Cardinality(Past(r)) \in Nat /\ Concurrency * (m + 1) \in Int
      BY PastFinite, ScheduleAssumption
    <3> QED
      BY <3>1, <3>4, <3>5, <3>6
  <2>5. WavesPass'
    BY <2>4 DEF WavesPass
  <2>6. ASSUME NEW a \in Msgs, stage'[a] = "sending"
        PROVE  clock - age[a] <= S
    <3>1. CASE stage[a] = "sending"
      BY <1>00, <2>3, <3>1
    <3>2. CASE stage[a] # "sending"
      <4>1. StartPublish(a)
        <5>1. ASSUME NEW i \in Msgs, StartPublish(i)
              PROVE  i = a
          BY <2>6, <3>2, <5>1 DEF StartPublish, TypeInv
        <5>2. ASSUME NEW i \in Msgs, PublishOk(i) \/ PublishFails(i)
              PROVE  FALSE
          BY <2>6, <3>2, <5>2 DEF PublishOk, PublishFails, TypeInv
        <5> QED
          BY <1>2, <5>1, <5>2 DEF PublishStep
      <4>2. stage[a] = "todo" /\ \A j \in Group(a) : j < a => stage[j] = "sent"
        BY <4>1 DEF StartPublish, CanStart
      <4>3. ~Started(Group(a))
        <5>1. ASSUME NEW j \in Group(a), stage[j] # "todo"
              PROVE  FALSE
          <6>1. j # a /\ j \in Msgs /\ (j < a \/ a < j)
            <7>1. j # a
              BY <4>2, <5>1
            <7>2. j \in Msgs
              BY DEF Group
            <7> QED
              BY <7>1, <7>2 DEF Msgs
          <6>2. ~ \A i \in Msgs : key[i] = NULL
            BY <5>1, <6>1 DEF Group
          <6>3. \A i \in Msgs : stage[i] # "sent"
            BY <2>3, <6>2 DEF Single
          <6>4. a < j /\ a \in Group(j)
            BY <4>2, <5>1, <6>1, <6>3, GroupOf
          <6>5. Follows(stage[a], stage[j])
            BY <6>1, <6>4 DEF Sequential
          <6> QED
            BY <4>2, <5>1, <6>1, <6>5 DEF Follows, TypeInv
        <5> QED
          BY <5>1 DEF Started
      <4>4. clock <= S
        BY <2>3, <4>3, BeginsInTime DEF SomeWaits, S
      <4>5. age[a] = 0 /\ clock \in Nat
        BY <4>2 DEF Sequential, TypeInv
      <4> QED
        BY <1>0, <4>4, <4>5
    <3> QED
      BY <3>1, <3>2
  <2>7. BeganInTime'
    BY <1>01, <2>1, <2>6
  <2> QED
    BY <1>0, <2>1, <2>3, <2>5, <2>7
<1>3. CASE UNCHANGED vars
  <2>1. key' = key /\ stage' = stage /\ age' = age /\ clock' = clock
    BY <1>3 DEF vars
  <2>2. Groups' = Groups /\ SomeWaits' = SomeWaits /\ Single' = Single
    BY <2>1, GroupsKept DEF SomeWaits, Started, Single, Msgs
  <2>3. \A k : Past(k)' = Past(k)
    BY <2>1, <2>2 DEF Past, Started, Finished
  <2>4. WavesPass' <=> WavesPass
    BY <2>1, <2>2, <2>3 DEF WavesPass
  <2>5. BeganInTime' <=> BeganInTime
    BY <1>00, <1>01, <2>1
  <2> QED
    BY <1>0, <2>1, <2>2, <2>4, <2>5 DEF WaveInv
<1> QED
  BY <1>1, <1>2, <1>3 DEF Next, PublishStep

-----------------------------------------------------------------------------
(* The theorems.                                                           *)

\* The invariant holds when the batch has been claimed.
LEMMA SchedInvInit == Init => SchedInv
<1> SUFFICES ASSUME Init
             PROVE  SchedInv
  OBVIOUS
<1>1. TypeInv
  BY ScheduleAssumption DEF Init, TypeInv
<1>2. Sequential
  BY GroupOf DEF Init, Sequential, Follows
<1>3. Work = {} /\ Cardinality(Work) = 0
  BY ScheduleAssumption, FS_EmptySet DEF Init, Work
<1>4. Running = {}
  BY GroupOf DEF Init, Running, Started
<1>5. ASSUME NEW g \in Groups
      PROVE  Explains(g)
  <2>1. Cardinality(WorkOf(g)) \in Nat
    BY WorkFinite, FS_CardinalityType
  <2>2. (Concurrency - 1) * Cardinality(WorkOf(g)) \in Nat /\ Concurrency * clock = 0
    BY <2>1, ScheduleAssumption DEF Init
  <2> QED
    BY <1>3, <2>2 DEF Explains
<1>6. WorkInv
  <2>1. Concurrency * clock <= Cardinality(Work)
    BY <1>3, ScheduleAssumption DEF Init
  <2> QED
    BY <1>4, <1>5, <2>1, GroupsFinite DEF WorkInv
<1>7. WaveInv
  <2>1. WavesPass
    <3>1. ASSUME NEW m \in Nat, NEW r \in 1..Timeout
          PROVE  0 # m * Timeout + r
      <4>1. m * Timeout \in Nat
        BY ScheduleAssumption
      <4> QED
        BY <4>1
    <3> QED
      BY <3>1 DEF Init, WavesPass
  <2>2. BeganInTime
    BY DEF Init, BeganInTime
  <2>3. clock <= WorstCaseRound
    BY CeilAtLeast, ScheduleAssumption DEF Init, WorstCaseRound
  <2> QED
    BY <2>1, <2>2, <2>3 DEF WaveInv
<1> QED
  BY <1>1, <1>2, <1>6, <1>7 DEF SchedInv

\* The invariant of a round.
LEMMA ScheduleInvariant == Spec => []SchedInv
<1>1. SchedInv /\ [Next]_vars => SchedInv'
  BY BaseStep, WorkStep, WaveStep DEF SchedInv
<1> QED
  BY <1>1, SchedInvInit, PTL DEF Spec

\* If no publish succeeds, or no message has a key, the round ends within worst_case_round.
THEOREM HangingRoundIsBounded == Spec => []HangingRoundBounded
<1>1. SchedInv => HangingRoundBounded
  BY DEF SchedInv, WaveInv, Single, HangingRoundBounded
<1> QED
  BY <1>1, ScheduleInvariant, PTL

\* Whatever the keys and the outcomes, the round lasts no longer than its messages one by
\* one through Concurrency places, with the longest group once more for each other place.
THEOREM RoundIsBounded == Spec => []RoundBounded
<1>1. ASSUME SchedInv
      PROVE  RoundBounded
  <2> DEFINE C == Concurrency
             N == {Cardinality(g) : g \in Groups}
  <2>1. PICK g \in Groups : Explains(g)
    BY <1>1 DEF SchedInv, WorkInv
  <2>2. Longest \in N /\ \A n \in N : n <= Longest
    <3>1. N \in SUBSET Nat /\ N # {} /\ (\A n \in N : n <= BatchSize) /\ BatchSize \in Nat
      BY GroupsFinite, ScheduleAssumption
    <3> HIDE DEF N
    <3>2. Max(N) \in N /\ \A n \in N : n <= Max(N)
      BY <3>1, MaxIsMax
    <3>3. Longest = Max(N)
      BY DEF Longest, N
    <3> QED
      BY <3>2, <3>3
  <2>3. Longest \in Nat /\ Cardinality(g) <= Longest /\ Cardinality(g) \in Nat
    BY <2>2, GroupsFinite
  <2> DEFINE L == Longest
             W == Cardinality(Work)
             V == Cardinality(WorkOf(g))
             G == Cardinality(g)
  <2>4. W \in Int /\ W <= BatchSize * Timeout /\ V \in Nat /\ V <= G * Timeout
    <3>1. BatchSize * Timeout \in Int /\ G * Timeout \in Int
      BY <2>3, ScheduleAssumption
    <3> QED
      BY <3>1, WorkFinite, FS_CardinalityType
  <2>5. C * clock <= W + (C - 1) * V
    BY <2>1 DEF Explains
  <2>6. C \in Nat \ {0} /\ Timeout \in Nat /\ BatchSize \in Nat /\ clock \in Nat /\ L \in Nat /\ G \in Nat
        /\ G <= L
    BY <1>1, <2>3, ScheduleAssumption DEF SchedInv, TypeInv
  <2> HIDE DEF C, L, W, V, G
  <2>7. V <= L * Timeout
    <3>1. G * Timeout <= L * Timeout /\ G * Timeout \in Int /\ L * Timeout \in Int
      BY <2>6
    <3> QED
      BY <2>4, <3>1
  <2>8. (C - 1) * V <= (C - 1) * (L * Timeout)
    <3>1. C - 1 \in Nat /\ L * Timeout \in Nat
      BY <2>6
    <3> QED
      BY <2>4, <2>7, <3>1
  <2>9. Timeout * (BatchSize + (C - 1) * L) = BatchSize * Timeout + (C - 1) * (L * Timeout)
    BY <2>6
  <2>10. /\ C * clock \in Int /\ (C - 1) * V \in Int /\ (C - 1) * (L * Timeout) \in Int
         /\ BatchSize * Timeout \in Int
    BY <2>4, <2>6
  <2>11. C * clock <= Timeout * (BatchSize + (C - 1) * L)
    BY <2>4, <2>5, <2>8, <2>9, <2>10
  <2> QED
    BY <2>11 DEF RoundBounded, C, L
<1> QED
  BY <1>1, ScheduleInvariant, PTL

\* One group at a time: then worst_case_round bounds every round, whatever the keys and the
\* outcomes.  With more places it does not.
COROLLARY SerialRoundIsBounded ==
  ASSUME Concurrency = 1
  PROVE  Spec => []RoundWithinWorstCase
<1>1. Longest \in Nat
  <2> DEFINE N == {Cardinality(g) : g \in Groups}
  <2>1. N \in SUBSET Nat /\ N # {} /\ (\A n \in N : n <= BatchSize) /\ BatchSize \in Nat
    BY GroupsFinite, ScheduleAssumption
  <2> HIDE DEF N
  <2>2. Max(N) \in Nat
    BY <2>1, MaxIsMax
  <2> QED
    BY <2>2 DEF Longest, N
<1>2. Ceil(BatchSize, Concurrency) >= BatchSize /\ Ceil(BatchSize, Concurrency) \in Nat
  <2>1. BatchSize - 1 \in Nat /\ BatchSize >= Concurrency * (BatchSize - 1) + 1
        /\ (BatchSize - 1) + 1 = BatchSize
    BY ScheduleAssumption
  <2> QED
    BY <2>1, CeilAtLeast
<1>3. ASSUME SchedInv, RoundBounded
      PROVE  RoundWithinWorstCase
  <2>1. clock \in Nat /\ BatchSize \in Nat /\ Timeout \in Nat
    BY <1>3, ScheduleAssumption DEF SchedInv, TypeInv
  <2>2. clock <= Timeout * BatchSize
    BY <1>1, <1>3, <2>1 DEF RoundBounded
  <2> DEFINE Q == Ceil(BatchSize, Concurrency)
  <2>3. Q \in Nat /\ BatchSize <= Q
    BY <1>2, <2>1
  <2> HIDE DEF Q
  <2>4. Timeout * BatchSize <= Q * Timeout /\ Timeout * BatchSize \in Nat /\ Q * Timeout \in Nat
    BY <2>1, <2>3
  <2>5. clock <= Q * Timeout
    BY <2>1, <2>2, <2>4
  <2> QED
    BY <2>5 DEF RoundWithinWorstCase, WorstCaseRound, Q
<1> QED
  BY <1>3, ScheduleInvariant, RoundIsBounded, PTL

=============================================================================
