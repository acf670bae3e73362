---------------------------- MODULE RoundSchedule ----------------------------
(***************************************************************************)
(* How long one round of Relay.run_once lasts (relay.py).  The batch is    *)
(* split into groups by key; a semaphore admits Concurrency groups at a    *)
(* time; a group publishes its messages one after another and ends at the  *)
(* first failure; publish_timeout bounds each publish.  The storage calls  *)
(* take no time here.  RelayConfig.worst_case_round is what the relay      *)
(* compares with its lease.                                                *)
(***************************************************************************)
EXTENDS Naturals, FiniteSets, FiniteSetsExt

CONSTANTS
  BatchSize,    \* messages in the batch
  Concurrency,  \* RelayConfig.concurrency
  Timeout,      \* RelayConfig.publish_timeout, in clock ticks
  Keys,         \* ordering keys
  NULL          \* no key

ASSUME ScheduleAssumption ==
  /\ BatchSize \in Nat \ {0}
  /\ Concurrency \in Nat \ {0}
  /\ Timeout \in Nat \ {0}
  /\ NULL \notin Keys

Msgs == 1..BatchSize

VARIABLES
  key,    \* key[i]: ordering key of the i-th message of the batch
  stage,  \* stage[i]: what the round has done with it: todo, sending, sent, failed or held
  age,    \* age[i]: ticks since its publish was started
  clock   \* ticks since the claim

vars == <<key, stage, age, clock>>

Init ==
  /\ key \in [Msgs -> Keys \cup {NULL}]
  /\ stage = [i \in Msgs |-> "todo"]
  /\ age = [i \in Msgs |-> 0]
  /\ clock = 0

\* _group_by_key: the messages that share a key; a message without one is alone.
Group(i) == {j \in Msgs : j = i \/ (key[i] # NULL /\ key[j] = key[i])}

Groups == {Group(i) : i \in Msgs}

Started(g) == \E i \in g : stage[i] # "todo"

Finished(g) == \A i \in g : stage[i] \notin {"todo", "sending"}

\* Seeded bug: a group that fails keeps its place in the semaphore.
RunningForEver == {g \in Groups : Started(g) /\ (~Finished(g) \/ \E i \in g : stage[i] = "failed")}

\* The groups inside the semaphore.
Running == {g \in Groups : Started(g) /\ ~Finished(g)}

\* Seeded bug: one place of the semaphore is never used.
AdmitsFewer(i) ==
  \/ Started(Group(i))
  \/ /\ Cardinality(Running) + 1 < Concurrency
     /\ \A j \in Msgs : j < i => Started(Group(j))

\* The semaphore lets groups in by the order of their first messages.
Admits(i) ==
  \/ Started(Group(i))
  \/ /\ Cardinality(Running) < Concurrency
     /\ \A j \in Msgs : j < i => Started(Group(j))

CanStart(i) ==
  /\ stage[i] = "todo"
  /\ \A j \in Group(i) : j < i => stage[j] = "sent"
  /\ Admits(i)

StartPublish(i) ==
  /\ CanStart(i)
  /\ stage' = [stage EXCEPT ![i] = "sending"]
  /\ UNCHANGED <<key, age, clock>>

PublishOk(i) ==
  /\ stage[i] = "sending"
  /\ stage' = [stage EXCEPT ![i] = "sent"]
  /\ UNCHANGED <<key, age, clock>>

\* The publish raises or times out: nack it and release the rest of the group.
PublishFails(i) ==
  /\ stage[i] = "sending"
  /\ stage' = [j \in Msgs |-> CASE j = i                     -> "failed"
                                [] j \in Group(i) /\ j > i   -> "held"
                                [] OTHER                     -> stage[j]]
  /\ UNCHANGED <<key, age, clock>>

\* Seeded bug: publish_timeout is not enforced.
TickUnbounded ==
  /\ \E i \in Msgs : stage[i] = "sending"
  /\ \A i \in Msgs : ~CanStart(i)
  /\ age' = [i \in Msgs |-> IF stage[i] = "sending" THEN age[i] + 1 ELSE age[i]]
  /\ clock' = clock + 1
  /\ UNCHANGED <<key, stage>>

\* The event loop starts what may start before time passes, and no publish outlives Timeout.
Tick ==
  /\ \E i \in Msgs : stage[i] = "sending"
  /\ \A i \in Msgs : ~CanStart(i)
  /\ \A i \in Msgs : stage[i] = "sending" => age[i] < Timeout
  /\ age' = [i \in Msgs |-> IF stage[i] = "sending" THEN age[i] + 1 ELSE age[i]]
  /\ clock' = clock + 1
  /\ UNCHANGED <<key, stage>>

Next == Tick \/ \E i \in Msgs : StartPublish(i) \/ PublishOk(i) \/ PublishFails(i)

Spec == Init /\ [][Next]_vars

\* Tasks that can run do, and a publish that does not return is timed out.
FairSpec == Spec /\ WF_vars(Next)

-----------------------------------------------------------------------------

Ceil(n, d) == (n + d - 1) \div d

\* RelayConfig.worst_case_round
WorstCaseRound == Ceil(BatchSize, Concurrency) * Timeout

(***************************************************************************)
(* What worst_case_round promises: if no publish succeeds, as with a       *)
(* broker that hangs, or if no message has a key, the round is over by     *)
(* then.                                                                   *)
(***************************************************************************)
HangingRoundBounded ==
  (\A i \in Msgs : stage[i] # "sent") \/ (\A i \in Msgs : key[i] = NULL) => clock <= WorstCaseRound

Longest == Max({Cardinality(g) : g \in Groups})

(***************************************************************************)
(* The bound that holds for every batch: a group is sequential, so what    *)
(* counts besides the total is the longest group.                          *)
(***************************************************************************)
RoundBounded ==
  Concurrency * clock <= Timeout * (BatchSize + (Concurrency - 1) * Longest)

(***************************************************************************)
(* Every round ends with every message published, failed or held: a failed *)
(* group leaves the semaphore to the next one.                             *)
(***************************************************************************)
RoundEnds == <>(\A i \in Msgs : stage[i] \in {"sent", "failed", "held"})

(***************************************************************************)
(* What the comment on RelayConfig.lease and README.md say of every round: *)
(* it lasts at most worst_case_round.  Not so for a batch that shares a    *)
(* key and is published slowly.                                            *)
(***************************************************************************)
RoundWithinWorstCase == clock <= WorstCaseRound

=============================================================================
