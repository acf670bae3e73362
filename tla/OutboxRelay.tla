----------------------------- MODULE OutboxRelay -----------------------------
(***************************************************************************)
(* Relays (relay.py) moving the rows of one outbox table to a broker.      *)
(*                                                                         *)
(* Each worker repeats Relay.run_once: claim a batch, publish its groups   *)
(* concurrently, report every failure as it happens, and ack what the      *)
(* broker accepted at the end.  Every await of the code is a point where   *)
(* other workers, producers and the clock may move, so a storage call has  *)
(* two ends: it is in flight once the code issues it, and it takes effect  *)
(* at a later step.  Storage calls may fail, with the statement executed   *)
(* before the error, long after it or not at all; publishes may time out   *)
(* with the message still on its way; rounds may be cancelled and          *)
(* processes may crash and restart under the same worker_id.               *)
(***************************************************************************)
EXTENDS OutboxTable

CONSTANTS
  MaxAttempts,  \* RelayConfig.max_attempts
  Concurrency,  \* RelayConfig.concurrency
  Delays,       \* what Backoff.delay may return, in clock ticks
  Timely,       \* whether rounds and their storage calls end within the lease
  MaxClaims,    \* bound: a row with this many attempts is not claimed again
  MaxFaults     \* bound: faults in a behaviour

ASSUME RelayAssumption ==
  /\ MaxAttempts \in Nat \ {0}
  /\ Concurrency \in Nat \ {0}
  /\ Delays \subseteq Nat /\ Delays # {}
  /\ Timely \in BOOLEAN
  /\ MaxClaims \in Nat
  /\ MaxFaults \in Nat

VARIABLES
  rows,      \* the outbox table
  task,      \* task[w][i]: what the round of worker w is doing with message i
  up,        \* the workers whose process is running
  late,      \* storage calls nobody waits for any more and that may still be executed
  wire,      \* messages of abandoned publishes that may still reach the broker
  accepted,  \* history: messages the broker accepted
  repeated,  \* history: messages the broker accepted more than once
  tries,     \* history: number of publish calls per message
  faults     \* number of faults so far

vars == <<rows, task, up, late, wire, accepted, repeated, tries, faults>>

Stage == {"none",      \* not in this worker's round, or already reported
          "todo",      \* claimed, not published yet
          "sending",   \* publish awaited
          "sent",      \* accepted: in the list acked
          "failed",    \* publish raised: nack or dead_letter awaited
          "held"}      \* behind a failed message of its key: to be released

Task == [st : Stage, attempts : Nat, retry_at : Nat]

NoTask == [st |-> "none", attempts |-> 0, retry_at |-> 0]

Call == [op : {"ack", "nack", "release", "dead_letter"}, worker_id : Workers,
         ids : SUBSET Ids, retry_at : Nat, no : Nat]

Init ==
  /\ rows = EmptyTable
  /\ task = [w \in Workers |-> [i \in Ids |-> NoTask]]
  /\ up = Workers
  /\ late = {}
  /\ wire = {}
  /\ accepted = {}
  /\ repeated = {}
  /\ tries = [i \in Ids |-> 0]
  /\ faults = 0

Batch(w) == {i \in Ids : task[w][i].st # "none"}

Idle(w) == w \in up /\ Batch(w) = {}

Fault == faults < MaxFaults /\ faults' = faults + 1

-----------------------------------------------------------------------------
(* Producers and housekeeping.                                             *)

Produce(i, k) ==
  /\ NextId(rows, i)
  /\ rows' = Insert(rows, i, k)
  /\ UNCHANGED <<task, up, late, wire, accepted, repeated, tries, faults>>

PurgeDone(old) ==
  /\ ~DeleteOnAck
  /\ rows' = Purge(rows, old)
  /\ UNCHANGED <<task, up, late, wire, accepted, repeated, tries, faults>>

-----------------------------------------------------------------------------
(* The start of a round.                                                   *)

\* An empty claim returns an empty round, which changes nothing.
ClaimNext(w) ==
  /\ ClaimSet(rows) # {}
  /\ \A i \in ClaimSet(rows) : rows[i].attempts < MaxClaims
  /\ rows' = Claim(rows, w)

ClaimBatch(w) ==
  /\ Idle(w)
  /\ ClaimNext(w)
  /\ task' = [task EXCEPT ![w] =
                [i \in Ids |-> IF i \in ClaimSet(rows)
                               THEN [NoTask EXCEPT !.st = "todo", !.attempts = rows'[i].attempts]
                               ELSE NoTask]]
  /\ UNCHANGED <<up, late, wire, accepted, repeated, tries, faults>>

\* The claim is committed but its answer never reaches run_once: it failed, was cancelled or
\* its process crashed.  By then the worker may be in a later round, or down.
ClaimLost(w) ==
  /\ Fault
  /\ ClaimNext(w)
  /\ UNCHANGED <<task, up, late, wire, accepted, repeated, tries>>

-----------------------------------------------------------------------------
(* Publishing.                                                             *)

\* _group_by_key, applied to what is left of the batch.
Group(w, i) == {j \in Batch(w) : j = i \/ SameKey(rows, i, j)}

Started(w, g) == \E i \in g : task[w][i].st # "todo"

\* The groups inside the semaphore.
ActiveGroups(w) == {g \in {Group(w, i) : i \in Batch(w)} :
                      Started(w, g) /\ \E i \in g : task[w][i].st # "sent"}

\* The semaphore admits the groups in the order of their first messages.
Admitted(w, i) ==
  \/ Started(w, Group(w, i))
  \/ /\ Cardinality(ActiveGroups(w)) < Concurrency
     /\ \A j \in Batch(w) : j < i => Started(w, Group(w, j))

\* Seeded bug: the messages of a group are published concurrently.
TurnAny(w, i) == TRUE

\* Within a group a message waits for the earlier ones to be accepted.
Turn(w, i) == \A j \in Group(w, i) : j < i => task[w][j].st = "sent"

\* The worker goes on without the messages S.
Drop(w, S) == task' = [task EXCEPT ![w] = [i \in Ids |-> IF i \in S THEN NoTask ELSE @[i]]]

StartPublish(w, i) ==
  /\ task[w][i].st = "todo"
  /\ Turn(w, i)
  /\ Admitted(w, i)
  /\ task' = [task EXCEPT ![w][i].st = "sending"]
  /\ tries' = [tries EXCEPT ![i] = @ + 1]
  /\ UNCHANGED <<rows, up, late, wire, accepted, repeated, faults>>

\* The broker gets a copy of message i.
Accept(i) ==
  /\ accepted' = accepted \cup {i}
  /\ repeated' = repeated \cup ({i} \cap accepted)

PublishOk(w, i) ==
  /\ task[w][i].st = "sending"
  /\ Accept(i)
  /\ task' = [task EXCEPT ![w][i] = [NoTask EXCEPT !.st = "sent"]]
  /\ UNCHANGED <<rows, up, late, wire, tries, faults>>

\* Seeded bugs: off by one, early and late.
ExhaustedEarly(w, i) == task[w][i].attempts + 1 >= MaxAttempts

ExhaustedLate(w, i) == task[w][i].attempts > MaxAttempts

Exhausted(w, i) == task[w][i].attempts >= MaxAttempts

\* Seeded bug: the rest is taken from the whole group, group[:] for group[index + 1:].
FailAll(w, i, delay) ==
  LET retry == IF Exhausted(w, i) THEN 0 ELSE delay
  IN  task' = [task EXCEPT ![w] = [j \in Ids |->
                 CASE j = i                        -> [@[j] EXCEPT !.st = "failed", !.retry_at = retry]
                   [] j \in Group(w, i) \ {i}      -> [NoTask EXCEPT !.st = "held", !.retry_at = retry]
                   [] OTHER                        -> @[j]]]

\* _handle_failure chooses retry_at, and _block_rest holds the rest of the group until then.
Fail(w, i, delay) ==
  LET retry == IF Exhausted(w, i) THEN 0 ELSE delay
      rest  == {j \in Group(w, i) : j > i}
  IN  task' = [task EXCEPT ![w] = [j \in Ids |->
                 CASE j = i       -> [@[j] EXCEPT !.st = "failed", !.retry_at = retry]
                   [] j \in rest  -> [NoTask EXCEPT !.st = "held", !.retry_at = retry]
                   [] OTHER       -> @[j]]]

PublishRaises(w, i, delay) ==
  /\ task[w][i].st = "sending"
  /\ Fail(w, i, delay)
  /\ UNCHANGED <<rows, up, late, wire, accepted, repeated, tries, faults>>

\* publish_timeout, or an error after the broker was reached.
PublishTimeout(w, i, delay) ==
  /\ task[w][i].st = "sending"
  /\ Fault
  /\ Fail(w, i, delay)
  /\ wire' = wire \cup {i}
  /\ UNCHANGED <<rows, up, late, accepted, repeated, tries>>

\* The publisher raises CancelledError itself: the TaskGroup takes that for the end of the
\* group.  Its message and those after it are reported by nobody; the round goes on.
PublishCancelled(w, i) ==
  /\ task[w][i].st = "sending"
  /\ Fault
  /\ wire' = wire \cup {i}
  /\ Drop(w, {j \in Group(w, i) : j >= i})
  /\ UNCHANGED <<rows, up, late, accepted, repeated, tries>>

\* Two abandoned copies of a message count as one: the second could only repeat it.
Arrive(i) ==
  /\ i \in wire
  /\ Accept(i)
  /\ wire' = wire \ {i}
  /\ UNCHANGED <<rows, task, up, late, tries, faults>>

-----------------------------------------------------------------------------
(* Reporting to the storage.                                               *)

NewCall(op, w, ids, retry) ==
  [op |-> op, worker_id |-> w, ids |-> ids, retry_at |-> retry, no |-> faults]

FailureCall(w, i) ==
  NewCall(IF Exhausted(w, i) THEN "dead_letter" ELSE "nack", w, {i}, task[w][i].retry_at)

Failures(w) == {FailureCall(w, i) : i \in {j \in Ids : task[w][j].st = "failed"}}

\* _block_rest runs when the failed message has been reported.
Releasable(w) == {i \in Ids : /\ task[w][i].st = "held"
                              /\ \A j \in Group(w, i) : task[w][j].st # "failed"}

Releases(w) ==
  {NewCall("release", w, Group(w, i) \cap Releasable(w), task[w][i].retry_at) :
     i \in Releasable(w)}

\* Seeded bug: the finally clause acks what is left of the batch.
AcksRest(w) == IF Batch(w) # {} /\ \A i \in Batch(w) : task[w][i].st \in {"sent", "held"}
               THEN {NewCall("ack", w, Batch(w), 0)}
               ELSE {}

\* The finally clause of run_once.
Acks(w) == IF Batch(w) # {} /\ \A i \in Batch(w) : task[w][i].st = "sent"
           THEN {NewCall("ack", w, Batch(w), 0)}
           ELSE {}

InFlight(w) == Failures(w) \cup Releases(w) \cup Acks(w)

Execute(t, c) ==
  CASE c.op = "ack"         -> Ack(t, c.ids, c.worker_id)
    [] c.op = "nack"        -> Nack(t, c.ids, c.worker_id, c.retry_at)
    [] c.op = "release"     -> Release(t, c.ids, c.worker_id, c.retry_at)
    [] c.op = "dead_letter" -> DeadLetter(t, c.ids, c.worker_id)

Report(w, c) ==
  /\ c \in InFlight(w)
  /\ rows' = Execute(rows, c)
  /\ Drop(w, c.ids)
  /\ UNCHANGED <<up, late, wire, accepted, repeated, tries, faults>>

\* _report logs the error; an ack that raises, or whose shield is cancelled, ends the round.
ReportError(w, c) ==
  /\ c \in InFlight(w)
  /\ Fault
  /\ late' = late \cup {c}
  /\ Drop(w, c.ids)
  /\ UNCHANGED <<rows, up, wire, accepted, repeated, tries>>

ExecuteLate(c) ==
  /\ c \in late
  /\ rows' = Execute(rows, c)
  /\ late' = late \ {c}
  /\ UNCHANGED <<task, up, wire, accepted, repeated, tries, faults>>

LoseLate(c) ==
  /\ c \in late
  /\ late' = late \ {c}
  /\ UNCHANGED <<rows, task, up, wire, accepted, repeated, tries, faults>>

-----------------------------------------------------------------------------
(* Cancellation and crashes.                                               *)

\* What was awaited goes on without the worker.
Abandon(w) ==
  /\ late' = late \cup InFlight(w)
  /\ wire' = wire \cup {i \in Ids : task[w][i].st = "sending"}

\* The TaskGroup is cancelled; the messages in acked stay, for the finally clause.
CancelRound(w) ==
  /\ \E i \in Batch(w) : task[w][i].st # "sent"
  /\ Fault
  /\ Abandon(w)
  /\ Drop(w, {i \in Ids : task[w][i].st # "sent"})
  /\ UNCHANGED <<rows, up, accepted, repeated, tries>>

Crash(w) ==
  /\ w \in up
  /\ Fault
  /\ Abandon(w)
  /\ Drop(w, Ids)
  /\ up' = up \ {w}
  /\ UNCHANGED <<rows, accepted, repeated, tries>>

Restart(w) ==
  /\ w \notin up
  /\ up' = up \cup {w}
  /\ UNCHANGED <<rows, task, late, wire, accepted, repeated, tries, faults>>

-----------------------------------------------------------------------------
(* Time.                                                                   *)

\* Message i is still in the hands of worker w: in its round, or in a call it issued.
Handled(w, i) == \/ i \in Batch(w)
                 \/ \E c \in late : c.worker_id = w /\ i \in c.ids

\* With Timely, a lease does not run out on a worker that still handles its message.
Tick ==
  /\ Timely => \A i \in Ids : rows[i].lease_until = 1 => ~Handled(rows[i].leased_by, i)
  /\ rows' = Elapse(rows)
  /\ task' = [w \in Workers |-> [i \in Ids |-> [task[w][i] EXCEPT !.retry_at = Sooner(@)]]]
  /\ late' = {[c EXCEPT !.retry_at = Sooner(@)] : c \in late}
  /\ UNCHANGED <<up, wire, accepted, repeated, tries, faults>>

-----------------------------------------------------------------------------

\* A step of the round of w that needs nobody's mistake.
RoundStep(w) ==
  \/ \E i \in Ids : \/ StartPublish(w, i)
                    \/ PublishOk(w, i)
                    \/ \E d \in Delays : PublishRaises(w, i, d)
  \/ \E c \in InFlight(w) : Report(w, c)

FaultStep(w) ==
  \/ ClaimLost(w)
  \/ \E i \in Ids, d \in Delays : PublishTimeout(w, i, d)
  \/ \E i \in Ids : PublishCancelled(w, i)
  \/ \E c \in InFlight(w) : ReportError(w, c)
  \/ CancelRound(w)
  \/ Crash(w)

Next ==
  \/ \E i \in Ids, k \in Keys \cup {NULL} : Produce(i, k)
  \/ \E old \in SUBSET Ids : PurgeDone(old)
  \/ \E w \in Workers : ClaimBatch(w) \/ RoundStep(w) \/ FaultStep(w) \/ Restart(w)
  \/ \E c \in late : ExecuteLate(c) \/ LoseLate(c)
  \/ \E i \in Ids : Arrive(i)
  \/ Tick

Spec == Init /\ [][Next]_vars

(***************************************************************************)
(* Time passes; a running relay polls at least every poll_max seconds and  *)
(* keeps its round going, because publish_timeout bounds every publish and *)
(* the storage answers, be it with an error; a call nobody waits for is    *)
(* executed or lost.  Nothing forces a producer, a fault or a restart.     *)
(***************************************************************************)
Fairness ==
  /\ WF_vars(Tick)
  /\ WF_vars(\E c \in late : ExecuteLate(c) \/ LoseLate(c))
  /\ \A w \in Workers : WF_vars(ClaimBatch(w)) /\ WF_vars(RoundStep(w))

FairSpec == Spec /\ Fairness

-----------------------------------------------------------------------------
(* Properties.                                                             *)

TypeOK ==
  /\ rows \in Table
  /\ task \in [Workers -> [Ids -> Task]]
  /\ up \subseteq Workers
  /\ late \subseteq Call
  /\ wire \subseteq Ids
  /\ accepted \subseteq Ids
  /\ repeated \subseteq Ids
  /\ tries \in [Ids -> Nat]
  /\ faults \in 0..MaxFaults

(* Whatever the timing and the faults.                                     *)

(***************************************************************************)
(* With strict ordering the broker sees the messages of a key for the      *)
(* first time in insertion order: none before every earlier one has been   *)
(* accepted or dead-lettered.  claim holds a key back, _publish_group goes *)
(* through it in order and _block_rest gives up what comes after a         *)
(* failure; leases that run out mid-round, crashes, write-backs executed   *)
(* late and publishes that arrive late must not defeat the three together. *)
(***************************************************************************)
FirstDeliveryOrder ==
  StrictOrdering =>
    \A j \in accepted : \A i \in Ids :
      i < j /\ SameKey(rows, i, j) => i \in accepted \/ rows[i].status = "dead"

(***************************************************************************)
(* With strict ordering a message is being published only when every       *)
(* earlier message of its key is settled or was accepted in the same       *)
(* round: not while one waits for its retry, is in the hands of another    *)
(* worker, or has a write-back outstanding.                                *)
(***************************************************************************)
NoOvertaking ==
  StrictOrdering =>
    \A w \in Workers, i, j \in Ids :
      task[w][j].st = "sending" /\ i < j /\ SameKey(rows, i, j) =>
        rows[i].status # "pending" \/ task[w][i].st = "sent"

(***************************************************************************)
(* No message is lost: a row is done, or gone, only if the broker accepted *)
(* the message.  The list acked of run_once survives a cancelled round and *)
(* its ack may be executed long after the lease went to somebody else.     *)
(***************************************************************************)
NoneLost ==
  \A i \in Ids : rows[i].status \in {"done", "deleted"} => i \in accepted

(***************************************************************************)
(* A message is parked only after max_attempts claims.  _handle_failure    *)
(* decides with the attempts it read at the claim; releases executed since *)
(* then, also stale ones, must not have taken the row below that.          *)
(***************************************************************************)
DeadOnlyAfterMaxAttempts ==
  \A i \in Ids : rows[i].status = "dead" => rows[i].attempts >= MaxAttempts

(***************************************************************************)
(* The fence of the write-backs: while the lease of w runs, only a call    *)
(* that w itself issued for the message takes the lease away; neither a    *)
(* claim nor a stale call of the worker that held it before does.          *)
(***************************************************************************)
LeaseFenced ==
  [][\A i \in Ids, w \in Workers :
       rows[i].leased_by = w /\ rows[i].lease_until > 0 /\ rows'[i].leased_by # w =>
         \E c \in InFlight(w) \cup late : c.worker_id = w /\ i \in c.ids]_vars

(***************************************************************************)
(* The verdict on a message is final: once done or dead it stays so (a     *)
(* done row may be purged), although calls issued under earlier leases of  *)
(* the row are still on their way.                                         *)
(***************************************************************************)
VerdictFinal ==
  [][\A i \in Ids :
       rows[i].status \in {"done", "dead", "deleted"} =>
         \/ rows'[i].status = rows[i].status
         \/ rows[i].status = "done" /\ rows'[i].status = "deleted"]_vars

(* If rounds and their calls end within the lease.                         *)

(***************************************************************************)
(* What a round still works on is leased to its worker and pending, from   *)
(* the claim to the write-back, whatever failed or crashed elsewhere: the  *)
(* mutual exclusion the lease is for.                                      *)
(***************************************************************************)
RoundHoldsLease ==
  Timely => \A w \in Workers : \A i \in Batch(w) :
              /\ rows[i].leased_by = w
              /\ rows[i].lease_until > 0
              /\ rows[i].status = "pending"

Untried(i) == {w \in Workers : task[w][i].st \in {"todo", "held"}}

(***************************************************************************)
(* attempts counts publish calls: it is never below the number of tries,   *)
(* and as long as nothing failed it is exactly that number plus the claim  *)
(* in hand, so that a message held behind another burns no attempt.        *)
(***************************************************************************)
AttemptsCountTries ==
  Timely => \A i \in Ids :
    /\ rows[i].attempts >= tries[i]
    /\ faults = 0 => rows[i].attempts = tries[i] + Cardinality(Untried(i))

(***************************************************************************)
(* A message is claimed at most max_attempts times, and once more for each *)
(* fault: a poison message is not retried for ever.                        *)
(***************************************************************************)
AttemptsBounded ==
  Timely => \A i \in Ids : rows[i].attempts <= MaxAttempts + faults

(***************************************************************************)
(* Duplicates have a cause: with no fault the broker gets every message at *)
(* most once, however the workers interleave.                              *)
(***************************************************************************)
NoDuplicates == Timely /\ faults = 0 => repeated = {}

(***************************************************************************)
(* Every message is eventually delivered or parked: the lease of a crashed *)
(* or cancelled round runs out, a failed head frees its key when it is due *)
(* or dead, and no group waits for the semaphore for ever.                 *)
(***************************************************************************)
EverySettled ==
  \A i \in Ids : rows[i].status = "pending" ~> rows[i].status # "pending"

-----------------------------------------------------------------------------
(* What an application sees of the system.                                 *)

Verdict(i) == IF rows[i].status \in {"done", "deleted"} THEN "delivered" ELSE rows[i].status

Contract == INSTANCE DeliveryContract
              WITH key <- [i \in Ids |-> rows[i].key], verdict <- [i \in Ids |-> Verdict(i)]

(***************************************************************************)
(* The relays implement the contract: every step of a worker, the clock, a *)
(* fault or a late call is a step of it or invisible.                      *)
(***************************************************************************)
KeepsContract == Contract!Spec

=============================================================================
