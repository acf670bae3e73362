---------------------------- MODULE MemoryClaim ----------------------------
(***************************************************************************)
(* The claim of MemoryStorage (memory.py): one pass over the records in    *)
(* insertion order that remembers the keys it has to hold back.  It runs   *)
(* under a lock and awaits nothing, so it is one step of OutboxRelay; here *)
(* each record is a step, and the question is whether the pass selects the *)
(* rows that the claim of OutboxTable, a query with NOT EXISTS, does.      *)
(***************************************************************************)
EXTENDS OutboxTable

CONSTANT Tables   \* the contents the storage may have when claim is called

ASSUME TablesAssumption == Tables \subseteq Table

VARIABLES
  before,        \* the records when claim was called
  worker_id,     \* who called it
  records,       \* MemoryStorage._records
  at,            \* the id of the next record to look at
  claimed,       \* the ids of the messages claimed so far
  blocked_keys   \* the keys held back so far

vars == <<before, worker_id, records, at, claimed, blocked_keys>>

Init ==
  /\ before \in Tables
  /\ worker_id \in Workers
  /\ records = before
  /\ at = 1
  /\ claimed = {}
  /\ blocked_keys = {}

\* The loop goes on: there is a record left and room in the batch.
Looking == at \in Ids /\ Cardinality(claimed) < BatchSize

NotDue(r) == r.retry_at > 0

Leased(r) == r.lease_until > 0

HeldByKey(r) == r.key # NULL /\ r.key \in blocked_keys

Skip ==
  /\ Looking
  /\ records[at].status # "pending"
  /\ at' = at + 1
  /\ UNCHANGED <<before, worker_id, records, claimed, blocked_keys>>

\* Seeded bug: a message that waits for its retry does not hold back its key.
HoldsIfLeased(r) == r.key # NULL /\ StrictOrdering /\ Leased(r)

\* Whether a record that is passed over holds back its key.
Holds(r) == r.key # NULL /\ StrictOrdering

PassOver ==
  /\ Looking
  /\ records[at].status = "pending"
  /\ NotDue(records[at]) \/ Leased(records[at]) \/ HeldByKey(records[at])
  /\ blocked_keys' = blocked_keys \cup
                      (IF Holds(records[at]) THEN {records[at].key} ELSE {})
  /\ at' = at + 1
  /\ UNCHANGED <<before, worker_id, records, claimed>>

\* What a claim makes of a record.
Taken(r) == [r EXCEPT !.attempts = @ + 1, !.leased_by = worker_id,
                      !.lease_until = Lease, !.retry_at = 0]

Take ==
  /\ Looking
  /\ records[at].status = "pending"
  /\ ~NotDue(records[at]) /\ ~Leased(records[at]) /\ ~HeldByKey(records[at])
  /\ records' = [records EXCEPT ![at] = Taken(@)]
  /\ claimed' = claimed \cup {at}
  /\ at' = at + 1
  /\ UNCHANGED <<before, worker_id, blocked_keys>>

Next == Skip \/ PassOver \/ Take

Spec == Init /\ [][Next]_vars

-----------------------------------------------------------------------------

(***************************************************************************)
(* When the pass is over it has claimed what the query claims, and changed *)
(* the same rows in the same way: holding back a key from the first record *)
(* that is not due or leased is as good as looking for one before each     *)
(* record, and stopping at a full batch is LIMIT.                          *)
(***************************************************************************)
ScanIsQuery ==
  ~Looking => claimed = ClaimSet(before) /\ records = Claim(before, worker_id)

=============================================================================
