----------------------------- MODULE OutboxTable -----------------------------
(***************************************************************************)
(* The outbox table and the five operations of the Storage protocol, as    *)
(* SqliteStorage implements them (adapters/sqlite.py): every operation is  *)
(* one transaction under a process-wide lock, so it is an operator from a  *)
(* table to a table.  The other adapters promise the same effect.          *)
(*                                                                         *)
(* Times are relative.  retry_at and lease_until hold what is left until   *)
(* the instant the column names, and 0 stands for NULL and for every       *)
(* instant that is not in the future: the code only ever asks whether they *)
(* are later than now.  The passage of time decrements them (Elapse).      *)
(***************************************************************************)
EXTENDS Integers, FiniteSets

CONSTANTS
  MaxId,           \* bound: rows are numbered 1..MaxId in insertion order
  Workers,         \* worker_id of every relay
  Keys,            \* ordering keys
  NULL,            \* SQL NULL: no key, no lease holder
  BatchSize,       \* RelayConfig.batch_size
  Lease,           \* RelayConfig.lease, in clock ticks
  StrictOrdering,  \* SqliteStorage.strict_ordering
  DeleteOnAck      \* SqliteStorage.delete_on_ack

ASSUME TableAssumption ==
  /\ MaxId \in Nat
  /\ NULL \notin Workers \cup Keys
  /\ BatchSize \in Nat \ {0}
  /\ Lease \in Nat \ {0}
  /\ StrictOrdering \in BOOLEAN
  /\ DeleteOnAck \in BOOLEAN

Ids == 1..MaxId

(***************************************************************************)
(* "absent" is an id not inserted yet, "deleted" one whose row is gone:    *)
(* AUTOINCREMENT never hands an id out twice.                              *)
(***************************************************************************)
Status == {"absent", "pending", "done", "dead", "deleted"}

Row == [status      : Status,
        key         : Keys \cup {NULL},
        attempts    : Nat,
        retry_at    : Nat,
        leased_by   : Workers \cup {NULL},
        lease_until : Nat,
        last_error  : BOOLEAN]      \* whether an error text is recorded

Table == [Ids -> Row]

Absent == [status |-> "absent", key |-> NULL, attempts |-> 0, retry_at |-> 0,
           leased_by |-> NULL, lease_until |-> 0, last_error |-> FALSE]

EmptyTable == [i \in Ids |-> Absent]

-----------------------------------------------------------------------------
(* Producer side.                                                          *)

\* The id the next INSERT gets: ids are handed out in increasing order.
NextId(t, i) == /\ t[i].status = "absent"
                /\ \A j \in Ids : j < i => t[j].status # "absent"

Insert(t, i, k) == [t EXCEPT ![i] = [Absent EXCEPT !.status = "pending", !.key = k]]

-----------------------------------------------------------------------------
(* claim: due, unleased, pending rows in id order, at most BatchSize; with *)
(* strict ordering no row that an earlier pending row of its key holds     *)
(* back.                                                                   *)

SameKey(t, i, j) == t[i].key # NULL /\ t[i].key = t[j].key

\* Seeded bug: a lease that runs does not protect its row.
ClaimableThoughLeased(t, i) == t[i].status = "pending" /\ t[i].retry_at = 0

\* Seeded bug: a row is claimable only once its lease was given back, expired or not.
ClaimableIfUnowned(t, i) ==
  t[i].status = "pending" /\ t[i].retry_at = 0 /\ t[i].leased_by = NULL

Claimable(t, i) == /\ t[i].status = "pending"
                   /\ t[i].retry_at = 0
                   /\ t[i].lease_until = 0

\* Seeded bug: the NOT EXISTS forgets p.lease_until > :now.
HeldBackByRetryOnly(t, i) ==
  \E p \in Ids : p < i /\ SameKey(t, p, i) /\ t[p].status = "pending" /\ t[p].retry_at > 0

\* Seeded bug: the NOT EXISTS forgets p.retry_at > :now.
HeldBackByLeaseOnly(t, i) ==
  \E p \in Ids : p < i /\ SameKey(t, p, i) /\ t[p].status = "pending" /\ t[p].lease_until > 0

HeldBack(t, i) == \E p \in Ids : /\ p < i
                                 /\ SameKey(t, p, i)
                                 /\ t[p].status = "pending"
                                 /\ t[p].retry_at > 0 \/ t[p].lease_until > 0

Candidates(t) ==
  {i \in Ids : Claimable(t, i) /\ (StrictOrdering => ~HeldBack(t, i))}

\* ORDER BY id LIMIT n
FirstIds(S, n) == {i \in S : Cardinality({j \in S : j < i}) < n}

ClaimSet(t) == FirstIds(Candidates(t), BatchSize)

\* Seeded bug: the UPDATE of claim does not count the attempt that release takes back.
ClaimUncounted(t, w) ==
  [i \in Ids |-> IF i \in ClaimSet(t)
                 THEN [t[i] EXCEPT !.leased_by = w, !.lease_until = Lease, !.retry_at = 0]
                 ELSE t[i]]

Claim(t, w) ==
  [i \in Ids |-> IF i \in ClaimSet(t)
                 THEN [t[i] EXCEPT !.attempts = @ + 1, !.leased_by = w,
                                   !.lease_until = Lease, !.retry_at = 0]
                 ELSE t[i]]

-----------------------------------------------------------------------------
(* The write-backs, each fenced by the worker_id of its caller.            *)

\* Seeded bug: WHERE id = ?, without the fence.
OwnedByAnyone(t, ids, w) == ids

\* WHERE id = ? AND leased_by = ?: neither the status nor the age of the lease is asked.
Owned(t, ids, w) == {i \in ids : t[i].leased_by = w}

Ack(t, ids, w) ==
  [i \in Ids |-> IF i \in Owned(t, ids, w)
                 THEN [t[i] EXCEPT !.status = IF DeleteOnAck THEN "deleted" ELSE "done",
                                   !.leased_by = NULL, !.lease_until = 0]
                 ELSE t[i]]

Nack(t, ids, w, retry) ==
  [i \in Ids |-> IF i \in Owned(t, ids, w)
                 THEN [t[i] EXCEPT !.retry_at = retry, !.last_error = TRUE,
                                   !.leased_by = NULL, !.lease_until = 0]
                 ELSE t[i]]

\* Seeded bug: release without attempts = attempts - 1.
ReleaseBurning(t, ids, w, retry) ==
  [i \in Ids |-> IF i \in Owned(t, ids, w)
                 THEN [t[i] EXCEPT !.retry_at = retry, !.leased_by = NULL, !.lease_until = 0]
                 ELSE t[i]]

Release(t, ids, w, retry) ==
  [i \in Ids |-> IF i \in Owned(t, ids, w)
                 THEN [t[i] EXCEPT !.attempts = @ - 1, !.retry_at = retry,
                                   !.leased_by = NULL, !.lease_until = 0]
                 ELSE t[i]]

DeadLetter(t, ids, w) ==
  [i \in Ids |-> IF i \in Owned(t, ids, w)
                 THEN [t[i] EXCEPT !.status = "dead", !.last_error = TRUE,
                                   !.leased_by = NULL, !.lease_until = 0]
                 ELSE t[i]]

-----------------------------------------------------------------------------
(* Housekeeping and time.                                                  *)

\* old: the rows whose created_at, a producer's clock, lies before the cutoff.
Purge(t, old) ==
  [i \in Ids |-> IF t[i].status = "done" /\ i \in old
                 THEN [t[i] EXCEPT !.status = "deleted"]
                 ELSE t[i]]

Sooner(n) == IF n = 0 THEN 0 ELSE n - 1

Elapse(t) ==
  [i \in Ids |-> [t[i] EXCEPT !.retry_at = Sooner(@), !.lease_until = Sooner(@)]]

=============================================================================
