--------------------------- MODULE PostgresStorage ---------------------------
(***************************************************************************)
(* PostgresStorage (adapters/postgres.py): producers, claims and           *)
(* write-backs as concurrent READ COMMITTED transactions on one table.     *)
(*                                                                         *)
(* A claim is not one step here.  Its now() is the start of its            *)
(* transaction, which then waits for the advisory lock (strict ordering);  *)
(* its statement selects rows on a snapshot, locks them one after another, *)
(* passes over rows others have locked and looks again at those that       *)
(* changed since the snapshot, without repeating NOT EXISTS; its effect is *)
(* seen at the commit.  Write-backs take no advisory lock.                 *)
(*                                                                         *)
(* clock is the clock of the server, and instants are readings of it; only *)
(* retry_at is a reading of the clock of a relay's host.  0 stands for     *)
(* NULL as well: neither is later than any now().                          *)
(***************************************************************************)
EXTENDS Integers, FiniteSets

CONSTANTS
  MaxId,      \* bound: the sequence hands out the ids 1..MaxId
  Workers,    \* worker_id of every relay
  Keys,       \* what producers put into the key column, perhaps also NULL
  NULL,       \* SQL NULL
  BatchSize,  \* RelayConfig.batch_size
  Lease,      \* RelayConfig.lease, in clock ticks
  Delays,     \* what Backoff.delay may return, in clock ticks, plus what the clock of the
              \* relay's host is ahead of the server's
  Options,    \* the constructor arguments to consider
  SlowestTx,  \* what the slowest producing transaction takes, in clock ticks
  Timely,     \* whether claims, rounds and their storage calls end within the lease
  MaxClaims,  \* bound: a row with this many attempts is not claimed again
  MaxTime     \* bound: the clock stops here

ASSUME PostgresAssumption ==
  /\ MaxId \in Nat
  /\ NULL \notin Workers
  /\ BatchSize \in Nat \ {0}
  /\ Lease \in Nat \ {0}
  /\ Delays \subseteq Int
  /\ Options \subseteq [strict_ordering : BOOLEAN, delete_on_ack : BOOLEAN, visibility_delay : Nat]
  /\ SlowestTx \in Nat
  /\ Timely \in BOOLEAN
  /\ MaxClaims \in Nat
  /\ MaxTime \in Nat

VARIABLES
  storage,  \* the arguments of PostgresStorage; visibility_delay 0 is None
  clock,    \* the server's clock
  rows,     \* the outbox table, and the rows of open producer transactions
  claims,   \* claims[w]: the claim transaction of worker w
  held,     \* held[w]: messages the round of worker w has not reported yet
  calls     \* the write-backs under way

vars == <<storage, clock, rows, claims, held, calls>>

Ids == 1..MaxId

(***************************************************************************)
(* "drawn": nextval was called; "inserted": the row exists, uncommitted;   *)
(* "deleted": rolled back, acked with delete_on_ack, or purged.            *)
(***************************************************************************)
Open == {"drawn", "inserted"}

Status == {"absent", "pending", "done", "dead", "deleted"} \cup Open

Row == [status : Status, key : Keys \cup {NULL}, began : Nat, created_at : Nat,
        attempts : Nat, retry_at : Nat, leased_by : Workers \cup {NULL}, lease_until : Nat]

Absent == [status |-> "absent", key |-> NULL, began |-> 0, created_at |-> 0,
           attempts |-> 0, retry_at |-> 0, leased_by |-> NULL, lease_until |-> 0]

Deleted == [Absent EXCEPT !.status = "deleted"]

(***************************************************************************)
(* seen: pending rows of the snapshot; left: rows the SELECT has yet to    *)
(* lock; got: rows it has locked.                                          *)
(***************************************************************************)
ClaimTx == [pc : {"none", "begun", "scanning"}, now : Nat,
            seen : SUBSET Ids, left : SUBSET Ids, got : SUBSET Ids]

NoClaim == [pc |-> "none", now |-> 0, seen |-> {}, left |-> {}, got |-> {}]

Call == [op : {"ack", "nack", "release", "dead_letter"}, worker_id : Workers,
         left : SUBSET Ids, got : SUBSET Ids, retry_at : Nat]

Init ==
  /\ storage \in Options
  /\ clock = 0
  /\ rows = [i \in Ids |-> Absent]
  /\ claims = [w \in Workers |-> NoClaim]
  /\ held = [w \in Workers |-> {}]
  /\ calls = {}

-----------------------------------------------------------------------------
(* Producers.  Ids are drawn in increasing order; the transactions they    *)
(* are drawn in commit in any order.                                       *)

Draw(i, k, began) ==
  /\ rows[i].status = "absent"
  /\ \A j \in Ids : j < i => rows[j].status # "absent"
  /\ began <= clock /\ clock <= began + SlowestTx
  /\ rows' = [rows EXCEPT ![i] = [Absent EXCEPT !.status = "drawn", !.key = k, !.began = began]]
  /\ UNCHANGED <<storage, clock, claims, held, calls>>

\* Seeded bug: DEFAULT now(), as before 0.2.3.
DefaultNow(i) == rows[i].began

\* DEFAULT clock_timestamp()
CreatedAt(i) == clock

Insert(i) ==
  /\ rows[i].status = "drawn"
  /\ rows' = [rows EXCEPT ![i].status = "inserted", ![i].created_at = CreatedAt(i)]
  /\ UNCHANGED <<storage, clock, claims, held, calls>>

CommitInsert(i) ==
  /\ rows[i].status = "inserted"
  /\ rows' = [rows EXCEPT ![i].status = "pending", ![i].began = 0]
  /\ UNCHANGED <<storage, clock, claims, held, calls>>

RollBack(i) ==
  /\ rows[i].status \in Open
  /\ rows' = [rows EXCEPT ![i] = Deleted]
  /\ UNCHANGED <<storage, clock, claims, held, calls>>

-----------------------------------------------------------------------------
(* claim                                                                   *)

BeginClaim(w) ==
  /\ claims[w].pc = "none" /\ held[w] = {}
  /\ claims' = [claims EXCEPT ![w] = [NoClaim EXCEPT !.pc = "begun", !.now = clock]]
  /\ UNCHANGED <<storage, clock, rows, held, calls>>

\* Seeded bug: the lock belongs to the connection, which every claim has its own of.
LockFreeAlways == TRUE

\* pg_advisory_xact_lock: held from here to the end of the transaction.
LockFree == storage.strict_ordering => \A w \in Workers : claims[w].pc # "scanning"

\* Seeded bug: after its lock is taken a row is not looked at again.
DueStatus(i, now) == rows[i].status = "pending"

\* The conditions on the row itself.
Due(i, now) == /\ rows[i].status = "pending"
               /\ rows[i].retry_at <= now
               /\ rows[i].lease_until <= now

\* Seeded bug: without the visibility condition.
VisibleAlways(i, now) == TRUE

Visible(i, now) == storage.visibility_delay > 0 => rows[i].created_at + storage.visibility_delay <= now

\* Seeded bug: NOT EXISTS without OR p.created_at > now() - $4.
BlockedIfDue(i, now) ==
  \E p \in Ids : /\ p < i /\ rows[i].key # NULL /\ rows[p].key = rows[i].key
                 /\ rows[p].status = "pending"
                 /\ rows[p].retry_at > now \/ rows[p].lease_until > now

\* Seeded bug: NOT EXISTS without p.lease_until > now().
BlockedUnlessLeased(i, now) ==
  \E p \in Ids : /\ p < i /\ rows[i].key # NULL /\ rows[p].key = rows[i].key
                 /\ rows[p].status = "pending"
                 /\ rows[p].retry_at > now \/ ~Visible(p, now)

Blocked(i, now) ==
  \E p \in Ids : /\ p < i /\ rows[i].key # NULL /\ rows[p].key = rows[i].key
                 /\ rows[p].status = "pending"
                 /\ rows[p].retry_at > now \/ rows[p].lease_until > now \/ ~Visible(p, now)

Selected(now) == {i \in Ids : /\ Due(i, now) /\ Visible(i, now)
                              /\ storage.strict_ordering => ~Blocked(i, now)}

StartStatement(w) ==
  /\ claims[w].pc = "begun"
  /\ LockFree
  /\ \A i \in Ids : rows[i].attempts < MaxClaims
  /\ claims' = [claims EXCEPT ![w].pc = "scanning",
                              ![w].seen = {i \in Ids : rows[i].status = "pending"},
                              ![w].left = Selected(claims[w].now)]
  /\ UNCHANGED <<storage, clock, rows, held, calls>>

First(i, S) == i \in S /\ \A j \in S : i <= j

RowLocked(i) == (\E w \in Workers : i \in claims[w].got) \/ (\E c \in calls : i \in c.got)

\* FOR UPDATE SKIP LOCKED, in id order; a row that changed is checked again.
TakeRow(w) ==
  /\ claims[w].pc = "scanning"
  /\ Cardinality(claims[w].got) < BatchSize
  /\ \E i \in Ids :
       /\ First(i, claims[w].left)
       /\ claims' = [claims EXCEPT
            ![w].left = @ \ {i},
            ![w].got = @ \cup (IF RowLocked(i) \/ ~Due(i, claims[w].now) THEN {} ELSE {i})]
  /\ UNCHANGED <<storage, clock, rows, held, calls>>

\* Seeded bug: without attempts = o.attempts + 1, which release takes back.
LeasedUncounted(row, w, now) ==
  [row EXCEPT !.leased_by = w, !.lease_until = now + Lease, !.retry_at = 0]

\* What the UPDATE of the claim sets.
Leased(row, w, now) ==
  [row EXCEPT !.attempts = @ + 1, !.leased_by = w, !.lease_until = now + Lease, !.retry_at = 0]

CommitClaim(w) ==
  LET tx == claims[w]
  IN  /\ tx.pc = "scanning"
      /\ tx.left = {} \/ Cardinality(tx.got) = BatchSize
      /\ rows' = [i \in Ids |-> IF i \in tx.got THEN Leased(rows[i], w, tx.now) ELSE rows[i]]
      /\ held' = [held EXCEPT ![w] = tx.got]
      /\ claims' = [claims EXCEPT ![w] = NoClaim]
      /\ UNCHANGED <<storage, clock, calls>>

\* The claim fails, its answer is lost, the round is given up, or the process dies.
Abandon(w) ==
  /\ claims[w].pc # "none" \/ held[w] # {}
  /\ claims' = [claims EXCEPT ![w] = NoClaim]
  /\ held' = [held EXCEPT ![w] = {}]
  /\ UNCHANGED <<storage, clock, rows, calls>>

-----------------------------------------------------------------------------
(* The write-backs: single statements.  Two equal calls count as one.      *)

\* leased_by = $2
Owned(i, w) == rows[i].leased_by = w

\* now() of the relay's host plus the delay, read by the server's clock; an instant before the
\* first reading of that is like 0.
RetryAt(delay) == IF clock + delay > 0 THEN clock + delay ELSE 0

\* ack and release take a list of messages, nack and dead_letter one.
Report(w, op, ids, delay) ==
  /\ ids # {} /\ ids \subseteq held[w]
  /\ op \in {"nack", "dead_letter"} => Cardinality(ids) = 1
  /\ held' = [held EXCEPT ![w] = @ \ ids]
  /\ calls' = calls \cup
       {[op |-> op, worker_id |-> w, left |-> {i \in ids : Owned(i, w)}, got |-> {},
         retry_at |-> IF op \in {"nack", "release"} THEN RetryAt(delay) ELSE 0]}
  /\ UNCHANGED <<storage, clock, rows, claims>>

\* Waits for whoever has locked the row, and then looks at its leased_by again.
LockRow(c) ==
  /\ \E i \in Ids :
       /\ First(i, c.left)
       /\ ~RowLocked(i)
       /\ calls' = (calls \ {c}) \cup
            {[c EXCEPT !.left = @ \ {i},
                       !.got = @ \cup (IF Owned(i, c.worker_id) THEN {i} ELSE {})]}
  /\ UNCHANGED <<storage, clock, rows, claims, held>>

Settled(row) == [row EXCEPT !.leased_by = NULL, !.lease_until = 0]

Written(c, row) ==
  CASE c.op = "ack" -> IF storage.delete_on_ack THEN Deleted ELSE [Settled(row) EXCEPT !.status = "done"]
    [] c.op = "nack" -> [Settled(row) EXCEPT !.retry_at = c.retry_at]
    [] c.op = "release" -> [Settled(row) EXCEPT !.attempts = @ - 1, !.retry_at = c.retry_at]
    [] c.op = "dead_letter" -> [Settled(row) EXCEPT !.status = "dead"]

CommitCall(c) ==
  /\ c.left = {}
  /\ rows' = [i \in Ids |-> IF i \in c.got THEN Written(c, rows[i]) ELSE rows[i]]
  /\ calls' = calls \ {c}
  /\ UNCHANGED <<storage, clock, claims, held>>

LoseCall(c) ==
  /\ calls' = calls \ {c}
  /\ UNCHANGED <<storage, clock, rows, claims, held>>

\* A done row has no lease holder, so nobody locks it.
PurgeDone(older_than) ==
  /\ ~storage.delete_on_ack
  /\ rows' = [i \in Ids |-> IF rows[i].status = "done" /\ rows[i].created_at < clock - older_than
                            THEN Deleted
                            ELSE rows[i]]
  /\ UNCHANGED <<storage, clock, claims, held, calls>>

-----------------------------------------------------------------------------
(* Time.                                                                   *)

InHand(i, w) == i \in held[w] \/ \E c \in calls : c.worker_id = w /\ i \in c.left \cup c.got

\* The next tick ends no lease that is still needed.
InTime ==
  /\ \A w \in Workers : claims[w].pc # "none" => clock + 1 < claims[w].now + Lease
  /\ \A i \in Ids : rows[i].lease_until = clock + 1 => ~InHand(i, rows[i].leased_by)

Tick ==
  /\ clock < MaxTime
  /\ \A i \in Ids : rows[i].status \in Open => clock < rows[i].began + SlowestTx
  /\ Timely => InTime
  /\ clock' = clock + 1
  /\ UNCHANGED <<storage, rows, claims, held, calls>>

-----------------------------------------------------------------------------

ProducerStep(i) ==
  \/ \E k \in Keys, began \in 0..clock : Draw(i, k, began)
  \/ Insert(i)
  \/ CommitInsert(i)
  \/ RollBack(i)

ClaimStep(w) == BeginClaim(w) \/ StartStatement(w) \/ TakeRow(w) \/ CommitClaim(w) \/ Abandon(w)

CallStep(c) == LockRow(c) \/ CommitCall(c) \/ LoseCall(c)

Next ==
  \/ \E i \in Ids : ProducerStep(i)
  \/ \E w \in Workers : ClaimStep(w)
  \/ \E w \in Workers, op \in {"ack", "dead_letter"}, ids \in SUBSET Ids : Report(w, op, ids, 0)
  \/ \E w \in Workers, op \in {"nack", "release"}, ids \in SUBSET Ids, d \in Delays : Report(w, op, ids, d)
  \/ \E c \in calls : CallStep(c)
  \/ \E older_than \in 0..MaxTime : PurgeDone(older_than)
  \/ Tick

Spec == Init /\ [][Next]_vars

-----------------------------------------------------------------------------
(* Properties.                                                             *)

TypeOK ==
  /\ storage \in Options
  /\ clock \in Nat
  /\ rows \in [Ids -> Row]
  /\ claims \in [Workers -> ClaimTx]
  /\ held \in [Workers -> SUBSET Ids]
  /\ calls \subseteq Call

Earlier(p, i) == p < i /\ rows[i].key # NULL /\ rows[p].key = rows[i].key

(***************************************************************************)
(* What the advisory lock is for: with strict ordering a claim that locks  *)
(* a row has locked every earlier row of its key that was pending in its   *)
(* snapshot.  NOT EXISTS answers for the snapshot only, and SKIP LOCKED    *)
(* passes over a row another claim is about to lease; if leases outlast    *)
(* their rounds, neither lets a message overtake an earlier one of its     *)
(* key.                                                                    *)
(***************************************************************************)
KeyTakenWhole ==
  storage.strict_ordering =>
    \A w \in Workers : \A i \in claims[w].got, p \in claims[w].seen :
      Earlier(p, i) => p \in claims[w].got

(***************************************************************************)
(* The same as its docstring puts it (postgres.py:68-71): no claim hands   *)
(* out a message while an earlier pending one of its key is not claimable, *)
(* leased elsewhere or waiting for its retry.                              *)
(***************************************************************************)
HoldsBack ==
  [][storage.strict_ordering =>
       \A w \in Workers : CommitClaim(w) =>
         \A i \in claims[w].got : \A p \in Ids \ claims[w].got :
           Earlier(p, i) /\ rows[p].status = "pending" =>
             rows[p].retry_at <= clock /\ rows[p].lease_until <= clock]_vars

(***************************************************************************)
(* A lease that runs is ended only by a call its holder issued for the     *)
(* message: no claim with an old snapshot or a stale now() takes the row,  *)
(* with the advisory lock or without, and no write-back of a worker that   *)
(* held the row before does, whenever it looked at leased_by.              *)
(***************************************************************************)
LeaseFenced ==
  [][\A i \in Ids, w \in Workers :
       rows[i].leased_by = w /\ rows[i].lease_until > clock /\ rows'[i].leased_by # w =>
         \E c \in calls : c.worker_id = w /\ i \in c.got]_vars

(***************************************************************************)
(* What visibility_delay is for: if it exceeds the slowest producing       *)
(* transaction, no message is handed out while a lower id may still be     *)
(* committed after it.                                                     *)
(***************************************************************************)
NoneSlipsIn ==
  storage.visibility_delay > SlowestTx =>
    \A i \in Ids : rows[i].attempts > 0 \/ (\E w \in Workers : i \in claims[w].got) =>
      \A j \in Ids : j < i => rows[j].status \notin Open

=============================================================================
