--------------------------- MODULE PostgresProofs ---------------------------
(***************************************************************************)
(* Safety of PostgresStorage for any number of messages, workers, keys and *)
(* options, and a clock that runs as far as it likes.                      *)
(***************************************************************************)
EXTENDS PostgresStorage, TLAPS

-----------------------------------------------------------------------------
(* The invariant that holds whatever the timing: a row is locked by one    *)
(* transaction at a time, and does not change while it is, so what the     *)
(* transaction saw when it locked it is still true when it commits.        *)

\* A row with a lease is pending and was claimed; one not committed yet is blank.
SoundRow(r) ==
  /\ r.leased_by # NULL => r.status = "pending" /\ r.attempts > 0
  /\ r.status \in {"absent"} \cup Open =>
       r.attempts = 0 /\ r.retry_at = 0 /\ r.lease_until = 0 /\ r.leased_by = NULL

SoundRows == \A i \in Ids : SoundRow(rows[i])

LockedOnce ==
  /\ \A v, w \in Workers : v # w => claims[v].got \cap claims[w].got = {}
  /\ \A w \in Workers, c \in calls : claims[w].got \cap c.got = {}
  /\ \A c, d \in calls : c # d => c.got \cap d.got = {}

ClaimSound(w) ==
  /\ claims[w].now <= clock
  /\ claims[w].pc # "scanning" => claims[w].got = {} /\ claims[w].left = {}
  /\ \A i \in claims[w].got : Due(i, claims[w].now)

CallSound(c) == \A i \in c.got : rows[i].leased_by = c.worker_id

LocksHold == LockedOnce /\ (\A w \in Workers : ClaimSound(w)) /\ (\A c \in calls : CallSound(c))

LockInv == TypeOK /\ SoundRows /\ LocksHold

-----------------------------------------------------------------------------
(* What a transaction writes.                                              *)

LEMMA BlankRow == Absent \in Row /\ Deleted \in Row /\ SoundRow(Absent) /\ SoundRow(Deleted)
<1>1. Absent \in Row
  BY DEF Absent, Row, Status, Open
<1>2. Deleted \in Row
  BY <1>1 DEF Deleted, Absent, Row, Status, Open
<1> QED
  BY <1>1, <1>2 DEF SoundRow, Absent, Deleted, Open

\* A write-back of its holder frees the row.
LEMMA WrittenRow ==
  ASSUME NEW c \in Call, NEW r \in Row, SoundRow(r), r.leased_by # NULL
  PROVE  Written(c, r) \in Row /\ SoundRow(Written(c, r)) /\ Written(c, r).leased_by = NULL
<1>1. /\ r.status = "pending" /\ r.attempts \in Nat \ {0}
      /\ c.retry_at \in Nat /\ c.op \in {"ack", "nack", "release", "dead_letter"}
  BY DEF SoundRow, Row, Call
<1>2. Settled(r) \in Row /\ Settled(r).leased_by = NULL /\ Settled(r).lease_until = 0
      /\ Settled(r).status = "pending" /\ Settled(r).attempts = r.attempts
  BY <1>1 DEF Settled, Row
<1> DEFINE s == Settled(r)
           n == s.attempts - 1
<1>3. n \in Nat /\ s \in Row
  BY <1>1, <1>2
<1>4. CASE c.op = "ack" /\ storage.delete_on_ack
  BY <1>4, BlankRow DEF Written, Deleted, Absent
<1>5. CASE c.op = "ack" /\ ~storage.delete_on_ack
  <2>1. Written(c, r) = [s EXCEPT !.status = "done"]
    BY <1>5 DEF Written
  <2> HIDE DEF s
  <2> QED
    BY <2>1, <1>2, <1>3 DEF Row, Status, SoundRow, Open, s
<1>6. CASE c.op = "nack"
  <2>1. Written(c, r) = [s EXCEPT !.retry_at = c.retry_at]
    BY <1>6 DEF Written
  <2> QED
    BY <2>1, <1>1, <1>2, <1>3 DEF Row, Status, SoundRow, Open
<1>7. CASE c.op = "release"
  <2>1. Written(c, r) = [s EXCEPT !.attempts = n, !.retry_at = c.retry_at]
    BY <1>7 DEF Written
  <2> HIDE DEF n
  <2> QED
    BY <2>1, <1>1, <1>2, <1>3 DEF Row, Status, SoundRow, Open
<1>8. CASE c.op = "dead_letter"
  <2>1. Written(c, r) = [s EXCEPT !.status = "dead"]
    BY <1>8 DEF Written
  <2> QED
    BY <2>1, <1>1, <1>2, <1>3 DEF Row, Status, SoundRow, Open
<1> QED
  BY <1>1, <1>4, <1>5, <1>6, <1>7, <1>8

\* A row as a claim leaves it.
Claimed(r, w, until) ==
  [r EXCEPT !.attempts = @ + 1, !.leased_by = w, !.lease_until = until, !.retry_at = 0]

LEMMA ClaimedRow ==
  ASSUME NEW r \in Row, r.status = "pending", NEW w \in Workers, NEW until \in Nat
  PROVE  /\ Claimed(r, w, until) \in Row /\ SoundRow(Claimed(r, w, until))
         /\ Claimed(r, w, until).leased_by = w /\ Claimed(r, w, until).lease_until = until
<1> DEFINE n == r.attempts + 1
<1>1. n \in Nat /\ n > 0
  BY DEF Row
<1>2. Claimed(r, w, until) = [r EXCEPT !.attempts = n, !.leased_by = w, !.lease_until = until,
                                       !.retry_at = 0]
  BY DEF Claimed
<1> HIDE DEF n
<1>3. Claimed(r, w, until) \in Row
  <2>1. ASSUME NEW m \in Nat
        PROVE  [r EXCEPT !.attempts = m, !.leased_by = w, !.lease_until = until, !.retry_at = 0] \in Row
    BY DEF Row
  <2> QED
    BY <1>1, <1>2, <2>1
<1>4. /\ Claimed(r, w, until).status = "pending" /\ Claimed(r, w, until).attempts = n
      /\ Claimed(r, w, until).leased_by = w /\ Claimed(r, w, until).lease_until = until
  BY <1>2 DEF Row
<1> QED
  BY <1>1, <1>3, <1>4 DEF SoundRow, Open

-----------------------------------------------------------------------------
(* Rows a transaction has locked are pending; nobody else changes them.    *)

LEMMA LockedPending ==
  ASSUME LockInv
  PROVE  /\ \A w \in Workers : \A i \in claims[w].got : rows[i].status = "pending"
         /\ \A c \in calls : \A i \in c.got : rows[i].status = "pending" /\ rows[i].leased_by # NULL
<1>1. \A c \in calls : c \in Call /\ c.worker_id \in Workers /\ c.got \subseteq Ids
  BY DEF LockInv, TypeOK, Call
<1>2. \A c \in calls : \A i \in c.got : rows[i].leased_by # NULL
  BY <1>1, PostgresAssumption DEF LockInv, LocksHold, CallSound
<1> QED
  BY <1>1, <1>2 DEF LockInv, LocksHold, ClaimSound, Due, SoundRows, SoundRow

-----------------------------------------------------------------------------
(* Rows that no transaction can have locked may change as they like.       *)

LEMMA FreeRowsChange ==
  ASSUME LockInv, rows' \in [Ids -> Row], \A i \in Ids : SoundRow(rows'[i]),
         \A i \in Ids : rows[i].status = "pending" => rows'[i] = rows[i],
         UNCHANGED <<storage, clock, claims, held, calls>>
  PROVE  LockInv'
<1>1. TypeOK' /\ SoundRows' /\ LockedOnce'
  BY DEF LockInv, TypeOK, SoundRows, SoundRow, LocksHold, LockedOnce
<1>2. ASSUME NEW w \in Workers PROVE ClaimSound(w)'
  <2>1. \A i \in claims[w].got : i \in Ids /\ rows'[i] = rows[i]
    BY LockedPending DEF LockInv, TypeOK, ClaimTx
  <2> QED
    BY <2>1 DEF LockInv, LocksHold, ClaimSound, Due
<1>3. ASSUME NEW c \in calls PROVE CallSound(c)'
  <2>1. \A i \in c.got : i \in Ids /\ rows'[i] = rows[i]
    BY LockedPending DEF LockInv, TypeOK, Call
  <2> QED
    BY <2>1 DEF LockInv, LocksHold, CallSound
<1> QED
  BY <1>1, <1>2, <1>3 DEF LockInv, LocksHold

LEMMA FreeRowChanges ==
  ASSUME LockInv, NEW i \in Ids, NEW r \in Row, SoundRow(r), rows[i].status # "pending",
         rows' = [rows EXCEPT ![i] = r], UNCHANGED <<storage, clock, claims, held, calls>>
  PROVE  LockInv'
<1>1. /\ rows' \in [Ids -> Row]
      /\ \A j \in Ids : SoundRow(rows'[j])
      /\ \A j \in Ids : rows[j].status = "pending" => rows'[j] = rows[j]
  BY DEF LockInv, TypeOK, SoundRows
<1> QED
  BY <1>1, FreeRowsChange

LEMMA ProducerKeepsLocks ==
  ASSUME LockInv, NEW i \in Ids, ProducerStep(i)
  PROVE  LockInv'
<1>0. rows[i] \in Row /\ SoundRow(rows[i]) /\ clock \in Nat
  BY DEF LockInv, TypeOK, SoundRows
<1>1. ASSUME NEW k \in Keys, NEW began \in 0..clock, Draw(i, k, began) PROVE LockInv'
  <2> DEFINE r == [Absent EXCEPT !.status = "drawn", !.key = k, !.began = began]
  <2>1. began \in Nat
    BY <1>0
  <2>2. r \in Row /\ SoundRow(r)
    BY <2>1 DEF Row, Absent, Status, Open, SoundRow
  <2> QED
    BY <1>1, <2>2, FreeRowChanges DEF Draw
<1>2. CASE Insert(i)
  <2> DEFINE r == [rows[i] EXCEPT !.status = "inserted", !.created_at = clock]
  <2>1. r \in Row /\ SoundRow(r)
    BY <1>0, <1>2 DEF Insert, Row, Status, Open, SoundRow
  <2>2. rows' = [rows EXCEPT ![i] = r]
    BY <1>2 DEF Insert, CreatedAt
  <2> QED
    BY <1>2, <2>1, <2>2, FreeRowChanges DEF Insert
<1>3. CASE CommitInsert(i)
  <2> DEFINE r == [rows[i] EXCEPT !.status = "pending", !.began = 0]
  <2>1. r \in Row /\ SoundRow(r)
    BY <1>0, <1>3 DEF CommitInsert, Row, Status, Open, SoundRow
  <2>2. rows' = [rows EXCEPT ![i] = r]
    BY <1>3 DEF CommitInsert
  <2> QED
    BY <1>3, <2>1, <2>2, FreeRowChanges DEF CommitInsert
<1>4. CASE RollBack(i)
  BY <1>4, BlankRow, FreeRowChanges DEF RollBack, Open
<1> QED
  BY <1>1, <1>2, <1>3, <1>4 DEF ProducerStep

LEMMA PurgeKeepsLocks ==
  ASSUME LockInv, NEW older_than \in 0..MaxTime, PurgeDone(older_than)
  PROVE  LockInv'
<1>1. /\ rows' \in [Ids -> Row]
      /\ \A i \in Ids : SoundRow(rows'[i])
      /\ \A i \in Ids : rows[i].status = "pending" => rows'[i] = rows[i]
  BY BlankRow DEF LockInv, TypeOK, SoundRows, PurgeDone
<1> QED
  BY <1>1, FreeRowsChange DEF PurgeDone

-----------------------------------------------------------------------------
(* Claims.                                                                 *)

LEMMA ClaimKeepsLocks ==
  ASSUME LockInv, NEW w \in Workers, ClaimStep(w)
  PROVE  LockInv'
<1>0. /\ claims[w] \in ClaimTx /\ NoClaim \in ClaimTx /\ clock \in Nat /\ claims \in [Workers -> ClaimTx]
      /\ claims[w].now \in Nat
  BY DEF LockInv, TypeOK, ClaimTx, NoClaim
<1>1. CASE BeginClaim(w)
  <2>1. TypeOK'
    BY <1>0, <1>1 DEF LockInv, TypeOK, BeginClaim, ClaimTx, NoClaim
  <2> QED
    BY <1>0, <1>1, <2>1 DEF LockInv, TypeOK, SoundRows, LocksHold, LockedOnce, ClaimSound, CallSound,
         BeginClaim, NoClaim, Due
<1>2. CASE StartStatement(w)
  <2> DEFINE seen == {i \in Ids : rows[i].status = "pending"}
             left == Selected(claims[w].now)
  <2>1. left \subseteq Ids /\ seen \subseteq Ids
    BY DEF Selected
  <2>2. claims' = [claims EXCEPT ![w].pc = "scanning", ![w].seen = seen, ![w].left = left]
    BY <1>2 DEF StartStatement
  <2> HIDE DEF seen, left
  <2>3. claims' \in [Workers -> ClaimTx]
    BY <1>0, <2>1, <2>2 DEF ClaimTx
  <2>4. TypeOK'
    <3>1. UNCHANGED <<storage, clock, rows, held, calls>>
      BY <1>2 DEF StartStatement
    <3> QED
      BY <2>3, <3>1 DEF LockInv, TypeOK
  <2>5. /\ UNCHANGED <<storage, clock, rows, held, calls>>
        /\ \A v \in Workers : /\ claims'[v].now = claims[v].now /\ claims'[v].got = claims[v].got
                              /\ claims'[v].pc # "scanning" => claims'[v] = claims[v]
    <3>1. /\ UNCHANGED <<storage, clock, rows, held, calls>>
          /\ \A v \in Workers : v # w => claims'[v] = claims[v]
      BY <1>0, <1>2, <2>2 DEF StartStatement
    <3>2. claims'[w].now = claims[w].now /\ claims'[w].got = claims[w].got /\ claims'[w].pc = "scanning"
      BY <1>0, <2>2 DEF ClaimTx
    <3> QED
      BY <3>1, <3>2
  <2> QED
    BY <2>4, <2>5 DEF LockInv, SoundRows, LocksHold, LockedOnce, ClaimSound, CallSound, Due
<1>3. CASE TakeRow(w)
  <2>1. PICK i \in Ids :
          claims' = [claims EXCEPT
            ![w].left = @ \ {i},
            ![w].got = @ \cup (IF RowLocked(i) \/ ~Due(i, claims[w].now) THEN {} ELSE {i})]
    BY <1>3 DEF TakeRow
  <2>2. /\ claims[w].pc = "scanning"
        /\ UNCHANGED <<storage, clock, rows, held, calls>>
    BY <1>3 DEF TakeRow
  <2>3. TypeOK'
    BY <1>0, <2>1, <2>2 DEF LockInv, TypeOK, ClaimTx
  <2>4. LockedOnce'
    BY <1>0, <2>1, <2>2 DEF LockInv, LocksHold, LockedOnce, RowLocked
  <2>5. ASSUME NEW v \in Workers PROVE ClaimSound(v)'
    BY <1>0, <2>1, <2>2 DEF LockInv, LocksHold, ClaimSound, Due
  <2> QED
    BY <2>2, <2>3, <2>4, <2>5 DEF LockInv, SoundRows, LocksHold, CallSound
<1>4. CASE CommitClaim(w)
  <2> DEFINE until == claims[w].now + Lease
             got == claims[w].got
  <2>0. got \subseteq Ids /\ until \in Nat
    BY <1>0, PostgresAssumption DEF ClaimTx
  <2>1. /\ rows' = [i \in Ids |-> IF i \in got THEN Claimed(rows[i], w, until) ELSE rows[i]]
        /\ held' = [held EXCEPT ![w] = got] /\ claims' = [claims EXCEPT ![w] = NoClaim]
        /\ UNCHANGED <<storage, clock, calls>>
    BY <1>4 DEF CommitClaim, Leased, Claimed
  <2>2. \A i \in Ids : rows[i] \in Row /\ SoundRow(rows[i]) /\ (i \in got => rows[i].status = "pending")
    BY LockedPending DEF LockInv, TypeOK, SoundRows
  <2> HIDE DEF until
  <2>3. \A i \in Ids : rows'[i] \in Row /\ SoundRow(rows'[i])
    <3>1. ASSUME NEW i \in Ids PROVE rows'[i] \in Row /\ SoundRow(rows'[i])
      BY <2>0, <2>1, <2>2, ClaimedRow
    <3> QED
      BY <3>1
  <2>4. \A i \in Ids \ got : rows'[i] = rows[i]
    BY <2>1
  <2>5. TypeOK'
    BY <1>0, <2>0, <2>1, <2>3 DEF LockInv, TypeOK
  <2>6. /\ \A v \in Workers : claims'[v] = IF v = w THEN NoClaim ELSE claims[v]
        /\ \A v \in Workers : claims[v].got \subseteq Ids
        /\ \A c \in calls : c.got \subseteq Ids
    BY <1>0, <2>1 DEF LockInv, TypeOK, Call, ClaimTx
  <2>7. LockedOnce'
    BY <2>1, <2>6 DEF LockInv, LocksHold, LockedOnce, NoClaim
  <2>8. ASSUME NEW v \in Workers PROVE ClaimSound(v)'
    <3>1. v # w => \A i \in claims[v].got : i \in Ids \ got
      BY <2>6 DEF LockInv, LocksHold, LockedOnce
    <3> QED
      BY <1>0, <2>1, <2>4, <2>6, <3>1 DEF LockInv, LocksHold, ClaimSound, Due, NoClaim
  <2>9. ASSUME NEW c \in calls PROVE CallSound(c)'
    <3>1. \A i \in c.got : i \in Ids \ got
      BY <2>6 DEF LockInv, LocksHold, LockedOnce
    <3> QED
      BY <2>4, <3>1 DEF LockInv, LocksHold, CallSound
  <2> QED
    BY <2>1, <2>3, <2>5, <2>7, <2>8, <2>9 DEF LockInv, SoundRows, LocksHold
<1>5. CASE Abandon(w)
  <2>1. TypeOK'
    BY <1>0, <1>5 DEF LockInv, TypeOK, Abandon
  <2> QED
    BY <1>0, <1>5, <2>1 DEF LockInv, TypeOK, SoundRows, LocksHold, LockedOnce, ClaimSound, CallSound,
         Abandon, NoClaim, Due
<1> QED
  BY <1>1, <1>2, <1>3, <1>4, <1>5 DEF ClaimStep

-----------------------------------------------------------------------------
(* Write-backs.                                                            *)

LEMMA ReportKeepsLocks ==
  ASSUME LockInv, NEW w \in Workers, NEW op \in {"ack", "nack", "release", "dead_letter"},
         NEW ids \in SUBSET Ids, NEW delay \in Delays \cup {0}, Report(w, op, ids, delay)
  PROVE  LockInv'
<1> DEFINE c == [op |-> op, worker_id |-> w, left |-> {i \in ids : Owned(i, w)}, got |-> {},
                 retry_at |-> IF op \in {"nack", "release"} THEN RetryAt(delay) ELSE 0]
<1>1. c \in Call
  <2>1. \A d \in Delays \cup {0} : RetryAt(d) \in Nat
    BY PostgresAssumption DEF RetryAt, LockInv, TypeOK
  <2> QED
    BY <2>1 DEF Call
<1>2. c.got = {} /\ calls' = calls \cup {c} /\ UNCHANGED <<storage, clock, rows, claims>>
  BY DEF Report
<1> HIDE DEF c
<1>3. TypeOK'
  BY <1>1, <1>2 DEF Report, LockInv, TypeOK
<1> QED
  BY <1>2, <1>3 DEF LockInv, SoundRows, LocksHold, LockedOnce, ClaimSound, CallSound, Due

LEMMA CallKeepsLocks ==
  ASSUME LockInv, NEW c \in calls, CallStep(c)
  PROVE  LockInv'
<1>0. c \in Call /\ c.got \subseteq Ids /\ c.worker_id \in Workers
  BY DEF LockInv, TypeOK, Call
<1>1. CASE LockRow(c)
  <2>1. PICK i \in Ids :
          /\ ~RowLocked(i)
          /\ calls' = (calls \ {c}) \cup
               {[c EXCEPT !.left = @ \ {i},
                          !.got = @ \cup (IF Owned(i, c.worker_id) THEN {i} ELSE {})]}
    BY <1>1 DEF LockRow
  <2> DEFINE d == [c EXCEPT !.left = @ \ {i},
                            !.got = @ \cup (IF Owned(i, c.worker_id) THEN {i} ELSE {})]
  <2>2. d \in Call /\ d.worker_id = c.worker_id /\ d.got \subseteq c.got \cup {i}
        /\ (i \in d.got \ c.got => rows[i].leased_by = c.worker_id)
    BY <1>0 DEF Call, Owned
  <2>3. calls' = (calls \ {c}) \cup {d} /\ UNCHANGED <<storage, clock, rows, claims, held>>
    BY <1>1, <2>1 DEF LockRow
  <2> HIDE DEF d
  <2>4. TypeOK'
    BY <2>2, <2>3 DEF LockInv, TypeOK
  <2>5. LockedOnce'
    BY <2>1, <2>2, <2>3 DEF LockInv, LocksHold, LockedOnce, RowLocked
  <2> QED
    BY <2>2, <2>3, <2>4, <2>5 DEF LockInv, SoundRows, LocksHold, ClaimSound, CallSound, Due
<1>2. CASE CommitCall(c)
  <2>1. \A i \in Ids : /\ rows[i] \in Row /\ SoundRow(rows[i])
                       /\ i \in c.got => rows[i].leased_by # NULL
    BY LockedPending DEF LockInv, TypeOK, SoundRows
  <2>2. /\ rows' = [i \in Ids |-> IF i \in c.got THEN Written(c, rows[i]) ELSE rows[i]]
        /\ calls' = calls \ {c} /\ UNCHANGED <<storage, clock, claims, held>>
    BY <1>2 DEF CommitCall
  <2>3. \A i \in Ids : rows'[i] \in Row /\ SoundRow(rows'[i])
    <3>1. ASSUME NEW i \in Ids PROVE rows'[i] \in Row /\ SoundRow(rows'[i])
      BY <1>0, <2>1, <2>2, WrittenRow
    <3> QED
      BY <3>1
  <2>4. TypeOK'
    BY <2>2, <2>3 DEF LockInv, TypeOK
  <2>5. LockedOnce'
    BY <2>2 DEF LockInv, LocksHold, LockedOnce
  <2>6. ASSUME NEW v \in Workers PROVE ClaimSound(v)'
    <3>1. \A i \in claims[v].got : i \in Ids /\ i \notin c.got
      BY DEF LockInv, LocksHold, LockedOnce, TypeOK, ClaimTx
    <3>2. \A i \in claims[v].got : rows'[i] = rows[i]
      BY <2>2, <3>1
    <3> QED
      BY <2>2, <3>2 DEF LockInv, LocksHold, ClaimSound, Due
  <2>7. ASSUME NEW e \in calls' PROVE CallSound(e)'
    <3>1. e \in calls /\ \A i \in e.got : i \in Ids /\ i \notin c.got
      BY <2>2 DEF LockInv, LocksHold, LockedOnce, TypeOK, Call
    <3>2. \A i \in e.got : rows'[i] = rows[i]
      BY <2>2, <3>1
    <3> QED
      BY <3>1, <3>2 DEF LockInv, LocksHold, CallSound
  <2> QED
    BY <2>3, <2>4, <2>5, <2>6, <2>7 DEF LockInv, SoundRows, LocksHold
<1>3. CASE LoseCall(c)
  BY <1>3 DEF LoseCall, LockInv, TypeOK, SoundRows, LocksHold, LockedOnce, ClaimSound, CallSound, Due
<1> QED
  BY <1>1, <1>2, <1>3 DEF CallStep

-----------------------------------------------------------------------------

LEMMA LockInvHolds == Spec => []LockInv
<1>1. Init => LockInv
  <2> SUFFICES ASSUME Init PROVE LockInv
    OBVIOUS
  <2>1. NoClaim \in ClaimTx
    BY DEF NoClaim, ClaimTx
  <2>2. TypeOK
    BY <2>1, BlankRow DEF Init, TypeOK
  <2> QED
    BY <2>2, BlankRow DEF Init, LockInv, SoundRows, LocksHold, LockedOnce, ClaimSound, NoClaim
<1>2. LockInv /\ [Next]_vars => LockInv'
  <2> SUFFICES ASSUME LockInv, [Next]_vars PROVE LockInv'
    OBVIOUS
  <2>1. CASE Tick
    BY <2>1 DEF Tick, LockInv, TypeOK, SoundRows, LocksHold, LockedOnce, ClaimSound, CallSound, Due,
       ClaimTx
  <2>2. CASE UNCHANGED vars
    BY <2>2 DEF vars, LockInv, TypeOK, SoundRows, LocksHold, LockedOnce, ClaimSound, CallSound, Due
  <2> QED
    BY <2>1, <2>2, ProducerKeepsLocks, ClaimKeepsLocks, ReportKeepsLocks, CallKeepsLocks,
       PurgeKeepsLocks DEF Next
<1> QED
  BY <1>1, <1>2, PTL DEF Spec

(***************************************************************************)
(* The state of the adapter has its types for every size, timing and       *)
(* interleaving of producers, claims, write-backs and purges, and its rows *)
(* are sound: only a pending row that was claimed has a lease, so that a   *)
(* release never takes attempts below 0, and what is not committed yet is  *)
(* blank.                                                                  *)
(***************************************************************************)
THEOREM PostgresTypes == Spec => [](TypeOK /\ SoundRows)
BY LockInvHolds, PTL DEF LockInv

(***************************************************************************)
(* A running lease ends by a call of its holder only, whatever the timing: *)
(* neither a claim with an old snapshot or a stale now() nor a write-back  *)
(* of an earlier holder takes the row.                                     *)
(***************************************************************************)
THEOREM PostgresLeaseFenced == Spec => LeaseFenced
<1>1. ASSUME LockInv, [Next]_vars, NEW i \in Ids, NEW w \in Workers,
             rows[i].leased_by = w, rows[i].lease_until > clock, rows'[i].leased_by # w
      PROVE  \E c \in calls : c.worker_id = w /\ i \in c.got
  <2>0. w # NULL /\ rows[i].status = "pending" /\ clock \in Nat
    BY <1>1, PostgresAssumption DEF LockInv, TypeOK, SoundRows, SoundRow
  <2>1. ASSUME NEW j \in Ids, ProducerStep(j) PROVE FALSE
    BY <1>1, <2>0, <2>1 DEF ProducerStep, Draw, Insert, CommitInsert, RollBack, Open, LockInv, TypeOK
  <2>2. ASSUME NEW v \in Workers, ClaimStep(v) PROVE FALSE
    <3>1. CASE CommitClaim(v)
      <4>1. i \notin claims[v].got
        <5>1. claims[v].now \in Nat /\ rows[i].lease_until \in Nat
          BY <1>1 DEF LockInv, TypeOK, ClaimTx, Row
        <5>2. /\ claims[v].now <= clock
              /\ i \in claims[v].got => rows[i].lease_until <= claims[v].now
          BY <1>1 DEF LockInv, LocksHold, ClaimSound, Due
        <5> QED
          BY <1>1, <2>0, <5>1, <5>2
      <4> QED
        BY <1>1, <3>1, <4>1 DEF CommitClaim
    <3> QED
      BY <1>1, <2>2, <3>1 DEF ClaimStep, BeginClaim, StartStatement, TakeRow, Abandon
  <2>3. ASSUME NEW c \in calls, CallStep(c) PROVE c.worker_id = w /\ i \in c.got
    BY <1>1, <2>3 DEF CallStep, LockRow, CommitCall, LoseCall, LockInv, LocksHold, CallSound, TypeOK
  <2>4. ASSUME NEW older_than \in 0..MaxTime, PurgeDone(older_than) PROVE FALSE
    BY <1>1, <2>0, <2>4 DEF PurgeDone
  <2> QED
    BY <1>1, <2>1, <2>2, <2>3, <2>4 DEF Next, Report, Tick, vars
<1>2. LockInv /\ [Next]_vars =>
        [\A i \in Ids, w \in Workers :
           rows[i].leased_by = w /\ rows[i].lease_until > clock /\ rows'[i].leased_by # w =>
             \E c \in calls : c.worker_id = w /\ i \in c.got]_vars
  BY <1>1
<1> QED
  BY <1>2, LockInvHolds, PTL DEF Spec, LeaseFenced

-----------------------------------------------------------------------------
(* What a step may do to a row.                                            *)

Unleased(r) == r.attempts = 0 /\ r.retry_at = 0 /\ r.lease_until = 0 /\ r.leased_by = NULL

ByProducer(i) ==
  /\ rows[i].status \in {"absent"} \cup Open
  /\ rows'[i].status \in {"pending", "deleted"} \cup Open
  /\ Unleased(rows'[i])

ByClaim(i, w) == CommitClaim(w) /\ i \in claims[w].got

ByCall(i, c) == CommitCall(c) /\ i \in c.got /\ rows'[i] = Written(c, rows[i])

ByPurge(i) == rows[i].status = "done" /\ rows'[i] = Deleted

LEMMA OptionsFixed == [Next]_vars => storage' = storage
BY DEF Next, ProducerStep, Draw, Insert, CommitInsert, RollBack, ClaimStep, BeginClaim,
   StartStatement, TakeRow, CommitClaim, Abandon, Report, CallStep, LockRow, CommitCall, LoseCall,
   PurgeDone, Tick, vars

LEMMA ProducerEffect ==
  ASSUME LockInv, NEW j \in Ids, ProducerStep(j), NEW i \in Ids
  PROVE  rows'[i] = rows[i] \/ ByProducer(i)
<1>0. rows \in [Ids -> Row] /\ SoundRow(rows[j]) /\ rows[j] \in Row
  BY DEF LockInv, TypeOK, SoundRows
<1>1. ASSUME NEW k \in Keys, NEW began \in 0..clock, Draw(j, k, began)
      PROVE  rows'[i] = rows[i] \/ ByProducer(i)
  BY <1>0, <1>1 DEF Draw, Absent, Open, ByProducer, Unleased
<1>2. CASE Insert(j)
  <2>1. Unleased(rows[j]) /\ rows[j].status = "drawn"
    BY <1>0, <1>2 DEF Insert, SoundRow, Open, Unleased
  <2>2. Unleased(rows'[j]) /\ rows'[j].status = "inserted" /\ \A k \in Ids \ {j} : rows'[k] = rows[k]
    BY <1>0, <1>2, <2>1 DEF Insert, Row, Unleased
  <2> QED
    BY <2>1, <2>2 DEF ByProducer, Open
<1>3. CASE CommitInsert(j)
  <2>1. Unleased(rows[j]) /\ rows[j].status = "inserted"
    BY <1>0, <1>3 DEF CommitInsert, SoundRow, Open, Unleased
  <2>2. Unleased(rows'[j]) /\ rows'[j].status = "pending" /\ \A k \in Ids \ {j} : rows'[k] = rows[k]
    BY <1>0, <1>3, <2>1 DEF CommitInsert, Row, Unleased
  <2> QED
    BY <2>1, <2>2 DEF ByProducer, Open
<1>4. CASE RollBack(j)
  BY <1>0, <1>4 DEF RollBack, Deleted, Absent, Open, ByProducer, Unleased
<1> QED
  BY <1>1, <1>2, <1>3, <1>4 DEF ProducerStep

LEMMA RowEffects ==
  ASSUME LockInv, [Next]_vars, NEW i \in Ids, rows'[i] # rows[i]
  PROVE  \/ ByProducer(i) /\ \E j \in Ids : ProducerStep(j)
         \/ \E w \in Workers : ByClaim(i, w)
         \/ \E c \in calls : ByCall(i, c)
         \/ ByPurge(i)
<1>0. rows \in [Ids -> Row] /\ SoundRow(rows[i])
  BY DEF LockInv, TypeOK, SoundRows
<1>1. ASSUME NEW j \in Ids, ProducerStep(j) PROVE ByProducer(i)
  BY <1>1, ProducerEffect
<1>2. ASSUME NEW w \in Workers, ClaimStep(w) PROVE ByClaim(i, w)
  BY <1>0, <1>2 DEF ClaimStep, BeginClaim, StartStatement, TakeRow, CommitClaim, Abandon, ByClaim
<1>3. ASSUME NEW c \in calls, CallStep(c) PROVE ByCall(i, c)
  BY <1>0, <1>3 DEF CallStep, LockRow, CommitCall, LoseCall, ByCall
<1>4. ASSUME NEW older_than \in 0..MaxTime, PurgeDone(older_than) PROVE ByPurge(i)
  BY <1>0, <1>4 DEF PurgeDone, ByPurge
<1> QED
  BY <1>1, <1>2, <1>3, <1>4 DEF Next, Report, Tick, vars

-----------------------------------------------------------------------------
(* Rounds and write-backs that end within the lease.                       *)

InLease ==
  /\ \A w \in Workers : claims[w].pc # "none" => clock < claims[w].now + Lease
  /\ \A i \in Ids, w \in Workers : InHand(i, w) /\ rows[i].leased_by = w => rows[i].lease_until > clock

LEMMA InLeaseStep ==
  ASSUME Timely, LockInv, InLease, [Next]_vars
  PROVE  InLease'
<1>0. /\ rows \in [Ids -> Row] /\ claims \in [Workers -> ClaimTx] /\ clock \in Nat
      /\ held \in [Workers -> SUBSET Ids] /\ Lease \in Nat \ {0} /\ NULL \notin Workers
      /\ \A i \in Ids : SoundRow(rows[i])
  BY PostgresAssumption DEF LockInv, TypeOK, SoundRows
<1>1. ASSUME NEW j \in Ids, ProducerStep(j) PROVE InLease'
  <2>1. UNCHANGED <<storage, clock, claims, held, calls>>
    BY <1>1 DEF ProducerStep, Draw, Insert, CommitInsert, RollBack
  <2>2. \A i \in Ids : rows'[i].leased_by = rows[i].leased_by /\ rows'[i].lease_until = rows[i].lease_until
    BY <1>0, <1>1, ProducerEffect DEF ByProducer, Unleased, SoundRow
  <2> QED
    BY <2>1, <2>2 DEF InLease, InHand
<1>2. ASSUME NEW v \in Workers, ClaimStep(v) PROVE InLease'
  <2>1. CASE BeginClaim(v) \/ StartStatement(v) \/ TakeRow(v)
    <3>1. UNCHANGED <<storage, clock, rows, held, calls>>
      BY <2>1 DEF BeginClaim, StartStatement, TakeRow
    <3>2. \A w \in Workers : claims'[w].pc # "none" =>
            claims'[w].now = clock \/ (claims'[w].now = claims[w].now /\ claims[w].pc # "none")
      <4>1. \A w \in Workers : w # v => claims'[w] = claims[w]
        BY <1>0, <2>1 DEF BeginClaim, StartStatement, TakeRow, ClaimTx
      <4>2. BeginClaim(v) => claims'[v].now = clock
        BY <1>0 DEF BeginClaim, NoClaim
      <4>3. StartStatement(v) => claims'[v].now = claims[v].now /\ claims[v].pc # "none"
        <5> DEFINE seen == {i \in Ids : rows[i].status = "pending"}
                   left == Selected(claims[v].now)
        <5>1. StartStatement(v) =>
                /\ claims[v].pc = "begun"
                /\ claims' = [claims EXCEPT ![v].pc = "scanning", ![v].seen = seen, ![v].left = left]
          BY DEF StartStatement
        <5> HIDE DEF seen, left
        <5> QED
          BY <1>0, <5>1 DEF ClaimTx
      <4>4. TakeRow(v) => claims'[v].now = claims[v].now /\ claims[v].pc # "none"
        BY <1>0 DEF TakeRow, ClaimTx
      <4> QED
        BY <2>1, <4>1, <4>2, <4>3, <4>4
    <3>3. \A w \in Workers : claims'[w].pc # "none" => clock < claims'[w].now + Lease
      BY <1>0, <3>2 DEF InLease
    <3> QED
      BY <3>1, <3>3 DEF InLease, InHand
  <2>2. CASE CommitClaim(v)
    <3> DEFINE got == claims[v].got
    <3>1. \A w \in Workers : claims'[w].pc # "none" => clock < claims'[w].now + Lease
      BY <1>0, <2>2 DEF CommitClaim, NoClaim, InLease
    <3>2. got \subseteq Ids /\ held' = [held EXCEPT ![v] = got] /\ UNCHANGED <<clock, calls>>
          /\ claims[v].pc # "none" /\ (\A i \in Ids \ got : rows'[i] = rows[i])
      BY <1>0, <2>2 DEF CommitClaim, ClaimTx
    <3>3. \A i \in got : rows'[i].leased_by = v /\ rows'[i].lease_until = claims[v].now + Lease
      <4>1. \A i \in got : rows'[i] = Claimed(rows[i], v, claims[v].now + Lease)
        BY <2>2, <3>2 DEF CommitClaim, Leased, Claimed
      <4>2. \A i \in got : rows[i] \in Row /\ rows[i].status = "pending"
        BY <1>0, <3>2, LockedPending
      <4>3. claims[v].now + Lease \in Nat
        BY <1>0 DEF ClaimTx
      <4> QED
        BY <4>1, <4>2, <4>3, ClaimedRow
    <3>4. ASSUME NEW i \in Ids, NEW w \in Workers, InHand(i, w)', rows'[i].leased_by = w
          PROVE  rows'[i].lease_until > clock
      <4>1. CASE i \in got
        BY <1>0, <3>2, <3>3, <4>1 DEF InLease, ClaimTx
      <4>2. CASE i \notin got
        BY <1>0, <3>2, <3>4, <4>2 DEF InLease, InHand
      <4> QED
        BY <4>1, <4>2
    <3> QED
      BY <3>1, <3>2, <3>4 DEF InLease
  <2>3. CASE Abandon(v)
    BY <1>0, <2>3 DEF Abandon, InLease, InHand, NoClaim
  <2> QED
    BY <1>2, <2>1, <2>2, <2>3 DEF ClaimStep
<1>3. ASSUME NEW w \in Workers, NEW op \in {"ack", "nack", "release", "dead_letter"},
             NEW ids \in SUBSET Ids, NEW d \in Delays \cup {0}, Report(w, op, ids, d)
      PROVE  InLease'
  BY <1>0, <1>3 DEF Report, InLease, InHand
<1>4. ASSUME NEW c \in calls, CallStep(c) PROVE InLease'
  <2>0. c \in Call
    BY DEF LockInv, TypeOK
  <2>1. CASE LockRow(c)
    <3>1. PICK i \in Ids :
            /\ First(i, c.left)
            /\ calls' = (calls \ {c}) \cup
                 {[c EXCEPT !.left = @ \ {i},
                            !.got = @ \cup (IF Owned(i, c.worker_id) THEN {i} ELSE {})]}
      BY <2>1 DEF LockRow
    <3> DEFINE d == [c EXCEPT !.left = @ \ {i},
                              !.got = @ \cup (IF Owned(i, c.worker_id) THEN {i} ELSE {})]
    <3>2. d.worker_id = c.worker_id /\ d.left \cup d.got \subseteq c.left \cup c.got
      BY <2>0, <3>1 DEF Call, First
    <3>3. calls' = (calls \ {c}) \cup {d} /\ UNCHANGED <<clock, rows, claims, held>>
      BY <2>1, <3>1 DEF LockRow
    <3> HIDE DEF d
    <3> QED
      BY <3>2, <3>3 DEF InLease, InHand
  <2>2. CASE CommitCall(c)
    <3>1. /\ rows' = [i \in Ids |-> IF i \in c.got THEN Written(c, rows[i]) ELSE rows[i]]
          /\ calls' = calls \ {c} /\ UNCHANGED <<clock, claims, held>>
      BY <2>2 DEF CommitCall
    <3>2. \A i \in Ids : i \in c.got => rows'[i].leased_by = NULL
      <4>1. \A i \in Ids : i \in c.got => rows[i].leased_by # NULL
        BY LockedPending
      <4> QED
        BY <1>0, <2>0, <3>1, <4>1, WrittenRow
    <3> QED
      BY <1>0, <3>1, <3>2 DEF InLease, InHand
  <2>3. CASE LoseCall(c)
    BY <2>3 DEF LoseCall, InLease, InHand
  <2> QED
    BY <1>4, <2>1, <2>2, <2>3 DEF CallStep
<1>5. ASSUME NEW older_than \in 0..MaxTime, PurgeDone(older_than) PROVE InLease'
  <2>1. \A i \in Ids : rows'[i] = rows[i] \/ rows'[i].leased_by = NULL
    BY <1>5 DEF PurgeDone, Deleted, Absent
  <2> QED
    BY <1>0, <1>5, <2>1 DEF PurgeDone, InLease, InHand
<1>6. CASE Tick
  <2>1. InTime /\ clock' = clock + 1 /\ UNCHANGED <<rows, claims, held, calls>>
    BY <1>6 DEF Tick
  <2>2. \A i \in Ids : rows[i].lease_until \in Nat
    BY <1>0 DEF Row
  <2>3. \A i \in Ids, w \in Workers : (InHand(i, w)' <=> InHand(i, w))
    BY <2>1 DEF InHand
  <2>4. \A w \in Workers : claims'[w].pc # "none" => clock' < claims'[w].now + Lease
    BY <2>1 DEF InTime
  <2>5. ASSUME NEW i \in Ids, NEW w \in Workers, InHand(i, w)', rows'[i].leased_by = w
        PROVE  rows'[i].lease_until > clock'
    <3>1. rows[i].lease_until > clock /\ rows[i].lease_until # clock + 1
      BY <2>1, <2>3, <2>5 DEF InLease, InTime
    <3> QED
      BY <1>0, <2>1, <2>2, <3>1
  <2> QED
    BY <2>4, <2>5 DEF InLease
<1>7. CASE UNCHANGED vars
  BY <1>7 DEF vars, InLease, InHand
<1> QED
  BY <1>1, <1>2, <1>3, <1>4, <1>5, <1>6, <1>7 DEF Next

-----------------------------------------------------------------------------
(* Strict ordering, rounds within the lease: the statement scans alone,    *)
(* and nobody disturbs the rows it selected.                               *)

ScanAlone == \A v, w \in Workers : claims[v].pc = "scanning" /\ claims[w].pc = "scanning" => v = w

ScanSound(w) ==
  LET tx == claims[w]
  IN  /\ \A i \in tx.left : Due(i, tx.now)
      /\ \A i \in tx.got, j \in tx.left : i < j
      /\ \A p \in tx.seen : rows[p].status \notin {"absent"} \cup Open
      /\ \A i \in tx.left \cup tx.got, p \in tx.seen : Earlier(p, i) => p \in tx.left \cup tx.got
      /\ tx.pc = "scanning" => \A p \in Ids \ tx.seen : rows[p].status = "pending" => Unleased(rows[p])
      /\ tx.pc # "scanning" => tx.seen = {}

ScanInv == ScanAlone /\ \A w \in Workers : ScanSound(w)

KeyInv == LockInv /\ InLease /\ (storage.strict_ordering => ScanInv)

\* What a write-back leaves of a row's key and status.
LEMMA WrittenKey ==
  ASSUME NEW c \in Call, NEW r \in Row
  PROVE  /\ Written(c, r).key \in {r.key, NULL}
         /\ r.status = "pending" => Written(c, r).status \in {"pending", "done", "dead", "deleted"}
<1>1. c.op \in {"ack", "nack", "release", "dead_letter"}
  BY DEF Call
<1>2. CASE c.op = "ack"
  BY <1>2 DEF Written, Settled, Deleted, Absent, Row
<1>3. CASE c.op = "nack"
  BY <1>3 DEF Written, Settled, Row
<1>4. CASE c.op = "release"
  BY <1>4 DEF Written, Settled, Row
<1>5. CASE c.op = "dead_letter"
  BY <1>5 DEF Written, Settled, Row
<1> QED
  BY <1>1, <1>2, <1>3, <1>4, <1>5

\* Nobody has locked a row that is due for a claim that scans alone.
LEMMA DueUnlocked ==
  ASSUME LockInv, InLease, NEW w \in Workers, NEW i \in Ids, Due(i, claims[w].now)
  PROVE  \A c \in calls : i \notin c.got
<1>1. /\ claims[w].now \in Nat /\ clock \in Nat /\ rows[i].lease_until \in Nat
      /\ \A c \in calls : c.worker_id \in Workers
  BY DEF LockInv, TypeOK, ClaimTx, Row, Call
<1>2. claims[w].now <= clock /\ rows[i].lease_until <= claims[w].now
  BY DEF LockInv, LocksHold, ClaimSound, Due
<1>3. ASSUME NEW c \in calls, i \in c.got PROVE FALSE
  <2>1. rows[i].leased_by = c.worker_id /\ InHand(i, c.worker_id)
    BY <1>3 DEF LockInv, LocksHold, CallSound, InHand
  <2>2. rows[i].lease_until > clock
    BY <1>1, <2>1 DEF InLease
  <2> QED
    BY <1>1, <1>2, <2>2
<1> QED
  BY <1>3

\* A claim that did not move keeps what it has selected.
LEMMA ScanUndisturbed ==
  ASSUME LockInv, InLease, ScanInv, [Next]_vars, NEW w \in Workers, claims'[w] = claims[w]
  PROVE  ScanSound(w)'
<1>0. /\ claims \in [Workers -> ClaimTx] /\ rows \in [Ids -> Row] /\ calls \subseteq Call
      /\ claims[w].left \subseteq Ids /\ claims[w].got \subseteq Ids /\ claims[w].seen \subseteq Ids
  BY DEF LockInv, TypeOK, ClaimTx
<1>1. CASE claims[w].pc # "scanning"
  BY <1>0, <1>1 DEF LockInv, LocksHold, ClaimSound, ScanInv, ScanSound
<1>2. CASE claims[w].pc = "scanning"
  <2>1. \A v \in Workers : ~CommitClaim(v)
    <3>1. ASSUME NEW v \in Workers, CommitClaim(v) PROVE FALSE
      <4>1. claims[v].pc = "scanning" /\ claims' = [claims EXCEPT ![v] = NoClaim]
        BY <3>1 DEF CommitClaim
      <4>2. v = w /\ claims'[w].pc = "none"
        BY <1>0, <1>2, <4>1 DEF ScanInv, ScanAlone, NoClaim
      <4> QED
        BY <1>2, <4>2
    <3> QED
      BY <3>1
  <2>2. \A i \in Ids : rows'[i] # rows[i] =>
          ByProducer(i) \/ (\E c \in calls : ByCall(i, c)) \/ ByPurge(i)
    BY <2>1, RowEffects DEF ByClaim
  <2>3. \A i \in claims[w].left \cup claims[w].got : i \in Ids /\ Due(i, claims[w].now)
    BY <1>0 DEF LockInv, LocksHold, ClaimSound, ScanInv, ScanSound
  <2>4. \A i \in claims[w].left \cup claims[w].got : rows'[i] = rows[i]
    BY <2>2, <2>3, DueUnlocked DEF Due, ByProducer, ByCall, ByPurge, Open
  <2>5. \A c \in calls : \A i \in c.got : rows[i].status = "pending" /\ rows[i].leased_by # NULL
    BY LockedPending
  <2>6. ASSUME NEW p \in claims[w].seen
        PROVE  rows'[p].status \notin {"absent"} \cup Open /\ rows'[p].key \in {rows[p].key, NULL}
    <3>1. rows[p].status \notin {"absent"} \cup Open /\ p \in Ids
      BY <1>0 DEF ScanInv, ScanSound
    <3>2. CASE rows'[p] = rows[p]
      BY <3>1, <3>2
    <3>3. CASE \E c \in calls : ByCall(p, c)
      BY <1>0, <2>5, <3>1, <3>3, WrittenKey DEF ByCall, Open
    <3>4. CASE ByPurge(p)
      BY <3>4 DEF ByPurge, Deleted, Absent, Open
    <3> QED
      BY <2>2, <3>1, <3>2, <3>3, <3>4 DEF ByProducer
  <2>7. \A p \in Ids \ claims[w].seen : rows'[p].status = "pending" => Unleased(rows'[p])
    BY <1>2, <2>2, <2>5 DEF ByProducer, ByCall, ByPurge, Deleted, Absent, ScanInv, ScanSound, Unleased
  <2>8. \A i \in claims[w].left \cup claims[w].got, p \in claims[w].seen :
          Earlier(p, i)' => Earlier(p, i)
    BY <2>4, <2>6 DEF Earlier
  <2> QED
    BY <1>2, <2>3, <2>4, <2>6, <2>7, <2>8 DEF ScanInv, ScanSound, Due
<1> QED
  BY <1>1, <1>2

LEMMA ScanStep ==
  ASSUME Timely, LockInv, InLease, storage.strict_ordering, ScanInv, [Next]_vars
  PROVE  ScanInv'
<1>0. /\ claims \in [Workers -> ClaimTx] /\ rows \in [Ids -> Row]
      /\ \A w \in Workers : claims[w].left \subseteq Ids /\ claims[w].got \subseteq Ids
  BY DEF LockInv, TypeOK, ClaimTx
<1>1. claims' = claims \/ \E v \in Workers : ClaimStep(v)
  <2>1. \A i \in Ids : ProducerStep(i) => claims' = claims
    BY DEF ProducerStep, Draw, Insert, CommitInsert, RollBack
  <2>2. \A c \in calls : CallStep(c) => claims' = claims
    BY DEF CallStep, LockRow, CommitCall, LoseCall
  <2> QED
    BY <2>1, <2>2 DEF Next, Report, PurgeDone, Tick, vars
<1>2. ASSUME NEW v \in Workers, ClaimStep(v)
      PROVE  /\ \A w \in Workers \ {v} : claims'[w] = claims[w]
             /\ claims'[v].pc = "scanning" => claims[v].pc = "scanning" \/ LockFree
             /\ ScanSound(v)'
  <2>1. CASE BeginClaim(v) \/ CommitClaim(v) \/ Abandon(v)
    <3>1. /\ \A w \in Workers \ {v} : claims'[w] = claims[w]
          /\ claims'[v].pc # "scanning" /\ claims'[v].left = {} /\ claims'[v].got = {}
          /\ claims'[v].seen = {}
      <4>1. CASE BeginClaim(v)
        BY <1>0, <4>1 DEF BeginClaim, NoClaim
      <4>2. CASE CommitClaim(v)
        BY <1>0, <4>2 DEF CommitClaim, NoClaim
      <4>3. CASE Abandon(v)
        BY <1>0, <4>3 DEF Abandon, NoClaim
      <4> QED
        BY <2>1, <4>1, <4>2, <4>3
    <3> QED
      BY <3>1 DEF ScanSound
  <2>2. CASE StartStatement(v)
    <3> DEFINE now == claims[v].now
               seen == {i \in Ids : rows[i].status = "pending"}
               left == Selected(now)
    <3>1. /\ claims' = [claims EXCEPT ![v].pc = "scanning", ![v].seen = seen, ![v].left = left]
          /\ claims[v].pc = "begun" /\ LockFree /\ UNCHANGED <<storage, rows>>
      BY <2>2 DEF StartStatement
    <3>2. claims[v].got = {}
      BY <3>1 DEF LockInv, LocksHold, ClaimSound
    <3>3. /\ \A i \in left : i \in Ids /\ Due(i, now)
          /\ \A p \in seen : rows[p].status = "pending"
          /\ \A p \in Ids \ seen : rows[p].status # "pending"
      BY DEF Selected
    <3>4. ASSUME NEW i \in left, NEW p \in seen, Earlier(p, i) PROVE p \in left
      <4>1. p \in Ids /\ rows[p].status = "pending" /\ i \in Ids /\ ~Blocked(i, now)
        BY DEF Selected
      <4>2. ~(rows[p].retry_at > now) /\ ~(rows[p].lease_until > now) /\ Visible(p, now)
        BY <3>4, <4>1 DEF Blocked, Earlier
      <4>3. Due(p, now) /\ Visible(p, now)
        <5>1. rows[p].retry_at \in Nat /\ rows[p].lease_until \in Nat /\ now \in Nat
          BY <1>0, <4>1 DEF Row, ClaimTx
        <5> QED
          BY <4>1, <4>2, <5>1 DEF Due
      <4>4. ~Blocked(p, now)
        <5> SUFFICES ASSUME NEW q \in Ids, q < p, rows[p].key # NULL, rows[q].key = rows[p].key,
                            rows[q].status = "pending",
                            rows[q].retry_at > now \/ rows[q].lease_until > now \/ ~Visible(q, now)
                     PROVE  FALSE
          BY DEF Blocked
        <5>1. q < i /\ rows[i].key # NULL /\ rows[q].key = rows[i].key
          BY <3>4, <4>1 DEF Earlier, Ids
        <5> QED
          BY <4>1, <5>1 DEF Blocked
      <4> QED
        BY <4>1, <4>3, <4>4 DEF Selected
    <3> HIDE DEF seen, left
    <3>5. /\ \A w \in Workers \ {v} : claims'[w] = claims[w]
          /\ claims'[v].seen = seen /\ claims'[v].left = left /\ claims'[v].now = now
      BY <1>0, <3>1 DEF ClaimTx
    <3>6. claims'[v].got = {} /\ claims'[v].pc = "scanning"
      BY <1>0, <3>1, <3>2 DEF ClaimTx
    <3>7. ScanSound(v)'
      BY <3>1, <3>3, <3>4, <3>5, <3>6 DEF ScanSound, Due, Earlier, Open
    <3> QED
      BY <3>1, <3>5, <3>7
  <2>3. CASE TakeRow(v)
    <3> DEFINE tx == claims[v]
    <3>1. PICK i \in Ids :
            /\ First(i, tx.left)
            /\ claims' = [claims EXCEPT
                 ![v].left = @ \ {i},
                 ![v].got = @ \cup (IF RowLocked(i) \/ ~Due(i, tx.now) THEN {} ELSE {i})]
      BY <2>3 DEF TakeRow
    <3>2. tx.pc = "scanning" /\ UNCHANGED <<storage, rows, calls>>
      BY <2>3 DEF TakeRow
    <3>3. ScanSound(v) /\ ScanAlone /\ i \in tx.left
      BY <3>1 DEF ScanInv, First
    <3>4. Due(i, tx.now)
      BY <3>3 DEF ScanSound
    <3>5. ~RowLocked(i)
      <4>1. \A w \in Workers : i \notin claims[w].got
        <5>1. i \notin tx.got
          BY <3>3 DEF ScanSound, Ids
        <5>2. \A w \in Workers \ {v} : claims[w].got = {}
          BY <3>2, <3>3 DEF ScanAlone, LockInv, LocksHold, ClaimSound
        <5> QED
          BY <5>1, <5>2
      <4> QED
        BY <3>4, <4>1, DueUnlocked DEF RowLocked
    <3>6. claims' = [claims EXCEPT ![v].left = @ \ {i}, ![v].got = @ \cup {i}]
      BY <3>1, <3>4, <3>5
    <3>7. /\ \A w \in Workers \ {v} : claims'[w] = claims[w]
          /\ claims'[v].left = tx.left \ {i} /\ claims'[v].got = tx.got \cup {i}
          /\ claims'[v].seen = tx.seen /\ claims'[v].now = tx.now /\ claims'[v].pc = "scanning"
      BY <1>0, <3>2, <3>6 DEF ClaimTx
    <3>8. \A j \in tx.left \ {i} : i < j
      BY <1>0, <3>1 DEF First, Ids
    <3>9. claims'[v].left \cup claims'[v].got = tx.left \cup tx.got
      BY <3>3, <3>7
    <3>10. ScanSound(v)'
      BY <3>2, <3>3, <3>7, <3>8, <3>9 DEF ScanSound, Due, Earlier
    <3> QED
      BY <3>2, <3>7, <3>10
  <2> QED
    BY <1>2, <2>1, <2>2, <2>3 DEF ClaimStep
<1>3. ASSUME NEW w \in Workers PROVE ScanSound(w)'
  BY <1>1, <1>2, ScanUndisturbed
<1>4. ASSUME NEW v \in Workers, NEW w \in Workers, claims'[v].pc = "scanning", claims'[w].pc = "scanning"
      PROVE  v = w
  <2>1. \A u \in Workers : claims'[u] # claims[u] =>
          /\ \A x \in Workers \ {u} : claims'[x] = claims[x]
          /\ claims'[u].pc = "scanning" =>
               claims[u].pc = "scanning" \/ (\A x \in Workers : claims[x].pc # "scanning")
    BY <1>1, <1>2 DEF LockFree
  <2> QED
    BY <1>4, <2>1 DEF ScanInv, ScanAlone
<1> QED
  BY <1>3, <1>4 DEF ScanInv, ScanAlone

LEMMA KeyInvHolds ==
  ASSUME Timely
  PROVE  Spec => []KeyInv
<1>1. Init => InLease /\ ScanInv
  BY DEF Init, InLease, InHand, ScanInv, ScanAlone, ScanSound, NoClaim
<1>2. LockInv /\ KeyInv /\ [Next]_vars /\ LockInv' => KeyInv'
  <2> SUFFICES ASSUME LockInv, KeyInv, [Next]_vars, LockInv' PROVE KeyInv'
    OBVIOUS
  <2> QED
    BY OptionsFixed, InLeaseStep, ScanStep DEF KeyInv
<1>3. Init /\ LockInv => KeyInv
  BY <1>1 DEF KeyInv
<1> QED
  BY <1>2, <1>3, LockInvHolds, PTL DEF Spec

LEMMA KeyTaken ==
  ASSUME KeyInv
  PROVE  KeyTakenWhole
<1> SUFFICES ASSUME storage.strict_ordering, NEW w \in Workers, NEW i \in claims[w].got,
                    NEW p \in claims[w].seen, Earlier(p, i)
             PROVE  p \in claims[w].got
  BY DEF KeyTakenWhole
<1>1. ScanSound(w) /\ p \in Ids /\ i \in Ids
  BY DEF KeyInv, ScanInv, LockInv, TypeOK, ClaimTx
<1> QED
  BY <1>1 DEF ScanSound, Earlier, Ids

(***************************************************************************)
(* With strict ordering a claim that locks a row has locked every earlier  *)
(* row of its key its snapshot showed pending, for any number of claims,   *)
(* write-backs and producers at once, if rounds and claims end within the  *)
(* lease.                                                                  *)
(***************************************************************************)
THEOREM KeyIsTakenWhole ==
  ASSUME Timely
  PROVE  Spec => []KeyTakenWhole
<1>1. Spec => []KeyInv
  BY KeyInvHolds
<1> QED
  BY <1>1, KeyTaken, PTL

(***************************************************************************)
(* The docstring's promise, under the same condition: no claim hands out   *)
(* a message while an earlier pending one of its key that it does not hand *)
(* out as well is leased elsewhere or waits for its retry.                 *)
(***************************************************************************)
THEOREM ClaimHoldsBack ==
  ASSUME Timely
  PROVE  Spec => HoldsBack
<1>1. ASSUME KeyInv, storage.strict_ordering, NEW w \in Workers, CommitClaim(w),
             NEW i \in claims[w].got, NEW p \in Ids \ claims[w].got,
             Earlier(p, i), rows[p].status = "pending"
      PROVE  rows[p].retry_at <= clock /\ rows[p].lease_until <= clock
  <2>1. p \notin claims[w].seen
    BY <1>1, KeyTaken DEF KeyTakenWhole
  <2>2. claims[w].pc = "scanning" /\ clock \in Nat
    BY <1>1 DEF CommitClaim, KeyInv, LockInv, TypeOK
  <2> QED
    BY <1>1, <2>1, <2>2 DEF KeyInv, ScanInv, ScanSound, Unleased
<1>2. KeyInv /\ [Next]_vars =>
        [storage.strict_ordering =>
           \A w \in Workers : CommitClaim(w) =>
             \A i \in claims[w].got : \A p \in Ids \ claims[w].got :
               Earlier(p, i) /\ rows[p].status = "pending" =>
                 rows[p].retry_at <= clock /\ rows[p].lease_until <= clock]_vars
  BY <1>1
<1>3. Spec => []KeyInv
  BY KeyInvHolds
<1> QED
  BY <1>2, <1>3, PTL DEF Spec, HoldsBack

-----------------------------------------------------------------------------
(* One pair of hands: a message is with one round or with one call.        *)

\* The messages a call under way still stands for.
Names(c) == c.left \cup c.got

\* A message in hand is leased to the worker that has it: either its round has it,
\* or one of its calls, and then only that call.
OneHand ==
  /\ \A w \in Workers : \A i \in held[w] : rows[i].leased_by = w
  /\ \A c \in calls : \A i \in Names(c) : rows[i].leased_by = c.worker_id /\ i \notin held[c.worker_id]
  /\ \A c, d \in calls : c # d => Names(c) \cap Names(d) = {}

\* The invariant HandIsAlone rests on.
HandInv == LockInv /\ InLease /\ OneHand

\* A claim finds nothing due that somebody has in hand, however old its now() is.
LEMMA DueInNoHand ==
  ASSUME HandInv, NEW w \in Workers, NEW i \in claims[w].got
  PROVE  /\ \A v \in Workers : i \notin held[v]
         /\ \A c \in calls : i \notin Names(c)
<1>1. /\ i \in Ids /\ claims[w].now \in Nat /\ clock \in Nat /\ rows[i].lease_until \in Nat
      /\ \A c \in calls : c.worker_id \in Workers
  BY DEF HandInv, LockInv, TypeOK, ClaimTx, Row, Call
<1>2. claims[w].now <= clock /\ rows[i].lease_until <= claims[w].now
  BY DEF HandInv, LockInv, LocksHold, ClaimSound, Due
<1>3. \A v \in Workers : ~ (InHand(i, v) /\ rows[i].leased_by = v)
  <2>1. ~ (rows[i].lease_until > clock)
    BY <1>1, <1>2
  <2> QED
    BY <1>1, <2>1 DEF HandInv, InLease
<1>4. \A v \in Workers : i \notin held[v]
  BY <1>3 DEF HandInv, OneHand, InHand
<1>5. \A c \in calls : i \notin Names(c)
  BY <1>1, <1>3 DEF HandInv, OneHand, InHand, Names
<1> QED
  BY <1>4, <1>5

\* Every step keeps a message in one pair of hands.
LEMMA OneHandStep ==
  ASSUME HandInv, [Next]_vars
  PROVE  OneHand'
<1>0. /\ rows \in [Ids -> Row] /\ held \in [Workers -> SUBSET Ids] /\ NULL \notin Workers
      /\ claims \in [Workers -> ClaimTx] /\ calls \subseteq Call
      /\ \A i \in Ids : SoundRow(rows[i])
      /\ \A c \in calls : c.worker_id \in Workers /\ Names(c) \subseteq Ids /\ c.got \subseteq Names(c)
  BY PostgresAssumption DEF HandInv, LockInv, TypeOK, SoundRows, Call, Names
<1>1. ASSUME NEW j \in Ids, ProducerStep(j)
      PROVE  OneHand'
  <2>1. UNCHANGED <<held, calls>>
    BY <1>1 DEF ProducerStep, Draw, Insert, CommitInsert, RollBack
  <2>2. \A i \in Ids : rows'[i].leased_by = rows[i].leased_by
    BY <1>0, <1>1, ProducerEffect DEF ByProducer, Unleased, SoundRow, HandInv
  <2> QED
    BY <1>0, <2>1, <2>2 DEF HandInv, OneHand, Names
<1>2. ASSUME NEW w \in Workers, BeginClaim(w) \/ StartStatement(w) \/ TakeRow(w)
      PROVE  OneHand'
  BY <1>2 DEF BeginClaim, StartStatement, TakeRow, HandInv, OneHand, Names
<1>3. ASSUME NEW w \in Workers, CommitClaim(w)
      PROVE  OneHand'
  <2> DEFINE got == claims[w].got
  <2>1. /\ calls' = calls /\ held' = [held EXCEPT ![w] = got] /\ got \subseteq Ids
        /\ \A i \in Ids \ got : rows'[i] = rows[i]
    BY <1>0, <1>3 DEF CommitClaim, ClaimTx
  <2>2. ASSUME NEW i \in got
        PROVE  rows'[i].leased_by = w
    <3>1. i \in Ids /\ rows[i] \in Row
      BY <1>0, <2>1
    <3>2. rows'[i] = [rows[i] EXCEPT !.attempts = @ + 1, !.leased_by = w,
                                     !.lease_until = claims[w].now + Lease, !.retry_at = 0]
      BY <1>3, <3>1 DEF CommitClaim, Leased
    <3> QED
      BY <3>1, <3>2 DEF Row
  <2>3. /\ \A v \in Workers : got \cap held[v] = {}
        /\ \A c \in calls : got \cap Names(c) = {}
    BY DueInNoHand
  <2> HIDE DEF got
  <2>4. \A v \in Workers : \A i \in held'[v] : rows'[i].leased_by = v
    BY <1>0, <2>1, <2>2, <2>3 DEF HandInv, OneHand
  <2>5. \A c \in calls : \A i \in Names(c) : rows'[i].leased_by = c.worker_id /\ i \notin held'[c.worker_id]
    BY <1>0, <2>1, <2>3 DEF HandInv, OneHand
  <2> QED
    BY <2>1, <2>4, <2>5 DEF HandInv, OneHand, Names
<1>4. ASSUME NEW w \in Workers, Abandon(w)
      PROVE  OneHand'
  <2>1. UNCHANGED <<rows, calls>> /\ \A v \in Workers : held'[v] \subseteq held[v]
    BY <1>0, <1>4 DEF Abandon
  <2> QED
    BY <1>0, <2>1 DEF HandInv, OneHand, Names
<1>5. ASSUME NEW w \in Workers, NEW op, NEW ids \in SUBSET Ids, NEW d, Report(w, op, ids, d)
      PROVE  OneHand'
  <2> DEFINE n == [op |-> op, worker_id |-> w, left |-> {i \in ids : Owned(i, w)}, got |-> {},
                   retry_at |-> IF op \in {"nack", "release"} THEN RetryAt(d) ELSE 0]
  <2>1. /\ rows' = rows /\ calls' = calls \cup {n} /\ held' = [held EXCEPT ![w] = @ \ ids]
        /\ ids \subseteq held[w]
    BY <1>5 DEF Report
  <2>2. n.worker_id = w /\ Names(n) \subseteq ids /\ \A i \in Names(n) : rows[i].leased_by = w
    BY DEF Names, Owned
  <2> HIDE DEF n
  <2>3. \A v \in Workers : held'[v] \subseteq held[v] /\ (v = w => held'[v] \cap ids = {})
    BY <1>0, <2>1
  <2>4. \A c \in calls : Names(c) \cap Names(n) = {}
    BY <1>0, <2>1, <2>2 DEF HandInv, OneHand
  <2>5. \A v \in Workers : \A i \in held'[v] : rows'[i].leased_by = v
    BY <2>1, <2>3 DEF HandInv, OneHand
  <2>6. \A c \in calls' : \A i \in Names(c) : rows'[i].leased_by = c.worker_id /\ i \notin held'[c.worker_id]
    BY <1>0, <2>1, <2>2, <2>3 DEF HandInv, OneHand
  <2>7. \A c, e \in calls' : c # e => Names(c) \cap Names(e) = {}
    BY <2>1, <2>4 DEF HandInv, OneHand
  <2> QED
    BY <2>5, <2>6, <2>7 DEF OneHand, Names
<1>6. ASSUME NEW c \in calls, LockRow(c) \/ LoseCall(c)
      PROVE  OneHand'
  <2>1. UNCHANGED <<rows, held>>
    BY <1>6 DEF LockRow, LoseCall
  <2>2. \/ calls' = calls \ {c}
        \/ \E n : /\ calls' = (calls \ {c}) \cup {n}
                  /\ n.worker_id = c.worker_id /\ Names(n) \subseteq Names(c)
    <3>1. CASE LoseCall(c)
      BY <3>1 DEF LoseCall
    <3>2. CASE LockRow(c)
      <4>1. PICK i \in Ids : /\ i \in c.left
                             /\ calls' = (calls \ {c}) \cup
                                  {[c EXCEPT !.left = @ \ {i},
                                             !.got = @ \cup (IF Owned(i, c.worker_id) THEN {i} ELSE {})]}
        BY <3>2 DEF LockRow, First
      <4> DEFINE l == c.left \ {i}
                 g == c.got \cup (IF Owned(i, c.worker_id) THEN {i} ELSE {})
                 n == [c EXCEPT !.left = l, !.got = g]
      <4>2. calls' = (calls \ {c}) \cup {n}
        BY <4>1
      <4>3. l \cup g \subseteq Names(c)
        BY <4>1 DEF Names
      <4> HIDE DEF l, g
      <4>4. n.worker_id = c.worker_id /\ n.left = l /\ n.got = g
        BY <1>0 DEF Call
      <4> HIDE DEF n
      <4> QED
        BY <4>2, <4>3, <4>4 DEF Names
    <3> QED
      BY <1>6, <3>1, <3>2
  <2>3. CASE calls' = calls \ {c}
    BY <2>1, <2>3 DEF HandInv, OneHand, Names
  <2>4. ASSUME NEW n, calls' = (calls \ {c}) \cup {n},
               n.worker_id = c.worker_id, Names(n) \subseteq Names(c)
        PROVE  OneHand'
    <3>1. \A e \in calls' : \A i \in Names(e) : rows'[i].leased_by = e.worker_id /\ i \notin held'[e.worker_id]
      BY <2>1, <2>4 DEF HandInv, OneHand
    <3>2. \A e, f \in calls' : e # f => Names(e) \cap Names(f) = {}
      BY <2>4 DEF HandInv, OneHand
    <3> QED
      BY <2>1, <3>1, <3>2 DEF HandInv, OneHand, Names
  <2> QED
    BY <2>2, <2>3, <2>4
<1>7. ASSUME NEW c \in calls, CommitCall(c)
      PROVE  OneHand'
  <2>1. held' = held /\ calls' = calls \ {c} /\ \A i \in Ids \ c.got : rows'[i] = rows[i]
    BY <1>0, <1>7 DEF CommitCall
  <2>2. /\ \A w \in Workers : c.got \cap held[w] = {}
        /\ \A e \in calls \ {c} : c.got \cap Names(e) = {}
    BY <1>0 DEF HandInv, OneHand
  <2>3. \A w \in Workers : \A i \in held[w] : rows'[i] = rows[i]
    BY <1>0, <2>1, <2>2
  <2>4. \A e \in calls \ {c} : \A i \in Names(e) : rows'[i] = rows[i]
    BY <1>0, <2>1, <2>2
  <2> QED
    BY <2>1, <2>3, <2>4 DEF HandInv, OneHand, Names
<1>8. ASSUME NEW older_than \in 0..MaxTime, PurgeDone(older_than)
      PROVE  OneHand'
  <2>1. UNCHANGED <<held, calls>>
    BY <1>8 DEF PurgeDone
  <2>2. \A i \in Ids : rows[i].leased_by # NULL => rows'[i] = rows[i]
    BY <1>0, <1>8 DEF PurgeDone, SoundRow
  <2> QED
    BY <1>0, <2>1, <2>2 DEF HandInv, OneHand, Names
<1>9. CASE Tick \/ UNCHANGED vars
  BY <1>9 DEF Tick, vars, HandInv, OneHand, Names
<1> QED
  BY <1>1, <1>2, <1>3, <1>4, <1>5, <1>6, <1>7, <1>8, <1>9 DEF Next, ClaimStep, CallStep

\* What a round has in hand, or has in a call under way, is leased to its worker alone.
HandHoldsLease ==
  \A i \in Ids, w \in Workers : InHand(i, w) =>
    rows[i].status = "pending" /\ rows[i].leased_by = w /\ rows[i].lease_until > clock

(***************************************************************************)
(* Mutual exclusion on Postgres, with the advisory lock or without: if     *)
(* claims, rounds and their calls end within the lease, no two workers     *)
(* have the same message in hand, however many claims and write-backs      *)
(* overlap and however old their snapshots and now() are.                  *)
(***************************************************************************)
THEOREM HandIsAlone ==
  ASSUME Timely
  PROVE  Spec => [](/\ HandHoldsLease
                    /\ \A i \in Ids, v, w \in Workers : InHand(i, v) /\ InHand(i, w) => v = w)
<1> DEFINE Alone == \A i \in Ids, v, w \in Workers : InHand(i, v) /\ InHand(i, w) => v = w
<1>1. Init => InLease /\ OneHand
  BY DEF Init, InLease, InHand, OneHand, NoClaim
<1>2. LockInv /\ InLease /\ OneHand /\ [Next]_vars => InLease' /\ OneHand'
  BY InLeaseStep, OneHandStep DEF HandInv
<1>3. LockInv /\ InLease /\ OneHand => HandHoldsLease
  <2> SUFFICES ASSUME LockInv, InLease, OneHand, NEW i \in Ids, NEW w \in Workers, InHand(i, w)
               PROVE  rows[i].status = "pending" /\ rows[i].leased_by = w /\ rows[i].lease_until > clock
    BY DEF HandHoldsLease
  <2>1. rows[i].leased_by = w
    BY DEF InHand, OneHand, Names
  <2> QED
    BY <2>1, PostgresAssumption DEF InLease, LockInv, SoundRows, SoundRow
<1>4. HandHoldsLease => Alone
  BY DEF HandHoldsLease
<1> QED
  BY <1>1, <1>2, <1>3, <1>4, LockInvHolds, PTL DEF Spec

-----------------------------------------------------------------------------
(* Ids and the time: whatever a claim hands out is so old that every       *)
(* transaction with a lower id has ended.                                  *)

Absentish == {"absent", "drawn", "deleted"}

OpenInTime == \A i \in Ids : rows[i].status \in Open =>
                rows[i].began <= clock /\ clock <= rows[i].began + SlowestTx

DrawnInOrder == \A j, i \in Ids : j < i /\ rows[j].status = "absent" => rows[i].status = "absent"

BegunBefore ==
  \A j, i \in Ids : j < i /\ rows[j].status \in Open /\ rows[i].status \notin Absentish =>
    rows[j].began <= rows[i].created_at

\* since: a message inserted by then has been visible for the delay.
Old(i, since) == storage.visibility_delay > 0 => rows[i].created_at + storage.visibility_delay <= since

HandedOutOld ==
  /\ \A i \in Ids : rows[i].attempts > 0 => rows[i].status \notin Absentish \cup Open /\ Old(i, clock)
  /\ \A w \in Workers : \A i \in claims[w].left \cup claims[w].got :
       rows[i].status \notin {"absent"} \cup Open /\ Old(i, claims[w].now)

SlipInv == LockInv /\ OpenInTime /\ DrawnInOrder /\ BegunBefore /\ HandedOutOld

LEMMA SlipSafe ==
  ASSUME SlipInv
  PROVE  NoneSlipsIn
<1> SUFFICES ASSUME storage.visibility_delay > SlowestTx, NEW i \in Ids,
                    rows[i].attempts > 0 \/ (\E w \in Workers : i \in claims[w].got),
                    NEW j \in Ids, j < i, rows[j].status \in Open
             PROVE  FALSE
  BY DEF NoneSlipsIn
<1>1. /\ storage.visibility_delay \in Nat /\ SlowestTx \in Nat /\ clock \in Nat
      /\ rows[i].created_at \in Nat /\ rows[j].began \in Nat
      /\ \A w \in Workers : claims[w].now \in Nat
  BY PostgresAssumption DEF SlipInv, LockInv, TypeOK, Row, ClaimTx
<1>2. rows[i].status \notin Absentish
  BY LockedPending DEF SlipInv, HandedOutOld, Absentish
<1>3. rows[i].created_at + storage.visibility_delay <= clock
  <2>1. CASE rows[i].attempts > 0
    BY <1>1, <2>1 DEF SlipInv, HandedOutOld, Old
  <2>2. ASSUME NEW w \in Workers, i \in claims[w].got
        PROVE  rows[i].created_at + storage.visibility_delay <= clock
    <3>1. rows[i].created_at + storage.visibility_delay <= claims[w].now
      BY <1>1, <2>2 DEF SlipInv, HandedOutOld, Old
    <3>2. claims[w].now <= clock
      BY DEF SlipInv, LockInv, LocksHold, ClaimSound
    <3> QED
      BY <1>1, <3>1, <3>2
  <2> QED
    BY <2>1, <2>2
<1>4. rows[j].began <= rows[i].created_at /\ clock <= rows[j].began + SlowestTx
  BY <1>2 DEF SlipInv, BegunBefore, OpenInTime
<1> QED
  BY <1>1, <1>3, <1>4

LEMMA DrawKeepsOrder ==
  ASSUME SlipInv, NEW i \in Ids, NEW k \in Keys, NEW began \in 0..clock, Draw(i, k, began)
  PROVE  OpenInTime' /\ DrawnInOrder' /\ BegunBefore' /\ HandedOutOld'
<1>0. /\ rows \in [Ids -> Row] /\ clock \in Nat
      /\ \A w \in Workers : claims[w].left \subseteq Ids /\ claims[w].got \subseteq Ids
  BY DEF SlipInv, LockInv, TypeOK, ClaimTx
<1>1. /\ rows[i].status = "absent" /\ (\A j \in Ids : j < i => rows[j].status # "absent")
      /\ began <= clock /\ clock <= began + SlowestTx
      /\ UNCHANGED <<storage, clock, claims, held, calls>>
      /\ \A j \in Ids \ {i} : rows'[j] = rows[j]
      /\ rows'[i].status = "drawn" /\ rows'[i].began = began /\ rows'[i].attempts = 0
  BY <1>0 DEF Draw, Absent
<1>2. OpenInTime'
  BY <1>1 DEF SlipInv, OpenInTime
<1>3. DrawnInOrder'
  <2> SUFFICES ASSUME NEW a \in Ids, NEW b \in Ids, a < b, rows'[a].status = "absent"
               PROVE  rows'[b].status = "absent"
    BY DEF DrawnInOrder
  <2> QED
    BY <1>1 DEF SlipInv, DrawnInOrder
<1>4. \A b \in Ids : i < b => rows[b].status = "absent"
  BY <1>1 DEF SlipInv, DrawnInOrder
<1>5. BegunBefore'
  <2> SUFFICES ASSUME NEW a \in Ids, NEW b \in Ids, a < b, rows'[a].status \in Open,
                      rows'[b].status \notin Absentish
               PROVE  rows'[a].began <= rows'[b].created_at
    BY DEF BegunBefore
  <2>1. b # i /\ b \in Ids
    BY <1>1 DEF Absentish
  <2>2. a # i
    BY <1>1, <1>4, <2>1 DEF Absentish
  <2> QED
    BY <1>1, <2>1, <2>2 DEF SlipInv, BegunBefore
<1>6. HandedOutOld'
  <2>1. \A w \in Workers : \A j \in claims[w].left \cup claims[w].got : j \in Ids \ {i}
    BY <1>0, <1>1 DEF SlipInv, HandedOutOld
  <2> QED
    BY <1>1, <2>1 DEF SlipInv, HandedOutOld, Old
<1> QED
  BY <1>2, <1>3, <1>5, <1>6

LEMMA InsertKeepsOrder ==
  ASSUME SlipInv, NEW i \in Ids, Insert(i) \/ CommitInsert(i) \/ RollBack(i)
  PROVE  OpenInTime' /\ DrawnInOrder' /\ BegunBefore' /\ HandedOutOld'
<1>0. /\ rows \in [Ids -> Row] /\ clock \in Nat /\ SoundRow(rows[i])
      /\ \A j \in Ids : rows[j].began \in Nat /\ rows[j].created_at \in Nat
      /\ \A w \in Workers : claims[w].left \subseteq Ids /\ claims[w].got \subseteq Ids
  BY DEF SlipInv, LockInv, TypeOK, SoundRows, ClaimTx, Row
<1>1. /\ rows[i].status \in Open /\ rows[i].attempts = 0
      /\ UNCHANGED <<storage, clock, claims, held, calls>>
      /\ \A j \in Ids \ {i} : rows'[j] = rows[j]
  BY <1>0 DEF Insert, CommitInsert, RollBack, Open, SoundRow
<1>2. /\ rows'[i].attempts = 0 /\ rows'[i].status \in {"inserted", "pending", "deleted"}
      /\ rows'[i].status \in Open => rows'[i].began = rows[i].began
      /\ rows'[i].status \notin Absentish =>
           rows'[i].created_at = clock
           \/ (rows'[i].created_at = rows[i].created_at /\ rows[i].status \notin Absentish)
  <2>1. CASE Insert(i)
    BY <1>0, <1>1, <2>1 DEF Insert, CreatedAt, Row, Open
  <2>2. CASE CommitInsert(i)
    BY <1>0, <1>1, <2>2 DEF CommitInsert, Row, Open, Absentish
  <2>3. CASE RollBack(i)
    BY <1>0, <1>1, <2>3 DEF RollBack, Deleted, Absent, Open, Absentish
  <2> QED
    BY <2>1, <2>2, <2>3
<1>3. OpenInTime'
  BY <1>1, <1>2 DEF SlipInv, OpenInTime
<1>4. DrawnInOrder'
  <2>1. \A j \in Ids : rows'[j].status = "absent" <=> rows[j].status = "absent"
    BY <1>1, <1>2 DEF Open
  <2> QED
    BY <2>1 DEF SlipInv, DrawnInOrder
<1>5. BegunBefore'
  <2> SUFFICES ASSUME NEW a \in Ids, NEW b \in Ids, a < b, rows'[a].status \in Open,
                      rows'[b].status \notin Absentish
               PROVE  rows'[a].began <= rows'[b].created_at
    BY DEF BegunBefore
  <2>1. rows[a].status \in Open /\ rows'[a].began = rows[a].began /\ rows[a].began <= clock
    BY <1>1, <1>2 DEF SlipInv, OpenInTime
  <2>2. rows'[b].created_at = clock
        \/ (rows'[b].created_at = rows[b].created_at /\ rows[b].status \notin Absentish)
    BY <1>1, <1>2
  <2> QED
    BY <2>1, <2>2 DEF SlipInv, BegunBefore
<1>6. HandedOutOld'
  <2>1. \A w \in Workers : \A j \in claims[w].left \cup claims[w].got : j \in Ids \ {i}
    BY <1>0, <1>1 DEF SlipInv, HandedOutOld
  <2> QED
    BY <1>1, <1>2, <2>1 DEF SlipInv, HandedOutOld, Old
<1> QED
  BY <1>3, <1>4, <1>5, <1>6

\* What the other steps leave of a row: its age, or nothing.
SameAge(i) ==
  /\ rows[i].status \in {"pending", "done"}
  /\ \/ rows'[i] = Deleted
     \/ /\ rows'[i].status \in {"pending", "done", "dead"}
        /\ rows'[i].created_at = rows[i].created_at
        /\ rows[i].attempts > 0 \/ \E w \in Workers : ByClaim(i, w)

LEMMA AgeKept ==
  ASSUME LockInv, [Next]_vars, \A j \in Ids : ~ProducerStep(j), NEW i \in Ids
  PROVE  rows'[i] = rows[i] \/ SameAge(i)
<1>0. rows[i] \in Row /\ SoundRow(rows[i]) /\ calls \subseteq Call
  BY DEF LockInv, TypeOK, SoundRows
<1>1. ASSUME NEW w \in Workers, ByClaim(i, w) PROVE SameAge(i)
  <2>1. rows[i].status = "pending"
    BY <1>1, LockedPending DEF ByClaim
  <2>2. rows'[i].status = rows[i].status /\ rows'[i].created_at = rows[i].created_at
    BY <1>0, <1>1 DEF ByClaim, CommitClaim, Leased, Row
  <2> QED
    BY <1>1, <2>1, <2>2 DEF SameAge
<1>2. ASSUME NEW c \in calls, ByCall(i, c) PROVE SameAge(i)
  <2>1. rows[i].status = "pending" /\ rows[i].attempts > 0 /\ c \in Call
    BY <1>0, <1>2, LockedPending DEF ByCall, SoundRow
  <2>2. \/ Written(c, rows[i]) = Deleted
        \/ /\ Written(c, rows[i]).created_at = rows[i].created_at
           /\ Written(c, rows[i]).status \in {"pending", "done", "dead"}
    <3>1. c.op \in {"ack", "nack", "release", "dead_letter"}
      BY <2>1 DEF Call
    <3>2. CASE c.op = "ack"
      BY <1>0, <3>2 DEF Written, Settled, Row
    <3>3. CASE c.op = "nack"
      BY <1>0, <2>1, <3>3 DEF Written, Settled, Row
    <3>4. CASE c.op = "release"
      BY <1>0, <2>1, <3>4 DEF Written, Settled, Row
    <3>5. CASE c.op = "dead_letter"
      BY <1>0, <3>5 DEF Written, Settled, Row
    <3> QED
      BY <3>1, <3>2, <3>3, <3>4, <3>5
  <2> QED
    BY <1>2, <2>1, <2>2 DEF ByCall, SameAge
<1>3. ByPurge(i) => SameAge(i)
  BY DEF ByPurge, SameAge
<1> QED
  BY <1>1, <1>2, <1>3, RowEffects

\* A claim goes on with what it has, or selects rows that are visible.
LEMMA ClaimsKept ==
  ASSUME LockInv, [Next]_vars, NEW w \in Workers, NEW i \in claims'[w].left \cup claims'[w].got
  PROVE  \/ i \in claims[w].left \cup claims[w].got /\ claims'[w].now = claims[w].now
         \/ /\ i \in Ids /\ rows[i].status = "pending" /\ Visible(i, claims'[w].now)
            /\ rows' = rows
<1>0. claims \in [Workers -> ClaimTx]
  BY DEF LockInv, TypeOK
<1>1. CASE claims' = claims
  BY <1>1
<1>2. ASSUME NEW v \in Workers, BeginClaim(v) \/ CommitClaim(v) \/ Abandon(v)
      PROVE  claims'[v].left = {} /\ claims'[v].got = {} /\ \A u \in Workers \ {v} : claims'[u] = claims[u]
  <2>1. CASE BeginClaim(v)
    BY <1>0, <2>1 DEF BeginClaim, NoClaim
  <2>2. CASE CommitClaim(v)
    BY <1>0, <2>2 DEF CommitClaim, NoClaim
  <2>3. CASE Abandon(v)
    BY <1>0, <2>3 DEF Abandon, NoClaim
  <2> QED
    BY <1>2, <2>1, <2>2, <2>3
<1>3. ASSUME NEW v \in Workers, StartStatement(v)
      PROVE  /\ \A u \in Workers \ {v} : claims'[u] = claims[u]
             /\ claims'[v].now = claims[v].now /\ claims'[v].got = claims[v].got /\ rows' = rows
             /\ \A j \in claims'[v].left : /\ j \in Ids /\ rows[j].status = "pending"
                                           /\ Visible(j, claims[v].now)
  <2> DEFINE seen == {j \in Ids : rows[j].status = "pending"}
             left == Selected(claims[v].now)
  <2>1. /\ claims' = [claims EXCEPT ![v].pc = "scanning", ![v].seen = seen, ![v].left = left]
        /\ rows' = rows
    BY <1>3 DEF StartStatement
  <2>2. \A j \in left : j \in Ids /\ rows[j].status = "pending" /\ Visible(j, claims[v].now)
    BY DEF Selected, Due
  <2> HIDE DEF seen, left
  <2> QED
    BY <1>0, <2>1, <2>2 DEF ClaimTx
<1>4. ASSUME NEW v \in Workers, TakeRow(v)
      PROVE  /\ \A u \in Workers \ {v} : claims'[u] = claims[u]
             /\ claims'[v].now = claims[v].now
             /\ claims'[v].left \cup claims'[v].got \subseteq claims[v].left \cup claims[v].got
  <2>1. PICK j \in Ids :
          /\ First(j, claims[v].left)
          /\ claims' = [claims EXCEPT
               ![v].left = @ \ {j},
               ![v].got = @ \cup (IF RowLocked(j) \/ ~Due(j, claims[v].now) THEN {} ELSE {j})]
    BY <1>4 DEF TakeRow
  <2> DEFINE more == IF RowLocked(j) \/ ~Due(j, claims[v].now) THEN {} ELSE {j}
  <2>2. claims' = [claims EXCEPT ![v].left = @ \ {j}, ![v].got = @ \cup more]
    BY <2>1
  <2>3. more \subseteq {j} /\ j \in claims[v].left
    BY <2>1 DEF First
  <2> HIDE DEF more
  <2> QED
    BY <1>0, <2>2, <2>3 DEF ClaimTx
<1>5. claims' = claims \/ \E v \in Workers : ClaimStep(v)
  <2>1. \A j \in Ids : ProducerStep(j) => claims' = claims
    BY DEF ProducerStep, Draw, Insert, CommitInsert, RollBack
  <2>2. \A c \in calls : CallStep(c) => claims' = claims
    BY DEF CallStep, LockRow, CommitCall, LoseCall
  <2> QED
    BY <2>1, <2>2 DEF Next, Report, PurgeDone, Tick, vars
<1>6. ASSUME NEW v \in Workers, ClaimStep(v)
      PROVE  \/ i \in claims[w].left \cup claims[w].got /\ claims'[w].now = claims[w].now
             \/ /\ i \in Ids /\ rows[i].status = "pending" /\ Visible(i, claims'[w].now)
                /\ rows' = rows
  <2>1. CASE v = w
    BY <1>2, <1>3, <1>4, <1>6, <2>1 DEF ClaimStep
  <2>2. CASE v # w
    BY <1>2, <1>3, <1>4, <1>6, <2>2 DEF ClaimStep
  <2> QED
    BY <2>1, <2>2
<1> QED
  BY <1>1, <1>5, <1>6

LEMMA OtherStepsKeepOrder ==
  ASSUME SlipInv, [Next]_vars, \A j \in Ids : ~ProducerStep(j)
  PROVE  OpenInTime' /\ DrawnInOrder' /\ BegunBefore' /\ HandedOutOld'
<1>0. /\ storage' = storage /\ storage.visibility_delay \in Nat /\ clock \in Nat
      /\ \A i \in Ids : rows[i].created_at \in Nat
      /\ \A w \in Workers : claims[w].now \in Nat /\ claims[w].left \cup claims[w].got \subseteq Ids
      /\ \A w \in Workers : claims[w].now <= clock
  BY PostgresAssumption, OptionsFixed DEF SlipInv, LockInv, TypeOK, Row, ClaimTx, LocksHold, ClaimSound
<1>1. \A i \in Ids : rows'[i] = rows[i] \/ SameAge(i)
  BY AgeKept DEF SlipInv
<1>2. \A i \in Ids : /\ rows'[i].status \in Open => rows'[i] = rows[i]
                     /\ rows'[i].status = "absent" <=> rows[i].status = "absent"
  BY <1>1 DEF SameAge, Open, Deleted, Absent
<1>3. \/ clock' = clock
      \/ Tick
  BY DEF Next, ClaimStep, BeginClaim, StartStatement, TakeRow, CommitClaim, Abandon, Report, CallStep,
     LockRow, CommitCall, LoseCall, PurgeDone, vars
<1>4. OpenInTime'
  <2>1. CASE clock' = clock
    BY <1>2, <2>1 DEF SlipInv, OpenInTime
  <2>2. CASE Tick
    <3>1. \A i \in Ids : rows[i].began \in Nat
      BY DEF SlipInv, LockInv, TypeOK, Row
    <3> QED
      BY <1>0, <2>2, <3>1, PostgresAssumption DEF Tick, SlipInv, OpenInTime
  <2> QED
    BY <1>3, <2>1, <2>2
<1>5. DrawnInOrder'
  BY <1>2 DEF SlipInv, DrawnInOrder
<1>6. BegunBefore'
  <2> SUFFICES ASSUME NEW a \in Ids, NEW b \in Ids, a < b, rows'[a].status \in Open,
                      rows'[b].status \notin Absentish
               PROVE  rows'[a].began <= rows'[b].created_at
    BY DEF BegunBefore
  <2>1. rows'[b].created_at = rows[b].created_at /\ rows[b].status \notin Absentish
    BY <1>1 DEF SameAge, Deleted, Absent, Absentish
  <2> QED
    BY <1>2, <2>1 DEF SlipInv, BegunBefore
<1>7. clock' \in Nat /\ clock <= clock'
  BY <1>0, <1>3 DEF Tick
<1>8. \A w \in Workers, i \in Ids :
        (i \in claims[w].left \cup claims[w].got) =>
          /\ rows[i].status \notin {"absent"} \cup Open
          /\ storage.visibility_delay > 0 => rows[i].created_at + storage.visibility_delay <= claims[w].now
  BY DEF SlipInv, HandedOutOld, Old
<1>9. \A i \in Ids : Deleted.status = "deleted" /\ Deleted.created_at = 0 /\ Deleted.attempts = 0
  BY DEF Deleted, Absent
<1>10. ASSUME NEW i \in Ids, rows'[i].attempts > 0
       PROVE  rows'[i].status \notin Absentish \cup Open /\ Old(i, clock)'
  <2>1. CASE rows'[i] = rows[i]
    BY <1>0, <1>7, <1>10, <2>1 DEF SlipInv, HandedOutOld, Old
  <2>2. CASE SameAge(i)
    <3>1. /\ rows'[i].status \in {"pending", "done", "dead"} /\ rows'[i].created_at = rows[i].created_at
          /\ rows[i].attempts > 0 \/ \E w \in Workers : ByClaim(i, w)
      BY <1>9, <1>10, <2>2 DEF SameAge
    <3>2. storage.visibility_delay > 0 => rows[i].created_at + storage.visibility_delay <= clock
      <4>1. CASE rows[i].attempts > 0
        BY <4>1 DEF SlipInv, HandedOutOld, Old
      <4>2. ASSUME NEW w \in Workers, ByClaim(i, w)
            PROVE  storage.visibility_delay > 0 => rows[i].created_at + storage.visibility_delay <= clock
        BY <1>0, <1>8, <4>2 DEF ByClaim
      <4> QED
        BY <3>1, <4>1, <4>2
    <3> QED
      BY <1>0, <1>7, <3>1, <3>2 DEF Absentish, Open, Old
  <2> QED
    BY <1>1, <2>1, <2>2
<1>11. ASSUME NEW w \in Workers, NEW i \in claims'[w].left \cup claims'[w].got
       PROVE  rows'[i].status \notin {"absent"} \cup Open /\ Old(i, claims[w].now)'
  <2>1. CASE i \in claims[w].left \cup claims[w].got /\ claims'[w].now = claims[w].now
    <3>1. i \in Ids /\ rows[i].status \notin {"absent"} \cup Open
          /\ (storage.visibility_delay > 0 =>
                rows[i].created_at + storage.visibility_delay <= claims[w].now)
      BY <1>0, <1>8, <2>1
    <3>2. rows'[i].status \notin {"absent"} \cup Open
      BY <1>2, <3>1
    <3>3. rows'[i].created_at \in {rows[i].created_at, 0}
      BY <1>1, <1>9, <3>1 DEF SameAge
    <3> QED
      BY <1>0, <2>1, <3>1, <3>2, <3>3 DEF Old
  <2>2. CASE /\ i \in Ids /\ rows[i].status = "pending" /\ Visible(i, claims'[w].now)
             /\ rows' = rows
    BY <1>0, <2>2 DEF Visible, Old, Open
  <2> QED
    BY <2>1, <2>2, ClaimsKept DEF SlipInv
<1> QED
  BY <1>4, <1>5, <1>6, <1>10, <1>11 DEF HandedOutOld

(***************************************************************************)
(* With a visibility_delay longer than the slowest producing transaction   *)
(* no message is handed out while a transaction with a lower id is open,   *)
(* for any number of producers and claims and whatever the timing of       *)
(* rounds.                                                                 *)
(***************************************************************************)
THEOREM NothingSlipsIn == Spec => []NoneSlipsIn
<1>1. Init => OpenInTime /\ DrawnInOrder /\ BegunBefore /\ HandedOutOld
  BY DEF Init, OpenInTime, DrawnInOrder, BegunBefore, HandedOutOld, Absent, NoClaim, Open
<1>2. SlipInv /\ [Next]_vars => OpenInTime' /\ DrawnInOrder' /\ BegunBefore' /\ HandedOutOld'
  <2> SUFFICES ASSUME SlipInv, [Next]_vars
               PROVE  OpenInTime' /\ DrawnInOrder' /\ BegunBefore' /\ HandedOutOld'
    OBVIOUS
  <2>1. ASSUME NEW i \in Ids, ProducerStep(i)
        PROVE  OpenInTime' /\ DrawnInOrder' /\ BegunBefore' /\ HandedOutOld'
    BY <2>1, DrawKeepsOrder, InsertKeepsOrder DEF ProducerStep
  <2> QED
    BY <2>1, OtherStepsKeepOrder
<1>3. /\ Init /\ LockInv => SlipInv
      /\ SlipInv /\ [Next]_vars /\ LockInv' => SlipInv'
      /\ SlipInv => NoneSlipsIn
  BY <1>1, <1>2, SlipSafe DEF SlipInv
<1> QED
  BY <1>3, LockInvHolds, PTL DEF Spec

=============================================================================
