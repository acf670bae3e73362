------------------------- MODULE OutboxRelayProofs -------------------------
(***************************************************************************)
(* Safety of OutboxRelay for any number of messages, workers, keys and     *)
(* faults, any batch size, lease and backoff.  First what the operations   *)
(* of the table preserve and guarantee, whoever calls them.                *)
(***************************************************************************)
EXTENDS OutboxRelay, FiniteSetTheorems, TLAPS

\* The columns of an id not inserted yet, as far as they matter.
Blank(r) == r.key = NULL /\ r.attempts = 0 /\ r.leased_by = NULL

\* What every reachable table satisfies besides its type: a lease is held only on a
\* pending row that was claimed, and an id not inserted yet has no columns.
SoundTable(t) ==
  /\ t \in Table
  /\ \A i \in Ids : t[i].leased_by # NULL => t[i].status = "pending" /\ t[i].attempts > 0
  /\ \A i \in Ids : t[i].status = "absent" => Blank(t[i])

\* The attempts of a row, counting the claim that a row without a lease is waiting for.
Credit(t, i) == IF t[i].leased_by = NULL THEN t[i].attempts + 1 ELSE t[i].attempts

\* The columns of a row that take part in arithmetic are natural numbers.
LEMMA RowNumbers ==
  ASSUME NEW r \in Row
  PROVE  r.attempts \in Nat /\ r.retry_at \in Nat /\ r.lease_until \in Nat
  BY DEF Row

\* The empty table is sound.
LEMMA EmptySound == SoundTable(EmptyTable)
  BY TableAssumption DEF SoundTable, Blank, EmptyTable, Table, Row, Absent, Status

\* FirstIds(S, n), the LIMIT of the claim, is closed under smaller members of S.
LEMMA FirstIdsPrefix ==
  ASSUME NEW S \in SUBSET Ids, NEW n \in Nat,
         NEW j \in FirstIds(S, n), NEW i \in S, i < j
  PROVE  i \in FirstIds(S, n)
<1> DEFINE Below(x) == {y \in S : y < x}
<1>1. IsFiniteSet(Ids)
  BY TableAssumption, FS_Interval DEF Ids
<1>2. Below(j) \subseteq Ids /\ IsFiniteSet(Below(j))
  BY <1>1, FS_Subset
<1>3. Below(i) \subseteq Below(j)
  <2>1. j \in S
    BY DEF FirstIds
  <2>2. \A y \in S : y \in Int /\ i \in Int /\ j \in Int
    BY <2>1, TableAssumption DEF Ids
  <2> QED
    BY <2>2
<1>4. IsFiniteSet(Below(i)) /\ Cardinality(Below(i)) <= Cardinality(Below(j))
  BY <1>2, <1>3, FS_Subset
<1>5. Cardinality(Below(i)) \in Nat /\ Cardinality(Below(j)) \in Nat
  BY <1>2, <1>4, FS_CardinalityType
<1>6. Cardinality(Below(j)) < n
  BY DEF FirstIds
<1>7. Cardinality(Below(i)) < n
  BY <1>4, <1>5, <1>6
<1> QED
  BY <1>7 DEF FirstIds

\* claim never skips a pending message: with strict ordering, a batch that contains a
\* message contains every earlier pending message of its key.
LEMMA ClaimSetPrefix ==
  ASSUME StrictOrdering, NEW t \in Table,
         NEW j \in ClaimSet(t), NEW i \in Ids, i < j, SameKey(t, i, j),
         t[i].status = "pending"
  PROVE  i \in ClaimSet(t)
<1>1. j \in Candidates(t) /\ j \in Ids
  BY DEF ClaimSet, FirstIds, Candidates
<1>2. ~HeldBack(t, j)
  BY <1>1 DEF Candidates
<1>3. Claimable(t, i)
  BY <1>2 DEF HeldBack, Claimable, Table, Row
<1>4. ~HeldBack(t, i)
  <2> SUFFICES ASSUME NEW p \in Ids, p < i, SameKey(t, p, i), t[p].status = "pending",
                      t[p].retry_at > 0 \/ t[p].lease_until > 0
               PROVE  FALSE
    BY DEF HeldBack
  <2>1. p < j
    BY <1>1, TableAssumption DEF Ids
  <2>2. SameKey(t, p, j)
    BY DEF SameKey
  <2> QED
    BY <1>2, <2>1, <2>2 DEF HeldBack
<1>5. i \in Candidates(t)
  BY <1>3, <1>4 DEF Candidates
<1>6. Candidates(t) \in SUBSET Ids
  BY DEF Candidates
<1> QED
  BY <1>5, <1>6, FirstIdsPrefix, TableAssumption DEF ClaimSet

\* A claim takes pending rows only, leases them to its worker, and changes no status and no key.
LEMMA ClaimEffect ==
  ASSUME NEW t, SoundTable(t), NEW w \in Workers
  PROVE  /\ SoundTable(Claim(t, w))
         /\ \A i \in Ids : /\ Claim(t, w)[i].status = t[i].status
                           /\ Claim(t, w)[i].key = t[i].key
                           /\ Credit(Claim(t, w), i) >= Credit(t, i)
                           /\ t[i].lease_until > 0 => Claim(t, w)[i] = t[i]
         /\ \A i \in ClaimSet(t) : /\ t[i].status = "pending"
                                   /\ Credit(Claim(t, w), i) = Claim(t, w)[i].attempts
<1> DEFINE u == Claim(t, w)
<1>1. \A i \in ClaimSet(t) : i \in Ids /\ t[i].status = "pending" /\ t[i].lease_until = 0
  BY DEF ClaimSet, FirstIds, Candidates, Claimable
<1>2. \A i \in Ids : t[i] \in Row
  BY DEF SoundTable, Table
<1>3. ASSUME NEW i \in Ids
      PROVE  /\ u[i] \in Row
             /\ u[i].leased_by # NULL => u[i].status = "pending" /\ u[i].attempts > 0
             /\ u[i].status = "absent" => Blank(u[i])
             /\ u[i].status = t[i].status
             /\ u[i].key = t[i].key
             /\ Credit(u, i) >= Credit(t, i)
             /\ t[i].lease_until > 0 => u[i] = t[i]
             /\ i \in ClaimSet(t) => Credit(u, i) = u[i].attempts
  <2>1. CASE i \in ClaimSet(t)
    <3>1. u[i] = [t[i] EXCEPT !.attempts = @ + 1, !.leased_by = w,
                              !.lease_until = Lease, !.retry_at = 0]
      BY <2>1 DEF Claim
    <3>2. t[i] \in Row /\ t[i].status = "pending" /\ t[i].lease_until = 0
      BY <1>1, <1>2, <2>1
    <3> DEFINE n == t[i].attempts + 1
    <3>a. n \in Nat /\ Lease \in Nat /\ t[i].attempts \in Nat
      BY <3>2, RowNumbers, TableAssumption
    <3>b. u[i] = [t[i] EXCEPT !.attempts = n, !.leased_by = w,
                              !.lease_until = Lease, !.retry_at = 0]
      BY <3>1
    <3> HIDE DEF n, u
    <3>c. u[i] \in Row /\ u[i].leased_by = w /\ u[i].attempts = n
      BY <3>2, <3>a, <3>b DEF Row
    <3>d. u[i].status = t[i].status /\ u[i].key = t[i].key
      BY <3>2, <3>b DEF Row
    <3>3. /\ u[i] \in Row
          /\ u[i].leased_by = w /\ w # NULL
          /\ u[i].status = t[i].status /\ u[i].key = t[i].key
          /\ u[i].attempts = t[i].attempts + 1
      BY <3>c, <3>d, TableAssumption DEF n
    <3>4. t[i].attempts \in Nat
      BY <3>2 DEF Row
    <3>5. Credit(u, i) = u[i].attempts /\ Credit(u, i) >= Credit(t, i)
      BY <3>3, <3>4 DEF Credit
    <3> QED
      BY <3>2, <3>3, <3>4, <3>5
  <2>2. CASE i \notin ClaimSet(t)
    <3>1. u[i] = t[i]
      BY <2>2 DEF Claim
    <3>2. t[i].attempts \in Nat
      BY <1>2 DEF Row
    <3>3. Credit(u, i) = Credit(t, i) /\ Credit(t, i) \in Nat
      BY <3>1, <3>2 DEF Credit
    <3> QED
      BY <1>2, <2>2, <3>1, <3>3 DEF SoundTable
  <2> QED
    BY <2>1, <2>2
<1>4. u \in Table
  BY <1>3 DEF Claim, Table
<1> QED
  BY <1>1, <1>3, <1>4 DEF SoundTable

\* A row that a write-back ended the lease of.
Ended(r, st, a, at, e) ==
  [r EXCEPT !.status = st, !.attempts = a, !.retry_at = at, !.last_error = e,
            !.leased_by = NULL, !.lease_until = 0]

Outcome == {"pending", "done", "dead", "deleted"}

\* Row s is row r after a write-back with the outcome st: at most one attempt is given back,
\* and none to a dead row.
EndsAs(r, s, st) ==
  \E a, at \in Nat, e \in BOOLEAN :
    a + 1 >= r.attempts /\ (st = "dead" => a = r.attempts) /\ s = Ended(r, st, a, at, e)

\* Ending the lease of a row gives a row without one, which keeps its key.
LEMMA EndedRow ==
  ASSUME NEW r \in Row, NEW st \in Outcome, NEW a \in Nat, NEW at \in Nat, NEW e \in BOOLEAN
  PROVE  LET s == Ended(r, st, a, at, e)
         IN  /\ s \in Row
             /\ s.status = st /\ s.attempts = a /\ s.leased_by = NULL
             /\ s.key = r.key
  BY DEF Ended, Outcome, Row, Status

\* What the four write-backs have in common: they end leases of their worker, give back at
\* most one attempt, and leave all other rows alone.
LEMMA WriteBackEffect ==
  ASSUME NEW t, SoundTable(t), NEW w \in Workers, NEW ids \in SUBSET Ids, NEW u,
         u = [i \in Ids |-> u[i]],
         \A i \in Ids : i \notin Owned(t, ids, w) => u[i] = t[i],
         \A i \in Owned(t, ids, w) :
           \E st \in Outcome : EndsAs(t[i], u[i], st)
  PROVE  /\ SoundTable(u)
         /\ \A i \in Ids : /\ u[i].key = t[i].key
                           /\ Credit(u, i) >= Credit(t, i)
                           /\ u[i] # t[i] => i \in ids /\ t[i].leased_by = w
<1>1. \A i \in Ids : t[i] \in Row
  BY DEF SoundTable, Table
<1>2. ASSUME NEW i \in Ids
      PROVE  /\ u[i] \in Row
             /\ u[i].leased_by # NULL => u[i].status = "pending" /\ u[i].attempts > 0
             /\ u[i].status = "absent" => Blank(u[i])
             /\ u[i].key = t[i].key
             /\ Credit(u, i) >= Credit(t, i)
             /\ u[i] # t[i] => i \in ids /\ t[i].leased_by = w
  <2>0. t[i].attempts \in Nat
    BY <1>1, RowNumbers
  <2>1. CASE i \in Owned(t, ids, w)
    <3>1. i \in ids /\ t[i].leased_by = w /\ w # NULL
      BY <2>1, TableAssumption DEF Owned
    <3>a. PICK st \in Outcome : EndsAs(t[i], u[i], st)
      BY <2>1
    <3>2. PICK a \in Nat, at \in Nat, e \in BOOLEAN :
            a + 1 >= t[i].attempts /\ u[i] = Ended(t[i], st, a, at, e)
      BY <3>a DEF EndsAs
    <3>3. /\ u[i] \in Row
          /\ u[i].status = st /\ u[i].attempts = a /\ u[i].leased_by = NULL
          /\ u[i].key = t[i].key
      BY <1>1, <3>2, EndedRow
    <3>4. Credit(u, i) = a + 1 /\ Credit(t, i) = t[i].attempts
      BY <3>1, <3>3 DEF Credit
    <3>5. st # "absent"
      BY DEF Outcome
    <3> QED
      BY <2>0, <3>1, <3>2, <3>3, <3>4, <3>5
  <2>2. CASE i \notin Owned(t, ids, w)
    <3>1. u[i] = t[i]
      BY <2>2
    <3>2. Credit(u, i) = Credit(t, i) /\ Credit(t, i) \in Nat
      BY <2>0, <3>1 DEF Credit
    <3> QED
      BY <1>1, <3>1, <3>2 DEF SoundTable
  <2> QED
    BY <2>1, <2>2
<1>3. u \in Table
  BY <1>2 DEF Table
<1> QED
  BY <1>2, <1>3 DEF SoundTable

\* The columns of a leased row that the write-backs may pass on.
LEMMA OwnedRow ==
  ASSUME NEW t, SoundTable(t), NEW w \in Workers, NEW ids \in SUBSET Ids,
         NEW i \in Owned(t, ids, w)
  PROVE  /\ i \in Ids /\ t[i] \in Row /\ t[i].status = "pending"
         /\ t[i].attempts \in Nat \ {0} /\ t[i].attempts - 1 \in Nat
         /\ t[i].retry_at \in Nat /\ t[i].last_error \in BOOLEAN
<1>1. i \in Ids /\ t[i].leased_by = w /\ w # NULL
  BY TableAssumption DEF Owned
<1>2. t[i] \in Row /\ t[i].status = "pending" /\ t[i].attempts > 0
  BY <1>1 DEF SoundTable, Table
<1>3. t[i].attempts \in Nat /\ t[i].retry_at \in Nat
  BY <1>2, RowNumbers
<1>4. t[i].last_error \in BOOLEAN
  BY <1>2 DEF Row
<1> QED
  BY <1>1, <1>2, <1>3, <1>4

\* ack ends leases with the verdict "delivered".
LEMMA AckEffect ==
  ASSUME NEW t, SoundTable(t), NEW w \in Workers, NEW ids \in SUBSET Ids,
         NEW i \in Owned(t, ids, w)
  PROVE  EndsAs(t[i], Ack(t, ids, w)[i], IF DeleteOnAck THEN "deleted" ELSE "done")
<1> DEFINE st == IF DeleteOnAck THEN "deleted" ELSE "done"
<1>1. /\ i \in Ids /\ t[i] \in Row /\ t[i].attempts \in Nat
      /\ t[i].retry_at \in Nat /\ t[i].last_error \in BOOLEAN
  BY OwnedRow
<1>2. Ack(t, ids, w)[i] = [t[i] EXCEPT !.status = st, !.leased_by = NULL, !.lease_until = 0]
  BY <1>1 DEF Ack
<1> HIDE DEF st
<1>3. Ack(t, ids, w)[i] = Ended(t[i], st, t[i].attempts, t[i].retry_at, t[i].last_error)
  BY <1>1, <1>2 DEF Ended, Row
<1>4. EndsAs(t[i], Ack(t, ids, w)[i], st)
  BY <1>1, <1>3 DEF EndsAs
<1> QED
  BY <1>4 DEF st

\* nack ends a lease and leaves the row pending.
LEMMA NackEffect ==
  ASSUME NEW t, SoundTable(t), NEW w \in Workers, NEW ids \in SUBSET Ids, NEW retry \in Nat,
         NEW i \in Owned(t, ids, w)
  PROVE  EndsAs(t[i], Nack(t, ids, w, retry)[i], "pending")
<1> i \in Ids /\ t[i] \in Row /\ t[i].attempts \in Nat /\ t[i].status = "pending"
  BY OwnedRow
<1>1. Nack(t, ids, w, retry)[i] =
        [t[i] EXCEPT !.retry_at = retry, !.last_error = TRUE, !.leased_by = NULL, !.lease_until = 0]
  BY DEF Nack
<1>2. Nack(t, ids, w, retry)[i] = Ended(t[i], "pending", t[i].attempts, retry, TRUE)
  BY <1>1 DEF Ended, Row
<1>3. t[i].attempts + 1 >= t[i].attempts
  OBVIOUS
<1> SUFFICES \E a, at \in Nat, e \in BOOLEAN :
               /\ a + 1 >= t[i].attempts /\ ("pending" = "dead" => a = t[i].attempts)
               /\ Nack(t, ids, w, retry)[i] = Ended(t[i], "pending", a, at, e)
  BY DEF EndsAs
<1> WITNESS t[i].attempts \in Nat, retry \in Nat, TRUE \in BOOLEAN
<1> QED
  BY <1>2, <1>3

\* release ends leases, leaves the rows pending and gives one attempt back.
LEMMA ReleaseEffect ==
  ASSUME NEW t, SoundTable(t), NEW w \in Workers, NEW ids \in SUBSET Ids, NEW retry \in Nat,
         NEW i \in Owned(t, ids, w)
  PROVE  EndsAs(t[i], Release(t, ids, w, retry)[i], "pending")
<1> DEFINE a == t[i].attempts - 1
<1>1. /\ i \in Ids /\ t[i] \in Row /\ t[i].status = "pending" /\ t[i].last_error \in BOOLEAN
      /\ a \in Nat /\ a + 1 >= t[i].attempts
  BY OwnedRow
<1>2. Release(t, ids, w, retry)[i] =
        [t[i] EXCEPT !.attempts = a, !.retry_at = retry, !.leased_by = NULL, !.lease_until = 0]
  BY <1>1 DEF Release
<1> HIDE DEF a
<1>3. Release(t, ids, w, retry)[i] = Ended(t[i], "pending", a, retry, t[i].last_error)
  BY <1>1, <1>2 DEF Ended, Row
<1> QED
  BY <1>1, <1>3 DEF EndsAs

\* dead_letter ends a lease with the verdict "dead".
LEMMA DeadLetterEffect ==
  ASSUME NEW t, SoundTable(t), NEW w \in Workers, NEW ids \in SUBSET Ids,
         NEW i \in Owned(t, ids, w)
  PROVE  EndsAs(t[i], DeadLetter(t, ids, w)[i], "dead")
<1> i \in Ids /\ t[i] \in Row /\ t[i].attempts \in Nat /\ t[i].retry_at \in Nat
  BY OwnedRow
<1>1. DeadLetter(t, ids, w)[i] =
        [t[i] EXCEPT !.status = "dead", !.last_error = TRUE, !.leased_by = NULL, !.lease_until = 0]
  BY DEF DeadLetter
<1>2. DeadLetter(t, ids, w)[i] = Ended(t[i], "dead", t[i].attempts, t[i].retry_at, TRUE)
  BY <1>1 DEF Ended, Row
<1>3. t[i].attempts + 1 >= t[i].attempts
  OBVIOUS
<1> SUFFICES \E a, at \in Nat, e \in BOOLEAN :
               /\ a + 1 >= t[i].attempts /\ ("dead" = "dead" => a = t[i].attempts)
               /\ DeadLetter(t, ids, w)[i] = Ended(t[i], "dead", a, at, e)
  BY DEF EndsAs
<1> WITNESS t[i].attempts \in Nat, t[i].retry_at \in Nat, TRUE \in BOOLEAN
<1> QED
  BY <1>2, <1>3

\* An insertion fills the columns of an id that had none.
LEMMA InsertEffect ==
  ASSUME NEW t, SoundTable(t), NEW i \in Ids, NEW k \in Keys \cup {NULL},
         t[i].status = "absent"
  PROVE  /\ SoundTable(Insert(t, i, k))
         /\ Insert(t, i, k)[i].status = "pending"
         /\ \A j \in Ids : /\ j # i => Insert(t, i, k)[j] = t[j]
                           /\ Credit(Insert(t, i, k), j) = Credit(t, j)
<1> DEFINE u == Insert(t, i, k)
           r == [Absent EXCEPT !.status = "pending", !.key = k]
<1>1. r \in Row /\ r.status = "pending" /\ r.leased_by = NULL /\ r.attempts = 0
  BY DEF Absent, Row, Status
<1>2. t \in [Ids -> Row] /\ Blank(t[i])
  BY DEF SoundTable, Table
<1>3. u = [t EXCEPT ![i] = r]
  BY DEF Insert
<1> HIDE DEF r
<1>4. u \in [Ids -> Row] /\ u[i] = r /\ \A j \in Ids : j # i => u[j] = t[j]
  BY <1>1, <1>2, <1>3
<1>5. t[i].leased_by = NULL /\ t[i].attempts = 0
  BY <1>2 DEF Blank
<1> HIDE DEF u
<1>6. \A j \in Ids : Credit(u, j) = Credit(t, j)
  BY <1>1, <1>4, <1>5 DEF Credit
<1>7. \A j \in Ids : /\ u[j].leased_by # NULL => u[j].status = "pending" /\ u[j].attempts > 0
                     /\ u[j].status = "absent" => Blank(u[j])
  BY <1>1, <1>4 DEF SoundTable
<1>8. SoundTable(u)
  BY <1>4, <1>7 DEF SoundTable, Table
<1> QED
  BY <1>1, <1>4, <1>6, <1>8 DEF u

\* purge touches nothing but the status of rows that were delivered.
LEMMA PurgeEffect ==
  ASSUME NEW t, SoundTable(t), NEW old \in SUBSET Ids
  PROVE  /\ SoundTable(Purge(t, old))
         /\ \A i \in Ids :
              /\ Purge(t, old)[i].key = t[i].key
              /\ Purge(t, old)[i].leased_by = t[i].leased_by
              /\ Credit(Purge(t, old), i) = Credit(t, i)
              /\ \/ Purge(t, old)[i].status = t[i].status
                 \/ t[i].status = "done" /\ Purge(t, old)[i].status = "deleted"
<1> DEFINE u == Purge(t, old)
<1>1. \A i \in Ids : t[i] \in Row
  BY DEF SoundTable, Table
<1>2. ASSUME NEW i \in Ids
      PROVE  /\ u[i] \in Row
             /\ u[i].key = t[i].key /\ u[i].leased_by = t[i].leased_by
             /\ u[i].attempts = t[i].attempts
             /\ \/ u[i] = t[i]
                \/ t[i].status = "done" /\ u[i].status = "deleted"
  <2>1. u[i] = t[i] \/ (t[i].status = "done" /\ u[i] = [t[i] EXCEPT !.status = "deleted"])
    BY DEF Purge
  <2> HIDE DEF u
  <2> QED
    BY <1>1, <2>1 DEF Row, Status
<1>3. u \in Table
  BY <1>2 DEF Purge, Table
<1> HIDE DEF u
<1>4. \A i \in Ids : Credit(u, i) = Credit(t, i)
  BY <1>2 DEF Credit
<1>5. SoundTable(u)
  BY <1>2, <1>3 DEF SoundTable, Blank
<1> QED
  BY <1>2, <1>4, <1>5 DEF u

\* The clock touches only retry_at and lease_until.
LEMMA ElapseEffect ==
  ASSUME NEW t, SoundTable(t)
  PROVE  /\ SoundTable(Elapse(t))
         /\ \A i \in Ids : /\ Elapse(t)[i].key = t[i].key
                           /\ Elapse(t)[i].status = t[i].status
                           /\ Elapse(t)[i].leased_by = t[i].leased_by
                           /\ Credit(Elapse(t), i) = Credit(t, i)
<1> DEFINE u == Elapse(t)
<1>1. \A i \in Ids : t[i] \in Row
  BY DEF SoundTable, Table
<1>2. ASSUME NEW i \in Ids
      PROVE  /\ u[i] \in Row
             /\ u[i].key = t[i].key /\ u[i].leased_by = t[i].leased_by
             /\ u[i].status = t[i].status /\ u[i].attempts = t[i].attempts
  <2> DEFINE at == Sooner(t[i].retry_at)
             until == Sooner(t[i].lease_until)
  <2>1. at \in Nat /\ until \in Nat
    BY <1>1, RowNumbers DEF Sooner
  <2>2. u[i] = [t[i] EXCEPT !.retry_at = at, !.lease_until = until]
    BY DEF Elapse
  <2> HIDE DEF u, at, until
  <2> QED
    BY <1>1, <2>1, <2>2 DEF Row
<1>3. u \in Table
  BY <1>2 DEF Elapse, Table
<1> HIDE DEF u
<1>4. \A i \in Ids : Credit(u, i) = Credit(t, i)
  BY <1>2 DEF Credit
<1>5. SoundTable(u)
  BY <1>2, <1>3 DEF SoundTable, Blank
<1> QED
  BY <1>2, <1>4, <1>5 DEF u

-----------------------------------------------------------------------------
(* The rounds.                                                             *)

\* The type invariant with what it needs to be inductive.
Sound == TypeOK /\ SoundTable(rows)

-----------------------------------------------------------------------------
(* Storage calls.                                                          *)

\* Executing a write-back, by whomever and however late: it settles pending rows of its
\* worker only, and with the verdict its operation stands for.
LEMMA ExecuteEffect ==
  ASSUME NEW t, SoundTable(t), NEW c \in Call
  PROVE  /\ SoundTable(Execute(t, c))
         /\ \A i \in Ids :
              /\ Execute(t, c)[i].key = t[i].key
              /\ Credit(Execute(t, c), i) >= Credit(t, i)
              /\ Execute(t, c)[i] # t[i] => i \in c.ids /\ t[i].leased_by = c.worker_id
              /\ \/ Execute(t, c)[i].status = t[i].status
                 \/ /\ t[i].status = "pending" /\ i \in c.ids
                    /\ \/ c.op = "ack" /\ Execute(t, c)[i].status \in {"done", "deleted"}
                       \/ /\ c.op = "dead_letter" /\ Execute(t, c)[i].status = "dead"
                          /\ Execute(t, c)[i].attempts = Credit(t, i)
<1> DEFINE u == Execute(t, c)
           w == c.worker_id
           O == Owned(t, c.ids, w)
<1>1. w \in Workers /\ c.ids \in SUBSET Ids /\ c.retry_at \in Nat
  BY DEF Call
<1>2. O \subseteq Ids /\ \A i \in O : /\ t[i] \in Row /\ t[i].status = "pending"
                                      /\ t[i].attempts \in Nat
                                      /\ Credit(t, i) = t[i].attempts /\ i \in c.ids
  BY <1>1, OwnedRow, TableAssumption DEF Owned, Credit
<1>a. u = [i \in Ids |-> u[i]]
  BY DEF Execute, Call, Ack, Nack, Release, DeadLetter
<1>3. /\ \A i \in Ids : i \notin O => u[i] = t[i]
      /\ \A i \in O : \/ EndsAs(t[i], u[i], "pending")
                      \/ c.op = "ack" /\ EndsAs(t[i], u[i], "done")
                      \/ c.op = "ack" /\ EndsAs(t[i], u[i], "deleted")
                      \/ c.op = "dead_letter" /\ EndsAs(t[i], u[i], "dead")
  <2>1. CASE c.op = "ack"
    <3>1. u = Ack(t, c.ids, w)
      BY <2>1 DEF Execute
    <3>2. \A i \in Ids : i \notin O => u[i] = t[i]
      BY <3>1 DEF Ack
    <3> HIDE DEF u, O, w
    <3>3. \A i \in O : EndsAs(t[i], u[i], "done") \/ EndsAs(t[i], u[i], "deleted")
      BY <1>1, <3>1, AckEffect DEF O
    <3> QED
      BY <2>1, <3>2, <3>3
  <2>2. CASE c.op = "nack"
    <3>1. u = Nack(t, c.ids, w, c.retry_at)
      BY <2>2 DEF Execute
    <3>2. \A i \in Ids : i \notin O => u[i] = t[i]
      BY <3>1 DEF Nack
    <3> HIDE DEF u, O, w
    <3>3. \A i \in O : EndsAs(t[i], u[i], "pending")
      BY <1>1, <3>1, NackEffect DEF O
    <3> QED
      BY <2>2, <3>2, <3>3
  <2>3. CASE c.op = "release"
    <3>1. u = Release(t, c.ids, w, c.retry_at)
      BY <2>3 DEF Execute
    <3>2. \A i \in Ids : i \notin O => u[i] = t[i]
      BY <3>1 DEF Release
    <3> HIDE DEF u, O, w
    <3>3. \A i \in O : EndsAs(t[i], u[i], "pending")
      BY <1>1, <3>1, ReleaseEffect DEF O
    <3> QED
      BY <2>3, <3>2, <3>3
  <2>4. CASE c.op = "dead_letter"
    <3>1. u = DeadLetter(t, c.ids, w)
      BY <2>4 DEF Execute
    <3>2. \A i \in Ids : i \notin O => u[i] = t[i]
      BY <3>1 DEF DeadLetter
    <3> HIDE DEF u, O, w
    <3>3. \A i \in O : EndsAs(t[i], u[i], "dead")
      BY <1>1, <3>1, DeadLetterEffect DEF O
    <3> QED
      BY <2>4, <3>2, <3>3
  <2> QED
    BY <2>1, <2>2, <2>3, <2>4 DEF Call
<1> HIDE DEF u, w
<1>4. /\ SoundTable(u)
      /\ \A i \in Ids : /\ u[i].key = t[i].key
                        /\ Credit(u, i) >= Credit(t, i)
                        /\ u[i] # t[i] => i \in c.ids /\ t[i].leased_by = w
  <2>1. \A i \in O : \E st \in Outcome : EndsAs(t[i], u[i], st)
    BY <1>3 DEF Outcome
  <2> QED
    BY <1>1, <1>a, <1>3, <2>1, WriteBackEffect
<1>5. ASSUME NEW i \in Ids
      PROVE  \/ u[i].status = t[i].status
             \/ /\ t[i].status = "pending" /\ i \in c.ids
                /\ \/ c.op = "ack" /\ u[i].status \in {"done", "deleted"}
                   \/ /\ c.op = "dead_letter" /\ u[i].status = "dead"
                      /\ u[i].attempts = Credit(t, i)
  <2>1. CASE i \in O
    <3>1. PICK st \in Outcome :
            /\ EndsAs(t[i], u[i], st)
            /\ \/ st = "pending"
               \/ c.op = "ack" /\ st \in {"done", "deleted"}
               \/ c.op = "dead_letter" /\ st = "dead"
      BY <1>3, <2>1 DEF Outcome
    <3>2. PICK a \in Nat, at \in Nat, e \in BOOLEAN :
            (st = "dead" => a = t[i].attempts) /\ u[i] = Ended(t[i], st, a, at, e)
      BY <3>1 DEF EndsAs
    <3>3. u[i].status = st /\ u[i].attempts = a
      BY <1>2, <2>1, <3>2, EndedRow
    <3> QED
      BY <1>2, <2>1, <3>1, <3>2, <3>3
  <2> QED
    BY <1>3, <2>1
<1> QED
  BY <1>4, <1>5 DEF u, w

\* What a call in flight says about the round that issued it.
LEMMA InFlightCalls ==
  ASSUME TypeOK, NEW w \in Workers, NEW c \in InFlight(w)
  PROVE  /\ c \in Call
         /\ c.worker_id = w
         /\ \A i \in c.ids : /\ task[w][i].st \in {"sent", "failed", "held"}
                             /\ c.op = "ack" => task[w][i].st = "sent"
                             /\ c.op = "dead_letter" => /\ task[w][i].st = "failed"
                                                        /\ task[w][i].attempts >= MaxAttempts
<1>1. faults \in Nat /\ \A i \in Ids : task[w][i] \in Task /\ task[w][i].retry_at \in Nat
  BY RelayAssumption DEF TypeOK, Task
<1>2. CASE c \in Failures(w)
  <2>1. PICK i \in Ids : task[w][i].st = "failed" /\ c = FailureCall(w, i)
    BY <1>2 DEF Failures
  <2> QED
    BY <1>1, <2>1 DEF FailureCall, NewCall, Call, Exhausted
<1>3. CASE c \in Releases(w)
  <2>1. PICK i \in Releasable(w) :
          c = NewCall("release", w, Group(w, i) \cap Releasable(w), task[w][i].retry_at)
    BY <1>3 DEF Releases
  <2>2. i \in Ids /\ Group(w, i) \cap Releasable(w) \in SUBSET Ids
    BY <2>1 DEF Releasable
  <2>3. \A j \in Releasable(w) : task[w][j].st = "held"
    BY DEF Releasable
  <2> QED
    BY <1>1, <2>1, <2>2, <2>3 DEF NewCall, Call
<1>4. CASE c \in Acks(w)
  <2>1. /\ c = NewCall("ack", w, Batch(w), 0)
        /\ \A i \in Batch(w) : task[w][i].st = "sent"
    BY <1>4 DEF Acks
  <2>2. Batch(w) \in SUBSET Ids
    BY DEF Batch
  <2> QED
    BY <1>1, <2>1, <2>2 DEF NewCall, Call
<1> QED
  BY <1>2, <1>3, <1>4 DEF InFlight

-----------------------------------------------------------------------------
(* Types.                                                                  *)

\* Dropping messages from a round leaves tasks.
LEMMA DropType ==
  ASSUME TypeOK, NEW w \in Workers, NEW S, Drop(w, S)
  PROVE  task' \in [Workers -> [Ids -> Task]]
<1>1. NoTask \in Task
  BY DEF NoTask, Task, Stage
<1> QED
  BY <1>1 DEF TypeOK, Drop

\* A failed publish leaves tasks.
LEMMA FailType ==
  ASSUME TypeOK, NEW w \in Workers, NEW i \in Ids, NEW d \in Delays, Fail(w, i, d)
  PROVE  task' \in [Workers -> [Ids -> Task]]
<1> DEFINE retry == IF Exhausted(w, i) THEN 0 ELSE d
           rest  == {j \in Group(w, i) : j > i}
           f == [j \in Ids |->
                   CASE j = i       -> [task[w][j] EXCEPT !.st = "failed", !.retry_at = retry]
                     [] j \in rest  -> [NoTask EXCEPT !.st = "held", !.retry_at = retry]
                     [] OTHER       -> task[w][j]]
<1>1. retry \in Nat
  BY RelayAssumption
<1>2. task' = [task EXCEPT ![w] = f]
  BY DEF Fail, TypeOK
<1> HIDE DEF retry, rest
<1>3. ASSUME NEW j \in Ids
      PROVE  f[j] \in Task
  <2>1. task[w][j] \in Task
    BY DEF TypeOK
  <2>2. [task[w][j] EXCEPT !.st = "failed", !.retry_at = retry] \in Task
    BY <1>1, <2>1 DEF Task, Stage
  <2>3. [NoTask EXCEPT !.st = "held", !.retry_at = retry] \in Task
    BY <1>1 DEF NoTask, Task, Stage
  <2> QED
    BY <2>1, <2>2, <2>3
<1>4. f \in [Ids -> Task]
  BY <1>3
<1> HIDE DEF f
<1> QED
  BY <1>2, <1>4 DEF TypeOK

\* The calls a worker leaves behind are calls.
LEMMA AbandonType ==
  ASSUME TypeOK, NEW w \in Workers, Abandon(w)
  PROVE  late' \subseteq Call /\ wire' \subseteq Ids
  BY InFlightCalls DEF Abandon, TypeOK

\* Counting a fault stays within the bound.
LEMMA FaultType ==
  ASSUME TypeOK, Fault
  PROVE  faults' \in 0..MaxFaults
  BY RelayAssumption DEF Fault, TypeOK

\* Accepting a message keeps the histories typed.
LEMMA AcceptType ==
  ASSUME TypeOK, NEW i \in Ids, Accept(i)
  PROVE  accepted' \subseteq Ids /\ repeated' \subseteq Ids
  BY DEF Accept, TypeOK

\* Init establishes the strengthened type invariant.
LEMMA SoundInit == Init => Sound
<1> SUFFICES ASSUME Init PROVE Sound
  OBVIOUS
<1>1. NoTask \in Task
  BY DEF NoTask, Task, Stage
<1>2. SoundTable(rows) /\ rows \in Table
  BY EmptySound DEF Init, SoundTable
<1> QED
  BY <1>1, <1>2, RelayAssumption DEF Init, Sound, TypeOK

\* Every step preserves it.
LEMMA SoundStep == Sound /\ [Next]_vars => Sound'
<1> SUFFICES ASSUME Sound, [Next]_vars PROVE Sound'
  OBVIOUS
<1> USE DEF Sound
<1>0. SoundTable(rows) => rows \in Table
  BY DEF SoundTable
<1>1. ASSUME NEW i \in Ids, NEW k \in Keys \cup {NULL}, Produce(i, k)
      PROVE  Sound'
  <2>1. SoundTable(rows')
    BY <1>1, InsertEffect DEF Produce, NextId
  <2> QED
    BY <1>1, <2>1 DEF Produce, TypeOK, SoundTable
<1>2. ASSUME NEW old \in SUBSET Ids, PurgeDone(old)
      PROVE  Sound'
  <2>1. SoundTable(rows')
    BY <1>2, PurgeEffect DEF PurgeDone
  <2> QED
    BY <1>2, <2>1 DEF PurgeDone, TypeOK, SoundTable
<1>3. ASSUME NEW w \in Workers, ClaimBatch(w)
      PROVE  Sound'
  <2>1. SoundTable(rows')
    BY <1>3, ClaimEffect DEF ClaimBatch, ClaimNext
  <2>2. \A i \in Ids : rows'[i].attempts \in Nat
    BY <2>1, RowNumbers DEF SoundTable, Table
  <2>3. ASSUME NEW i \in Ids, NEW n \in Nat
        PROVE  NoTask \in Task /\ [NoTask EXCEPT !.st = "todo", !.attempts = n] \in Task
    BY DEF NoTask, Task, Stage
  <2>4. task' \in [Workers -> [Ids -> Task]]
    BY <1>3, <2>2, <2>3 DEF ClaimBatch, TypeOK
  <2> QED
    BY <1>3, <2>1, <2>4 DEF ClaimBatch, TypeOK, SoundTable
<1>4. ASSUME NEW w \in Workers, ClaimLost(w)
      PROVE  Sound'
  <2>1. SoundTable(rows')
    BY <1>4, ClaimEffect DEF ClaimLost, ClaimNext
  <2> QED
    BY <1>4, <2>1, FaultType DEF ClaimLost, TypeOK, SoundTable
<1>5. ASSUME NEW w \in Workers, NEW i \in Ids, StartPublish(w, i)
      PROVE  Sound'
  <2>1. task' \in [Workers -> [Ids -> Task]]
    <3>1. \A t \in Task : [t EXCEPT !.st = "sending"] \in Task
      BY DEF Task, Stage
    <3> QED
      BY <1>5, <3>1 DEF StartPublish, TypeOK
  <2>2. tries' \in [Ids -> Nat]
    BY <1>5 DEF StartPublish, TypeOK
  <2> QED
    BY <1>5, <2>1, <2>2 DEF StartPublish, TypeOK
<1>6. ASSUME NEW w \in Workers, NEW i \in Ids, PublishOk(w, i)
      PROVE  Sound'
  <2>1. [NoTask EXCEPT !.st = "sent"] \in Task
    BY DEF NoTask, Task, Stage
  <2>2. task' \in [Workers -> [Ids -> Task]]
    BY <1>6, <2>1 DEF PublishOk, TypeOK
  <2> QED
    BY <1>6, <2>2, AcceptType DEF PublishOk, TypeOK
<1>7. ASSUME NEW w \in Workers, NEW i \in Ids, NEW d \in Delays, PublishRaises(w, i, d)
      PROVE  Sound'
  BY <1>7, FailType DEF PublishRaises, TypeOK
<1>8. ASSUME NEW w \in Workers, NEW i \in Ids, NEW d \in Delays, PublishTimeout(w, i, d)
      PROVE  Sound'
  BY <1>8, FailType, FaultType DEF PublishTimeout, TypeOK
<1>9. ASSUME NEW i \in Ids, Arrive(i)
      PROVE  Sound'
  BY <1>9, AcceptType DEF Arrive, TypeOK
<1>10. ASSUME NEW w \in Workers, NEW c \in InFlight(w), Report(w, c)
       PROVE  Sound'
  <2>1. SoundTable(rows')
    BY <1>10, InFlightCalls, ExecuteEffect DEF Report
  <2> QED
    BY <1>10, <2>1, DropType DEF Report, TypeOK, SoundTable
<1>11. ASSUME NEW w \in Workers, NEW c \in InFlight(w), ReportError(w, c)
       PROVE  Sound'
  BY <1>11, InFlightCalls, DropType, FaultType DEF ReportError, TypeOK
<1>12. ASSUME NEW c \in late, ExecuteLate(c)
       PROVE  Sound'
  <2>1. SoundTable(rows')
    BY <1>12, ExecuteEffect DEF ExecuteLate, TypeOK
  <2> QED
    BY <1>12, <2>1 DEF ExecuteLate, TypeOK, SoundTable
<1>13. ASSUME NEW c \in late, LoseLate(c)
       PROVE  Sound'
  BY <1>13 DEF LoseLate, TypeOK
<1>14. ASSUME NEW w \in Workers, CancelRound(w)
       PROVE  Sound'
  BY <1>14, AbandonType, DropType, FaultType DEF CancelRound, TypeOK
<1>c. ASSUME NEW w \in Workers, NEW i \in Ids, PublishCancelled(w, i)
      PROVE  Sound'
  BY <1>c, DropType, FaultType DEF PublishCancelled, TypeOK
<1>15. ASSUME NEW w \in Workers, Crash(w)
       PROVE  Sound'
  BY <1>15, AbandonType, DropType, FaultType DEF Crash, TypeOK
<1>16. ASSUME NEW w \in Workers, Restart(w)
       PROVE  Sound'
  BY <1>16 DEF Restart, TypeOK
<1>17. ASSUME Tick
       PROVE  Sound'
  <2>1. SoundTable(rows')
    BY <1>17, ElapseEffect DEF Tick
  <2>2. \A n \in Nat : Sooner(n) \in Nat
    BY DEF Sooner
  <2>3. \A t \in Task : [t EXCEPT !.retry_at = Sooner(@)] \in Task
    BY <2>2 DEF Task
  <2>4. task' \in [Workers -> [Ids -> Task]]
    BY <1>17, <2>3 DEF Tick, TypeOK
  <2>5. \A c \in Call : [c EXCEPT !.retry_at = Sooner(@)] \in Call
    BY <2>2 DEF Call
  <2>6. late' \subseteq Call
    BY <1>17, <2>5 DEF Tick, TypeOK
  <2> QED
    BY <1>17, <2>1, <2>4, <2>6 DEF Tick, TypeOK, SoundTable
<1>18. ASSUME UNCHANGED vars
       PROVE  Sound'
  BY <1>18 DEF vars, TypeOK
<1> QED
  BY <1>1, <1>2, <1>3, <1>4, <1>5, <1>6, <1>7, <1>8, <1>9, <1>10, <1>11, <1>12, <1>13, <1>14,
     <1>15, <1>16, <1>17, <1>18, <1>c DEF Next, RoundStep, FaultStep

(***************************************************************************)
(* Types, for every value of the constants: in particular attempts never   *)
(* drops below zero, although release subtracts one on the strength of a   *)
(* claim that may be long over.                                            *)
(***************************************************************************)
THEOREM TypeCorrect == Spec => []TypeOK
<1>1. Spec => []Sound
  BY SoundInit, SoundStep, PTL DEF Spec
<1>2. Sound => TypeOK
  BY DEF Sound
<1> QED
  BY <1>1, <1>2, PTL

-----------------------------------------------------------------------------
(* What a step does to the table.                                          *)

\* The life of a row: inserted, then settled by a verdict, then maybe purged; its key is
\* fixed at the insertion and its credit of attempts never shrinks.
RowStep(i) ==
  /\ Credit(rows', i) >= Credit(rows, i)
  /\ rows[i].status # "absent" => rows'[i].key = rows[i].key
  /\ \/ rows'[i].status = rows[i].status
     \/ rows[i].status = "absent" /\ rows'[i].status = "pending" /\ NextId(rows, i)
     \/ rows[i].status = "pending" /\ rows'[i].status \in {"done", "deleted", "dead"}
     \/ rows[i].status = "done" /\ rows'[i].status = "deleted"

\* The credit of a row is a natural number.
LEMMA CreditNat ==
  ASSUME NEW t, SoundTable(t), NEW i \in Ids
  PROVE  Credit(t, i) \in Nat
<1>1. t[i].attempts \in Nat
  BY RowNumbers DEF SoundTable, Table
<1> QED
  BY <1>1 DEF Credit

\* How a step may change a row.
LEMMA RowsStep ==
  ASSUME Sound, [Next]_vars
  PROVE  \A i \in Ids : RowStep(i)
<1> USE DEF Sound
<1>0. ASSUME rows' = rows
      PROVE  \A i \in Ids : RowStep(i)
  <2> TAKE i \in Ids
  <2>1. Credit(rows, i) \in Nat
    BY CreditNat
  <2>2. Credit(rows', i) = Credit(rows, i)
    BY <1>0 DEF Credit
  <2> QED
    BY <1>0, <2>1, <2>2 DEF RowStep
<1>1. ASSUME NEW i \in Ids, NEW k \in Keys \cup {NULL}, Produce(i, k)
      PROVE  \A j \in Ids : RowStep(j)
  <2> TAKE j \in Ids
  <2>1. Credit(rows, j) \in Nat
    BY CreditNat
  <2>2. rows' = Insert(rows, i, k) /\ rows[i].status = "absent" /\ NextId(rows, i)
    BY <1>1 DEF Produce, NextId
  <2>3. /\ rows'[i].status = "pending"
        /\ j # i => rows'[j] = rows[j]
        /\ Credit(rows', j) = Credit(rows, j)
    BY <2>2, InsertEffect
  <2> QED
    BY <2>1, <2>2, <2>3 DEF RowStep
<1>2. ASSUME NEW old \in SUBSET Ids, PurgeDone(old)
      PROVE  \A j \in Ids : RowStep(j)
  <2> TAKE j \in Ids
  <2>1. Credit(rows, j) \in Nat
    BY CreditNat
  <2>2. rows' = Purge(rows, old)
    BY <1>2 DEF PurgeDone
  <2> QED
    BY <2>1, <2>2, PurgeEffect DEF RowStep
<1>3. ASSUME NEW w \in Workers, ClaimNext(w)
      PROVE  \A j \in Ids : RowStep(j)
  BY <1>3, ClaimEffect DEF ClaimNext, RowStep
<1>4. ASSUME NEW c \in Call, rows' = Execute(rows, c)
      PROVE  \A j \in Ids : RowStep(j)
  BY <1>4, ExecuteEffect DEF RowStep
<1>5. ASSUME Tick
      PROVE  \A j \in Ids : RowStep(j)
  <2> TAKE j \in Ids
  <2>1. Credit(rows, j) \in Nat
    BY CreditNat
  <2>2. rows' = Elapse(rows)
    BY <1>5 DEF Tick
  <2> QED
    BY <2>1, <2>2, ElapseEffect DEF RowStep
<1>6. ASSUME NEW w \in Workers, ClaimBatch(w) \/ RoundStep(w) \/ FaultStep(w) \/ Restart(w)
      PROVE  \A j \in Ids : RowStep(j)
  <2>1. CASE ClaimBatch(w) \/ ClaimLost(w)
    BY <1>3, <2>1 DEF ClaimBatch, ClaimLost
  <2>2. ASSUME NEW c \in InFlight(w), Report(w, c)
        PROVE  \A j \in Ids : RowStep(j)
    BY <1>4, <2>2, InFlightCalls DEF Report
  <2>3. CASE rows' = rows
    BY <1>0, <2>3
  <2> QED
    BY <1>6, <2>1, <2>2, <2>3
       DEF RoundStep, FaultStep, StartPublish, PublishOk, PublishRaises, PublishTimeout,
           ReportError, CancelRound, PublishCancelled, Crash, Restart
<1>7. ASSUME NEW c \in late, ExecuteLate(c) \/ LoseLate(c)
      PROVE  \A j \in Ids : RowStep(j)
  BY <1>0, <1>4, <1>7 DEF ExecuteLate, LoseLate, TypeOK
<1>8. ASSUME NEW i \in Ids, Arrive(i)
      PROVE  \A j \in Ids : RowStep(j)
  BY <1>0, <1>8 DEF Arrive
<1> QED
  BY <1>0, <1>1, <1>2, <1>5, <1>6, <1>7, <1>8 DEF Next, vars

(***************************************************************************)
(* The verdict on a message is final, whatever calls are still on their    *)
(* way: no write-back of an earlier lease revives or re-judges a row.      *)
(***************************************************************************)
THEOREM VerdictIsFinal == Spec => VerdictFinal
<1>1. Sound /\ [Next]_vars =>
        [\A i \in Ids :
           rows[i].status \in {"done", "dead", "deleted"} =>
             \/ rows'[i].status = rows[i].status
             \/ rows[i].status = "done" /\ rows'[i].status = "deleted"]_vars
  BY RowsStep DEF RowStep
<1> QED
  BY <1>1, SoundInit, SoundStep, PTL DEF Spec, VerdictFinal

=============================================================================
