------------------------- MODULE MemoryClaimProofs -------------------------
(***************************************************************************)
(* Proof that the scan of MemoryStorage.claim selects what the query of    *)
(* OutboxTable selects, for every content of the storage.                  *)
(***************************************************************************)
EXTENDS MemoryClaim, FiniteSetTheorems, TLAPS

(***************************************************************************)
(* Sets of ids are finite, and a proper part of one is smaller.            *)
(***************************************************************************)
LEMMA IdsFinite ==
  ASSUME NEW S \in SUBSET Ids
  PROVE  IsFiniteSet(S) /\ Cardinality(S) \in Nat
<1>1. IsFiniteSet(Ids)
  BY TableAssumption, FS_Interval DEF Ids
<1> QED BY <1>1, FS_Subset, FS_CardinalityType

\* Fewer members of a set of ids lie before one of them than there are.
LEMMA FewerBefore ==
  ASSUME NEW S \in SUBSET Ids, NEW i \in S
  PROVE  Cardinality({j \in S : j < i}) < Cardinality(S)
<1> DEFINE T == {j \in S : j < i}
<1>1. T \subseteq S /\ i \notin T
  BY DEF Ids
<1>2. T # S /\ T \in SUBSET Ids
  BY <1>1
<1>3. IsFiniteSet(S)
  BY IdsFinite
<1>4. Cardinality(T) <= Cardinality(S) /\ (Cardinality(S) = Cardinality(T) => S = T)
  BY <1>1, <1>3, FS_Subset
<1>5. Cardinality(T) \in Nat /\ Cardinality(S) \in Nat
  BY <1>2, IdsFinite
<1> HIDE DEF T
<1> QED BY <1>2, <1>4, <1>5 DEF T

(***************************************************************************)
(* LIMIT n of S is the part of S below a, if that part has n elements, or  *)
(* at most n and nothing follows.                                          *)
(***************************************************************************)
LEMMA LimitIsPart ==
  ASSUME NEW S \in SUBSET Ids, NEW a \in Nat, NEW n \in Nat,
         LET part == {i \in S : i < a}
         IN  Cardinality(part) = n \/ (Cardinality(part) <= n /\ part = S)
  PROVE  FirstIds(S, n) = {i \in S : i < a}
<1> DEFINE part == {i \in S : i < a}
<1>1. part \in SUBSET Ids /\ Cardinality(part) \in Nat /\ Cardinality(part) <= n
  BY IdsFinite
<1>a. \A i \in S : i \in Int
  BY TableAssumption DEF Ids
<1>2. ASSUME NEW i \in S, i \in part PROVE i \in FirstIds(S, n)
  <2>1. {j \in S : j < i} = {j \in part : j < i}
    BY <1>2, <1>a
  <2>2. Cardinality({j \in part : j < i}) < Cardinality(part)
    BY <1>1, <1>2, FewerBefore
  <2>3. Cardinality({j \in S : j < i}) \in Nat
    BY IdsFinite
  <2> HIDE DEF part
  <2> QED BY <1>1, <2>1, <2>2, <2>3 DEF FirstIds
<1>3. ASSUME NEW i \in S, i \notin part PROVE i \notin FirstIds(S, n)
  <2> DEFINE T == {j \in S : j < i}
  <2>1. part \subseteq T
    BY <1>3, <1>a
  <2>2. IsFiniteSet(T) /\ Cardinality(T) \in Nat
    BY IdsFinite
  <2>3. Cardinality(part) <= Cardinality(T)
    BY <2>1, <2>2, FS_Subset
  <2>4. Cardinality(part) = n
    BY <1>3
  <2> HIDE DEF part, T
  <2>5. ~(Cardinality(T) < n)
    BY <1>1, <2>2, <2>3, <2>4
  <2> QED BY <2>5 DEF FirstIds, T
<1>4. FirstIds(S, n) \subseteq S
  BY DEF FirstIds
<1> QED BY <1>2, <1>3, <1>4

-----------------------------------------------------------------------------

Seen(i) == i < at

\* The row keeps the later ones of its key waiting.
Blocks(r) == r.status = "pending" /\ r.key # NULL /\ (r.retry_at > 0 \/ r.lease_until > 0)

(***************************************************************************)
(* The loop invariant: the candidates seen have been claimed, and changed  *)
(* as Claim changes them; everything else is as it was; and the keys held  *)
(* back are those of the rows seen that block.                             *)
(***************************************************************************)
LoopInv ==
  /\ before \in Table
  /\ at \in Nat /\ at >= 1 /\ at <= MaxId + 1
  /\ claimed = {i \in Candidates(before) : Seen(i)}
  /\ Cardinality(claimed) <= BatchSize
  /\ records = [i \in Ids |-> IF i \in claimed THEN Taken(before[i]) ELSE before[i]]
  /\ StrictOrdering => blocked_keys = {before[i].key : i \in {j \in Ids : Seen(j) /\ Blocks(before[j])}}
  /\ ~StrictOrdering => blocked_keys = {}

(***************************************************************************)
(* A row whose turn it is is as it was, and is a candidate exactly if the  *)
(* loop takes it.                                                          *)
(***************************************************************************)
LEMMA TurnDecides ==
  ASSUME LoopInv, at \in Ids
  PROVE  /\ records[at] = before[at]
         /\ at \in Candidates(before) <=>
              /\ records[at].status = "pending"
              /\ ~NotDue(records[at]) /\ ~Leased(records[at]) /\ ~HeldByKey(records[at])
<1>1. records[at] = before[at] /\ before[at] \in Row
  BY DEF LoopInv, Seen, Table
<1>2. before[at].retry_at \in Nat /\ before[at].lease_until \in Nat
  BY <1>1 DEF Row
<1>3. StrictOrdering => (HeldBack(before, at) <=> HeldByKey(before[at]))
  <2> SUFFICES ASSUME StrictOrdering PROVE HeldBack(before, at) <=> HeldByKey(before[at])
    OBVIOUS
  <2>1. blocked_keys = {before[i].key : i \in {j \in Ids : Seen(j) /\ Blocks(before[j])}}
    BY DEF LoopInv
  <2> QED BY <2>1 DEF HeldBack, HeldByKey, SameKey, Blocks, Seen
<1>4. ~StrictOrdering => ~HeldByKey(before[at])
  BY DEF LoopInv, HeldByKey
<1>5. Claimable(before, at) <=>
        before[at].status = "pending" /\ ~NotDue(before[at]) /\ ~Leased(before[at])
  BY <1>2 DEF Claimable, NotDue, Leased
<1> QED BY <1>1, <1>3, <1>4, <1>5 DEF Candidates

(***************************************************************************)
(* A row that is passed over blocks its key, or its key was held back.     *)
(***************************************************************************)
LEMMA LoopStep == LoopInv /\ [Next]_vars => LoopInv'
<1> SUFFICES ASSUME LoopInv, [Next]_vars PROVE LoopInv'
  OBVIOUS
<1>1. CASE UNCHANGED vars
  BY <1>1 DEF vars, LoopInv, Seen, Taken
<1>2. CASE Next
  <2>1. Looking /\ at \in Ids /\ at' = at + 1 /\ UNCHANGED <<before, worker_id>>
    BY <1>2 DEF Next, Skip, PassOver, Take, Looking
  <2>2. at \in Nat /\ at' \in Nat /\ at' >= 1 /\ at' <= MaxId + 1
    BY <2>1, TableAssumption DEF Ids
  <2>3. \A i \in Ids : Seen(i)' <=> Seen(i) \/ i = at
    BY <2>1, <2>2 DEF Seen, Ids
  <2>4. Candidates(before) \subseteq Ids
    BY DEF Candidates
  <2>5. before[at] \in Row
    BY <2>1 DEF LoopInv, Table
  <2>6. CASE Take
    <3>1. at \in Candidates(before) /\ records[at] = before[at]
      BY <2>1, <2>6, TurnDecides DEF Take
    <3>2. claimed' = {i \in Candidates(before) : Seen(i)'}
      BY <2>3, <2>4, <2>6, <3>1 DEF Take, LoopInv
    <3>3. Cardinality(claimed') <= BatchSize
      <4>1. claimed \in SUBSET Ids /\ at \notin claimed
        BY <2>2, <2>4 DEF LoopInv, Seen
      <4>2. IsFiniteSet(claimed) /\ Cardinality(claimed) \in Nat
        BY <4>1, IdsFinite
      <4>3. Cardinality(claimed') = Cardinality(claimed) + 1
        BY <2>6, <4>1, <4>2, FS_AddElement DEF Take
      <4> QED BY <2>1, <4>2, <4>3, TableAssumption DEF Looking
    <3>4. records' = [i \in Ids |-> IF i \in claimed' THEN Taken(before[i])' ELSE before[i]]
      <4>1. records' = [records EXCEPT ![at] = Taken(before[at])]
        BY <2>6, <3>1 DEF Take
      <4>2. \A i \in Ids : Taken(before[i])' = Taken(before[i])
        BY <2>1 DEF Taken
      <4>3. claimed' = claimed \cup {at}
        BY <2>6 DEF Take
      <4> QED BY <2>1, <4>1, <4>2, <4>3 DEF LoopInv
    <3>5. ~Blocks(before[at])
      BY <2>6, <3>1 DEF Take, NotDue, Leased, Blocks
    <3>6. blocked_keys' = blocked_keys
      BY <2>6 DEF Take
    <3>7. {j \in Ids : Seen(j)' /\ Blocks(before[j])} = {j \in Ids : Seen(j) /\ Blocks(before[j])}
      BY <2>3, <3>5
    <3> QED BY <2>1, <2>2, <3>2, <3>3, <3>4, <3>6, <3>7 DEF LoopInv
  <2>7. CASE Skip \/ PassOver
    <3>1. at \notin Candidates(before) /\ records[at] = before[at]
      BY <2>1, <2>7, TurnDecides DEF Skip, PassOver
    <3>2. claimed' = claimed /\ records' = records
      BY <2>7 DEF Skip, PassOver
    <3>3. claimed' = {i \in Candidates(before) : Seen(i)'}
      BY <2>3, <2>4, <3>1, <3>2 DEF LoopInv
    <3>4. records' = [i \in Ids |-> IF i \in claimed' THEN Taken(before[i])' ELSE before[i]]
      BY <2>1, <3>2 DEF LoopInv, Taken
    <3>5. ~StrictOrdering => blocked_keys' = {}
      BY <2>7 DEF Skip, PassOver, Holds, LoopInv
    <3>6. ASSUME StrictOrdering
          PROVE  blocked_keys' = {before[i].key : i \in {j \in Ids : Seen(j)' /\ Blocks(before[j])}}
      <4>1. blocked_keys = {before[i].key : i \in {j \in Ids : Seen(j) /\ Blocks(before[j])}}
        BY <3>6 DEF LoopInv
      <4>2. CASE Blocks(before[at])
        <5>1. blocked_keys' = blocked_keys \cup {before[at].key}
          BY <2>7, <3>1, <3>6, <4>2 DEF Skip, PassOver, Holds, Blocks
        <5> QED BY <2>1, <2>3, <4>1, <4>2, <5>1
      <4>3. CASE ~Blocks(before[at])
        <5>1. blocked_keys' = blocked_keys
          BY <2>7, <3>1, <4>3 DEF Skip, PassOver, Holds, Blocks, HeldByKey, NotDue, Leased
        <5> QED BY <2>3, <4>1, <4>3, <5>1
      <4> QED BY <4>2, <4>3
    <3> QED BY <2>1, <2>2, <3>2, <3>3, <3>4, <3>5, <3>6 DEF LoopInv
  <2> QED BY <1>2, <2>6, <2>7 DEF Next
<1> QED BY <1>1, <1>2

(***************************************************************************)
(* When MemoryStorage.claim returns it has claimed the rows that the query *)
(* of the SQL storages claims, and made of the table what it makes of it,  *)
(* with strict ordering and without.                                       *)
(***************************************************************************)
THEOREM ScanSelectsClaimSet == Spec => []ScanIsQuery
<1>1. Init => LoopInv
  <2> SUFFICES ASSUME Init PROVE LoopInv
    OBVIOUS
  <2>1. before \in Table /\ at = 1 /\ claimed = {} /\ records = before /\ blocked_keys = {}
    BY TablesAssumption DEF Init
  <2>2. \A i \in Ids : ~Seen(i)
    BY <2>1 DEF Seen, Ids
  <2>3. claimed = {i \in Candidates(before) : Seen(i)}
    BY <2>1, <2>2 DEF Candidates
  <2>4. Cardinality(claimed) <= BatchSize
    BY <2>1, FS_EmptySet, TableAssumption
  <2>5. records = [i \in Ids |-> IF i \in claimed THEN Taken(before[i]) ELSE before[i]]
    BY <2>1 DEF Table
  <2>6. blocked_keys = {before[i].key : i \in {j \in Ids : Seen(j) /\ Blocks(before[j])}}
    BY <2>1, <2>2
  <2>7. at \in Nat /\ at >= 1 /\ at <= MaxId + 1
    BY <2>1, TableAssumption
  <2> QED BY <2>1, <2>3, <2>4, <2>5, <2>6, <2>7 DEF LoopInv
<1>2. LoopInv => ScanIsQuery
  <2> SUFFICES ASSUME LoopInv, ~Looking
               PROVE  claimed = ClaimSet(before) /\ records = Claim(before, worker_id)
    BY DEF ScanIsQuery
  <2> DEFINE S == Candidates(before)
  <2>1. S \in SUBSET Ids /\ claimed = {i \in S : i < at}
    BY DEF Candidates, LoopInv, Seen
  <2>2. Cardinality(claimed) \in Nat /\ Cardinality(claimed) <= BatchSize
    BY <2>1, IdsFinite DEF LoopInv
  <2>3. Cardinality(claimed) = BatchSize \/ claimed = S
    <3>1. CASE at \in Ids
      BY <3>1, <2>2, TableAssumption DEF Looking
    <3>2. CASE at \notin Ids
      <4>1. \A i \in Ids : i < at
        BY <3>2, TableAssumption DEF LoopInv, Ids
      <4> QED BY <2>1, <4>1
    <3> QED BY <3>1, <3>2
  <2> HIDE DEF S
  <2>4. FirstIds(S, BatchSize) = {i \in S : i < at}
    <3>1. at \in Nat /\ BatchSize \in Nat
      BY TableAssumption DEF LoopInv
    <3> QED BY <3>1, <2>1, <2>2, <2>3, LimitIsPart
  <2>5. claimed = ClaimSet(before)
    BY <2>1, <2>4 DEF ClaimSet, S
  <2>6. records = Claim(before, worker_id)
    BY <2>5 DEF LoopInv, Claim, Taken
  <2> QED BY <2>5, <2>6
<1> QED BY <1>1, <1>2, LoopStep, PTL DEF Spec

=============================================================================
