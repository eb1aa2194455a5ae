------------------------ MODULE LocalDatabaseProofs ------------------------
(***************************************************************************)
(* Proofs about LocalDatabase, for any number of accounts and any IdMax.   *)
(***************************************************************************)
EXTENDS LocalDatabase, FiniteSetTheorems, WellFoundedInduction, TLAPS

(* A non-empty set of naturals has a least member.                         *)
LEMMA LeastNatural ==
  ASSUME NEW T \in SUBSET Nat, T # {}
  PROVE  \E k \in T : \A j \in T : k <= j
<1>1. PICK k \in T : \A j \in T : ~(<<j, k>> \in OpToRel(<, Nat))
  BY NatLessThanWellFounded, WFMin
<1>2. \A j \in T : ~(j < k)
  BY <1>1 DEF OpToRel
<1> QED
  BY <1>2

(* Keys of which each equals the number of smaller keys are 0, 1, 2, ...   *)
LEMMA DenseSegment ==
  ASSUME NEW D \in SUBSET Nat, IsFiniteSet(D), NEW K \in SUBSET D,
         \A j \in K : j = Cardinality({i \in D : i < j}),
         \A j \in K, i \in D : i < j => i \in K
  PROVE  IsFiniteSet(K) /\ Cardinality(K) \in Nat /\ K = 0 .. Cardinality(K) - 1
<1> DEFINE n == Cardinality(K)
<1>1. IsFiniteSet(K) /\ n \in Nat
  BY FS_Subset, FS_CardinalityType
<1>2. ASSUME NEW j \in K PROVE j < n
  <2> DEFINE L == {i \in D : i < j}
  <2>1. L \in SUBSET K /\ L # K
    <3>1. j \in Nat /\ j \notin L
      OBVIOUS
    <3>2. \A i \in L : i \in K
      OBVIOUS
    <3> QED
      BY <3>1, <3>2
  <2>2. Cardinality(L) <= n /\ Cardinality(L) # n
    BY <1>1, <2>1, FS_Subset
  <2>3. Cardinality(L) = j
    OBVIOUS
  <2> QED
    BY <1>1, <2>2, <2>3
<1>3. K \in SUBSET (0 .. n - 1)
  BY <1>1, <1>2
<1>4. IsFiniteSet(0 .. n - 1) /\ Cardinality(0 .. n - 1) = n
  BY <1>1, FS_Interval
<1> QED
  BY <1>1, <1>3, <1>4, FS_Subset

(* The walk of add_data() stops at the smallest id that is not taken.      *)
LEMMA NextIdAtGap ==
  ASSUME NEW db, DOMAIN db \in SUBSET Ids
  PROVE  /\ IsFiniteSet(DOMAIN db) /\ size(db) \in Nat /\ NextId(db) \in Nat
         /\ NextId(db) <= size(db) /\ size(db) <= IdMax
         /\ NextId(db) \notin DOMAIN db
         /\ 0 .. NextId(db) - 1 \subseteq DOMAIN db
<1> DEFINE D == DOMAIN db
<1>1. D \in SUBSET Nat /\ IsFiniteSet(D) /\ size(db) \in Nat /\ size(db) <= IdMax
  <2>1. IsFiniteSet(Ids) /\ Cardinality(Ids) = IdMax
    BY IdMaxAssumption, FS_Interval DEF Ids
  <2> QED
    BY <2>1, FS_Subset, FS_CardinalityType DEF Ids, size
<1>2. CASE Breaks(db) = {}
  <2>1. \A j \in D : j = Cardinality({i \in D : i < j})
    BY <1>2 DEF Breaks, CountAt
  <2>2. D = 0 .. size(db) - 1
    BY <1>1, <2>1, DenseSegment DEF size
  <2> QED
    BY <1>1, <1>2, <2>2 DEF NextId
<1>3. CASE Breaks(db) # {}
  <2> DEFINE k == FirstBreak(db)
             K == {j \in D : j < k}
  <2>1. k \in Breaks(db) /\ \A j \in Breaks(db) : k <= j
    BY <1>1, <1>3, LeastNatural DEF FirstBreak, Breaks
  <2>2. k \in D /\ k # Cardinality(K)
    BY <2>1 DEF Breaks, CountAt
  <2>3. \A j \in K : j = Cardinality({i \in D : i < j})
    BY <1>1, <2>1, <2>2 DEF Breaks, CountAt
  <2>4. Cardinality(K) \in Nat /\ K = 0 .. Cardinality(K) - 1
    <3>1. \A j \in K, i \in D : i < j => i \in K
      BY <1>1, <2>2
    <3> HIDE DEF K
    <3>2. K \in SUBSET D
      BY DEF K
    <3> QED
      BY <1>1, <2>3, <3>1, <3>2, DenseSegment
  <2>5. Cardinality(K) \notin D
    <3>1. k \in Nat /\ k \notin K /\ D \in SUBSET Nat
      BY <1>1, <2>2
    <3>2. \A j \in D : j < k => j \in K
      OBVIOUS
    <3> HIDE DEF K, D, k
    <3>3. Cardinality(K) <= k
      BY <2>4, <3>1
    <3>4. Cardinality(K) \notin K
      BY <2>4
    <3> QED
      BY <2>2, <2>4, <3>2, <3>3, <3>4, <3>1
  <2>6. NextId(db) = Cardinality(K)
    BY <1>3 DEF NextId, CountAt
  <2>7. Cardinality(K) <= size(db)
    BY <1>1, FS_Subset DEF size
  <2> QED
    BY <1>1, <2>4, <2>5, <2>6, <2>7
<1> QED
  BY <1>2, <1>3

LEMMA TypeInvariance == Spec => []TypeOK
<1>1. Init => TypeOK
  BY DEF Init, TypeOK
<1>2. TypeOK /\ [Next]_database => TypeOK'
  <2> SUFFICES ASSUME TypeOK, [Next]_database PROVE TypeOK'
    OBVIOUS
  <2>1. ASSUME NEW data \in Data, AddData(data) PROVE TypeOK'
    <3>1. NextId(database) \in Ids
      BY <2>1, NextIdAtGap, IdMaxAssumption DEF AddData, Full, TypeOK, Ids
    <3> QED
      BY <2>1, <3>1 DEF AddData, TypeOK
  <2>2. ASSUME NEW id \in Ids, RemoveData(id) PROVE TypeOK'
    BY <2>2 DEF RemoveData, TypeOK
  <2> QED
    BY <2>1, <2>2 DEF Next, TypeOK
<1> QED
  BY <1>1, <1>2, PTL DEF Spec

(* add_data() never hands out an id that is in use, whatever was removed   *)
(* before, for any width of id_type.                                       *)
THEOREM NextIdIsFree == Spec => []NextIdIsSmallestGap
<1>1. TypeOK => NextIdIsSmallestGap
  <2> SUFFICES ASSUME TypeOK, ~Full(database)
               PROVE  /\ NextId(database) \in Ids \ DOMAIN database
                      /\ 0 .. NextId(database) - 1 \subseteq DOMAIN database
    BY DEF NextIdIsSmallestGap
  <2>1. DOMAIN database \in SUBSET Ids
    BY DEF TypeOK
  <2> QED
    BY <2>1, NextIdAtGap, IdMaxAssumption DEF Full, Ids
<1> QED
  BY <1>1, TypeInvariance, PTL
=============================================================================
