---------------------------- MODULE StorageProofs ----------------------------
(***************************************************************************)
(* Proofs about what the parts of the program keep their data in, each on  *)
(* its own: the component pool for every capacity and every set of         *)
(* generations and values, the damage event queue for every capacity and   *)
(* every set of events, the scratch arenas for every size of arena and     *)
(* page, every alignment and any number of blocks and open regions, the    *)
(* hash map for every set of keys and values and every hash function, and  *)
(* the contents of a frame for any meshes, materials and capacities.       *)
(***************************************************************************)
EXTENDS ComponentPool, DamageQueue, ScratchMemory, RobinHoodMap, FrameContents,
        SequenceTheorems, FiniteSetTheorems, SortedSetsProofs

----------------------------------------------------------------------------
(* The component pool                                                      *)

(* The inductive invariant: what the operations rely on is exactly that    *)
(* the two sides of the sparse set are inverse and the tail is clear.      *)
PoolInv == PoolTypeOK /\ SparseDenseInverse /\ TailCleared

USE PoolAssumption DEF Indices, Positions, Ids, Null

(* The invariant holds of the empty pool. *)
LEMMA InitPool == PoolInit => PoolInv
BY DEF PoolInit, PoolInv, PoolTypeOK, SparseDenseInverse, TailCleared

(* An add appends at the end of the dense side. *)
LEMMA AddKeeps ==
  ASSUME PoolInv, NEW e \in Ids, NEW v \in Values, Add(e, v)
  PROVE  PoolInv'
<1>1. /\ count \in Positions /\ count' = count + 1
      /\ sparse[e.index] = 0 /\ e.index \in Indices
  BY DEF PoolInv, PoolTypeOK, Add, AddAccepted
<1>2. PoolTypeOK'
  BY <1>1 DEF PoolInv, PoolTypeOK, Add
<1>3. SparseDenseInverse'
  <2>1. /\ \A i \in Indices : sparse'[i] = IF i = e.index THEN count + 1 ELSE sparse[i]
        /\ \A d \in Positions : dense'[d] = IF d = count THEN e ELSE dense[d]
    BY <1>1 DEF PoolInv, PoolTypeOK, Add
  <2>2. ASSUME NEW i \in Indices, sparse'[i] # 0
        PROVE  /\ sparse'[i] - 1 < count'
               /\ dense'[sparse'[i] - 1] \in Ids
               /\ dense'[sparse'[i] - 1].index = i
    <3>1. CASE i = e.index
      BY <1>1, <2>1, <3>1
    <3>2. CASE i # e.index
      <4>1. /\ sparse'[i] = sparse[i] /\ sparse[i] - 1 < count
            /\ dense[sparse[i] - 1] \in Ids /\ dense[sparse[i] - 1].index = i
        BY <2>1, <2>2, <3>2 DEF PoolInv, SparseDenseInverse
      <4>2. sparse[i] - 1 \in Positions /\ sparse[i] - 1 # count
        BY <2>2, <4>1, <1>1, SMTT(30) DEF PoolInv, PoolTypeOK
      <4>3. dense'[sparse[i] - 1] = dense[sparse[i] - 1]
        BY <2>1, <4>2
      <4>4. sparse[i] - 1 < count'
        BY <1>1, <4>1, <4>2
      <4>5. QED
        BY <4>1, <4>3, <4>4
    <3>3. QED
      BY <3>1, <3>2
  <2>3. ASSUME NEW d \in Positions, d < count'
        PROVE  dense'[d] \in Ids /\ sparse'[dense'[d].index] = d + 1
    <3>1. CASE d = count
      BY <1>1, <2>1, <3>1
    <3>2. CASE d # count
      <4>1. dense'[d] = dense[d] /\ dense[d] \in Ids /\ sparse[dense[d].index] = d + 1
        BY <1>1, <2>1, <2>3, <3>2, SMTT(30) DEF PoolInv, PoolTypeOK, SparseDenseInverse
      <4>2. dense[d].index \in Indices /\ dense[d].index # e.index
        BY <1>1, <4>1
      <4>3. QED
        BY <2>1, <4>1, <4>2
    <3>3. QED
      BY <3>1, <3>2
  <2>4. QED
    BY <2>2, <2>3 DEF SparseDenseInverse
<1>4. TailCleared'
  BY <1>1 DEF PoolInv, PoolTypeOK, TailCleared, Add
<1>5. QED
  BY <1>2, <1>3, <1>4 DEF PoolInv

(* A swap-remove keeps the two sides inverse: the moved entity's sparse    *)
(* entry follows it into the hole.                                         *)
LEMMA RemoveKeeps ==
  ASSUME PoolInv, NEW e \in Ids, RemoveComponent(e)
  PROVE  PoolInv'
<1> DEFINE h == sparse[e.index] - 1
           n == count - 1
           m == dense[count - 1]
<1>1. /\ h \in Positions /\ h < count /\ dense[h] = e
      /\ n \in Positions /\ m \in Ids /\ sparse[m.index] = n + 1
      /\ e.index \in Indices
  BY SMTT(30) DEF PoolInv, PoolTypeOK, SparseDenseInverse, RemoveComponent, RemoveMember,
                  RemoveAccepted, Has
<1>2. /\ dense' = [dense EXCEPT ![h] = m, ![n] = Null]
      /\ values' = [values EXCEPT ![h] = values[n], ![n] = Zero]
      /\ count' = n
      /\ sparse' = [i \in Indices |-> IF i = e.index THEN 0
                                      ELSE IF h # n /\ i = m.index
                                             THEN h + 1 ELSE sparse[i]]
  BY DEF RemoveComponent, RemoveMember, Moved, SparseMoved, Hole, LastMember
<1>3. m.index = e.index => h = n
  BY <1>1 DEF PoolInv, PoolTypeOK
<1>a. /\ \A d \in Positions : dense'[d] = IF d = n THEN Null ELSE IF d = h THEN m ELSE dense[d]
      /\ \A d \in Positions : values'[d] = IF d = n THEN Zero
                                           ELSE IF d = h THEN values[n] ELSE values[d]
      /\ dense' \in [Positions -> Ids \union {Null}]
      /\ values' \in [Positions -> Values \union {Zero}]
  BY <1>1, <1>2 DEF PoolInv, PoolTypeOK
<1>b. /\ \A i \in Indices : sparse'[i] = IF i = e.index THEN 0
                                           ELSE IF h # n /\ i = m.index
                                                  THEN h + 1 ELSE sparse[i]
      /\ sparse' \in [Indices -> 0 .. PoolCapacity]
  BY <1>1, <1>2 DEF PoolInv, PoolTypeOK
<1>c. h \in Nat /\ n \in Nat /\ count \in Nat /\ count = n + 1 /\ h <= n
  BY <1>1 DEF PoolInv, PoolTypeOK
<1> HIDE DEF h, n, m
<1>4. PoolTypeOK'
  <2>1. count' \in 0 .. PoolCapacity
    BY <1>1, <1>2, <1>c
  <2>2. ordered_dirty' \in BOOLEAN
    BY DEF RemoveComponent
  <2>3. QED
    BY <1>a, <1>b, <2>1, <2>2 DEF PoolTypeOK
<1>5. SparseDenseInverse'
  <2>1. ASSUME NEW i \in Indices, sparse'[i] # 0
        PROVE  /\ sparse'[i] - 1 < count'
               /\ dense'[sparse'[i] - 1] \in Ids
               /\ dense'[sparse'[i] - 1].index = i
    <3>1. CASE h # n /\ i = m.index
      <4>1. sparse'[i] = h + 1
        BY <1>b, <2>1, <3>1
      <4>2. sparse'[i] - 1 = h
        BY <1>c, <4>1
      <4>3. dense'[h] = m
        BY <1>1, <1>a, <3>1
      <4>4. QED
        BY <1>1, <1>2, <1>c, <3>1, <4>2, <4>3
    <3>2. CASE ~(h # n /\ i = m.index)
      <4>1. i # e.index /\ sparse'[i] = sparse[i] /\ sparse[i] # 0
        BY <1>b, <2>1, <3>2
      <4>2. /\ sparse[i] - 1 < count
            /\ dense[sparse[i] - 1] \in Ids /\ dense[sparse[i] - 1].index = i
        BY <4>1 DEF PoolInv, SparseDenseInverse
      <4>3. sparse[i] - 1 \in Positions
        BY <4>1, <4>2, SMTT(30) DEF PoolInv, PoolTypeOK
      <4>4. sparse[i] - 1 # h
        BY <1>1, <4>1, <4>2
      <4>5. sparse[i] - 1 # n
        <5>1. CASE i = m.index
          BY <3>2, <4>4, <5>1
        <5>2. CASE i # m.index
          BY <4>2, <5>2, <1>c DEF m, n
        <5>3. QED
          BY <5>1, <5>2
      <4>6. QED
        BY <1>2, <1>a, <1>c, <4>1, <4>2, <4>3, <4>4, <4>5, SMTT(30)
    <3>3. QED
      BY <3>1, <3>2
  <2>2. ASSUME NEW d \in Positions, d < count'
        PROVE  dense'[d] \in Ids /\ sparse'[dense'[d].index] = d + 1
    <3>0. d < n /\ d \in Nat
      BY <1>2, <2>2
    <3>1. CASE d = h
      <4>1. dense'[d] = m /\ h # n
        BY <1>a, <1>c, <3>0, <3>1
      <4>2. m.index # e.index /\ m.index \in Indices
        BY <1>1, <1>3, <4>1
      <4>3. QED
        BY <1>1, <1>b, <3>1, <4>1, <4>2
    <3>2. CASE d # h
      <4>1. dense'[d] = dense[d]
        BY <1>a, <1>c, <3>0, <3>2
      <4>2. d < count
        BY <1>c, <3>0
      <4>3. dense[d] \in Ids /\ sparse[dense[d].index] = d + 1
        BY <4>2 DEF PoolInv, SparseDenseInverse
      <4>4. dense[d].index \in Indices
        BY <4>3
      <4>5. dense[d].index # e.index
        <5>1. sparse[e.index] = h + 1
          BY <1>1 DEF h, PoolInv, PoolTypeOK
        <5>2. QED
          BY <5>1, <4>3, <3>2, <1>c, <3>0
      <4>6. dense[d].index # m.index
        BY <1>1, <1>c, <4>3, <3>0
      <4>7. QED
        BY <1>b, <4>1, <4>3, <4>4, <4>5, <4>6
    <3>3. QED
      BY <3>1, <3>2
  <2>3. QED
    BY <2>1, <2>2 DEF SparseDenseInverse
<1>6. TailCleared'
  <2> SUFFICES ASSUME NEW d \in Positions
               PROVE  IF d < count' THEN values'[d] \in Values
                                    ELSE dense'[d] = Null /\ values'[d] = Zero
    BY DEF TailCleared
  <2>1. /\ d < count => values[d] \in Values
        /\ ~(d < count) => dense[d] = Null /\ values[d] = Zero
        /\ values[n] \in Values
    BY <1>1, <1>c DEF PoolInv, TailCleared
  <2>2. QED
    BY <1>2, <1>a, <1>c, <2>1
<1>7. QED
  BY <1>4, <1>5, <1>6 DEF PoolInv

(* A write through a view and a rebuild of the cache keep the mapping. *)
LEMMA WriteKeeps ==
  ASSUME PoolInv, NEW e \in Ids, NEW v \in Values, Write(e, v)
  PROVE  PoolInv'
BY DEF PoolInv, PoolTypeOK, SparseDenseInverse, TailCleared, Write, Has

(* An ordered view only rebuilds the cache. *)
LEMMA OrderedViewKeeps ==
  ASSUME PoolInv, OrderedView
  PROVE  PoolInv'
BY DEF PoolInv, PoolTypeOK, SparseDenseInverse, TailCleared, OrderedView

(* Every operation keeps the invariant. *)
LEMMA PoolStep == PoolInv /\ [PoolNext]_pool => PoolInv'
<1>1. PoolInv /\ UNCHANGED pool => PoolInv'
  BY DEF PoolInv, pool, PoolTypeOK, SparseDenseInverse, TailCleared
<1>2. QED
  BY <1>1, AddKeeps, RemoveKeeps, WriteKeeps, OrderedViewKeeps DEF PoolNext

(* The strengthened invariant holds in every reachable state. *)
THEOREM PoolInvariant == PoolSpec => []PoolInv
BY InitPool, PoolStep, PTL DEF PoolSpec

(* The arrays of component_pool.cpp stay in their ranges. *)
THEOREM PoolTypeCorrect == PoolSpec => []PoolTypeOK
<1>1. PoolInv => PoolTypeOK
  BY DEF PoolInv
<1>2. QED
  BY <1>1, PoolInvariant, PTL

(* The sparse set stays a bijection under every add and swap-remove. *)
THEOREM SparseSetIsBijection == PoolSpec => []SparseDenseInverse
<1>1. PoolInv => SparseDenseInverse
  BY DEF PoolInv
<1>2. QED
  BY <1>1, PoolInvariant, PTL

(* Entries past the members are always clear. *)
THEOREM TailIsClear == PoolSpec => []TailCleared
<1>1. PoolInv => TailCleared
  BY DEF PoolInv
<1>2. QED
  BY <1>1, PoolInvariant, PTL

----------------------------------------------------------------------------
(* The member at an entity index. *)
LEMMA MemberAt ==
  ASSUME PoolInv, NEW i \in MappedIndices
  PROVE  /\ i \in Indices /\ sparse[i] \in Nat /\ sparse[i] # 0
         /\ sparse[i] - 1 \in Positions /\ sparse[i] - 1 < count
         /\ dense[sparse[i] - 1] \in Ids /\ dense[sparse[i] - 1].index = i
<1>1. i \in Indices /\ sparse[i] # 0
  BY DEF MappedIndices
<1>2. sparse[i] \in 0 .. PoolCapacity
  BY <1>1 DEF PoolInv, PoolTypeOK
<1>3. /\ sparse[i] - 1 < count
      /\ dense[sparse[i] - 1] \in Ids /\ dense[sparse[i] - 1].index = i
  BY <1>1 DEF PoolInv, SparseDenseInverse
<1>4. QED
  BY <1>1, <1>2, <1>3

(* One entity index for each of the first count positions. *)
LEMMA MappedCount ==
  ASSUME PoolInv
  PROVE  /\ MappedIndices \in SUBSET Nat /\ IsFiniteSet(MappedIndices)
         /\ Cardinality(MappedIndices) = count
<1> DEFINE f == [k \in 1 .. count |-> dense[k - 1].index]
<1>1. count \in Nat /\ count <= PoolCapacity
  BY DEF PoolInv, PoolTypeOK
<1>2. ASSUME NEW k \in 1 .. count
      PROVE  /\ k - 1 \in Positions /\ dense[k - 1] \in Ids
             /\ f[k] \in MappedIndices /\ sparse[f[k]] = k
  <2>1. k - 1 \in Positions /\ k - 1 < count
    BY <1>1
  <2>2. dense[k - 1] \in Ids /\ sparse[dense[k - 1].index] = (k - 1) + 1
    BY <2>1 DEF PoolInv, SparseDenseInverse
  <2>3. f[k] = dense[k - 1].index /\ f[k] \in Indices /\ sparse[f[k]] = k
    BY <2>2
  <2>4. QED
    BY <2>1, <2>2, <2>3 DEF MappedIndices
<1>3. ASSUME NEW i \in MappedIndices
      PROVE  sparse[i] \in 1 .. count /\ f[sparse[i]] = i
  BY <1>1 DEF MappedIndices, PoolInv, PoolTypeOK, SparseDenseInverse
<1>4. f \in [1 .. count -> MappedIndices]
  BY <1>2
<1> HIDE DEF f
<1>5. f \in Bijection(1 .. count, MappedIndices)
  BY <1>2, <1>3, <1>4 DEF Bijection, Injection, IsInjective, Surjection
<1>6. Cardinality(MappedIndices) = count
  BY <1>1, <1>5, FS_CountingElements DEF ExistsBijection
<1>7. MappedIndices \in SUBSET Nat /\ IsFiniteSet(MappedIndices)
  BY <1>1, <1>5, FS_NatBijection DEF ExistsBijection, MappedIndices
<1>8. QED
  BY <1>6, <1>7

(* The loops over sparse meet each index that has a member once, upward. *)
LEMMA MappedListed ==
  ASSUME PoolInv
  PROVE  /\ UsedIndices \in [1 .. count -> MappedIndices]
         /\ Len(UsedIndices) = count
         /\ \A i \in MappedIndices : \E k \in 1 .. count : UsedIndices[k] = i
         /\ \A j, k \in 1 .. count : j < k => UsedIndices[j] < UsedIndices[k]
<1>1. /\ MappedIndices \in SUBSET Nat /\ IsFiniteSet(MappedIndices)
      /\ Cardinality(MappedIndices) = count
  BY MappedCount
<1>2. /\ UsedIndices \in Seq(MappedIndices) /\ Len(UsedIndices) = count
      /\ Range(UsedIndices) = MappedIndices
      /\ \A j, k \in 1 .. count : j < k => UsedIndices[j] < UsedIndices[k]
  BY <1>1, AscendingListing, Zenon DEF UsedIndices
<1>3. DOMAIN UsedIndices = 1 .. count /\ UsedIndices \in [1 .. count -> MappedIndices]
  BY <1>2
<1>4. QED
  BY <1>2, <1>3 DEF Range

(* component_pool_ordered_view accepts every pool the operations build. *)
LEMMA ViewAccepts == PoolInv => ViewAccepted
<1>1. ASSUME PoolInv, NEW i \in MappedIndices
      PROVE  /\ sparse[i] - 1 < count /\ sparse[i] - 1 < PoolCapacity
             /\ dense[sparse[i] - 1].gen # 0 /\ dense[sparse[i] - 1].index = i
  BY <1>1 DEF MappedIndices, PoolInv, PoolTypeOK, SparseDenseInverse
<1>2. QED
  BY <1>1, MappedListed DEF ViewAccepted

(* The specification of the map counts the way this module does. *)
LEMMA SameCount == \A S : Map!Cardinality(S) = Cardinality(S)
BY DEF Map!Cardinality, Cardinality

(* The listing holds every member once, by ascending entity index. *)
LEMMA ListingAscends == PoolInv => Listing \in Map!AscendingListings(Map!Members)
<1> SUFFICES ASSUME PoolInv PROVE Listing \in Map!AscendingListings(Map!Members)
  OBVIOUS
<1> DEFINE used   == UsedIndices
           Member(i) == dense[sparse[i] - 1]
<1>1. /\ used \in [1 .. count -> MappedIndices] /\ Len(used) = count
      /\ \A i \in MappedIndices : \E k \in 1 .. count : used[k] = i
      /\ \A j, k \in 1 .. count : j < k => used[j] < used[k]
  BY MappedListed
<1>2. \A i \in MappedIndices : Member(i) \in Ids /\ Member(i).index = i
  BY DEF MappedIndices, PoolInv, SparseDenseInverse
<1>3. Map!Members = {Member(i) : i \in MappedIndices}
  BY DEF Map!Members, Contents
<1>4. Listing = [k \in 1 .. count |-> Member(used[k])]
  BY <1>1 DEF Listing
<1>5. count \in Nat
  BY DEF PoolInv, PoolTypeOK
<1> HIDE DEF used, Member
<1>6. ASSUME NEW k \in 1 .. count
      PROVE  Listing[k] \in Map!Members /\ Listing[k].index = used[k]
  BY <1>1, <1>2, <1>3, <1>4
<1>7. Cardinality(Map!Members) = count
  <2>1. Listing \in [1 .. count -> Map!Members]
    BY <1>4, <1>6
  <2>2. ASSUME NEW j \in 1 .. count, NEW k \in 1 .. count, Listing[j] = Listing[k]
        PROVE  j = k
    <3>1. used[j] = used[k] /\ used[j] \in Nat
      BY <1>1, <1>6, <2>2 DEF MappedIndices
    <3>2. ~(j < k) /\ ~(k < j)
      BY <1>1, <3>1
    <3>3. QED
      BY <3>2
  <2>3. ASSUME NEW m \in Map!Members PROVE \E k \in 1 .. count : Listing[k] = m
    BY <1>1, <1>3, <1>4
  <2>4. Listing \in Bijection(1 .. count, Map!Members)
    BY <2>1, <2>2, <2>3 DEF Bijection, Injection, IsInjective, Surjection
  <2>5. QED
    BY <1>5, <2>4, FS_CountingElements DEF ExistsBijection
<1>8. /\ Listing \in [1 .. count -> Map!Members]
      /\ \A j, k \in 1 .. count : j < k => Listing[j].index < Listing[k].index
  BY <1>1, <1>4, <1>6
<1>9. DOMAIN Listing = 1 .. count
  BY <1>4
<1>10. QED
  BY <1>7, <1>8, <1>9, SameCount, Zenon DEF Map!AscendingListings

(* The cache that is not marked dirty lists the members of now. *)
CacheCurrent == ~ordered_dirty => ordered = Listing

CacheInv == PoolInv /\ CacheCurrent

(* What a view returns is the listing, from the cache or not. *)
LEMMA ViewedIsListing == CacheInv => Viewed = Listing
BY DEF CacheInv, CacheCurrent, Viewed

(* A view's result after a step lists the members after it. *)
LEMMA ListingFollows ==
  CacheInv' => (Viewed \in Map!AscendingListings(Map!Members))'
<1>1. CacheInv => Viewed \in Map!AscendingListings(Map!Members)
  BY ListingAscends, ViewedIsListing DEF CacheInv
<1>2. QED
  BY <1>1, PTL

(* The cache: each change of membership marks it dirty, and a rebuild      *)
(* lists the members; a write to a value changes no member.                *)
THEOREM CacheInvariant == PoolSpec => []CacheInv
<1>1. PoolInit => CacheInv
  BY InitPool DEF PoolInit, CacheInv, CacheCurrent
<1>2. ASSUME CacheInv, [PoolNext]_pool PROVE CacheInv'
  <2>1. PoolInv'
    BY <1>2, PoolStep DEF CacheInv
  <2>2. ASSUME NEW e \in Ids, NEW v \in Values, Add(e, v) PROVE CacheCurrent'
    BY <2>2 DEF Add, CacheCurrent
  <2>3. ASSUME NEW e \in Ids, RemoveComponent(e) PROVE CacheCurrent'
    BY <2>3 DEF RemoveComponent, CacheCurrent
  <2>4. ASSUME UNCHANGED <<sparse, dense, count, ordered, ordered_dirty>>
        PROVE  CacheCurrent'
    BY <1>2, <2>4 DEF CacheInv, CacheCurrent, Listing, UsedIndices, MappedIndices
  <2>5. ASSUME OrderedView PROVE CacheCurrent'
    BY <2>5 DEF OrderedView, CacheCurrent, Listing, UsedIndices, MappedIndices
  <2>6. QED
    BY <1>2, <2>1, <2>2, <2>3, <2>4, <2>5 DEF CacheInv, PoolNext, Write, pool
<1>3. QED
  BY <1>1, <1>2, PTL DEF PoolSpec

(* An add gives an index that had no member one, within the capacity. *)
LEMMA AddRefines ==
  ASSUME CacheInv, CacheInv', NEW e \in Ids, NEW v \in Values, Add(e, v)
  PROVE  Map!Next
<1>1. /\ count \in Positions /\ e.index \in Indices /\ e.index \notin MappedIndices
      /\ \A i \in Indices : sparse'[i] = IF i = e.index THEN count + 1 ELSE sparse[i]
      /\ \A d \in Positions : dense'[d] = IF d = count THEN e ELSE dense[d]
      /\ \A d \in Positions : values'[d] = IF d = count THEN v ELSE values[d]
  BY DEF CacheInv, PoolInv, PoolTypeOK, Add, AddAccepted, MappedIndices
<1>2. MappedIndices' = MappedIndices \union {e.index}
  BY <1>1 DEF MappedIndices
<1>3. ASSUME NEW i \in MappedIndices
      PROVE  /\ dense'[sparse'[i] - 1] = dense[sparse[i] - 1]
             /\ values'[sparse'[i] - 1] = values[sparse[i] - 1]
  <2>1. /\ i \in Indices /\ i # e.index
        /\ sparse[i] - 1 \in Positions /\ sparse[i] - 1 < count
    BY <1>1, MemberAt DEF CacheInv
  <2>2. QED
    BY <1>1, <2>1
<1>4. sparse'[e.index] - 1 = count
  BY <1>1
<1>5. /\ dense'[sparse'[e.index] - 1] = e
      /\ values'[sparse'[e.index] - 1] = v
  BY <1>1, <1>4
<1>6. DOMAIN Contents = MappedIndices
  BY DEF Contents
<1>7. Contents' = [i \in DOMAIN Contents \union {e.index} |->
                    IF i = e.index THEN [entity |-> e, value |-> v] ELSE Contents[i]]
  BY <1>1, <1>2, <1>3, <1>5, <1>6 DEF Contents
<1>8. Cardinality(MappedIndices) < PoolCapacity
  BY MappedCount DEF CacheInv, Add, AddAccepted
<1>9. Map!Add
  <2>1. Cardinality(DOMAIN Contents) < PoolCapacity /\ e.index \notin DOMAIN Contents
    BY <1>1, <1>6, <1>8
  <2>2. e \in Map!Entities
    BY DEF Map!Entities
  <2>3. QED
    BY <1>7, <2>1, <2>2, SameCount, Zenon DEF Map!Add
<1>10. QED
  BY <1>9, ListingFollows DEF Map!Next

(* A swap-remove takes one entry from the map: the member it moves keeps   *)
(* its index, its id and its value.                                        *)
LEMMA RemoveRefines ==
  ASSUME CacheInv, CacheInv', NEW e \in Ids, RemoveComponent(e)
  PROVE  Map!Next
<1> DEFINE h == sparse[e.index] - 1
           n == count - 1
           m == dense[count - 1]
<1>1. /\ h \in Positions /\ h < count /\ dense[h] = e /\ sparse[e.index] = h + 1
      /\ n \in Positions /\ m \in Ids /\ sparse[m.index] = n + 1
      /\ e.index \in MappedIndices
      /\ count = n + 1 /\ n \in Nat /\ h \in Nat
  <2>1. Has(e) /\ e.index \in Indices /\ PoolInv
    BY DEF CacheInv, RemoveComponent, RemoveMember, RemoveAccepted
  <2>2. e.index \in MappedIndices
    BY <2>1 DEF Has, MappedIndices
  <2>3. /\ h \in Positions /\ h < count /\ dense[h] = e /\ sparse[e.index] = h + 1
        /\ h \in Nat
    BY <2>1, <2>2, MemberAt DEF Has
  <2>4. count \in 1 .. PoolCapacity /\ n \in Positions /\ n < count /\ n \in Nat /\ count = n + 1
    BY <2>1, <2>3 DEF PoolInv, PoolTypeOK
  <2>5. m \in Ids /\ sparse[m.index] = n + 1
    BY <2>1, <2>4 DEF PoolInv, SparseDenseInverse
  <2>6. QED
    BY <2>2, <2>3, <2>4, <2>5
<1>2. /\ dense' = [dense EXCEPT ![h] = m, ![n] = Null]
      /\ values' = [values EXCEPT ![h] = values[n], ![n] = Zero]
      /\ sparse' = [i \in Indices |-> IF i = e.index THEN 0
                                      ELSE IF h # n /\ i = m.index
                                             THEN h + 1 ELSE sparse[i]]
  BY DEF RemoveComponent, RemoveMember, Moved, SparseMoved, Hole, LastMember
<1>3. /\ \A d \in Positions : dense'[d] = IF d = n THEN Null ELSE IF d = h THEN m ELSE dense[d]
      /\ \A d \in Positions : values'[d] = IF d = n THEN Zero
                                           ELSE IF d = h THEN values[n] ELSE values[d]
  BY <1>1, <1>2 DEF CacheInv, PoolInv, PoolTypeOK
<1>4. \A i \in MappedIndices : /\ sparse[i] \in Nat /\ sparse[i] # 0 /\ i \in Indices
                          /\ sparse[i] - 1 \in Positions /\ sparse[i] - 1 < count
                          /\ dense[sparse[i] - 1].index = i
  BY MemberAt DEF CacheInv
<1>5. dense[n] = m
  OBVIOUS
<1> HIDE DEF h, n, m
<1>6. MappedIndices' = MappedIndices \ {e.index}
  BY <1>1, <1>2 DEF MappedIndices
<1>7. ASSUME NEW i \in MappedIndices \ {e.index}
      PROVE  /\ dense'[sparse'[i] - 1] = dense[sparse[i] - 1]
             /\ values'[sparse'[i] - 1] = values[sparse[i] - 1]
  <2>1. CASE h # n /\ i = m.index
    <3>1. i \in Indices /\ i # e.index
      BY <1>4
    <3>2. sparse'[i] = h + 1
      BY <1>2, <2>1, <3>1
    <3>3. sparse[i] = n + 1
      BY <1>1, <2>1
    <3>4. sparse'[i] - 1 = h /\ sparse[i] - 1 = n
      BY <1>1, <3>2, <3>3
    <3>5. QED
      BY <1>1, <1>3, <1>5, <2>1, <3>4
  <2>2. CASE ~(h # n /\ i = m.index)
    <3>1. sparse'[i] = sparse[i] /\ sparse[i] - 1 # h
      BY <1>1, <1>2, <1>4, <2>2
    <3>2. sparse[i] - 1 # n
      BY <1>4, <1>5, <2>2, <3>1
    <3>3. QED
      BY <1>3, <1>4, <3>1, <3>2
  <2>3. QED
    BY <2>1, <2>2
<1>8. Contents' = [i \in MappedIndices \ {e.index} |-> Contents[i]]
  BY <1>6, <1>7 DEF Contents
<1>9. DOMAIN Contents = MappedIndices /\ Contents[e.index].entity = e
  BY <1>1, <1>4 DEF Contents, h
<1>10. Map!Remove
  BY <1>1, <1>8, <1>9 DEF Map!Remove, Map!Members
<1>11. QED
  BY <1>10, ListingFollows DEF Map!Next

(* A write through a view changes the value of one member. *)
LEMMA WriteRefines ==
  ASSUME CacheInv, CacheInv', NEW e \in Ids, NEW v \in Values, Write(e, v)
  PROVE  Map!Next
<1> DEFINE h == sparse[e.index] - 1
<1>1. /\ h \in Positions /\ dense[h] = e /\ e.index \in MappedIndices
      /\ values' = [values EXCEPT ![h] = v]
      /\ dense' = dense /\ sparse' = sparse
  BY DEF CacheInv, PoolInv, PoolTypeOK, Write, Has, MappedIndices
<1>2. \A i \in MappedIndices : /\ sparse[i] - 1 \in Positions
                          /\ dense[sparse[i] - 1].index = i
  BY MemberAt DEF CacheInv
<1>3. \A d \in Positions : values'[d] = IF d = h THEN v ELSE values[d]
  BY <1>1 DEF CacheInv, PoolInv, PoolTypeOK
<1>4. ASSUME NEW i \in MappedIndices
      PROVE  values'[sparse[i] - 1] = IF i = e.index THEN v ELSE values[sparse[i] - 1]
  BY <1>1, <1>2, <1>3
<1>5. DOMAIN Contents = MappedIndices /\ Contents[e.index].entity = e
  BY <1>1 DEF Contents
<1>6. Contents' = [Contents EXCEPT ![e.index] = [entity |-> e, value |-> v]]
  <2>1. MappedIndices' = MappedIndices
    BY <1>1 DEF MappedIndices
  <2>2. Contents' = [i \in MappedIndices |-> [entity |-> dense[sparse[i] - 1],
                                         value |-> values'[sparse[i] - 1]]]
    BY <1>1, <2>1 DEF Contents
  <2>3. QED
    BY <1>1, <1>4, <2>2 DEF Contents
<1>7. Map!Write
  BY <1>1, <1>5, <1>6 DEF Map!Write, Map!Members
<1>8. QED
  BY <1>7, ListingFollows DEF Map!Next

(* The pool is a bounded map whose listing has no history: after any adds, *)
(* writes, swap-removes and views, a view returns the members of now by    *)
(* ascending entity index, from the cache as much as rebuilt.              *)
THEOREM ImplementsMap == PoolSpec => MapSpec
<1>1. PoolInit => Map!Init
  <2>1. ASSUME PoolInit PROVE Contents = << >> /\ Viewed = << >>
    <3>1. MappedIndices = {} /\ PoolInv /\ count = 0 /\ ordered_dirty
      BY <2>1, InitPool DEF PoolInit, MappedIndices
    <3>2. Len(UsedIndices) = 0
      BY <3>1, MappedListed
    <3>3. QED
      BY <3>1, <3>2 DEF Contents, Viewed, Listing
  <2>2. QED
    BY <2>1 DEF Map!Init
<1>2. ASSUME CacheInv, CacheInv', [PoolNext]_pool
      PROVE  [Map!Next]_<<Contents, Viewed>>
  <2>1. ASSUME OrderedView PROVE UNCHANGED <<Contents, Viewed>>
    BY <1>2, <2>1 DEF OrderedView, Contents, Viewed, MappedIndices
  <2>2. UNCHANGED pool => UNCHANGED <<Contents, Viewed>>
    BY DEF pool, Contents, Viewed, Listing, UsedIndices, MappedIndices
  <2>3. QED
    BY <1>2, <2>1, <2>2, AddRefines, RemoveRefines, WriteRefines DEF PoolNext
<1>3. QED
  BY <1>1, <1>2, CacheInvariant, PTL DEF PoolSpec, MapSpec, Map!Spec

(* A system that asks for the ordered view of a pool always gets it: the   *)
(* validation of the mapping never fails.                                  *)
THEOREM ViewIsNeverRefused == PoolSpec => []ViewAccepted
<1>1. PoolInv => ViewAccepted
  BY ViewAccepts
<1>2. QED
  BY <1>1, PoolInvariant, PTL

HIDE PoolAssumption DEF Indices, Positions, Ids, Null

----------------------------------------------------------------------------
(* The damage event queue                                                  *)

(* Entries below a buffer's count hold events, the others are clear: what  *)
(* a reader sees was appended, and leftovers never come back.              *)
CountsExact ==
    \A b \in BufferIds, k \in Entries :
        buffers[b][k] \in Event <=> k < counts[b]

(* The inductive invariant. *)
QueueInv == QueueTypeOK /\ CountsExact

USE QueueAssumption DEF BufferIds, Entries

----------------------------------------------------------------------------
(* Both buffers start clear. *)
LEMMA InitQueue == QueueInit => QueueInv
BY DEF QueueInit, QueueInv, QueueTypeOK, CountsExact, QueueValid

(* An append fills the first clear entry of the write buffer. *)
LEMMA AppendKeeps ==
  ASSUME QueueInv, NEW ev \in Event, AppendEvent(ev)
  PROVE  QueueInv'
<1>1. /\ write_index \in BufferIds /\ counts[write_index] \in Entries
      /\ read_index' = read_index /\ write_index' = write_index
  BY DEF QueueInv, QueueTypeOK, AppendEvent, AppendAccepted
<1>2. /\ counts' \in [BufferIds -> 0 .. QueueCapacity]
      /\ \A b \in BufferIds :
            counts'[b] = IF b = write_index THEN counts[b] + 1 ELSE counts[b]
  BY <1>1 DEF QueueInv, QueueTypeOK, AppendEvent
<1>3. /\ buffers' \in [BufferIds -> [Entries -> Event \union {NoEvent}]]
      /\ \A b \in BufferIds, k \in Entries :
            buffers'[b][k] = IF b = write_index /\ k = counts[b] THEN ev
                                                                 ELSE buffers[b][k]
  BY <1>1 DEF QueueInv, QueueTypeOK, AppendEvent
<1>4. QueueTypeOK'
  BY <1>1, <1>2, <1>3 DEF QueueInv, QueueTypeOK, QueueValid
<1>5. CountsExact'
  BY <1>1, <1>2, <1>3 DEF QueueInv, QueueTypeOK, CountsExact
<1>6. QED
  BY <1>4, <1>5 DEF QueueInv

(* A publish swaps the roles; the new write buffer was consumed. *)
LEMMA PublishKeeps == QueueInv /\ Publish => QueueInv'
BY DEF QueueInv, QueueTypeOK, CountsExact, QueueValid, Publish, PublishAccepted

(* A consume clears what was in use. *)
LEMMA ConsumeKeeps ==
  ASSUME QueueInv, Consume
  PROVE  QueueInv'
<1>1. /\ read_index \in BufferIds
      /\ read_index' = read_index /\ write_index' = write_index
  BY DEF QueueInv, QueueTypeOK, Consume
<1>2. /\ counts' \in [BufferIds -> 0 .. QueueCapacity]
      /\ \A b \in BufferIds :
            counts'[b] = IF b = read_index THEN 0 ELSE counts[b]
  BY <1>1 DEF QueueInv, QueueTypeOK, Consume
<1>3. /\ buffers' \in [BufferIds -> [Entries -> Event \union {NoEvent}]]
      /\ \A b \in BufferIds, k \in Entries :
            buffers'[b][k] = IF b = read_index /\ k < counts[b] THEN NoEvent
                                                                ELSE buffers[b][k]
  BY <1>1 DEF QueueInv, QueueTypeOK, Consume
<1>4. QueueTypeOK'
  BY <1>1, <1>2, <1>3 DEF QueueInv, QueueTypeOK, QueueValid
<1>5. CountsExact'
  BY <1>1, <1>2, <1>3 DEF QueueInv, QueueTypeOK, CountsExact
<1>6. QED
  BY <1>4, <1>5 DEF QueueInv

(* The invariant holds of every reachable queue. *)
THEOREM QueueInvariant == QueueSpec => []QueueInv
<1>1. ASSUME QueueInv, UNCHANGED queue PROVE QueueInv'
  BY <1>1 DEF QueueInv, QueueTypeOK, CountsExact, QueueValid, queue
<1>2. QueueInv /\ [QueueNext]_queue => QueueInv'
  BY <1>1, AppendKeeps, PublishKeeps, ConsumeKeeps DEF QueueNext
<1>3. QED
  BY InitQueue, <1>2, PTL DEF QueueSpec

(* events.cpp never makes the queue refuse itself, and counts stay within  *)
(* the buffers.                                                            *)
THEOREM QueueTypeCorrect == QueueSpec => []QueueTypeOK
<1>1. QueueInv => QueueTypeOK
  BY DEF QueueInv
<1>2. QED
  BY <1>1, QueueInvariant, PTL

(* A reader sees exactly what was appended: the part of a buffer in use    *)
(* holds events, and behind it nothing of an earlier batch is left.        *)
THEOREM BuffersHoldTheirCounts == QueueSpec => []CountsExact
<1>1. QueueInv => CountsExact
  BY DEF QueueInv
<1>2. QED
  BY <1>1, QueueInvariant, PTL

----------------------------------------------------------------------------
(* The used part of a buffer is a sequence of its count's length. *)
LEMMA InUseSeq ==
  ASSUME QueueInv, NEW b \in BufferIds
  PROVE  /\ InUse(b) \in Seq(Event)
         /\ Len(InUse(b)) = counts[b]
         /\ \A k \in 1 .. counts[b] : InUse(b)[k] = buffers[b][k - 1]
<1>1. counts[b] \in 0 .. QueueCapacity
  BY DEF QueueInv, QueueTypeOK
<1>2. \A k \in 1 .. counts[b] : buffers[b][k - 1] \in Event
  BY <1>1 DEF QueueInv, CountsExact
<1>3. InUse(b) \in [1 .. counts[b] -> Event]
  BY <1>2 DEF InUse
<1>4. InUse(b) \in Seq(Event)
  BY <1>1, <1>3
<1>5. QED
  BY <1>1, <1>3, <1>4, LenProperties DEF InUse

(* A buffer that is not in use is the empty sequence. *)
LEMMA InUseEmpty ==
  ASSUME QueueInv, NEW b \in BufferIds
  PROVE  InUse(b) = << >> <=> counts[b] = 0
<1>1. InUse(b) \in Seq(Event) /\ Len(InUse(b)) = counts[b]
  BY InUseSeq
<1>2. QED
  BY <1>1, EmptySeq

(* An append posts its event at the end and shows nothing. *)
LEMMA AppendRefines ==
  ASSUME QueueInv, NEW ev \in Event, AppendEvent(ev)
  PROVE  Mailbox!Post
<1> DEFINE w == write_index
<1>1. /\ w \in BufferIds /\ read_index \in BufferIds /\ read_index # w
      /\ counts[w] \in Entries /\ write_index' = w /\ read_index' = read_index
  BY DEF QueueInv, QueueTypeOK, QueueValid, AppendEvent, AppendAccepted
<1>2. QueueInv'
  BY AppendKeeps
<1>3. /\ counts'[w] = counts[w] + 1
      /\ \A k \in Entries :
            buffers'[w][k] = IF k = counts[w] THEN ev ELSE buffers[w][k]
      /\ counts'[read_index] = counts[read_index]
      /\ buffers'[read_index] = buffers[read_index]
  BY <1>1 DEF QueueInv, QueueTypeOK, AppendEvent
<1>4. ReadView' = ReadView
  BY <1>1, <1>3 DEF ReadView
<1> HIDE DEF w
<1>5. /\ InUse(w) \in Seq(Event) /\ Len(InUse(w)) = counts[w]
      /\ \A k \in 1 .. counts[w] : InUse(w)[k] = buffers[w][k - 1]
  BY <1>1, InUseSeq
<1> DEFINE posted == InUse(w)
           after  == [k \in 1 .. counts'[w] |-> buffers'[w][k - 1]]
<1>6. after \in Seq(Event) /\ Len(after) = counts'[w]
  <2>1. counts'[w] \in Nat
    BY <1>1, <1>3
  <2>2. \A k \in 1 .. counts'[w] : buffers'[w][k - 1] \in Event
    BY <1>1, <1>2, <2>1 DEF QueueInv, QueueTypeOK, CountsExact
  <2>3. after \in Seq(Event)
    BY <2>1, <2>2
  <2>4. QED
    BY <2>1, <2>3, LenProperties
<1>7. after = Append(posted, ev)
  <2>1. /\ Append(posted, ev) \in Seq(Event)
        /\ Len(Append(posted, ev)) = counts[w] + 1
        /\ \A k \in 1 .. counts[w] : Append(posted, ev)[k] = posted[k]
        /\ Append(posted, ev)[counts[w] + 1] = ev
    BY <1>5, AppendProperties
  <2>2. ASSUME NEW k \in 1 .. counts[w] + 1
        PROVE  after[k] = Append(posted, ev)[k]
    <3>1. after[k] = buffers'[w][k - 1] /\ k - 1 \in Entries
      BY <1>1, <1>3
    <3>2. CASE k = counts[w] + 1
      BY <1>1, <1>3, <2>1, <3>1, <3>2
    <3>3. CASE k # counts[w] + 1
      BY <1>1, <1>3, <1>5, <2>1, <3>1, <3>3
    <3>4. QED
      BY <3>2, <3>3
  <2> HIDE DEF after, posted
  <2>3. /\ Len(after) = Len(Append(posted, ev))
        /\ \A k \in 1 .. Len(after) : after[k] = Append(posted, ev)[k]
    BY <1>3, <1>6, <2>1, <2>2
  <2>4. QED
    BY <1>6, <2>1, <2>3, SeqEqual
<1>8. InUse(write_index)' = Append(InUse(write_index), ev)
  BY <1>1, <1>7 DEF InUse, w
<1>9. Len(InUse(write_index)) < QueueCapacity
  BY <1>1, <1>5 DEF w
<1>10. QED
  BY <1>4, <1>8, <1>9 DEF Mailbox!Post

(* A publish shows everything that was posted, after the last batch went. *)
LEMMA PublishRefines ==
  ASSUME QueueInv, Publish
  PROVE  Mailbox!Deliver
<1>1. /\ read_index \in BufferIds /\ write_index \in BufferIds
      /\ read_index # write_index /\ counts[read_index] = 0
      /\ read_index' = write_index /\ write_index' = read_index
      /\ buffers' = buffers
      /\ counts'[read_index] = 0 /\ counts'[write_index] = counts[write_index]
  BY DEF QueueInv, QueueTypeOK, QueueValid, Publish, PublishAccepted
<1>2. ReadView = InUse(read_index)
  BY DEF ReadView, InUse
<1>3. ReadView = << >>
  BY <1>1, <1>2, InUseEmpty
<1>4. ReadView' = InUse(write_index)
  BY <1>1 DEF ReadView, InUse
<1>5. InUse(write_index)' = InUse(read_index)
  BY <1>1 DEF InUse
<1>6. QED
  BY <1>2, <1>3, <1>4, <1>5 DEF Mailbox!Deliver

(* A consume takes what was shown and leaves what was posted. *)
LEMMA ConsumeRefines ==
  ASSUME QueueInv, Consume
  PROVE  Mailbox!Take
<1>1. /\ read_index \in BufferIds /\ write_index \in BufferIds
      /\ read_index # write_index
      /\ read_index' = read_index /\ write_index' = write_index
      /\ counts'[read_index] = 0 /\ counts'[write_index] = counts[write_index]
      /\ buffers'[write_index] = buffers[write_index]
  BY DEF QueueInv, QueueTypeOK, QueueValid, Consume
<1>2. QueueInv'
  BY ConsumeKeeps
<1>3. InUse(write_index)' = InUse(write_index)
  BY <1>1 DEF InUse
<1>4. ReadView' = << >>
  BY <1>1 DEF ReadView
<1>5. QED
  BY <1>3, <1>4 DEF Mailbox!Take

(* events.cpp implements the mailbox its systems rely on: events are       *)
(* posted in order, shown together, and never lost, doubled or shown late. *)
THEOREM ImplementsMailbox == QueueSpec => MailboxSpec
<1>1. QueueInit => Mailbox!Init
  BY DEF QueueInit, Mailbox!Init, InUse, ReadView
<1>2. QueueInv /\ [QueueNext]_queue => [Mailbox!Next]_<<InUse(write_index), ReadView>>
  <2>1. ASSUME QueueInv, NEW ev \in Event, AppendEvent(ev)
        PROVE  Mailbox!Next
    BY <2>1, AppendRefines DEF Mailbox!Next
  <2>2. QueueInv /\ Publish => Mailbox!Next
    BY PublishRefines DEF Mailbox!Next
  <2>3. QueueInv /\ Consume => Mailbox!Next
    BY ConsumeRefines DEF Mailbox!Next
  <2>4. UNCHANGED queue => UNCHANGED <<InUse(write_index), ReadView>>
    BY DEF queue, InUse, ReadView
  <2>5. QED
    BY <2>1, <2>2, <2>3, <2>4 DEF QueueNext
<1>3. QED
  BY <1>1, <1>2, QueueInvariant, PTL DEF QueueSpec, MailboxSpec, Mailbox!Spec

HIDE QueueAssumption DEF BufferIds, Entries

----------------------------------------------------------------------------
(* The scratch arenas                                                      *)

Block == [arena : Pad, start : Nat, end : Nat, align : Aligns]
Mark  == [arena : Pad, saved_offset : Nat]

PadTypeOK ==
    /\ pages \in {{}, Pad}
    /\ offset \in [Pad -> Nat] /\ committed \in [Pad -> Nat]
    /\ cur \in Pad
    /\ marks \in Seq(Mark)
    /\ blocks \in [DOMAIN blocks -> Block]

(* A block is not empty, is aligned, and is behind the offset. *)
Placed(block) ==
    /\ block.start < block.end
    /\ (Base[block.arena] + block.start) % block.align = 0
    /\ block.end <= offset[block.arena]

AllPlaced == \A n \in DOMAIN blocks : Placed(blocks[n])

Apart(b, c) == b.arena = c.arena => b.end <= c.start \/ c.end <= b.start

AllApart == \A n, m \in DOMAIN blocks : n # m => Apart(blocks[n], blocks[m])

(* An open region saved an offset that no block lies across, so that what  *)
(* is below it survives the end of the region and what is not goes.        *)
RegionsSplit ==
    \A i \in 1 .. Len(marks), n \in DOMAIN blocks :
        marks[i].arena = blocks[n].arena =>
            \/ blocks[n].end <= marks[i].saved_offset
            \/ marks[i].saved_offset <= blocks[n].start

(* Regions of one arena that were opened later saved no less, ...          *)
RegionsNested ==
    \A i, j \in 1 .. Len(marks) :
        i < j /\ marks[i].arena = marks[j].arena =>
            marks[i].saved_offset <= marks[j].saved_offset

(* ... and none saved more than is in use.                                 *)
RegionsWithin == \A i \in 1 .. Len(marks) : marks[i].saved_offset <= offset[marks[i].arena]

Backed == \A a \in Pad : offset[a] <= committed[a] /\ committed[a] <= Reserved

(* Without its pages the pad holds nothing. *)
HeldInPages == pages = {} => marks = << >> /\ DOMAIN blocks = {}

(* The inductive invariant. *)
PadInv ==
    /\ PadTypeOK
    /\ AllPlaced /\ AllApart
    /\ RegionsSplit /\ RegionsNested /\ RegionsWithin
    /\ Backed
    /\ HeldInPages

USE ScratchAssumption DEF Pad

----------------------------------------------------------------------------
(* Rounding an address up to a multiple. *)
LEMMA AlignedUp ==
  ASSUME NEW address \in Nat, NEW align \in Nat \ {0}
  PROVE  LET pad == (align - (address % align)) % align IN
         pad \in Nat /\ (address + pad) % align = 0
<1> DEFINE r == address % align
           q == address \div align
           pad == (align - r) % align
<1>1. /\ r \in 0 .. align - 1 /\ q \in Nat
      /\ address = align * q + r
  OBVIOUS
<1>2. CASE r = 0
  <2>1. align % align = 0 /\ pad = 0
    BY <1>2
  <2>2. QED
    BY <1>2, <2>1
<1>3. CASE r # 0
  <2>1. align - r \in 1 .. align - 1
    BY <1>1, <1>3
  <2>2. pad = align - r
    BY <2>1
  <2>3. address + pad = align * (q + 1)
    BY <1>1, <2>2
  <2>4. (align * (q + 1)) % align = 0
    BY <1>1
  <2>5. QED
    BY <2>1, <2>2, <2>3, <2>4
<1>4. QED
  BY <1>2, <1>3

(* Committing whole pages, up to the last of the arena. *)
LEMMA WantCovers ==
  ASSUME NEW end \in Nat, end <= Reserved
  PROVE  Want(end) \in Nat /\ end <= Want(end) /\ Want(end) <= Reserved
<1> DEFINE whole == ((end + Granularity - 1) \div Granularity) * Granularity
<1>1. whole \in Nat /\ end <= whole
  OBVIOUS
<1>2. QED
  BY <1>1 DEF Want

(* The invariant holds of a pad that nothing is in.                        *)
LEMMA InitPad == PadInit => PadInv
<1> SUFFICES ASSUME PadInit PROVE PadInv
  OBVIOUS
<1>1. marks \in Seq(Mark) /\ Len(marks) = 0
  BY EmptySeq DEF PadInit
<1>2. DOMAIN blocks = {}
  BY DEF PadInit
<1>3. blocks \in [DOMAIN blocks -> Block]
  BY <1>2 DEF PadInit
<1>4. QED
  BY <1>1, <1>2, <1>3 DEF PadInit, PadInv, PadTypeOK, AllPlaced, AllApart, RegionsSplit,
                          RegionsNested, RegionsWithin, Backed, HeldInPages

(* Arenas without blocks and regions satisfy the invariant. *)
LEMMA EmptiedKeeps ==
  ASSUME pages' \in {{}, Pad}, cur' \in Pad, marks' = << >>, blocks' = << >>,
         offset' = [a \in Pad |-> 0], committed' = [a \in Pad |-> 0]
  PROVE  PadInv'
<1>1. marks' \in Seq(Mark) /\ Len(marks') = 0
  BY EmptySeq
<1>2. DOMAIN blocks' = {}
  OBVIOUS
<1>3. blocks' \in [DOMAIN blocks' -> Block]
  BY <1>2
<1>4. QED
  BY <1>1, <1>2, <1>3 DEF PadInv, PadTypeOK, AllPlaced, AllApart, RegionsSplit,
                          RegionsNested, RegionsWithin, Backed, HeldInPages

(* The new block lies behind everything the arena holds. *)
LEMMA PushKeeps ==
  ASSUME PadInv, NEW name, NEW size \in BlockSizes, NEW align \in Aligns,
         Push(name, size, align)
  PROVE  PadInv'
<1> DEFINE start == Start(align)
           end == start + size
           new == [arena |-> cur, start |-> start, end |-> end, align |-> align]
<1>1. /\ start \in Nat /\ offset[cur] <= start
      /\ (Base[cur] + start) % align = 0
  <2>1. /\ Base[cur] + offset[cur] \in Nat /\ offset[cur] \in Nat
        /\ align \in Nat \ {0} /\ Base[cur] \in Nat
    BY DEF PadInv, PadTypeOK
  <2> DEFINE address == Base[cur] + offset[cur]
             pad == (align - (address % align)) % align
  <2>2. pad \in Nat /\ (address + pad) % align = 0
    BY <2>1, AlignedUp
  <2>3. start = offset[cur] + pad
    BY DEF Start
  <2>4. Base[cur] + start = address + pad
    BY <2>1, <2>2, <2>3
  <2>5. QED
    BY <2>1, <2>2, <2>3, <2>4
<1> HIDE DEF start
<1>2. /\ size \in Nat /\ start < end /\ end \in Nat /\ end <= Reserved
      /\ offset' = [offset EXCEPT ![cur] = end]
      /\ committed' = [committed EXCEPT ![cur] = IF end > @ THEN Want(end) ELSE @]
      /\ UNCHANGED <<pages, cur, marks>>
  BY <1>1 DEF Push, Fits, start
<1>3. /\ DOMAIN blocks' = DOMAIN blocks \union {name}
      /\ blocks'[name] = new
      /\ \A n \in DOMAIN blocks' \ {name} : n \in DOMAIN blocks /\ blocks'[n] = blocks[n]
      /\ blocks' \in [DOMAIN blocks' -> {new} \union {blocks[n] : n \in DOMAIN blocks}]
  BY DEF Push, start
<1>4. new \in Block
  BY <1>1, <1>2 DEF PadInv, PadTypeOK, Block
<1>5. /\ Want(end) \in Nat /\ end <= Want(end) /\ Want(end) <= Reserved
  BY <1>2, WantCovers
<1>6. PadTypeOK'
  <2>1. \A n \in DOMAIN blocks' : blocks'[n] \in Block
    BY <1>3, <1>4 DEF PadInv, PadTypeOK
  <2>2. blocks' \in [DOMAIN blocks' -> Block]
    BY <1>3, <2>1
  <2>3. /\ offset' \in [Pad -> Nat] /\ committed' \in [Pad -> Nat]
    BY <1>2, <1>5 DEF PadInv, PadTypeOK
  <2>4. QED
    BY <1>2, <2>2, <2>3 DEF PadInv, PadTypeOK
<1>7. \A a \in Pad : offset'[a] = IF a = cur THEN end ELSE offset[a]
  BY <1>2 DEF PadInv, PadTypeOK
<1>8. \A n \in DOMAIN blocks :
        /\ blocks[n].arena \in Pad /\ blocks[n].start \in Nat /\ blocks[n].end \in Nat
        /\ blocks[n].end <= offset[blocks[n].arena]
        /\ offset[blocks[n].arena] \in Nat
        /\ blocks[n].arena = cur => blocks[n].end <= start
  <2>1. ASSUME NEW n \in DOMAIN blocks
        PROVE  /\ blocks[n] \in Block
               /\ blocks[n].end <= offset[blocks[n].arena]
    BY DEF PadInv, PadTypeOK, AllPlaced, Placed
  <2>2. QED
    BY <1>1, <2>1, SMTT(30) DEF Block, PadInv, PadTypeOK
<1> HIDE DEF end
<1>9. AllPlaced'
  <2>1. ASSUME NEW n \in DOMAIN blocks' PROVE Placed(blocks[n])'
    <3>1. CASE n = name
      BY <1>1, <1>2, <1>3, <1>7, <3>1 DEF Placed, PadInv, PadTypeOK
    <3>2. CASE n # name
      <4>1. n \in DOMAIN blocks /\ blocks'[n] = blocks[n] /\ Placed(blocks[n])
        BY <1>3, <3>2 DEF PadInv, AllPlaced
      <4>2. blocks[n].end <= offset'[blocks[n].arena]
        BY <1>1, <1>2, <1>7, <1>8, <4>1
      <4>3. QED
        BY <4>1, <4>2 DEF Placed
    <3>3. QED
      BY <3>1, <3>2
  <2>2. QED
    BY <2>1 DEF AllPlaced
<1>10. AllApart'
  <2>1. ASSUME NEW n \in DOMAIN blocks', NEW m \in DOMAIN blocks', n # m
        PROVE  Apart(blocks'[n], blocks'[m])
    <3>1. CASE n = name
      BY <1>3, <1>8, <2>1, <3>1 DEF Apart
    <3>2. CASE m = name
      BY <1>3, <1>8, <2>1, <3>2 DEF Apart
    <3>3. CASE n # name /\ m # name
      BY <1>3, <2>1, <3>3 DEF PadInv, AllApart
    <3>4. QED
      BY <3>1, <3>2, <3>3
  <2>2. QED
    BY <2>1 DEF AllApart, Apart
<1>11. \A i \in 1 .. Len(marks) :
         /\ marks[i].arena \in Pad /\ marks[i].saved_offset \in Nat
         /\ marks[i].saved_offset <= offset[marks[i].arena]
  <2>1. ASSUME NEW i \in 1 .. Len(marks) PROVE marks[i] \in Mark
    BY DEF PadInv, PadTypeOK
  <2>2. QED
    BY <2>1 DEF Mark, PadInv, RegionsWithin
<1>12. RegionsSplit'
  <2>1. ASSUME NEW i \in 1 .. Len(marks), NEW n \in DOMAIN blocks',
               marks[i].arena = blocks'[n].arena
        PROVE  \/ blocks'[n].end <= marks[i].saved_offset
               \/ marks[i].saved_offset <= blocks'[n].start
    <3>1. CASE n = name
      <4>1. marks[i].saved_offset <= offset[cur] /\ offset[cur] \in Nat
        BY <1>3, <1>11, <2>1, <3>1 DEF PadInv, PadTypeOK
      <4>2. QED
        BY <1>1, <1>3, <1>11, <3>1, <4>1
    <3>2. CASE n # name
      BY <1>3, <2>1, <3>2 DEF PadInv, RegionsSplit
    <3>3. QED
      BY <3>1, <3>2
  <2>2. QED
    BY <1>2, <2>1 DEF RegionsSplit
<1>13. RegionsNested'
  BY <1>2 DEF PadInv, RegionsNested
<1>14. RegionsWithin'
  <2>1. ASSUME NEW i \in 1 .. Len(marks)
        PROVE  marks[i].saved_offset <= offset'[marks[i].arena]
    <3>1. /\ offset[cur] \in Nat /\ offset[marks[i].arena] \in Nat
          /\ offset[cur] <= end
      BY <1>1, <1>2, <1>11, SMTT(30) DEF PadInv, PadTypeOK
    <3>2. QED
      BY <1>2, <1>7, <1>11, <3>1
  <2>2. QED
    BY <1>2, <2>1 DEF RegionsWithin
<1>15. Backed'
  <2>1. ASSUME NEW a \in Pad
        PROVE  offset'[a] <= committed'[a] /\ committed'[a] <= Reserved
    <3>1. /\ committed[a] \in Nat /\ committed[a] <= Reserved /\ offset[a] <= committed[a]
      BY DEF PadInv, PadTypeOK, Backed
    <3>2. CASE a = cur
      <4>1. /\ offset'[a] = end
            /\ committed'[a] = IF end > committed[a] THEN Want(end) ELSE committed[a]
        BY <1>2, <3>2 DEF PadInv, PadTypeOK
      <4>2. QED
        BY <1>2, <1>5, <3>1, <4>1
    <3>3. CASE a # cur
      BY <1>2, <3>1, <3>3 DEF PadInv, PadTypeOK
    <3>4. QED
      BY <3>2, <3>3
  <2>2. QED
    BY <2>1 DEF Backed
<1>16. HeldInPages'
  BY <1>2 DEF Push, Ready, HeldInPages
<1>17. QED
  BY <1>6, <1>9, <1>10, <1>12, <1>13, <1>14, <1>15, <1>16 DEF PadInv

(* Fewer blocks and nothing else. *)
LEMMA FreeKeeps ==
  ASSUME PadInv, NEW name \in DOMAIN blocks, Free(name)
  PROVE  PadInv'
<1>1. /\ DOMAIN blocks' = DOMAIN blocks \ {name}
      /\ \A n \in DOMAIN blocks' : n \in DOMAIN blocks /\ blocks'[n] = blocks[n]
      /\ blocks' \in [DOMAIN blocks' -> {blocks[n] : n \in DOMAIN blocks}]
      /\ UNCHANGED <<pages, offset, committed, cur, marks>>
  BY DEF Free
<1>2. blocks' \in [DOMAIN blocks' -> Block]
  BY <1>1 DEF PadInv, PadTypeOK
<1>3. PadTypeOK' /\ Backed' /\ RegionsNested' /\ RegionsWithin' /\ HeldInPages'
  BY <1>1, <1>2 DEF PadInv, PadTypeOK, Backed, RegionsNested, RegionsWithin, HeldInPages
<1>4. AllPlaced' /\ AllApart'
  BY <1>1 DEF PadInv, AllPlaced, Placed, AllApart, Apart
<1>5. RegionsSplit'
  BY <1>1 DEF PadInv, RegionsSplit
<1>6. QED
  BY <1>3, <1>4, <1>5 DEF PadInv

(* Every block of the arena is below the offset that a new region saves.   *)
LEMMA TempBeginKeeps == PadInv /\ TempBegin => PadInv'
<1> SUFFICES ASSUME PadInv, TempBegin PROVE PadInv'
  OBVIOUS
<1> DEFINE mark == [arena |-> cur, saved_offset |-> offset[cur]]
<1>1. /\ mark \in Mark /\ marks \in Seq(Mark)
      /\ marks' = Append(marks, mark)
      /\ UNCHANGED <<pages, offset, committed, cur, blocks>>
  BY DEF TempBegin, PadInv, PadTypeOK, Mark
<1>2. /\ marks' \in Seq(Mark)
      /\ Len(marks') = Len(marks) + 1 /\ Len(marks) \in Nat
      /\ marks'[Len(marks) + 1] = mark
      /\ \A i \in 1 .. Len(marks) : marks'[i] = marks[i]
  BY <1>1
<1>3. PadTypeOK' /\ AllPlaced' /\ AllApart' /\ Backed' /\ HeldInPages'
  BY <1>1, <1>2 DEF PadInv, PadTypeOK, AllPlaced, Placed, AllApart, Apart, Backed,
                    HeldInPages, TempBegin, Ready
<1>4. \A i \in 1 .. Len(marks') : i # Len(marks) + 1 => i \in 1 .. Len(marks)
  BY <1>2
<1>5. RegionsSplit'
  <2>1. \A n \in DOMAIN blocks :
          mark.arena = blocks[n].arena => blocks[n].end <= mark.saved_offset
    BY DEF PadInv, AllPlaced, Placed
  <2>2. ASSUME NEW i \in 1 .. Len(marks'), NEW n \in DOMAIN blocks,
               marks'[i].arena = blocks[n].arena
        PROVE  \/ blocks[n].end <= marks'[i].saved_offset
               \/ marks'[i].saved_offset <= blocks[n].start
    <3>1. CASE i = Len(marks) + 1
      BY <1>2, <2>1, <2>2, <3>1
    <3>2. CASE i # Len(marks) + 1
      BY <1>2, <1>4, <2>2, <3>2 DEF PadInv, RegionsSplit
    <3>3. QED
      BY <3>1, <3>2
  <2>3. QED
    BY <1>1, <2>2 DEF RegionsSplit
<1>6. RegionsNested'
  <2>1. ASSUME NEW i \in 1 .. Len(marks'), NEW j \in 1 .. Len(marks'), i < j,
               marks'[i].arena = marks'[j].arena
        PROVE  marks'[i].saved_offset <= marks'[j].saved_offset
    <3>1. i \in 1 .. Len(marks)
      BY <1>2, <2>1
    <3>2. CASE j = Len(marks) + 1
      BY <1>2, <2>1, <3>1, <3>2 DEF PadInv, RegionsWithin
    <3>3. CASE j # Len(marks) + 1
      BY <1>2, <1>4, <2>1, <3>1, <3>3 DEF PadInv, RegionsNested
    <3>4. QED
      BY <3>2, <3>3
  <2>2. QED
    BY <2>1 DEF RegionsNested
<1>7. RegionsWithin'
  <2>1. offset[cur] \in Nat
    BY DEF PadInv, PadTypeOK
  <2>2. ASSUME NEW i \in 1 .. Len(marks')
        PROVE  marks'[i].saved_offset <= offset[marks'[i].arena]
    <3>1. CASE i = Len(marks) + 1
      BY <1>2, <2>1, <3>1
    <3>2. CASE i # Len(marks) + 1
      BY <1>2, <1>4, <3>2 DEF PadInv, RegionsWithin
    <3>3. QED
      BY <3>1, <3>2
  <2>3. QED
    BY <1>1, <2>2 DEF RegionsWithin
<1>8. QED
  BY <1>3, <1>5, <1>6, <1>7 DEF PadInv

(* What an arena keeps ends at or below the offset it goes back to.        *)
LEMMA TempEndKeeps == PadInv /\ TempEnd => PadInv'
<1> SUFFICES ASSUME PadInv, TempEnd PROVE PadInv'
  OBVIOUS
<1> DEFINE last == Len(marks)
           mark == marks[last]
<1>1. /\ marks \in Seq(Mark) /\ last \in Nat \ {0} /\ last \in 1 .. Len(marks)
      /\ mark \in Mark
      /\ mark.arena \in Pad /\ mark.saved_offset \in Nat
      /\ offset' = [offset EXCEPT ![mark.arena] = mark.saved_offset]
      /\ marks' = SubSeq(marks, 1, last - 1)
      /\ UNCHANGED <<pages, committed, cur>>
  <2>1. marks \in Seq(Mark) /\ marks # << >>
    BY DEF TempEnd, PadInv, PadTypeOK
  <2>2. last \in Nat \ {0} /\ last \in 1 .. Len(marks)
    BY <2>1
  <2>3. mark \in Mark
    BY <2>1, <2>2
  <2>4. QED
    BY <2>1, <2>2, <2>3 DEF TempEnd, Mark
<1>2. /\ DOMAIN blocks' \subseteq DOMAIN blocks
      /\ \A n \in DOMAIN blocks' :
            /\ blocks'[n] = blocks[n]
            /\ blocks[n].arena = mark.arena => blocks[n].start < mark.saved_offset
      /\ blocks' \in [DOMAIN blocks' -> {blocks[n] : n \in DOMAIN blocks}]
  BY DEF TempEnd, Outside
<1>3. /\ marks' \in Seq(Mark) /\ Len(marks') = last - 1
      /\ \A i \in 1 .. Len(marks') : marks'[i] = marks[i] /\ i \in 1 .. Len(marks) /\ i < last
  <2> HIDE DEF last, mark
  <2>1. marks' = SubSeq(marks, 1, last - 1) /\ marks \in Seq(Mark) /\ last \in 1 .. Len(marks)
    BY <1>1
  <2>2. marks' \in Seq(Mark) /\ Len(marks') = last - 1
    BY <2>1
  <2>3. ASSUME NEW i \in 1 .. Len(marks')
        PROVE  marks'[i] = marks[i] /\ i \in 1 .. Len(marks) /\ i < last
    BY <2>1, <2>2
  <2>4. QED
    BY <2>2, <2>3
<1>4. \A n \in DOMAIN blocks :
        /\ blocks[n] \in Block
        /\ blocks[n].arena \in Pad /\ blocks[n].start \in Nat /\ blocks[n].end \in Nat
  <2>1. \A n \in DOMAIN blocks : blocks[n] \in Block
    BY DEF PadInv, PadTypeOK
  <2>2. QED
    BY <2>1 DEF Block
<1>5. blocks' \in [DOMAIN blocks' -> Block]
  BY <1>2, <1>4
<1>6. \A a \in Pad : offset'[a] = IF a = mark.arena THEN mark.saved_offset ELSE offset[a]
  BY <1>1 DEF PadInv, PadTypeOK
<1>7. PadTypeOK'
  BY <1>1, <1>3, <1>5 DEF PadInv, PadTypeOK
<1> HIDE DEF last, mark
<1>8. AllPlaced'
  <2>1. ASSUME NEW n \in DOMAIN blocks' PROVE Placed(blocks[n])'
    <3>1. /\ n \in DOMAIN blocks /\ blocks'[n] = blocks[n] /\ Placed(blocks[n])
      BY <1>2 DEF PadInv, AllPlaced
    <3>2. CASE blocks[n].arena = mark.arena
      <4>1. blocks[n].end <= mark.saved_offset \/ mark.saved_offset <= blocks[n].start
        BY <1>1, <3>1, <3>2 DEF PadInv, RegionsSplit, mark
      <4>2. blocks[n].end <= mark.saved_offset
        BY <1>1, <1>2, <1>4, <3>1, <3>2, <4>1
      <4>3. QED
        BY <1>4, <1>6, <3>1, <3>2, <4>2 DEF Placed
    <3>3. CASE blocks[n].arena # mark.arena
      BY <1>4, <1>6, <3>1, <3>3 DEF Placed
    <3>4. QED
      BY <3>2, <3>3
  <2>2. QED
    BY <2>1 DEF AllPlaced
<1>9. AllApart'
  BY <1>2 DEF PadInv, AllApart, Apart
<1>10. RegionsSplit'
  BY <1>2, <1>3 DEF PadInv, RegionsSplit
<1>11. RegionsNested'
  BY <1>3 DEF PadInv, RegionsNested
<1>12. RegionsWithin'
  <2>1. ASSUME NEW i \in 1 .. Len(marks')
        PROVE  marks[i].saved_offset <= offset'[marks[i].arena]
    <3>1. /\ i \in 1 .. Len(marks) /\ i < last /\ marks[i] \in Mark
          /\ marks[i].saved_offset <= offset[marks[i].arena]
      BY <1>1, <1>3 DEF PadInv, RegionsWithin
    <3>2. marks[i].arena \in Pad
      BY <3>1 DEF Mark
    <3>3. marks[i].arena = mark.arena => marks[i].saved_offset <= mark.saved_offset
      BY <1>1, <3>1 DEF PadInv, RegionsNested, mark
    <3>4. QED
      BY <1>6, <3>1, <3>2, <3>3
  <2>2. QED
    BY <1>3, <2>1 DEF RegionsWithin
<1>13. Backed'
  <2>1. ASSUME NEW a \in Pad PROVE offset'[a] <= committed[a] /\ committed[a] <= Reserved
    <3>1. /\ offset[a] \in Nat /\ committed[a] \in Nat
          /\ offset[a] <= committed[a] /\ committed[a] <= Reserved
      BY DEF PadInv, PadTypeOK, Backed
    <3>2. mark.saved_offset <= offset[mark.arena]
      BY <1>1 DEF PadInv, RegionsWithin, mark
    <3>3. QED
      BY <1>1, <1>6, <3>1, <3>2
  <2>2. QED
    BY <1>1, <2>1 DEF Backed
<1>14. HeldInPages'
  <2>1. marks # << >>
    BY DEF TempEnd
  <2>2. QED
    BY <1>1, <2>1 DEF PadInv, HeldInPages
<1>15. QED
  BY <1>7, <1>8, <1>9, <1>10, <1>11, <1>12, <1>13, <1>14 DEF PadInv

(* The arena of the next frame holds neither a block nor a region.         *)
LEMMA NextFrameKeeps == PadInv /\ NextFrame => PadInv'
<1> SUFFICES ASSUME PadInv, NextFrame PROVE PadInv'
  OBVIOUS
<1>1. /\ cur \in Pad /\ 1 - cur \in Pad /\ cur' = 1 - cur
      /\ offset' = [offset EXCEPT ![1 - cur] = 0]
      /\ UNCHANGED <<pages, committed, marks>>
      /\ \A i \in 1 .. Len(marks) : marks[i].arena = cur
  BY DEF NextFrame, Flipped, PadInv, PadTypeOK
<1>2. \A n \in DOMAIN blocks : blocks[n].arena \in Pad /\ blocks[n].start \in Nat
  <2>1. \A n \in DOMAIN blocks : blocks[n] \in Block
    BY DEF PadInv, PadTypeOK
  <2>2. QED
    BY <2>1 DEF Block
<1>3. /\ DOMAIN blocks' \subseteq DOMAIN blocks
      /\ \A n \in DOMAIN blocks' : blocks'[n] = blocks[n] /\ blocks[n].arena = cur
      /\ blocks' \in [DOMAIN blocks' -> {blocks[n] : n \in DOMAIN blocks}]
  <2>1. Outside(1 - cur, 0) = {n \in DOMAIN blocks : blocks[n].arena = cur}
    BY <1>1, <1>2 DEF Outside
  <2>2. QED
    BY <2>1 DEF NextFrame
<1>4. blocks' \in [DOMAIN blocks' -> Block]
  BY <1>3 DEF PadInv, PadTypeOK
<1>5. PadTypeOK'
  BY <1>1, <1>4 DEF PadInv, PadTypeOK
<1>6. \A a \in Pad : offset'[a] = IF a = cur THEN offset[a] ELSE 0
  BY <1>1 DEF PadInv, PadTypeOK
<1>7. AllPlaced' /\ AllApart'
  BY <1>1, <1>3, <1>6 DEF PadInv, AllPlaced, Placed, AllApart, Apart
<1>8. RegionsSplit' /\ RegionsNested' /\ RegionsWithin'
  BY <1>1, <1>3, <1>6 DEF PadInv, RegionsSplit, RegionsNested, RegionsWithin
<1>9. Backed'
  BY <1>1, <1>6 DEF PadInv, PadTypeOK, Backed
<1>10. HeldInPages'
  BY <1>1, <1>3 DEF NextFrame, Ready, HeldInPages
<1>11. QED
  BY <1>5, <1>7, <1>8, <1>9, <1>10 DEF PadInv

(* Reserving the arenas begins without blocks. *)
LEMMA ReserveKeeps == PadInv /\ Reserve => PadInv'
<1> SUFFICES ASSUME PadInv, Reserve PROVE PadInv'
  OBVIOUS
<1>1. marks' = << >> /\ DOMAIN blocks' = {} /\ blocks' = blocks
  BY DEF PadInv, HeldInPages, Reserve
<1>2. marks' \in Seq(Mark) /\ Len(marks') = 0
  BY <1>1, EmptySeq
<1>3. PadTypeOK'
  BY <1>1, <1>2 DEF PadInv, PadTypeOK, Reserve
<1>4. QED
  BY <1>1, <1>2, <1>3 DEF Reserve, PadInv, AllPlaced, AllApart, RegionsSplit,
                          RegionsNested, RegionsWithin, Backed, HeldInPages

(* Releasing the arenas ends every block and region. *)
LEMMA GoneKeeps == PadInv /\ Gone /\ cur' \in Pad => PadInv'
  BY EmptiedKeeps DEF Gone

(* The invariant holds of every reachable pad. *)
THEOREM PadInvariant == PadSpec => []PadInv
<1>1. ASSUME PadInv, UNCHANGED memory PROVE PadInv'
  BY <1>1 DEF memory, PadInv, PadTypeOK, AllPlaced, Placed, AllApart, RegionsSplit,
              RegionsNested, RegionsWithin, Backed, HeldInPages
<1>2. ASSUME PadInv, ReleasePad PROVE PadInv'
  BY <1>2, GoneKeeps DEF ReleasePad, PadInv, PadTypeOK
<1>3. ASSUME PadInv, NEW size \in BlockSizes, NEW align \in Aligns,
             \/ Alloc(size, align) \/ PushAborts(size, align)
             \/ \E name \in Names : Realloc(name, size, align)
      PROVE  PadInv'
  BY <1>3, PushKeeps, GoneKeeps DEF Alloc, Realloc, PushAborts
<1>4. PadInv /\ [PadNext]_memory => PadInv'
  BY <1>1, <1>2, <1>3, FreeKeeps, TempBeginKeeps, TempEndKeeps, NextFrameKeeps, ReserveKeeps
     DEF PadNext
<1>5. QED
  BY InitPad, <1>4, PTL DEF PadSpec

(* arena.cpp: over pushes, regions, frames and pages that cannot be        *)
(* committed, no block in use is handed out again or left without pages.   *)
THEOREM BlocksAreKept == PadSpec => []BlocksHold
<1>1. PadInv => BlocksHold
  <2> SUFFICES ASSUME PadInv PROVE BlocksHold
    OBVIOUS
  <2>1. DOMAIN marks = 1 .. Len(marks)
    BY DEF PadInv, PadTypeOK
  <2>2. QED
    BY <2>1 DEF PadInv, BlocksHold, AllPlaced, Placed, AllApart, Apart, RegionsWithin, Backed
<1>2. QED
  BY PadInvariant, <1>1, PTL

HIDE ScratchAssumption DEF Pad

----------------------------------------------------------------------------
(* The hash map                                                            *)

Tables(n) == [0 .. n - 1 -> Pairs \union {FreeSlot}]

HashOK == hash \in [Keys -> 0 .. HashMax]

(* No two entries of a table have one key.                                 *)
KeysDiffer(table) ==
    \A p, q \in DOMAIN table :
        /\ table[p] # FreeSlot /\ table[q] # FreeSlot
        /\ table[p].key = table[q].key
        => p = q

(* Distances grow by one per slot at most, and from 0 behind a free slot.  *)
Chained(table) ==
    \A pos \in DOMAIN table :
        LET before == Distance(table, 1, pos) IN
        table[pos] # FreeSlot /\ Dib(table, pos) # 0 =>
            table[before] # FreeSlot /\ Dib(table, pos) <= Dib(table, before) + 1

Good(table, n) == table \in Tables(n) /\ KeysDiffer(table) /\ Chained(table)

(* What a table holds, and where.                                          *)
Holding(table) == {table[p] : p \in DOMAIN table} \ {FreeSlot}
Taken(table)   == {p \in DOMAIN table : table[p] # FreeSlot}

USE MapAssumption

LEMMA FreeIsNoEntry == FreeSlot \notin Pairs
BY DEF FreeSlot, Pairs

(* Going round a table of n slots.                                         *)
LEMMA Around ==
  ASSUME NEW n \in Nat \ {0}, NEW p \in 0 .. n - 1, NEW q \in 0 .. n - 1
  PROVE  /\ (p + q) % n = IF p + q < n THEN p + q ELSE p + q - n
         /\ (q + n - p) % n = IF p <= q THEN q - p ELSE q + n - p
         /\ (p + n - 1) % n = IF p = 0 THEN n - 1 ELSE p - 1
         /\ (p + 1) % n = IF p = n - 1 THEN 0 ELSE p + 1
<1>1. \A x \in Nat, y \in 0 .. n - 1, c \in 0 .. 1 : x = y + c * n => x % n = y
  OBVIOUS
<1>2. QED
  BY <1>1

(* Positions and distances of a table, as numbers below its size.          *)
LEMMA TableFacts ==
  ASSUME HashOK, NEW n \in Nat \ {0}, NEW T \in Tables(n)
  PROVE  /\ DOMAIN T = 0 .. n - 1 /\ Size(T) = n
         /\ \A p \in 0 .. n - 1 : T[p] \in Pairs <=> T[p] # FreeSlot
         /\ \A k \in Keys : Home(T, k) \in 0 .. n - 1
         /\ \A p, q \in 0 .. n - 1 :
                /\ Onward(T, p, q) = IF p + q < n THEN p + q ELSE p + q - n
                /\ Onward(T, p, 1) = IF p = n - 1 THEN 0 ELSE p + 1
                /\ Distance(T, p, q) = IF p <= q THEN q - p ELSE q + n - p
                /\ Distance(T, 1, p) = IF p = 0 THEN n - 1 ELSE p - 1
         /\ \A en \in Pairs : en.key \in Keys /\ en.val \in Vals
<1>1. DOMAIN T = 0 .. n - 1 /\ \A p \in 0 .. n - 1 : T[p] \in Pairs \/ T[p] = FreeSlot
  BY DEF Tables
<1>2. Size(T) = n
  <2>1. Cardinality(0 .. n - 1) = n
    BY FS_Interval
  <2>2. QED
    BY <1>1, <2>1 DEF Size
<1>3. \A k \in Keys : Home(T, k) \in 0 .. n - 1
  <2>1. ASSUME NEW k \in Keys PROVE hash[k] % n \in 0 .. n - 1
    <3>1. hash[k] \in Nat
      BY DEF HashOK
    <3>2. QED
      BY <3>1
  <2>2. QED
    BY <1>2, <2>1 DEF Home
<1>4. ASSUME NEW p \in 0 .. n - 1, NEW q \in 0 .. n - 1
      PROVE  /\ Onward(T, p, q) = IF p + q < n THEN p + q ELSE p + q - n
             /\ Onward(T, p, 1) = IF p = n - 1 THEN 0 ELSE p + 1
             /\ Distance(T, p, q) = IF p <= q THEN q - p ELSE q + n - p
             /\ Distance(T, 1, p) = IF p = 0 THEN n - 1 ELSE p - 1
  BY <1>2, Around, ZenonT(30) DEF Onward, Distance
<1>5. \A en \in Pairs : en.key \in Keys /\ en.val \in Vals
  BY DEF Pairs
<1>6. \A p \in 0 .. n - 1 : T[p] \in Pairs <=> T[p] # FreeSlot
  BY <1>1, FreeIsNoEntry
<1>7. QED
  BY <1>1, <1>2, <1>3, <1>4, <1>5, <1>6

(* d slots behind a position is a position, d slots away from it.          *)
LEMMA RoundsOut ==
  ASSUME HashOK, NEW n \in Nat \ {0}, NEW T \in Tables(n), NEW h \in 0 .. n - 1,
         NEW d \in 0 .. n - 1
  PROVE  Onward(T, h, d) \in 0 .. n - 1 /\ Distance(T, h, Onward(T, h, d)) = d
<1>1. \A p, q \in 0 .. n - 1 :
        /\ Onward(T, p, q) = IF p + q < n THEN p + q ELSE p + q - n
        /\ Onward(T, p, 1) = IF p = n - 1 THEN 0 ELSE p + 1
        /\ Distance(T, p, q) = IF p <= q THEN q - p ELSE q + n - p
        /\ Distance(T, 1, p) = IF p = 0 THEN n - 1 ELSE p - 1
  BY TableFacts
<1>2. Onward(T, h, d) = IF h + d < n THEN h + d ELSE h + d - n
  BY <1>1
<1> DEFINE q == Onward(T, h, d)
<1>3. q \in 0 .. n - 1
  BY <1>2
<1>4. Distance(T, h, q) = IF h <= q THEN q - h ELSE q + n - h
  BY <1>1, <1>3
<1> HIDE DEF q
<1>5. QED
  BY <1>2, <1>3, <1>4 DEF q

(* The slot before it and the slot behind it.                              *)
LEMMA RoundsBack ==
  ASSUME HashOK, NEW n \in Nat \ {0}, NEW T \in Tables(n), NEW h \in 0 .. n - 1,
         NEW d \in 0 .. n - 1
  PROVE  Distance(T, 1, Onward(T, h, d)) =
            IF d = 0 THEN Onward(T, h, n - 1) ELSE Onward(T, h, d - 1)
<1>1. \A p, q \in 0 .. n - 1 :
        /\ Onward(T, p, q) = IF p + q < n THEN p + q ELSE p + q - n
        /\ Onward(T, p, 1) = IF p = n - 1 THEN 0 ELSE p + 1
        /\ Distance(T, p, q) = IF p <= q THEN q - p ELSE q + n - p
        /\ Distance(T, 1, p) = IF p = 0 THEN n - 1 ELSE p - 1
  BY TableFacts
<1>2. n - 1 \in 0 .. n - 1 /\ (d # 0 => d - 1 \in 0 .. n - 1)
  OBVIOUS
<1>3. /\ Onward(T, h, d) = IF h + d < n THEN h + d ELSE h + d - n
      /\ Onward(T, h, n - 1) = IF h = 0 THEN n - 1 ELSE h - 1
      /\ d # 0 => Onward(T, h, d - 1) = IF h + d - 1 < n THEN h + d - 1 ELSE h + d - 1 - n
  BY <1>1, <1>2
<1> DEFINE q == Onward(T, h, d)
<1>4. q \in 0 .. n - 1
  BY <1>3
<1>5. Distance(T, 1, q) = IF q = 0 THEN n - 1 ELSE q - 1
  BY <1>1, <1>4
<1> HIDE DEF q
<1>6. QED
  BY <1>3, <1>4, <1>5 DEF q

LEMMA RoundsOn ==
  ASSUME HashOK, NEW n \in Nat \ {0}, NEW T \in Tables(n), NEW h \in 0 .. n - 1,
         NEW d \in 1 .. n - 1
  PROVE  /\ Onward(T, h, d - 1) \in 0 .. n - 1
         /\ Onward(T, Onward(T, h, d - 1), 1) = Onward(T, h, d)
<1>1. \A p, q \in 0 .. n - 1 :
        /\ Onward(T, p, q) = IF p + q < n THEN p + q ELSE p + q - n
        /\ Onward(T, p, 1) = IF p = n - 1 THEN 0 ELSE p + 1
        /\ Distance(T, p, q) = IF p <= q THEN q - p ELSE q + n - p
        /\ Distance(T, 1, p) = IF p = 0 THEN n - 1 ELSE p - 1
  BY TableFacts
<1>2. d - 1 \in 0 .. n - 1 /\ d \in 0 .. n - 1
  OBVIOUS
<1>3. /\ Onward(T, h, d) = IF h + d < n THEN h + d ELSE h + d - n
      /\ Onward(T, h, d - 1) = IF h + d - 1 < n THEN h + d - 1 ELSE h + d - 1 - n
  BY <1>1, <1>2
<1> DEFINE b == Onward(T, h, d - 1)
<1>4. b \in 0 .. n - 1
  BY <1>3
<1>5. Onward(T, b, 1) = IF b = n - 1 THEN 0 ELSE b + 1
  BY <1>1, <1>4
<1> HIDE DEF b
<1>6. QED
  BY <1>3, <1>4, <1>5 DEF b

(* From a position on, every position is met.                              *)
LEMMA RoundsAll ==
  ASSUME HashOK, NEW n \in Nat \ {0}, NEW T \in Tables(n), NEW h \in 0 .. n - 1,
         NEW p \in 0 .. n - 1
  PROVE  Distance(T, h, p) \in 0 .. n - 1 /\ Onward(T, h, Distance(T, h, p)) = p
<1>1. \A a, b \in 0 .. n - 1 :
        /\ Onward(T, a, b) = IF a + b < n THEN a + b ELSE a + b - n
        /\ Distance(T, a, b) = IF a <= b THEN b - a ELSE b + n - a
  BY TableFacts
<1> DEFINE d == Distance(T, h, p)
<1>2. d = (IF h <= p THEN p - h ELSE p + n - h) /\ d \in 0 .. n - 1
  BY <1>1
<1> HIDE DEF d
<1>3. Onward(T, h, d) = IF h + d < n THEN h + d ELSE h + d - n
  BY <1>1, <1>2
<1>4. QED
  BY <1>2, <1>3 DEF d

(* A slot further on is farther from any home by one, or is that home.     *)
LEMMA RoundsNext ==
  ASSUME HashOK, NEW n \in Nat \ {0}, NEW T \in Tables(n), NEW h \in 0 .. n - 1,
         NEW d \in 1 .. n - 1, NEW g \in 0 .. n - 1
  PROVE  Distance(T, g, Onward(T, h, d)) =
            IF Distance(T, g, Onward(T, h, d - 1)) = n - 1 THEN 0
            ELSE Distance(T, g, Onward(T, h, d - 1)) + 1
<1>1. \A p, q \in 0 .. n - 1 :
        /\ Onward(T, p, q) = IF p + q < n THEN p + q ELSE p + q - n
        /\ Onward(T, p, 1) = IF p = n - 1 THEN 0 ELSE p + 1
        /\ Distance(T, p, q) = IF p <= q THEN q - p ELSE q + n - p
        /\ Distance(T, 1, p) = IF p = 0 THEN n - 1 ELSE p - 1
  BY TableFacts
<1> DEFINE q == Onward(T, h, d)
           b == Onward(T, h, d - 1)
<1>2. q = Onward(T, b, 1) /\ b \in 0 .. n - 1
  BY RoundsOn
<1> HIDE DEF b
<1>3. q = (IF b = n - 1 THEN 0 ELSE b + 1) /\ q \in 0 .. n - 1
  BY <1>1, <1>2
<1> HIDE DEF q
<1>4. /\ Distance(T, g, q) = IF g <= q THEN q - g ELSE q + n - g
      /\ Distance(T, g, b) = IF g <= b THEN b - g ELSE b + n - g
  BY <1>1, <1>2, <1>3
<1>5. Distance(T, g, q) = IF Distance(T, g, b) = n - 1 THEN 0 ELSE Distance(T, g, b) + 1
  BY <1>2, <1>3, <1>4
<1>6. QED
  BY <1>5 DEF q, b

(* An entry is found d slots behind its home, and all in between are at    *)
(* least as far from their homes as they are from its home.                *)
LEMMA Approach ==
  ASSUME HashOK, NEW n \in Nat \ {0}, NEW T, Good(T, n), NEW h \in 0 .. n - 1,
         NEW d \in 0 .. n - 1, T[Onward(T, h, d)] # FreeSlot,
         Home(T, T[Onward(T, h, d)].key) = h
  PROVE  /\ Dib(T, Onward(T, h, d)) = d
         /\ \A c \in 0 .. d - 1 :
                T[Onward(T, h, c)] # FreeSlot /\ Dib(T, Onward(T, h, c)) >= c
<1> DEFINE At(c) == Onward(T, h, c)
           Far(c) == T[At(c)] # FreeSlot /\ Dib(T, At(c)) >= c
<1>1. T \in Tables(n) /\ DOMAIN T = 0 .. n - 1
  BY TableFacts DEF Good
<1>2. /\ \A c \in 0 .. n - 1 : At(c) \in 0 .. n - 1 /\ Distance(T, h, At(c)) = c
      /\ \A c \in 1 .. n - 1 : Distance(T, 1, At(c)) = At(c - 1)
  <2>1. \A c \in 0 .. n - 1 : At(c) \in 0 .. n - 1 /\ Distance(T, h, At(c)) = c
    BY <1>1, RoundsOut, ZenonT(30)
  <2>2. \A c \in 1 .. n - 1 : Distance(T, 1, At(c)) = At(c - 1)
    BY <1>1, RoundsBack
  <2>3. QED
    BY <2>1, <2>2
<1>3. Dib(T, At(d)) = d
  BY <1>2 DEF Dib
<1>4. \A p \in 0 .. n - 1 : T[p] # FreeSlot => Dib(T, p) \in 0 .. n - 1
  <2>1. ASSUME NEW p \in 0 .. n - 1, T[p] # FreeSlot PROVE Dib(T, p) \in 0 .. n - 1
    <3>1. Home(T, T[p].key) \in 0 .. n - 1
      BY <1>1, <2>1, TableFacts
    <3>2. QED
      BY <1>1, <3>1, RoundsAll DEF Dib
  <2>2. QED
    BY <2>1
<1>5. \A c \in 1 .. d : Far(c) => Far(c - 1)
  <2>1. ASSUME NEW c \in 1 .. d, Far(c) PROVE Far(c - 1)
    <3>1. c \in 0 .. n - 1 /\ c \in 1 .. n - 1 /\ c - 1 \in 0 .. n - 1 /\ c # 0
      OBVIOUS
    <3>2. At(c) \in DOMAIN T /\ Distance(T, 1, At(c)) = At(c - 1)
      BY <1>1, <1>2, <3>1
    <3>3. T[At(c)] # FreeSlot /\ Dib(T, At(c)) # 0
      BY <2>1, <1>4, <1>2, <3>1
    <3>4. T[At(c - 1)] # FreeSlot /\ Dib(T, At(c)) <= Dib(T, At(c - 1)) + 1
      BY <3>2, <3>3 DEF Good, Chained
    <3>5. Dib(T, At(c)) \in 0 .. n - 1 /\ Dib(T, At(c - 1)) \in 0 .. n - 1
      BY <1>2, <1>4, <3>1, <3>3, <3>4
    <3> HIDE DEF At
    <3>6. QED
      BY <2>1, <3>4, <3>5
  <2>2. QED
    BY <2>1
<1>6. \A c \in 0 .. d : Far(d - c)
  <2> DEFINE S == {c \in 0 .. d : Far(d - c)}
  <2>1. 0 \in S
    BY <1>3
  <2>2. ASSUME NEW c \in 1 .. d, c - 1 \in S PROVE c \in S
    <3>1. d - (c - 1) \in 1 .. d /\ d - (c - 1) - 1 = d - c /\ c \in 0 .. d
      OBVIOUS
    <3> HIDE DEF Far
    <3>2. Far(d - (c - 1) - 1)
      BY <1>5, <2>2, <3>1
    <3>3. QED
      BY <3>1, <3>2
  <2> HIDE DEF S
  <2>3. \A c \in 0 .. d : c \in S
    BY <2>1, <2>2, UpTo
  <2>4. QED
    BY <2>3 DEF S
<1>7. ASSUME NEW c \in 0 .. d - 1 PROVE Far(c)
  <2>1. d - c \in 0 .. d /\ d - (d - c) = c
    OBVIOUS
  <2> HIDE DEF Far
  <2>2. QED
    BY <1>6, <2>1
<1>8. QED
  BY <1>3, <1>7

(* What hashmap__place has in hand on its way.                             *)
Hands == [entry : Pairs, dib : Nat]

LEMMA HandFacts ==
  ASSUME HashOK, NEW n \in Nat \ {0}, NEW T \in Tables(n), NEW en \in Pairs
  PROVE  LET hand == InHand(T, en) IN
         /\ hand \in [0 .. n - 1 -> Hands]
         /\ hand[0] = [entry |-> en, dib |-> 0]
         /\ \A d \in 1 .. n - 1 :
                LET pos == Onward(T, Home(T, en.key), d - 1) IN
                hand[d] = IF Yields(T, pos, hand[d - 1].dib)
                            THEN [entry |-> T[pos], dib |-> Dib(T, pos) + 1]
                            ELSE [entry |-> hand[d - 1].entry, dib |-> hand[d - 1].dib + 1]
<1> DEFINE h == Home(T, en.key)
           pos(d) == Onward(T, h, d - 1)
           Next(x, d) == IF Yields(T, pos(d), x.dib)
                           THEN [entry |-> T[pos(d)], dib |-> Dib(T, pos(d)) + 1]
                           ELSE [entry |-> x.entry, dib |-> x.dib + 1]
           first == [entry |-> en, dib |-> 0]
           Body(f) == [d \in 0 .. n - 1 |-> IF d = 0 THEN first ELSE Next(f[d - 1], d)]
           step == [x \in Hands \X (1 .. n - 1) |-> Next(x[1], x[2])]
<1>1. Size(T) = n /\ h \in 0 .. n - 1 /\ DOMAIN T = 0 .. n - 1
  BY TableFacts DEF Pairs
<1>2. ASSUME NEW x \in Hands, NEW d \in 1 .. n - 1 PROVE Next(x, d) \in Hands
  <2>1. pos(d) \in 0 .. n - 1
    <3>1. d - 1 \in 0 .. n - 1
      OBVIOUS
    <3>2. QED
      BY <1>1, <3>1, RoundsOut
  <2> HIDE DEF h, pos
  <2>2. x.entry \in Pairs /\ x.dib \in Nat
    BY DEF Hands
  <2>3. CASE Yields(T, pos(d), x.dib)
    <3>1. T[pos(d)] \in Pairs
      BY <2>1, <2>3, TableFacts DEF Yields
    <3>2. Dib(T, pos(d)) \in Nat
      <4>1. Home(T, T[pos(d)].key) \in 0 .. n - 1
        BY <3>1, TableFacts
      <4>2. QED
        BY <2>1, <4>1, RoundsAll DEF Dib
    <3>3. QED
      BY <2>3, <3>1, <3>2 DEF Hands
  <2>4. CASE ~Yields(T, pos(d), x.dib)
    BY <2>2, <2>4 DEF Hands
  <2>5. QED
    BY <2>3, <2>4
<1>3. InHand(T, en) = CHOOSE f : f = Body(f)
  BY <1>1 DEF InHand
<1>4. first \in Hands
  BY DEF Hands
<1> HIDE DEF Next, first, pos
<1>5. PICK f : IsChain(f, first, step, n - 1)
  <2>1. n - 1 \in Nat
    OBVIOUS
  <2> HIDE DEF step
  <2>2. QED
    BY <2>1, ChainExists
<1>6. /\ f = [d \in 0 .. n - 1 |-> f[d]]
      /\ \A d \in 0 .. n - 1 : f[d] = IF d = 0 THEN first ELSE step[<<f[d - 1], d>>]
  BY <1>5 DEF IsChain
<1>7. \A d \in 0 .. n - 1 : f[d] \in Hands
  <2> DEFINE S == {d \in 0 .. n - 1 : f[d] \in Hands}
  <2>1. 0 \in S
    <3>1. 0 \in 0 .. n - 1
      OBVIOUS
    <3>2. f[0] = first
      BY <1>6, <3>1
    <3>3. QED
      BY <1>4, <3>1, <3>2
  <2>2. ASSUME NEW d \in 1 .. n - 1, d - 1 \in S PROVE d \in S
    <3>1. d \in 0 .. n - 1 /\ d # 0 /\ f[d - 1] \in Hands
      BY <2>2
    <3>2. f[d] = step[<<f[d - 1], d>>]
      BY <1>6, <3>1
    <3>3. f[d] = Next(f[d - 1], d)
      BY <3>1, <3>2
    <3>4. QED
      BY <1>2, <3>1, <3>3
  <2> HIDE DEF S
  <2>3. \A d \in 0 .. n - 1 : d \in S
    BY <2>1, <2>2, UpTo
  <2>4. QED
    BY <2>3 DEF S
<1>8. f = Body(f)
  <2>1. \A d \in 0 .. n - 1 : d # 0 => d \in 1 .. n - 1 /\ d - 1 \in 0 .. n - 1
    OBVIOUS
  <2>2. \A d \in 0 .. n - 1 : f[d] = IF d = 0 THEN first ELSE Next(f[d - 1], d)
    BY <1>6, <1>7, <2>1
  <2>3. QED
    BY <1>6, <2>2
<1> DEFINE hand == InHand(T, en)
<1>9. hand = Body(hand)
  <2> HIDE DEF Body
  <2>1. QED
    BY <1>3, <1>8
<1> HIDE DEF hand
<1>10. \A d \in 0 .. n - 1 : hand[d] = IF d = 0 THEN first ELSE Next(hand[d - 1], d)
  BY <1>9
<1>11. \A d \in 0 .. n - 1 : hand[d] \in Hands
  <2> DEFINE S == {d \in 0 .. n - 1 : hand[d] \in Hands}
  <2>1. 0 \in S
    BY <1>4, <1>10
  <2>2. ASSUME NEW d \in 1 .. n - 1, d - 1 \in S PROVE d \in S
    BY <1>2, <1>10, <2>2
  <2> HIDE DEF S
  <2>3. \A d \in 0 .. n - 1 : d \in S
    BY <2>1, <2>2, UpTo
  <2>4. QED
    BY <2>3 DEF S
<1>12. hand \in [0 .. n - 1 -> Hands]
  BY <1>9, <1>11
<1>13. \A d \in 1 .. n - 1 : hand[d] = Next(hand[d - 1], d)
  BY <1>10
<1>14. hand[0] = first
  BY <1>10
<1>15. QED
  BY <1>12, <1>13, <1>14, Zenon DEF hand, Next, first, pos, h

(* Does hashmap__place end d slots behind the home of its entry?           *)
Settles(T, en, d) ==
    LET pos == Onward(T, Home(T, en.key), d)
    IN  T[pos] = FreeSlot \/ T[pos].key = InHand(T, en)[d].entry.key

(* A table stays a table, and what hashmap__place writes along its way.    *)
LEMMA PlaceShape ==
  ASSUME HashOK, NEW n \in Nat \ {0}, NEW T \in Tables(n), NEW en \in Pairs
  PROVE  /\ Place(T, en) \in Tables(n)
         /\ \A last \in 0 .. n - 1 :
                Settles(T, en, last) /\ (\A c \in 0 .. last - 1 : ~Settles(T, en, c)) =>
                \A d \in 0 .. n - 1 :
                    LET pos == Onward(T, Home(T, en.key), d) IN
                    Place(T, en)[pos] =
                        IF d = last \/ (d < last /\ Yields(T, pos, InHand(T, en)[d].dib))
                          THEN InHand(T, en)[d].entry ELSE T[pos]
<1> DEFINE h == Home(T, en.key)
           hand == InHand(T, en)
           Ends(d) == Settles(T, en, d) /\ \A c \in 0 .. d - 1 : ~Settles(T, en, c)
           end == CHOOSE d \in 0 .. n - 1 : Ends(d)
           R == Place(T, en)
           dist(p) == Distance(T, h, p)
<1>1. Size(T) = n /\ h \in 0 .. n - 1 /\ DOMAIN T = 0 .. n - 1
  BY TableFacts DEF Pairs
<1>2. hand \in [0 .. n - 1 -> Hands]
  BY HandFacts
<1>3. R = [p \in 0 .. n - 1 |->
            IF dist(p) = end \/ (dist(p) < end /\ Yields(T, p, hand[dist(p)].dib))
              THEN hand[dist(p)].entry ELSE T[p]]
  BY <1>1 DEF Place, First, Settles
<1> HIDE DEF R, hand, end, Ends
<1>4. \A p \in 0 .. n - 1 : dist(p) \in 0 .. n - 1
  BY <1>1, RoundsAll
<1>5. R \in Tables(n)
  <2>1. ASSUME NEW p \in 0 .. n - 1 PROVE R[p] \in Pairs \union {FreeSlot}
    <3>1. hand[dist(p)].entry \in Pairs
      BY <1>2, <1>4 DEF Hands
    <3>2. T[p] \in Pairs \union {FreeSlot}
      BY DEF Tables
    <3> HIDE DEF dist
    <3>3. QED
      BY <1>3, <3>1, <3>2
  <2>2. QED
    BY <1>3, <2>1 DEF Tables
<1>6. ASSUME NEW last \in 0 .. n - 1, Ends(last), NEW d \in 0 .. n - 1
      PROVE  R[Onward(T, h, d)] =
                IF d = last \/ (d < last /\ Yields(T, Onward(T, h, d), hand[d].dib))
                  THEN hand[d].entry ELSE T[Onward(T, h, d)]
  <2>1. end \in 0 .. n - 1 /\ Ends(end)
    BY <1>6 DEF end
  <2>2. end = last
    <3>1. ~(end < last) /\ ~(last < end)
      <4>1. end < last => end \in 0 .. last - 1
        BY <2>1
      <4>2. last < end => last \in 0 .. end - 1
        BY <2>1
      <4>3. QED
        BY <1>6, <2>1, <4>1, <4>2 DEF Ends
    <3>2. QED
      BY <2>1, <3>1
  <2>3. Onward(T, h, d) \in 0 .. n - 1 /\ dist(Onward(T, h, d)) = d
    <3>1. Onward(T, h, d) \in 0 .. n - 1
      BY <1>1, RoundsOut
    <3>2. dist(Onward(T, h, d)) = d
      BY <1>1, RoundsOut
    <3>3. QED
      BY <3>1, <3>2
  <2> HIDE DEF dist, h
  <2>4. QED
    BY <1>3, <2>2, <2>3
<1>7. QED
  BY <1>5, <1>6 DEF R, hand, Ends

(* What is in hand is as far from its home as the code counts, and that is *)
(* never farther than the way so far.                                      *)
LEMMA Carried ==
  ASSUME HashOK, NEW n \in Nat \ {0}, NEW T \in Tables(n), NEW en \in Pairs,
         NEW last \in 0 .. n - 1,
         \A c \in 0 .. last - 1 : T[Onward(T, Home(T, en.key), c)] # FreeSlot
  PROVE  \A d \in 0 .. last :
            /\ InHand(T, en)[d] \in Hands
            /\ InHand(T, en)[d].dib \in 0 .. d
            /\ InHand(T, en)[d].dib =
                  Distance(T, Home(T, InHand(T, en)[d].entry.key), Onward(T, Home(T, en.key), d))
<1> DEFINE h == Home(T, en.key)
           hand == InHand(T, en)
           At(d) == Onward(T, h, d)
           far(x, d) == Distance(T, Home(T, x.entry.key), At(d))
           S == {d \in 0 .. last : hand[d].dib <= d /\ hand[d].dib = far(hand[d], d)}
<1>1. h \in 0 .. n - 1 /\ \A k \in Keys : Home(T, k) \in 0 .. n - 1
  BY TableFacts DEF Pairs
<1>2. /\ hand \in [0 .. n - 1 -> Hands]
      /\ hand[0] = [entry |-> en, dib |-> 0]
  BY HandFacts
<1>3. \A d \in 1 .. n - 1 :
        hand[d] = IF Yields(T, At(d - 1), hand[d - 1].dib)
                    THEN [entry |-> T[At(d - 1)], dib |-> Dib(T, At(d - 1)) + 1]
                    ELSE [entry |-> hand[d - 1].entry, dib |-> hand[d - 1].dib + 1]
  BY HandFacts
<1> HIDE DEF hand
<1>4. \A d \in 0 .. n - 1 : At(d) \in 0 .. n - 1
  BY <1>1, RoundsOut
<1>5. \A d \in 1 .. n - 1, g \in 0 .. n - 1 :
        Distance(T, g, At(d)) = IF Distance(T, g, At(d - 1)) = n - 1 THEN 0
                                ELSE Distance(T, g, At(d - 1)) + 1
  BY <1>1, RoundsNext
<1>6. \A g, p \in 0 .. n - 1 : Distance(T, g, p) \in 0 .. n - 1
  BY RoundsAll
<1>7. \A d \in 0 .. n - 1 : hand[d].entry \in Pairs /\ hand[d].dib \in Nat
                            /\ Home(T, hand[d].entry.key) \in 0 .. n - 1
  BY <1>1, <1>2 DEF Hands, Pairs
<1>8. 0 \in S
  <2>1. Distance(T, h, At(0)) = 0
    BY <1>1, RoundsOut
  <2>2. QED
    BY <1>2, <2>1
<1> HIDE DEF At
<1>9. ASSUME NEW d \in 1 .. last, d - 1 \in S PROVE d \in S
  <2>1. /\ d \in 0 .. last /\ d \in 1 .. n - 1 /\ d - 1 \in 0 .. n - 1 /\ d - 1 \in 0 .. last - 1
        /\ hand[d - 1].dib <= d - 1 /\ hand[d - 1].dib = far(hand[d - 1], d - 1)
    BY <1>9
  <2>2. T[At(d - 1)] # FreeSlot /\ At(d - 1) \in 0 .. n - 1
    BY <1>4, <2>1 DEF At
  <2>3. T[At(d - 1)] \in Pairs /\ Home(T, T[At(d - 1)].key) \in 0 .. n - 1
    <3>1. T[At(d - 1)] \in Pairs
      BY <2>2, TableFacts
    <3>2. QED
      BY <1>1, <3>1 DEF Pairs
  <2>4. hand[d - 1].dib \in Nat
    BY <1>7, <2>1
  <2>5. CASE Yields(T, At(d - 1), hand[d - 1].dib)
    <3> DEFINE g == Home(T, T[At(d - 1)].key)
               e == Dib(T, At(d - 1))
    <3>1. e < hand[d - 1].dib /\ e = Distance(T, g, At(d - 1)) /\ e \in 0 .. n - 1
      BY <1>6, <2>2, <2>3, <2>5 DEF Yields, Dib
    <3>2. hand[d].entry = T[At(d - 1)] /\ hand[d].dib = e + 1
      <4>1. hand[d] = [entry |-> T[At(d - 1)], dib |-> e + 1]
        BY <1>3, <2>1, <2>5
      <4>2. QED
        BY <4>1
    <3>3. far(hand[d], d) = Distance(T, g, At(d))
      BY <3>2
    <3> HIDE DEF g, e, far
    <3>4. g \in 0 .. n - 1
      BY <2>3 DEF g
    <3>5. Distance(T, g, At(d)) = e + 1
      BY <1>5, <2>1, <2>4, <3>1, <3>4
    <3>6. hand[d].dib <= d /\ hand[d].dib = far(hand[d], d)
      BY <2>1, <2>4, <3>1, <3>2, <3>3, <3>5
    <3>7. QED
      BY <2>1, <3>6 DEF far
  <2>6. CASE ~Yields(T, At(d - 1), hand[d - 1].dib)
    <3> DEFINE g == Home(T, hand[d - 1].entry.key)
    <3>1. hand[d].entry = hand[d - 1].entry /\ hand[d].dib = hand[d - 1].dib + 1
      <4>1. hand[d] = [entry |-> hand[d - 1].entry, dib |-> hand[d - 1].dib + 1]
        BY <1>3, <2>1, <2>6
      <4>2. QED
        BY <4>1
    <3>2. /\ far(hand[d], d) = Distance(T, g, At(d))
          /\ far(hand[d - 1], d - 1) = Distance(T, g, At(d - 1))
      BY <3>1
    <3>3. g \in 0 .. n - 1
      BY <1>7, <2>1
    <3> HIDE DEF g, far
    <3>4. Distance(T, g, At(d)) = hand[d - 1].dib + 1
      BY <1>5, <2>1, <2>4, <3>2, <3>3
    <3>5. hand[d].dib <= d /\ hand[d].dib = far(hand[d], d)
      BY <2>1, <2>4, <3>1, <3>2, <3>4
    <3>6. QED
      BY <2>1, <3>5 DEF far
  <2>7. QED
    BY <2>5, <2>6
<1>10. \A d \in 0 .. last : d \in S
  <2> HIDE DEF S
  <2>1. QED
    BY <1>8, <1>9, UpTo
<1>11. \A d \in 0 .. last : d \in 0 .. n - 1
  OBVIOUS
<1>12. ASSUME NEW d \in 0 .. last
       PROVE  hand[d] \in Hands /\ hand[d].dib \in 0 .. d /\ hand[d].dib = far(hand[d], d)
  BY <1>2, <1>7, <1>10, <1>11
<1>13. QED
  BY <1>12 DEF hand, At

(* An entry whose key is there takes the place of that key's entry.        *)
LEMMA PlacePresent ==
  ASSUME HashOK, NEW n \in Nat \ {0}, NEW T, Good(T, n), NEW en \in Pairs,
         NEW p \in 0 .. n - 1, T[p] # FreeSlot, T[p].key = en.key
  PROVE  Place(T, en) = [T EXCEPT ![p] = en]
<1> DEFINE h == Home(T, en.key)
           hand == InHand(T, en)
           At(d) == Onward(T, h, d)
           last == Distance(T, h, p)
           R == Place(T, en)
<1>1. /\ T \in Tables(n) /\ DOMAIN T = 0 .. n - 1
      /\ h \in 0 .. n - 1
  BY TableFacts DEF Good, Pairs
<1>2. last \in 0 .. n - 1 /\ At(last) = p
  BY <1>1, RoundsAll
<1>3. \A d \in 0 .. n - 1 : At(d) \in 0 .. n - 1 /\ Distance(T, h, At(d)) = d
  BY <1>1, RoundsOut, ZenonT(30)
<1>4. \A c \in 0 .. last - 1 : T[At(c)] # FreeSlot /\ Dib(T, At(c)) >= c
  <2> HIDE DEF h, last
  <2>1. T[At(last)] # FreeSlot /\ Home(T, T[At(last)].key) = h
    BY <1>2 DEF h
  <2> QED
    BY <1>1, <1>2, <2>1, Approach
<1>5. /\ hand[0] = [entry |-> en, dib |-> 0]
      /\ \A d \in 1 .. n - 1 :
            hand[d] = IF Yields(T, At(d - 1), hand[d - 1].dib)
                        THEN [entry |-> T[At(d - 1)], dib |-> Dib(T, At(d - 1)) + 1]
                        ELSE [entry |-> hand[d - 1].entry, dib |-> hand[d - 1].dib + 1]
  BY <1>1, HandFacts
<1> HIDE DEF hand, last, At, h, R
<1>6. \A c \in 0 .. last - 1 : ~Yields(T, At(c), c)
  <2>1. ASSUME NEW c \in 0 .. last - 1 PROVE ~(Dib(T, At(c)) < c)
    <3>1. T[At(c)] # FreeSlot /\ Dib(T, At(c)) >= c /\ At(c) \in 0 .. n - 1
      BY <1>2, <1>3, <1>4
    <3>2. T[At(c)] \in Pairs
      BY <1>1, <3>1, TableFacts
    <3>3. Home(T, T[At(c)].key) \in 0 .. n - 1
      BY <1>1, <3>2, TableFacts
    <3>4. Dib(T, At(c)) \in 0 .. n - 1
      BY <1>1, <3>1, <3>3, RoundsAll DEF Dib
    <3>5. QED
      BY <3>1, <3>4
  <2>2. QED
    BY <2>1 DEF Yields
<1>7. \A d \in 0 .. last : hand[d] = [entry |-> en, dib |-> d]
  <2> DEFINE S == {d \in 0 .. last : hand[d] = [entry |-> en, dib |-> d]}
  <2>1. 0 \in S
    BY <1>2, <1>5
  <2>2. ASSUME NEW d \in 1 .. last, d - 1 \in S PROVE d \in S
    <3>1. d \in 1 .. n - 1 /\ d - 1 \in 0 .. last - 1 /\ hand[d - 1] = [entry |-> en, dib |-> d - 1]
      BY <1>2, <2>2
    <3>2. hand[d - 1].entry = en /\ hand[d - 1].dib = d - 1
      BY <3>1
    <3>3. hand[d] = [entry |-> hand[d - 1].entry, dib |-> hand[d - 1].dib + 1]
      BY <1>5, <1>6, <3>1, <3>2
    <3>4. QED
      BY <3>2, <3>3
  <2> HIDE DEF S
  <2>3. \A d \in 0 .. last : d \in S
    BY <1>2, <2>1, <2>2, UpTo
  <2>4. QED
    BY <2>3 DEF S
<1>8. ASSUME NEW d \in 0 .. last PROVE hand[d].entry = en /\ hand[d].dib = d
  <2>1. hand[d] = [entry |-> en, dib |-> d]
    BY <1>7
  <2>2. QED
    BY <2>1
<1>9. Settles(T, en, last)
  BY <1>2, <1>8 DEF Settles, hand, At, h
<1>10. \A c \in 0 .. last - 1 : ~Settles(T, en, c)
  <2>1. ASSUME NEW c \in 0 .. last - 1
        PROVE  T[At(c)] # FreeSlot /\ T[At(c)].key # hand[c].entry.key
    <3>1. c \in 0 .. n - 1 /\ c \in 0 .. last /\ c # last
      BY <1>2
    <3>2. At(c) # p /\ At(c) \in DOMAIN T /\ p \in DOMAIN T
      BY <1>1, <1>2, <1>3, <3>1
    <3>3. T[At(c)].key # en.key
      BY <1>4, <3>2 DEF Good, KeysDiffer
    <3>4. QED
      BY <1>4, <1>8, <3>1, <3>3
  <2>2. QED
    BY <2>1 DEF Settles, hand, At, h
<1>11. \A d \in 0 .. n - 1 :
          R[At(d)] = IF d = last \/ (d < last /\ Yields(T, At(d), hand[d].dib))
                       THEN hand[d].entry ELSE T[At(d)]
  <2>1. \A d \in 0 .. n - 1 :
          LET pos == Onward(T, Home(T, en.key), d) IN
          Place(T, en)[pos] =
              IF d = last \/ (d < last /\ Yields(T, pos, InHand(T, en)[d].dib))
                THEN InHand(T, en)[d].entry ELSE T[pos]
    BY <1>1, <1>2, <1>9, <1>10, PlaceShape
  <2>2. QED
    BY <2>1 DEF R, At, h, hand
<1>12. \A q \in 0 .. n - 1 : R[q] = IF q = p THEN en ELSE T[q]
  <2> TAKE q \in 0 .. n - 1
  <2> DEFINE d == Distance(T, h, q)
  <2>1. d \in 0 .. n - 1 /\ At(d) = q
    <3>1. h \in 0 .. n - 1
      BY <1>1 DEF h
    <3>2. d \in 0 .. n - 1
      BY <1>1, <3>1, RoundsAll
    <3>3. Onward(T, h, d) = q
      BY <1>1, <3>1, RoundsAll
    <3>4. QED
      BY <3>2, <3>3 DEF At
  <2>2. d = last <=> q = p
    BY <1>2, <2>1 DEF last
  <2> HIDE DEF d
  <2>3. d < last => d \in 0 .. last - 1 /\ d \in 0 .. last
    BY <1>2, <2>1
  <2>4. d < last => ~Yields(T, At(d), hand[d].dib)
    BY <1>6, <1>8, <2>3
  <2>5. d = last => hand[d].entry = en
    BY <1>2, <1>8
  <2>6. R[At(d)] = IF d = last THEN en ELSE T[At(d)]
    BY <1>11, <2>1, <2>4, <2>5
  <2>7. QED
    BY <2>1, <2>2, <2>6
<1>13. R \in Tables(n)
  BY <1>1, PlaceShape DEF R
<1>14. QED
  BY <1>1, <1>12, <1>13 DEF R, Tables

(* Another value under a key leaves all else as it is.                     *)
LEMMA UpdateGood ==
  ASSUME HashOK, NEW n \in Nat \ {0}, NEW T, Good(T, n), NEW en \in Pairs,
         NEW p \in 0 .. n - 1, T[p] # FreeSlot, T[p].key = en.key,
         NEW R, R = Place(T, en)
  PROVE  /\ Good(R, n)
         /\ Taken(R) = Taken(T)
         /\ Holding(R) = {x \in Holding(T) : x.key # en.key} \union {en}
<1>0. R = [T EXCEPT ![p] = en]
  BY PlacePresent
<1>1. T \in Tables(n) /\ DOMAIN T = 0 .. n - 1 /\ DOMAIN R = 0 .. n - 1
  BY <1>0, TableFacts DEF Good
<1>2. \A q \in 0 .. n - 1 : R[q] = IF q = p THEN en ELSE T[q]
  BY <1>0, <1>1
<1>3. R \in Tables(n) /\ en # FreeSlot
  BY <1>0, <1>1, FreeIsNoEntry DEF Tables
<1>4. /\ Size(T) = n /\ Size(R) = n
      /\ \A k : Home(R, k) = Home(T, k)
      /\ \A a, b : Distance(R, a, b) = Distance(T, a, b)
  <2>1. Size(T) = n /\ Size(R) = n
    BY <1>1, <1>3, TableFacts
  <2>2. QED
    BY <2>1 DEF Home, Distance
<1>5. \A q \in 0 .. n - 1 : /\ R[q] # FreeSlot <=> T[q] # FreeSlot
                            /\ T[q] # FreeSlot => R[q].key = T[q].key
                            /\ T[q] # FreeSlot => Dib(R, q) = Dib(T, q)
  <2> TAKE q \in 0 .. n - 1
  <2>1. R[q] # FreeSlot <=> T[q] # FreeSlot
    BY <1>2, <1>3
  <2>2. T[q] # FreeSlot => R[q].key = T[q].key
    BY <1>2
  <2>3. T[q] # FreeSlot => Dib(R, q) = Dib(T, q)
    BY <1>4, <2>2 DEF Dib
  <2>4. QED
    BY <2>1, <2>2, <2>3
<1>6. \A q \in 0 .. n - 1 : Distance(T, 1, q) \in 0 .. n - 1
  <2>1. \A q \in 0 .. n - 1 : Distance(T, 1, q) = IF q = 0 THEN n - 1 ELSE q - 1
    BY <1>1, TableFacts
  <2>2. QED
    BY <2>1
<1>7. KeysDiffer(R)
  BY <1>1, <1>5 DEF Good, KeysDiffer
<1>8. Chained(R)
  <2>1. \A q \in 0 .. n - 1 : T[q] # FreeSlot /\ Dib(T, q) # 0 =>
            /\ T[Distance(T, 1, q)] # FreeSlot
            /\ Dib(T, q) <= Dib(T, Distance(T, 1, q)) + 1
    BY <1>1 DEF Good, Chained
  <2>2. \A q \in 0 .. n - 1 : R[q] # FreeSlot /\ Dib(R, q) # 0 =>
            /\ R[Distance(R, 1, q)] # FreeSlot
            /\ Dib(R, q) <= Dib(R, Distance(R, 1, q)) + 1
    <3> TAKE q \in 0 .. n - 1
    <3> DEFINE b == Distance(T, 1, q)
    <3>1. b \in 0 .. n - 1 /\ Distance(R, 1, q) = b
      BY <1>4, <1>6
    <3>2. T[q] # FreeSlot /\ Dib(T, q) # 0 => T[b] # FreeSlot /\ Dib(T, q) <= Dib(T, b) + 1
      BY <2>1
    <3> HIDE DEF b
    <3>3. QED
      BY <1>5, <3>1, <3>2
  <2>3. QED
    BY <1>1, <2>2 DEF Chained
<1>9. Taken(R) = Taken(T)
  BY <1>1, <1>5 DEF Taken
<1>10. ASSUME NEW x PROVE x \in Holding(R) <=> (x \in Holding(T) /\ x.key # en.key) \/ x = en
  <2>1. ASSUME x \in Holding(R) PROVE (x \in Holding(T) /\ x.key # en.key) \/ x = en
    <3>1. PICK q \in 0 .. n - 1 : x = R[q] /\ x # FreeSlot
      BY <1>1, <2>1 DEF Holding
    <3>2. q # p => x = T[q] /\ x.key # en.key
      BY <1>1, <1>2, <3>1 DEF Good, KeysDiffer
    <3>3. QED
      BY <1>1, <1>2, <3>1, <3>2 DEF Holding
  <2>2. ASSUME x \in Holding(T), x.key # en.key PROVE x \in Holding(R)
    <3>1. PICK q \in 0 .. n - 1 : x = T[q] /\ x # FreeSlot
      BY <1>1, <2>2 DEF Holding
    <3>2. R[q] = x
      BY <1>2, <2>2, <3>1
    <3>3. QED
      BY <1>1, <3>1, <3>2 DEF Holding
  <2>3. en \in Holding(R)
    BY <1>1, <1>2, <1>3 DEF Holding
  <2>4. QED
    BY <2>1, <2>2, <2>3
<1>11. QED
  BY <1>3, <1>7, <1>8, <1>9, <1>10 DEF Good

(* Along a row of items one is in hand and may be exchanged for the item   *)
(* met: in the end the row and the hand hold what they held, keys apart.   *)
Exchanges(N, t, hold, put, en) ==
    /\ hold[0] = en
    /\ \A d \in 0 .. N - 1 : \/ put[d] = hold[d] /\ hold[d + 1] = t[d]
                             \/ put[d] = t[d] /\ hold[d + 1] = hold[d]
    /\ \A b, c \in 0 .. N - 1 : t[b].key = t[c].key => b = c
    /\ \A c \in 0 .. N - 1 : t[c].key # en.key

LEMMA Exchange ==
  ASSUME NEW N \in Nat, NEW t, NEW hold, NEW put, NEW en, Exchanges(N, t, hold, put, en)
  PROVE  /\ \A d \in 0 .. N : hold[d] = en \/ \E c \in 0 .. d - 1 : hold[d] = t[c]
         /\ \A c \in 0 .. N - 1 : put[c] = en \/ \E b \in 0 .. N - 1 : put[c] = t[b]
         /\ en = hold[N] \/ \E c \in 0 .. N - 1 : put[c] = en
         /\ \A b \in 0 .. N - 1 : t[b] = hold[N] \/ \E c \in 0 .. N - 1 : put[c] = t[b]
         /\ \A c \in 0 .. N - 1 : put[c].key # hold[N].key
         /\ \A b, c \in 0 .. N - 1 : put[b].key = put[c].key => b = c
<1> DEFINE Seen(x, d) == x = en \/ \E c \in 0 .. d - 1 : x = t[c]
           Kept(x, d) == x = hold[d] \/ \E c \in 0 .. d - 1 : x = put[c]
           Inv(d) == /\ Seen(hold[d], d)
                     /\ \A c \in 0 .. d - 1 : Seen(put[c], d)
                     /\ Kept(en, d)
                     /\ \A b \in 0 .. d - 1 : Kept(t[b], d)
                     /\ \A c \in 0 .. d - 1 : put[c].key # hold[d].key
                     /\ \A b, c \in 0 .. d - 1 : put[b].key = put[c].key => b = c
           S == {d \in 0 .. N : Inv(d)}
<1> USE DEF Exchanges
<1>1. 0 \in S
  <2>1. 0 .. 0 - 1 = {} /\ 0 \in 0 .. N
    OBVIOUS
  <2>2. QED
    BY <2>1
<1>2. ASSUME NEW d \in 1 .. N, d - 1 \in S PROVE d \in S
  <2> DEFINE e == d - 1
  <2>1. /\ e \in 0 .. N - 1 /\ d = e + 1 /\ d \in 0 .. N
        /\ 0 .. d - 1 = (0 .. e - 1) \union {e} /\ e \notin 0 .. e - 1
        /\ \A c \in 0 .. e - 1 : c \in 0 .. N - 1 /\ c # e
    OBVIOUS
  <2>2. Inv(e)
    BY <1>2
  <2> HIDE DEF e
  <2>3. /\ t[e].key # en.key
        /\ \A c \in 0 .. e - 1 : t[c].key # t[e].key
    BY <2>1
  <2>4. \A x : Seen(x, e) => Seen(x, d) /\ x.key # t[e].key
    BY <2>1, <2>3
  <2>5. Seen(t[e], d)
    BY <2>1
  <2>6. CASE put[e] = hold[e] /\ hold[d] = t[e]
    <3>1. \A x : Kept(x, e) => Kept(x, d)
      BY <2>1, <2>6
    <3>2. Kept(t[e], d)
      BY <2>6
    <3>3. Seen(hold[d], d)
      BY <2>5, <2>6
    <3>4. \A c \in 0 .. d - 1 : Seen(put[c], d)
      BY <2>1, <2>2, <2>4, <2>6
    <3>5. Kept(en, d) /\ \A b \in 0 .. d - 1 : Kept(t[b], d)
      BY <2>1, <2>2, <3>1, <3>2
    <3>6. \A c \in 0 .. d - 1 : put[c].key # hold[d].key
      BY <2>1, <2>2, <2>4, <2>6
    <3>7. \A b, c \in 0 .. d - 1 : put[b].key = put[c].key => b = c
      BY <2>1, <2>2, <2>6
    <3>8. QED
      BY <2>1, <3>3, <3>4, <3>5, <3>6, <3>7
  <2>7. CASE put[e] = t[e] /\ hold[d] = hold[e]
    <3>1. \A x : Kept(x, e) => Kept(x, d)
      BY <2>1, <2>7
    <3>2. Kept(t[e], d)
      BY <2>1, <2>7
    <3>3. Seen(hold[d], d)
      BY <2>2, <2>4, <2>7
    <3>4. \A c \in 0 .. d - 1 : Seen(put[c], d)
      BY <2>1, <2>2, <2>4, <2>5, <2>7
    <3>5. Kept(en, d) /\ \A b \in 0 .. d - 1 : Kept(t[b], d)
      BY <2>1, <2>2, <3>1, <3>2
    <3>6. \A c \in 0 .. d - 1 : put[c].key # hold[d].key
      BY <2>1, <2>2, <2>4, <2>7
    <3>7. \A b, c \in 0 .. d - 1 : put[b].key = put[c].key => b = c
      BY <2>1, <2>2, <2>4, <2>7
    <3>8. QED
      BY <2>1, <3>3, <3>4, <3>5, <3>6, <3>7
  <2>8. QED
    BY <2>1, <2>6, <2>7
<1>3. \A d \in 0 .. N : d \in S
  <2> HIDE DEF S
  <2>1. QED
    BY <1>1, <1>2, UpTo
<1>4. \A d \in 0 .. N : Inv(d)
  BY <1>3
<1>5. Inv(N)
  BY <1>4
<1>6. \A d \in 0 .. N : Seen(hold[d], d)
  BY <1>4
<1>7. QED
  BY <1>5, <1>6

LEMMA RoundsOutFromHome ==
  ASSUME HashOK, NEW n \in Nat \ {0}, NEW T, Good(T, n), NEW en \in Pairs
  PROVE  \A d \in 0 .. n - 1 :
            /\ Onward(T, Home(T, en.key), d) \in 0 .. n - 1
            /\ Distance(T, Home(T, en.key), Onward(T, Home(T, en.key), d)) = d
<1> DEFINE h == Home(T, en.key)
<1>1. T \in Tables(n) /\ h \in 0 .. n - 1
  BY TableFacts DEF Good, Pairs
<1> HIDE DEF h
<1>2. \A d \in 0 .. n - 1 : Onward(T, h, d) \in 0 .. n - 1 /\ Distance(T, h, Onward(T, h, d)) = d
  BY <1>1, RoundsOut
<1>3. QED
  BY <1>2 DEF h

(* A new key goes down the way to the first free slot: every slot there    *)
(* keeps its entry or takes the one in hand, the farther of the two.       *)
LEMMA PlaceWay ==
  ASSUME HashOK, NEW n \in Nat \ {0}, NEW T, Good(T, n), NEW en \in Pairs,
         \A p \in 0 .. n - 1 : T[p] # FreeSlot => T[p].key # en.key,
         NEW L \in 0 .. n - 1,
         T[Onward(T, Home(T, en.key), L)] = FreeSlot,
         \A c \in 0 .. L - 1 : T[Onward(T, Home(T, en.key), c)] # FreeSlot
  PROVE  LET At(d) == Onward(T, Home(T, en.key), d)
             hand  == InHand(T, en)
             R     == Place(T, en)
         IN  /\ R[At(L)] = hand[L].entry
             /\ \A d \in L + 1 .. n - 1 : R[At(d)] = T[At(d)]
             /\ \A d \in 0 .. L - 1 :
                   \/ /\ Dib(T, At(d)) < hand[d].dib
                      /\ R[At(d)] = hand[d].entry
                      /\ hand[d + 1].entry = T[At(d)]
                      /\ hand[d + 1].dib = Dib(T, At(d)) + 1
                   \/ /\ hand[d].dib <= Dib(T, At(d))
                      /\ R[At(d)] = T[At(d)]
                      /\ hand[d + 1].entry = hand[d].entry
                      /\ hand[d + 1].dib = hand[d].dib + 1
<1> DEFINE h == Home(T, en.key)
           hand == InHand(T, en)
           At(d) == Onward(T, h, d)
           R == Place(T, en)
           x(d) == Dib(T, At(d))
           N == 0 .. L - 1
           t == [d \in N |-> T[At(d)]]
           put == [d \in N |-> IF Yields(T, At(d), hand[d].dib) THEN hand[d].entry ELSE T[At(d)]]
           hold == [d \in 0 .. L |-> hand[d].entry]
<1>1. /\ T \in Tables(n) /\ DOMAIN T = 0 .. n - 1
      /\ h \in 0 .. n - 1
  BY TableFacts DEF Good, Pairs
<1>2. \A d \in 0 .. n - 1 : At(d) \in 0 .. n - 1 /\ Distance(T, h, At(d)) = d
  BY RoundsOutFromHome
<1>3. /\ hand \in [0 .. n - 1 -> Hands]
      /\ hand[0] = [entry |-> en, dib |-> 0]
      /\ \A d \in 1 .. n - 1 :
            hand[d] = IF Yields(T, At(d - 1), hand[d - 1].dib)
                        THEN [entry |-> T[At(d - 1)], dib |-> x(d - 1) + 1]
                        ELSE [entry |-> hand[d - 1].entry, dib |-> hand[d - 1].dib + 1]
  BY <1>1, HandFacts
<1>4. \A d \in N : T[At(d)] # FreeSlot
  OBVIOUS
<1>5. \A d \in N : d \in 0 .. n - 1 /\ d + 1 \in 1 .. n - 1 /\ d + 1 - 1 = d
                   /\ d \in 0 .. L /\ d + 1 \in 0 .. L
  OBVIOUS
<1> HIDE DEF hand, At, h, R
<1>6. \A d \in N : hand[d].dib \in Nat /\ x(d) \in Nat
  <2>1. ASSUME NEW d \in N PROVE x(d) \in Nat
    <3>1. T[At(d)] \in Pairs /\ At(d) \in 0 .. n - 1
      BY <1>1, <1>2, <1>4, <1>5, TableFacts
    <3>2. Home(T, T[At(d)].key) \in 0 .. n - 1
      BY <1>1, <3>1, TableFacts
    <3>3. QED
      BY <1>1, <3>1, <3>2, RoundsAll DEF Dib
  <2>2. QED
    BY <1>3, <1>5, <2>1 DEF Hands
<1>7. ASSUME NEW d \in N
      PROVE  hand[d + 1] = IF Yields(T, At(d), hand[d].dib)
                             THEN [entry |-> T[At(d)], dib |-> x(d) + 1]
                             ELSE [entry |-> hand[d].entry, dib |-> hand[d].dib + 1]
  BY <1>3, <1>5
<1> HIDE DEF x
<1>8. ASSUME NEW d \in N, Yields(T, At(d), hand[d].dib)
      PROVE  hand[d + 1].entry = T[At(d)] /\ hand[d + 1].dib = x(d) + 1 /\ x(d) < hand[d].dib
  <2>1. hand[d + 1] = [entry |-> T[At(d)], dib |-> x(d) + 1]
    BY <1>7, <1>8
  <2>2. QED
    BY <1>8, <2>1 DEF Yields, x
<1>9. ASSUME NEW d \in N, ~Yields(T, At(d), hand[d].dib)
      PROVE  /\ hand[d + 1].entry = hand[d].entry /\ hand[d + 1].dib = hand[d].dib + 1
             /\ hand[d].dib <= x(d)
  <2>1. hand[d + 1] = [entry |-> hand[d].entry, dib |-> hand[d].dib + 1]
    BY <1>7, <1>9
  <2>2. ~(x(d) < hand[d].dib)
    BY <1>4, <1>9 DEF Yields, x
  <2>3. QED
    BY <1>6, <2>1, <2>2
<1>10. \A d \in 0 .. L : hold[d] = en \/ \E c \in 0 .. d - 1 : hold[d] = t[c]
  <2>1. L \in Nat /\ 0 \in 0 .. L
    OBVIOUS
  <2>2. hold[0] = en
    BY <1>3, <2>1
  <2>3. \A d \in 0 .. L - 1 : \/ put[d] = hold[d] /\ hold[d + 1] = t[d]
                              \/ put[d] = t[d] /\ hold[d + 1] = hold[d]
    BY <1>5, <1>8, <1>9
  <2>4. \A b, c \in 0 .. L - 1 : t[b].key = t[c].key => b = c
    <3>1. ASSUME NEW b \in N, NEW c \in N, T[At(b)].key = T[At(c)].key PROVE b = c
      <4>1. At(b) = At(c)
        BY <1>1, <1>2, <1>4, <1>5, <3>1 DEF Good, KeysDiffer
      <4>2. QED
        BY <1>2, <1>5, <4>1
    <3>2. QED
      BY <3>1
  <2>5. \A c \in 0 .. L - 1 : t[c].key # en.key
    BY <1>2, <1>4, <1>5
  <2> HIDE DEF t, hold, put
  <2>6. Exchanges(L, t, hold, put, en)
    BY <2>2, <2>3, <2>4, <2>5 DEF Exchanges
  <2>7. QED
    BY <2>1, <2>6, Exchange
<1>11. \A c \in 0 .. L - 1 : ~Settles(T, en, c)
  <2>1. ASSUME NEW c \in N PROVE T[At(c)] # FreeSlot /\ T[At(c)].key # hand[c].entry.key
    <3>1. hand[c].entry = en \/ \E b \in 0 .. c - 1 : hand[c].entry = T[At(b)]
      <4>1. c \in 0 .. L /\ hold[c] = hand[c].entry
        BY <1>5
      <4>2. \A b \in 0 .. c - 1 : b \in N /\ t[b] = T[At(b)]
        OBVIOUS
      <4> HIDE DEF hold, t
      <4>3. QED
        BY <1>10, <4>1, <4>2
    <3>2. T[At(c)].key # en.key
      BY <1>2, <1>4, <1>5
    <3>3. \A b \in 0 .. c - 1 : T[At(b)].key # T[At(c)].key
      <4>1. ASSUME NEW b \in 0 .. c - 1 PROVE T[At(b)].key # T[At(c)].key
        <5>1. b \in N /\ b # c
          OBVIOUS
        <5>2. At(b) # At(c)
          BY <1>2, <1>5, <5>1
        <5>3. QED
          BY <1>1, <1>2, <1>4, <1>5, <5>1, <5>2 DEF Good, KeysDiffer
      <4>2. QED
        BY <4>1
    <3>4. QED
      BY <1>4, <3>1, <3>2, <3>3
  <2>2. QED
    BY <2>1 DEF Settles, At, h, hand
<1>12. \A d \in 0 .. n - 1 :
          R[At(d)] = IF d = L \/ (d < L /\ Yields(T, At(d), hand[d].dib))
                       THEN hand[d].entry ELSE T[At(d)]
  <2>1. Settles(T, en, L)
    BY DEF Settles, At, h
  <2>2. \A d \in 0 .. n - 1 :
          LET pos == Onward(T, Home(T, en.key), d) IN
          Place(T, en)[pos] =
              IF d = L \/ (d < L /\ Yields(T, pos, InHand(T, en)[d].dib))
                THEN InHand(T, en)[d].entry ELSE T[pos]
    BY <1>1, <1>11, <2>1, PlaceShape
  <2>3. QED
    BY <2>2 DEF R, At, h, hand
<1>13. R[At(L)] = hand[L].entry
  BY <1>12
<1>14. \A d \in L + 1 .. n - 1 : R[At(d)] = T[At(d)]
  <2>1. ASSUME NEW d \in L + 1 .. n - 1 PROVE d \in 0 .. n - 1 /\ d # L /\ ~(d < L)
    OBVIOUS
  <2>2. QED
    BY <1>12, <2>1
<1>15. ASSUME NEW d \in N
       PROVE  \/ /\ x(d) < hand[d].dib
                 /\ R[At(d)] = hand[d].entry
                 /\ hand[d + 1].entry = T[At(d)]
                 /\ hand[d + 1].dib = x(d) + 1
              \/ /\ hand[d].dib <= x(d)
                 /\ R[At(d)] = T[At(d)]
                 /\ hand[d + 1].entry = hand[d].entry
                 /\ hand[d + 1].dib = hand[d].dib + 1
  <2>1. d \in 0 .. n - 1 /\ d < L /\ d # L
    OBVIOUS
  <2>2. R[At(d)] = IF Yields(T, At(d), hand[d].dib) THEN hand[d].entry ELSE T[At(d)]
    BY <1>12, <2>1
  <2>3. QED
    BY <1>8, <1>9, <2>2
<1>16. QED
  BY <1>13, <1>14, <1>15 DEF R, At, h, hand, x, N

(* An entry with a new key: the table stays good and holds it besides.     *)
LEMMA PlaceAbsent ==
  ASSUME HashOK, NEW n \in Nat \ {0}, NEW T, Good(T, n), NEW en \in Pairs,
         \A p \in 0 .. n - 1 : T[p] # FreeSlot => T[p].key # en.key,
         \E p \in 0 .. n - 1 : T[p] = FreeSlot,
         NEW R, R = Place(T, en)
  PROVE  /\ Good(R, n)
         /\ Holding(R) = Holding(T) \union {en}
         /\ \E p \in 0 .. n - 1 : p \notin Taken(T) /\ Taken(R) = Taken(T) \union {p}
<1> DEFINE h == Home(T, en.key)
           hand == InHand(T, en)
           At(d) == Onward(T, h, d)
           x(d) == Dib(T, At(d))
           r(d) == Dib(R, At(d))
<1>1. /\ T \in Tables(n) /\ DOMAIN T = 0 .. n - 1
      /\ h \in 0 .. n - 1
  BY TableFacts DEF Good, Pairs
<1>2. \A d \in 0 .. n - 1 : At(d) \in 0 .. n - 1 /\ Distance(T, h, At(d)) = d
  BY <1>1, RoundsOut, ZenonT(30)
<1>3. \A p \in 0 .. n - 1 : \E d \in 0 .. n - 1 : p = At(d)
  <2>1. ASSUME NEW p \in 0 .. n - 1
        PROVE  Distance(T, h, p) \in 0 .. n - 1 /\ p = At(Distance(T, h, p))
    <3>1. Distance(T, h, p) \in 0 .. n - 1
      BY <1>1, RoundsAll
    <3>2. p = At(Distance(T, h, p))
      BY <1>1, RoundsAll
    <3>3. QED
      BY <3>1, <3>2
  <2>2. QED
    BY <2>1
<1>4. PICK L \in 0 .. n - 1 : T[At(L)] = FreeSlot /\ \A c \in 0 .. L - 1 : T[At(c)] # FreeSlot
  <2> DEFINE F == {d \in 0 .. n - 1 : T[At(d)] = FreeSlot}
  <2>1. F # {} /\ F \in SUBSET Nat
    BY <1>3
  <2>2. PICK L \in F : \A d \in F : L <= d
    BY <2>1, LeastElement
  <2>3. L \in 0 .. n - 1 /\ \A c \in 0 .. L - 1 : c \in 0 .. n - 1 /\ ~(L <= c)
    BY <2>2
  <2>4. QED
    BY <2>2, <2>3
<1> DEFINE N == 0 .. L - 1
           t == [d \in N |-> T[At(d)]]
           put == [d \in N |-> R[At(d)]]
           hold == [d \in 0 .. L |-> hand[d].entry]
<1>5. /\ R[At(L)] = hand[L].entry
      /\ \A d \in L + 1 .. n - 1 : R[At(d)] = T[At(d)]
      /\ \A d \in N :
            \/ /\ x(d) < hand[d].dib
               /\ R[At(d)] = hand[d].entry
               /\ hand[d + 1].entry = T[At(d)]
               /\ hand[d + 1].dib = x(d) + 1
            \/ /\ hand[d].dib <= x(d)
               /\ R[At(d)] = T[At(d)]
               /\ hand[d + 1].entry = hand[d].entry
               /\ hand[d + 1].dib = hand[d].dib + 1
  BY <1>4, PlaceWay, SMTT(30)
<1>7. \A d \in 0 .. L :
        /\ hand[d] \in Hands
        /\ hand[d].dib \in 0 .. d
        /\ hand[d].dib = Distance(T, Home(T, hand[d].entry.key), At(d))
  <2>1. T \in Tables(n) /\ L \in 0 .. n - 1
        /\ \A c \in 0 .. L - 1 : T[Onward(T, Home(T, en.key), c)] # FreeSlot
    BY <1>1, <1>4
  <2> HIDE DEF hand, At, h, N, t, put, hold
  <2>2. /\ hand = InHand(T, en)
        /\ \A d \in 0 .. L : At(d) = Onward(T, Home(T, en.key), d)
    BY DEF hand, At, h
  <2> QED
    BY <2>1, <2>2, Carried
<1>8. hand[0] = [entry |-> en, dib |-> 0]
  BY <1>1, HandFacts
<1>9. R \in Tables(n) /\ DOMAIN R = 0 .. n - 1
  BY <1>1, PlaceShape DEF Tables
<1>10. /\ \A k : Home(R, k) = Home(T, k)
       /\ \A a, b : Distance(R, a, b) = Distance(T, a, b)
  <2>1. Size(T) = n /\ Size(R) = n
    BY <1>1, <1>9, TableFacts
  <2>2. QED
    BY <2>1 DEF Home, Distance
<1>11. \A d \in N : /\ d \in 0 .. n - 1 /\ d + 1 \in 1 .. n - 1
                    /\ d \in 0 .. L /\ d + 1 \in 0 .. L
  OBVIOUS
<1>12. \A p \in 0 .. n - 1 : T[p] # FreeSlot => T[p] \in Pairs /\ Dib(T, p) \in 0 .. n - 1
  <2>1. ASSUME NEW p \in 0 .. n - 1, T[p] # FreeSlot
        PROVE  T[p] \in Pairs /\ Dib(T, p) \in 0 .. n - 1
    <3>1. T[p] \in Pairs
      BY <1>1, <2>1, TableFacts
    <3>2. Home(T, T[p].key) \in 0 .. n - 1
      BY <1>1, <3>1, TableFacts
    <3>3. Dib(T, p) \in 0 .. n - 1
      BY <1>1, <3>2, RoundsAll DEF Dib
    <3>4. QED
      BY <3>1, <3>3
  <2>2. QED
    BY <2>1
<1> HIDE DEF h, hand, At
<1>13. \A d \in 0 .. L : R[At(d)] # FreeSlot
  <2>1. \A d \in 0 .. L : hand[d].entry # FreeSlot
    BY <1>7, FreeIsNoEntry DEF Hands
  <2>2. ASSUME NEW d \in 0 .. L, d # L PROVE R[At(d)] # FreeSlot
    <3>1. d \in N
      BY <2>2
    <3>2. QED
      BY <1>4, <1>5, <2>1, <3>1
  <2>3. QED
    BY <1>5, <2>1, <2>2
<1>14. Exchanges(L, t, hold, put, en)
  <2>1. hold[0] = en
    <3>1. 0 \in 0 .. L
      OBVIOUS
    <3>2. QED
      BY <1>8, <3>1
  <2>2. \A d \in 0 .. L - 1 : \/ put[d] = hold[d] /\ hold[d + 1] = t[d]
                              \/ put[d] = t[d] /\ hold[d + 1] = hold[d]
    BY <1>5, <1>11
  <2>3. \A b, c \in 0 .. L - 1 : t[b].key = t[c].key => b = c
    <3>1. ASSUME NEW b \in N, NEW c \in N, T[At(b)].key = T[At(c)].key PROVE b = c
      <4>1. At(b) = At(c)
        BY <1>1, <1>2, <1>4, <1>11, <3>1 DEF Good, KeysDiffer
      <4>2. QED
        BY <1>2, <1>11, <4>1
    <3>2. QED
      BY <3>1
  <2>4. \A c \in 0 .. L - 1 : t[c].key # en.key
    BY <1>2, <1>4, <1>11
  <2> HIDE DEF t, hold, put
  <2>5. QED
    BY <2>1, <2>2, <2>3, <2>4 DEF Exchanges
<1>15. /\ \A c \in N : put[c] = en \/ \E b \in N : put[c] = t[b]
       /\ hold[L] = en \/ \E b \in N : hold[L] = t[b]
       /\ en = hold[L] \/ \E c \in N : put[c] = en
       /\ \A b \in N : t[b] = hold[L] \/ \E c \in N : put[c] = t[b]
       /\ \A c \in N : put[c].key # hold[L].key
       /\ \A b, c \in N : put[b].key = put[c].key => b = c
  <2>1. L \in Nat /\ L \in 0 .. L
    OBVIOUS
  <2> HIDE DEF t, hold, put
  <2>2. QED
    BY <1>14, <2>1, Exchange
<1>16. L \in 0 .. L /\ L \in 0 .. n - 1 /\ \A d \in 0 .. L : d = L \/ d \in N
  OBVIOUS
<1>17. /\ \A d \in N : put[d] = R[At(d)] /\ t[d] = T[At(d)]
       /\ hold[L] = R[At(L)]
  BY <1>5, <1>16
<1> HIDE DEF put, t, hold, N
<1>18. \A c \in 0 .. L : R[At(c)] = en \/ \E b \in N : R[At(c)] = T[At(b)]
  BY <1>15, <1>16, <1>17
<1>19. \A b, c \in 0 .. L : R[At(b)].key = R[At(c)].key => b = c
  BY <1>15, <1>16, <1>17
<1>20. /\ \E c \in 0 .. L : R[At(c)] = en
       /\ \A b \in N : \E c \in 0 .. L : R[At(c)] = T[At(b)]
  BY <1>11, <1>15, <1>16, <1>17
<1>21. \A d \in 0 .. n - 1 : d \in N \/ d = L \/ d \in L + 1 .. n - 1
  BY DEF N
<1>22. \A d \in L + 1 .. n - 1 : d \in 0 .. n - 1 /\ d \notin N /\ d # L
  BY DEF N
<1>23. KeysDiffer(R)
  <2>1. ASSUME NEW b \in 0 .. n - 1, NEW c \in 0 .. n - 1, R[At(b)] # FreeSlot, R[At(c)] # FreeSlot,
               R[At(b)].key = R[At(c)].key
        PROVE  b = c
    <3>1. ASSUME NEW e \in L + 1 .. n - 1, T[At(e)] # FreeSlot, NEW d \in 0 .. L
          PROVE  R[At(d)].key # T[At(e)].key
      <4>1. T[At(e)].key # en.key
        BY <1>2, <1>22, <3>1
      <4>2. ASSUME NEW w \in N PROVE T[At(w)].key # T[At(e)].key
        <5>1. w # e /\ w \in 0 .. n - 1 /\ e \in 0 .. n - 1
          BY <1>11, <1>22
        <5>2. At(w) # At(e) /\ At(w) \in DOMAIN T /\ At(e) \in DOMAIN T
          BY <1>1, <1>2, <5>1
        <5>3. T[At(w)] # FreeSlot
          BY <1>4 DEF N
        <5>4. QED
          BY <3>1, <5>2, <5>3 DEF Good, KeysDiffer
      <4>3. QED
        BY <1>18, <4>1, <4>2
    <3>2. CASE b \in 0 .. L /\ c \in 0 .. L
      BY <1>19, <2>1, <3>2
    <3>3. CASE b \in 0 .. L /\ c \in L + 1 .. n - 1
      BY <1>5, <2>1, <3>1, <3>3
    <3>4. CASE b \in L + 1 .. n - 1 /\ c \in 0 .. L
      BY <1>5, <2>1, <3>1, <3>4
    <3>5. CASE b \in L + 1 .. n - 1 /\ c \in L + 1 .. n - 1
      <4>1. /\ At(b) \in 0 .. n - 1 /\ At(c) \in 0 .. n - 1
            /\ R[At(b)] = T[At(b)] /\ R[At(c)] = T[At(c)]
        BY <1>2, <1>5, <2>1, <3>5
      <4>2. At(b) = At(c)
        BY <1>1, <2>1, <4>1 DEF Good, KeysDiffer
      <4>3. QED
        BY <1>2, <4>2
    <3>6. QED
      BY <1>11, <1>16, <1>21, <3>2, <3>3, <3>4, <3>5
  <2>2. ASSUME NEW p \in 0 .. n - 1, NEW q \in 0 .. n - 1, R[p] # FreeSlot, R[q] # FreeSlot,
               R[p].key = R[q].key
        PROVE  p = q
    <3>1. PICK b \in 0 .. n - 1 : p = At(b)
      BY <1>3
    <3>2. PICK c \in 0 .. n - 1 : q = At(c)
      BY <1>3
    <3>3. b = c
      BY <2>1, <2>2, <3>1, <3>2
    <3>4. QED
      BY <3>1, <3>2, <3>3
  <2>3. QED
    BY <1>9, <2>2 DEF KeysDiffer
<1>24. Holding(R) = Holding(T) \union {en}
  <2>1. \A z : z \in Holding(R) <=> \E d \in 0 .. n - 1 : z = R[At(d)] /\ z # FreeSlot
    <3>1. \A z : z \in Holding(R) <=> \E p \in 0 .. n - 1 : z = R[p] /\ z # FreeSlot
      BY <1>9 DEF Holding
    <3>2. QED
      BY <1>2, <1>3, <3>1
  <2>2. \A z : z \in Holding(T) <=> \E d \in 0 .. n - 1 : z = T[At(d)] /\ z # FreeSlot
    <3>1. \A z : z \in Holding(T) <=> \E p \in 0 .. n - 1 : z = T[p] /\ z # FreeSlot
      BY <1>1 DEF Holding
    <3>2. QED
      BY <1>2, <1>3, <3>1
  <2>3. ASSUME NEW d \in 0 .. n - 1, R[At(d)] # FreeSlot PROVE R[At(d)] \in Holding(T) \union {en}
    <3>1. CASE d \in 0 .. L
      BY <1>4, <1>11, <1>18, <2>2, <2>3, <3>1
    <3>2. CASE d \in L + 1 .. n - 1
      BY <1>5, <2>2, <2>3, <3>2
    <3>3. QED
      BY <1>11, <1>16, <1>21, <3>1, <3>2
  <2>4. \A c \in 0 .. L : c \in 0 .. n - 1
    BY <1>11, <1>16
  <2>5. ASSUME NEW d \in 0 .. n - 1, T[At(d)] # FreeSlot PROVE T[At(d)] \in Holding(R)
    <3>1. CASE d \in N
      BY <1>20, <2>1, <2>4, <2>5, <3>1
    <3>2. CASE d = L
      BY <1>4, <2>5, <3>2
    <3>3. CASE d \in L + 1 .. n - 1
      BY <1>5, <2>1, <2>5, <3>3
    <3>4. QED
      BY <1>21, <3>1, <3>2, <3>3
  <2>6. en \in Holding(R)
    BY <1>20, <2>1, <2>4, FreeIsNoEntry
  <2>7. Holding(R) \subseteq Holding(T) \union {en}
    BY <2>1, <2>3
  <2>8. Holding(T) \subseteq Holding(R)
    BY <2>2, <2>5
  <2>9. QED
    BY <2>6, <2>7, <2>8
<1>25. At(L) \in 0 .. n - 1 /\ At(L) \notin Taken(T) /\ Taken(R) = Taken(T) \union {At(L)}
  <2>1. ASSUME NEW d \in 0 .. n - 1
        PROVE  R[At(d)] # FreeSlot <=> T[At(d)] # FreeSlot \/ At(d) = At(L)
    <3>1. CASE d \in N
      <4>1. d \in 0 .. L /\ T[At(d)] # FreeSlot
        BY <1>4, <1>11, <3>1 DEF N
      <4>2. QED
        BY <1>13, <4>1
    <3>2. CASE d = L
      BY <1>13, <1>16, <3>2
    <3>3. CASE d \in L + 1 .. n - 1
      <4>1. At(d) # At(L)
        BY <1>2, <1>16, <1>22, <3>3
      <4>2. QED
        BY <1>5, <3>3, <4>1
    <3>4. QED
      BY <1>21, <3>1, <3>2, <3>3
  <2>2. At(L) \in 0 .. n - 1
    BY <1>2, <1>16
  <2>3. \A p \in 0 .. n - 1 : R[p] # FreeSlot <=> T[p] # FreeSlot \/ p = At(L)
    BY <1>3, <2>1
  <2>4. Taken(R) = Taken(T) \union {At(L)}
    BY <1>1, <1>9, <2>2, <2>3 DEF Taken
  <2>5. At(L) \notin Taken(T)
    BY <1>4 DEF Taken
  <2>6. QED
    BY <2>2, <2>4, <2>5
<1>26. /\ r(L) = hand[L].dib
       /\ \A d \in N : IF x(d) < hand[d].dib THEN r(d) = hand[d].dib ELSE r(d) = x(d)
       /\ \A d \in L + 1 .. n - 1 : r(d) = x(d)
  <2>1. r(L) = hand[L].dib
    BY <1>5, <1>7, <1>10, <1>16 DEF Dib
  <2>2. \A d \in L + 1 .. n - 1 : r(d) = x(d)
    BY <1>5, <1>10 DEF Dib
  <2>3. ASSUME NEW d \in N PROVE IF x(d) < hand[d].dib THEN r(d) = hand[d].dib ELSE r(d) = x(d)
    <3>1. d \in 0 .. L
      BY <1>11
    <3>2. x(d) \in Nat /\ hand[d].dib \in Nat
      BY <1>2, <1>4, <1>7, <1>11, <1>12 DEF N
    <3>3. CASE x(d) < hand[d].dib /\ R[At(d)] = hand[d].entry
      BY <1>7, <1>10, <3>1, <3>3 DEF Dib
    <3>4. CASE hand[d].dib <= x(d) /\ R[At(d)] = T[At(d)]
      BY <1>10, <3>2, <3>4 DEF Dib
    <3>5. QED
      BY <1>5, <3>3, <3>4
  <2>4. QED
    BY <2>1, <2>2, <2>3
<1>27. ASSUME NEW d \in 1 .. n - 1, T[At(d)] # FreeSlot, x(d) # 0
       PROVE  T[At(d - 1)] # FreeSlot /\ x(d) <= x(d - 1) + 1
  <2>1. At(d) \in DOMAIN T
    BY <1>1, <1>2
  <2>2. Distance(T, 1, At(d)) = At(d - 1)
    <3>1. h \in 0 .. n - 1 /\ d \in 0 .. n - 1 /\ d # 0
      BY <1>1
    <3>2. QED
      BY <1>1, <3>1, RoundsBack DEF At
  <2>3. QED
    BY <1>27, <2>1, <2>2 DEF Good, Chained
<1>28. ASSUME NEW d \in 0 .. L, d # 0
       PROVE  R[At(d - 1)] # FreeSlot /\ (r(d) # 0 => r(d) <= r(d - 1) + 1)
  <2> DEFINE e == d - 1
  <2>1. e \in N /\ e \in 0 .. L /\ e \in 0 .. n - 1 /\ d \in 1 .. n - 1 /\ d = e + 1
    BY <1>28 DEF N
  <2>2. R[At(e)] # FreeSlot
    BY <1>13, <2>1
  <2>3. T[At(e)] # FreeSlot /\ x(e) \in Nat
    BY <1>2, <1>4, <1>12, <2>1 DEF N
  <2>4. hand[e].dib \in Nat /\ hand[d].dib \in Nat
    BY <1>7, <2>1
  <2>5. r(e) \in Nat /\ x(e) <= r(e) /\ hand[e].dib <= r(e) /\ (r(e) = x(e) \/ r(e) = hand[e].dib)
    BY <1>26, <2>1, <2>3, <2>4
  <2>6. hand[d].dib <= r(e) + 1
    BY <1>5, <2>1, <2>3, <2>4, <2>5
  <2>7. CASE d = L
    BY <1>26, <2>2, <2>6, <2>7
  <2>8. CASE d \in N
    <3>1. T[At(d)] # FreeSlot /\ x(d) \in Nat
      BY <1>2, <1>4, <1>11, <1>12, <2>8 DEF N
    <3>2. x(d) = 0 \/ x(d) <= x(e) + 1
      BY <1>27, <2>1, <3>1
    <3>3. r(d) = x(d) \/ r(d) = hand[d].dib
      BY <1>26, <2>8
    <3> HIDE DEF x, r, e
    <3>4. r(d) # 0 => r(d) <= r(e) + 1
      BY <2>3, <2>4, <2>5, <2>6, <3>1, <3>2, <3>3
    <3>5. QED
      BY <2>2, <3>4 DEF e
  <2>9. QED
    BY <1>16, <2>7, <2>8
<1>29. ASSUME NEW d \in 1 .. n - 1, R[At(d)] # FreeSlot, r(d) # 0
       PROVE  R[At(d - 1)] # FreeSlot /\ r(d) <= r(d - 1) + 1
  <2>1. CASE d \in 0 .. L
    BY <1>28, <1>29, <2>1
  <2>2. CASE d \in L + 1 .. n - 1
    <3>1. T[At(d)] # FreeSlot /\ x(d) # 0
      BY <1>5, <1>26, <1>29, <2>2
    <3>2. T[At(d - 1)] # FreeSlot /\ x(d) <= x(d - 1) + 1
      BY <1>27, <3>1
    <3>3. d - 1 \in L + 1 .. n - 1
      <4>1. d # L + 1
        BY <1>4, <3>2
      <4>2. QED
        BY <2>2, <4>1
    <3>4. QED
      BY <1>5, <1>26, <2>2, <3>2, <3>3
  <2>3. d \in 0 .. n - 1
    OBVIOUS
  <2>4. QED
    BY <1>11, <1>16, <1>21, <2>1, <2>2, <2>3
<1>30. ASSUME R[At(0)] # FreeSlot, r(0) # 0
       PROVE  R[At(n - 1)] # FreeSlot /\ r(0) <= r(n - 1) + 1
  <2>1. 0 \in 0 .. L /\ 0 \in 0 .. n - 1 /\ n - 1 \in 0 .. n - 1
    OBVIOUS
  <2>2. hand[0].dib = 0
    BY <1>8
  <2>3. L # 0
    BY <1>26, <1>30, <2>2
  <2>4. 0 \in N
    BY <1>16, <2>1, <2>3
  <2>5. T[At(0)] # FreeSlot /\ x(0) \in Nat
    BY <1>2, <1>4, <1>12, <2>1, <2>4 DEF N
  <2>6. r(0) = x(0)
    BY <1>26, <2>2, <2>4, <2>5
  <2>7. Distance(T, 1, At(0)) = At(n - 1)
    <3>1. h \in 0 .. n - 1
      BY <1>1
    <3>2. QED
      BY <1>1, <2>1, <3>1, RoundsBack DEF At
  <2>8. T[At(n - 1)] # FreeSlot /\ x(0) <= x(n - 1) + 1
    <3>1. At(0) \in DOMAIN T
      BY <1>1, <1>2, <2>1
    <3>2. QED
      BY <1>30, <2>5, <2>6, <2>7, <3>1 DEF Good, Chained
  <2>9. n - 1 \in L + 1 .. n - 1
    <3>1. L # n - 1
      BY <1>4, <2>8
    <3>2. QED
      BY <3>1
  <2>10. QED
    BY <1>5, <1>26, <2>6, <2>8, <2>9
<1>31. Chained(R)
  <2>1. ASSUME NEW d \in 0 .. n - 1, R[At(d)] # FreeSlot, r(d) # 0
        PROVE  LET before == Distance(R, 1, At(d)) IN
               R[before] # FreeSlot /\ r(d) <= Dib(R, before) + 1
    <3>1. Distance(R, 1, At(d)) = IF d = 0 THEN At(n - 1) ELSE At(d - 1)
      <4>1. h \in 0 .. n - 1
        BY <1>1
      <4>2. Distance(T, 1, At(d)) = IF d = 0 THEN At(n - 1) ELSE At(d - 1)
        BY <1>1, <4>1, RoundsBack DEF At
      <4>3. QED
        BY <1>10, <4>2
    <3>2. CASE d = 0
      BY <1>30, <2>1, <3>1, <3>2
    <3>3. CASE d # 0
      <4>1. d \in 1 .. n - 1
        BY <3>3
      <4>2. QED
        BY <1>29, <2>1, <3>1, <3>3, <4>1
    <3>4. QED
      BY <3>2, <3>3
  <2>2. ASSUME NEW p \in 0 .. n - 1, R[p] # FreeSlot, Dib(R, p) # 0
        PROVE  LET before == Distance(R, 1, p) IN
               R[before] # FreeSlot /\ Dib(R, p) <= Dib(R, before) + 1
    <3>1. PICK d \in 0 .. n - 1 : p = At(d)
      BY <1>3
    <3>2. QED
      BY <2>1, <2>2, <3>1
  <2>3. QED
    BY <1>9, <2>2 DEF Chained
<1>32. QED
  BY <1>9, <1>23, <1>24, <1>25, <1>31 DEF Good

(* A table that holds fewer entries than it has slots has a free one.      *)
LEMMA SomeSlotFree ==
  ASSUME HashOK, NEW n \in Nat \ {0}, NEW T \in Tables(n)
  PROVE  /\ IsFiniteSet(Taken(T)) /\ Cardinality(Taken(T)) \in Nat
         /\ Cardinality(Taken(T)) < n <=> \E p \in 0 .. n - 1 : T[p] = FreeSlot
<1>1. DOMAIN T = 0 .. n - 1
  BY TableFacts
<1>2. Taken(T) \subseteq 0 .. n - 1
  BY <1>1 DEF Taken
<1>3. IsFiniteSet(0 .. n - 1) /\ Cardinality(0 .. n - 1) = n
  BY FS_Interval
<1>4. IsFiniteSet(Taken(T)) /\ Cardinality(Taken(T)) <= n
      /\ (Cardinality(Taken(T)) = n => Taken(T) = 0 .. n - 1)
  BY <1>2, <1>3, FS_Subset
<1>5. Cardinality(Taken(T)) \in Nat
  BY <1>4, FS_CardinalityType
<1>6. Taken(T) = 0 .. n - 1 => Cardinality(Taken(T)) = n
  BY <1>3
<1>7. Taken(T) = 0 .. n - 1 <=> ~\E p \in 0 .. n - 1 : T[p] = FreeSlot
  BY <1>1 DEF Taken
<1>8. Cardinality(Taken(T)) < n <=> \E p \in 0 .. n - 1 : T[p] = FreeSlot
  BY <1>4, <1>5, <1>6, <1>7
<1>9. QED
  BY <1>4, <1>5, <1>8

LEMMA EmptyGood ==
  ASSUME HashOK, NEW n \in Nat
  PROVE  /\ EmptyTable(n) \in Tables(n)
         /\ Good(EmptyTable(n), n)
         /\ Holding(EmptyTable(n)) = {} /\ Taken(EmptyTable(n)) = {}
BY DEF EmptyTable, Tables, Good, KeysDiffer, Chained, Holding, Taken

(* What hashmap__rehash has filled so far.                                 *)
Filled(T, m) ==
    LET into[pos \in 0 .. Size(T)] ==
            IF pos = 0 THEN EmptyTable(m)
            ELSE IF T[pos - 1] = FreeSlot THEN into[pos - 1]
                 ELSE Place(into[pos - 1], T[pos - 1])
    IN  into

LEMMA FilledFacts ==
  ASSUME HashOK, NEW n \in Nat \ {0}, NEW T \in Tables(n), NEW m \in Nat \ {0}
  PROVE  LET into == Filled(T, m) IN
         /\ Rehash(T, m) = into[n]
         /\ into \in [0 .. n -> Tables(m)]
         /\ into[0] = EmptyTable(m)
         /\ \A k \in 1 .. n : into[k] = IF T[k - 1] = FreeSlot THEN into[k - 1]
                                        ELSE Place(into[k - 1], T[k - 1])
<1> DEFINE Next(x, k) == IF T[k - 1] = FreeSlot THEN x ELSE Place(x, T[k - 1])
           first == EmptyTable(m)
           Body(f) == [k \in 0 .. n |-> IF k = 0 THEN first ELSE Next(f[k - 1], k)]
           step == [x \in Tables(m) \X (1 .. n) |-> Next(x[1], x[2])]
<1>1. Size(T) = n /\ DOMAIN T = 0 .. n - 1
  BY TableFacts
<1>2. ASSUME NEW x \in Tables(m), NEW k \in 1 .. n PROVE Next(x, k) \in Tables(m)
  <2>1. k - 1 \in 0 .. n - 1
    OBVIOUS
  <2>2. T[k - 1] # FreeSlot => T[k - 1] \in Pairs
    BY <2>1, TableFacts
  <2>3. T[k - 1] # FreeSlot => Place(x, T[k - 1]) \in Tables(m)
    BY <2>2, PlaceShape
  <2>4. QED
    BY <2>3
<1>3. Filled(T, m) = CHOOSE f : f = Body(f)
  BY <1>1 DEF Filled
<1>4. first \in Tables(m)
  BY EmptyGood
<1> HIDE DEF Next, first
<1>5. PICK f : IsChain(f, first, step, n)
  BY ChainExists
<1>6. /\ f = [k \in 0 .. n |-> f[k]]
      /\ \A k \in 0 .. n : f[k] = IF k = 0 THEN first ELSE step[<<f[k - 1], k>>]
  BY <1>5 DEF IsChain
<1>7. \A k \in 0 .. n : f[k] \in Tables(m)
  <2> DEFINE S == {k \in 0 .. n : f[k] \in Tables(m)}
  <2>1. 0 \in S
    <3>1. 0 \in 0 .. n
      OBVIOUS
    <3>2. f[0] = first
      BY <1>6, <3>1
    <3>3. QED
      BY <1>4, <3>1, <3>2
  <2>2. ASSUME NEW k \in 1 .. n, k - 1 \in S PROVE k \in S
    <3>1. k \in 0 .. n /\ k # 0 /\ f[k - 1] \in Tables(m)
      BY <2>2
    <3>2. f[k] = step[<<f[k - 1], k>>]
      BY <1>6, <3>1
    <3>3. f[k] = Next(f[k - 1], k)
      BY <3>1, <3>2
    <3>4. QED
      BY <1>2, <3>1, <3>3
  <2> HIDE DEF S
  <2>3. \A k \in 0 .. n : k \in S
    BY <2>1, <2>2, UpTo
  <2>4. QED
    BY <2>3 DEF S
<1>8. f = Body(f)
  <2>1. \A k \in 0 .. n : k # 0 => k \in 1 .. n /\ k - 1 \in 0 .. n
    OBVIOUS
  <2>2. \A k \in 0 .. n : f[k] = IF k = 0 THEN first ELSE Next(f[k - 1], k)
    BY <1>6, <1>7, <2>1
  <2>3. QED
    BY <1>6, <2>2
<1> DEFINE into == Filled(T, m)
<1>9. into = Body(into)
  <2> HIDE DEF Body
  <2>1. QED
    BY <1>3, <1>8
<1>10. Rehash(T, m) = into[n]
  BY <1>1 DEF Rehash, Filled
<1> HIDE DEF into
<1>11. \A k \in 0 .. n : into[k] = IF k = 0 THEN first ELSE Next(into[k - 1], k)
  BY <1>9
<1>12. \A k \in 0 .. n : into[k] \in Tables(m)
  <2> DEFINE S == {k \in 0 .. n : into[k] \in Tables(m)}
  <2>1. 0 \in S
    BY <1>4, <1>11
  <2>2. ASSUME NEW k \in 1 .. n, k - 1 \in S PROVE k \in S
    BY <1>2, <1>11, <2>2
  <2> HIDE DEF S
  <2>3. \A k \in 0 .. n : k \in S
    BY <2>1, <2>2, UpTo
  <2>4. QED
    BY <2>3 DEF S
<1>13. into \in [0 .. n -> Tables(m)]
  BY <1>9, <1>12
<1>14. \A k \in 1 .. n : into[k] = Next(into[k - 1], k)
  BY <1>11
<1>15. into[0] = first
  BY <1>11
<1>16. QED
  BY <1>10, <1>13, <1>14, <1>15 DEF into, Next, first

(* The larger table holds the same entries, as many as before.             *)
LEMMA RehashGood ==
  ASSUME HashOK, NEW n \in Nat \ {0}, NEW T, Good(T, n), NEW m \in Nat, n <= m
  PROVE  /\ Good(Rehash(T, m), m)
         /\ Holding(Rehash(T, m)) = Holding(T)
         /\ Cardinality(Taken(Rehash(T, m))) = Cardinality(Taken(T))
<1> DEFINE into == Filled(T, m)
           Below(k) == {p \in Taken(T) : p < k}
           Inv(k) == /\ Good(into[k], m)
                     /\ Holding(into[k]) = {T[p] : p \in Below(k)}
                     /\ Cardinality(Taken(into[k])) = Cardinality(Below(k))
           S == {k \in 0 .. n : Inv(k)}
<1>1. T \in Tables(n) /\ DOMAIN T = 0 .. n - 1 /\ m \in Nat \ {0}
  BY TableFacts DEF Good
<1>2. /\ Rehash(T, m) = into[n]
      /\ into \in [0 .. n -> Tables(m)]
      /\ into[0] = EmptyTable(m)
      /\ \A k \in 1 .. n : into[k] = IF T[k - 1] = FreeSlot THEN into[k - 1]
                                     ELSE Place(into[k - 1], T[k - 1])
  BY <1>1, FilledFacts, SMTT(30)
<1>3. Taken(T) \in SUBSET (0 .. n - 1) /\ IsFiniteSet(Taken(T))
  BY <1>1, SomeSlotFree DEF Taken
<1>4. \A k \in 0 .. n : IsFiniteSet(Below(k)) /\ Cardinality(Below(k)) \in Nat
                        /\ Cardinality(Below(k)) <= k
  <2>1. ASSUME NEW k \in 0 .. n
        PROVE  /\ IsFiniteSet(Below(k))
               /\ Cardinality(Below(k)) <= k
    <3>1. Below(k) \subseteq 0 .. k - 1
      BY <1>3
    <3>2. IsFiniteSet(0 .. k - 1) /\ Cardinality(0 .. k - 1) = k
      BY FS_Interval
    <3>3. QED
      BY <3>1, <3>2, FS_Subset
  <2>2. QED
    BY <2>1, FS_CardinalityType
<1> HIDE DEF into
<1>5. 0 \in S
  <2>1. Below(0) = {}
    BY <1>3
  <2>2. Inv(0)
    BY <1>1, <1>2, <2>1, EmptyGood
  <2>3. QED
    BY <2>2
<1>6. ASSUME NEW k \in 1 .. n, k - 1 \in S PROVE k \in S
  <2> DEFINE e == k - 1
  <2>1. e \in 0 .. n /\ e \in 0 .. n - 1 /\ k \in 0 .. n /\ k = e + 1 /\ e < m /\ Inv(e)
    BY <1>1, <1>6
  <2>2. into[k] = IF T[e] = FreeSlot THEN into[e] ELSE Place(into[e], T[e])
    BY <1>2
  <2> HIDE DEF e
  <2>3. CASE T[e] = FreeSlot
    <3>1. Below(k) = Below(e)
      BY <1>1, <1>3, <2>1, <2>3 DEF Taken
    <3>2. QED
      BY <2>1, <2>2, <2>3, <3>1
  <2>4. CASE T[e] # FreeSlot
    <3>1. Below(k) = Below(e) \union {e} /\ e \notin Below(e) /\ e \in Taken(T)
      BY <1>1, <1>3, <2>1, <2>4 DEF Taken
    <3>2. T[e] \in Pairs /\ into[e] \in Tables(m)
      BY <1>1, <1>2, <2>1, <2>4, TableFacts
    <3>3. \A p \in 0 .. m - 1 : into[e][p] # FreeSlot => into[e][p].key # T[e].key
      <4>1. ASSUME NEW p \in 0 .. m - 1, into[e][p] # FreeSlot PROVE into[e][p].key # T[e].key
        <5>1. into[e][p] \in Holding(into[e])
          BY <1>1, <3>2, <4>1, TableFacts DEF Holding
        <5>2. PICK q \in Below(e) : into[e][p] = T[q]
          BY <2>1, <5>1
        <5>3. q \in 0 .. n - 1 /\ q # e /\ T[q] # FreeSlot
          BY <1>1, <1>3, <3>1 DEF Taken
        <5>4. QED
          BY <1>1, <2>1, <2>4, <5>2, <5>3 DEF Good, KeysDiffer
      <4>2. QED
        BY <4>1
    <3>4. \E p \in 0 .. m - 1 : into[e][p] = FreeSlot
      <4>1. Cardinality(Taken(into[e])) < m
        <5>1. Cardinality(Taken(into[e])) = Cardinality(Below(e))
          BY <2>1
        <5>2. Cardinality(Below(e)) \in Nat /\ Cardinality(Below(e)) <= e
          BY <1>4, <2>1
        <5> HIDE DEF Below
        <5>3. QED
          BY <1>1, <2>1, <5>1, <5>2
      <4>2. QED
        BY <1>1, <3>2, <4>1, SomeSlotFree
    <3> DEFINE R == Place(into[e], T[e])
    <3>5. /\ Good(R, m)
          /\ Holding(R) = Holding(into[e]) \union {T[e]}
          /\ \E p \in 0 .. m - 1 : p \notin Taken(into[e]) /\ Taken(R) = Taken(into[e]) \union {p}
      BY <1>1, <2>1, <3>2, <3>3, <3>4, PlaceAbsent
    <3>6. Cardinality(Taken(R)) = Cardinality(Below(k))
      <4>1. PICK p \in 0 .. m - 1 : p \notin Taken(into[e]) /\ Taken(R) = Taken(into[e]) \union {p}
        BY <3>5
      <4>2. Cardinality(Taken(R)) = Cardinality(Taken(into[e])) + 1
        BY <1>1, <3>2, <4>1, SomeSlotFree, FS_AddElement
      <4>3. Cardinality(Below(k)) = Cardinality(Below(e)) + 1
        BY <1>4, <2>1, <3>1, FS_AddElement
      <4>4. QED
        BY <2>1, <4>2, <4>3
    <3>7. Holding(R) = {T[p] : p \in Below(k)}
      BY <2>1, <3>1, <3>5
    <3>8. into[k] = R
      BY <2>2, <2>4
    <3>9. QED
      BY <2>1, <3>5, <3>6, <3>7, <3>8
  <2>5. QED
    BY <2>3, <2>4
<1>7. \A k \in 0 .. n : k \in S
  <2> HIDE DEF S
  <2>1. QED
    BY <1>5, <1>6, UpTo
<1>8. Inv(n)
  <2>1. n \in 0 .. n
    OBVIOUS
  <2>2. n \in S
    BY <1>7, <2>1
  <2>3. QED
    BY <2>2
<1>9. Below(n) = Taken(T) /\ {T[p] : p \in Taken(T)} = Holding(T)
  BY <1>1, <1>3 DEF Taken, Holding
<1>10. QED
  BY <1>2, <1>8, <1>9

(* The backward shift: the table stays good and loses the one entry.       *)
LEMMA ShiftGood ==
  ASSUME HashOK, cap \in Nat \ {0}, Good(slots, cap), NEW hole \in 0 .. cap - 1,
         slots[hole] # FreeSlot, \E p \in 0 .. cap - 1 : slots[p] = FreeSlot,
         NEW R, R = ShiftedBack(hole)
  PROVE  /\ Good(R, cap)
         /\ Holding(R) = Holding(slots) \ {slots[hole]}
         /\ \E p \in Taken(slots) : Taken(R) = Taken(slots) \ {p}
<1> DEFINE n == cap
           T == slots
           At(d) == Onward(T, hole, d)
           x(d) == Dib(T, At(d))
           r(d) == Dib(R, At(d))
           Stays(d) == T[At(d + 1)] = FreeSlot \/ x(d + 1) = 0
           Ends(d) == Stays(d) /\ \A c \in 0 .. d - 1 : ~Stays(c)
<1>1. T \in Tables(n) /\ DOMAIN T = 0 .. n - 1 /\ n \in Nat \ {0}
  BY TableFacts DEF Good
<1>2. \A d \in 0 .. n - 1 : At(d) \in 0 .. n - 1 /\ Distance(T, hole, At(d)) = d
  BY <1>1, RoundsOut, ZenonT(30)
<1>3. \A p \in 0 .. n - 1 : \E d \in 0 .. n - 1 : p = At(d)
  <2>1. ASSUME NEW p \in 0 .. n - 1
        PROVE  Distance(T, hole, p) \in 0 .. n - 1 /\ p = At(Distance(T, hole, p))
    <3>1. Distance(T, hole, p) \in 0 .. n - 1
      BY <1>1, RoundsAll
    <3>2. p = At(Distance(T, hole, p))
      BY <1>1, RoundsAll
    <3>3. QED
      BY <3>1, <3>2
  <2>2. QED
    BY <2>1
<1>4. At(0) = hole
  <2>1. 0 \in 0 .. n - 1 /\ hole + 0 = hole
    OBVIOUS
  <2>2. Onward(T, hole, 0) = IF hole + 0 < n THEN hole + 0 ELSE hole + 0 - n
    BY <1>1, <2>1, TableFacts
  <2>3. QED
    BY <2>1, <2>2
<1>5. PICK K \in 0 .. n - 1 : K + 1 \in 0 .. n - 1 /\ Ends(K)
  <2> DEFINE F == {d \in 0 .. n - 1 : Stays(d)}
  <2>1. PICK b \in 0 .. n - 1 : T[At(b)] = FreeSlot
    BY <1>3
  <2>2. b # 0 /\ b - 1 \in 0 .. n - 1 /\ b - 1 + 1 = b
    BY <1>4, <2>1
  <2>3. b - 1 \in F
    BY <2>1, <2>2
  <2>4. PICK K \in F : \A d \in F : K <= d
    <3>1. F # {}
      BY <2>3
    <3>2. F \in SUBSET Nat
      OBVIOUS
    <3> HIDE DEF F
    <3>3. QED
      BY <3>1, <3>2, LeastElement
  <2>5. K \in 0 .. n - 1 /\ Stays(K) /\ K <= b - 1
    BY <2>3, <2>4
  <2>6. \A c \in 0 .. K - 1 : c \in 0 .. n - 1 /\ ~(K <= c)
    BY <2>5
  <2>7. \A c \in 0 .. K - 1 : ~Stays(c)
    BY <2>4, <2>6
  <2>8. K + 1 \in 0 .. n - 1
    BY <2>5, <2>2
  <2>9. QED
    BY <2>5, <2>7, <2>8
<1>6. ShiftLength(hole) = K
  <2> DEFINE end == CHOOSE d \in 0 .. n - 1 : Ends(d)
  <2>1. ShiftLength(hole) = end
    BY DEF ShiftLength, First
  <2>2. end \in 0 .. n - 1 /\ Ends(end)
    BY <1>5
  <2> HIDE DEF end
  <2>3. end < K => end \in 0 .. K - 1
    BY <2>2
  <2>4. K < end => K \in 0 .. end - 1
    BY <2>2
  <2>5. ~(end < K) /\ ~(K < end)
    BY <1>5, <2>2, <2>3, <2>4
  <2>6. end = K
    BY <2>2, <2>5
  <2>7. QED
    BY <2>1, <2>6
<1>7. /\ DOMAIN R = 0 .. n - 1
      /\ \A p \in 0 .. n - 1 :
            R[p] = IF Distance(T, hole, p) < K THEN T[Onward(T, p, 1)]
                   ELSE IF Distance(T, hole, p) = K THEN FreeSlot ELSE T[p]
  <2> HIDE DEF Ends
  <2>1. R = [p \in 0 .. n - 1 |->
                IF Distance(T, hole, p) < K THEN T[Onward(T, p, 1)]
                ELSE IF Distance(T, hole, p) = K THEN FreeSlot ELSE T[p]]
    BY <1>1, <1>6 DEF ShiftedBack
  <2>2. QED
    BY <2>1
<1>8. \A d \in 0 .. K - 1 : /\ d \in 0 .. n - 1 /\ d + 1 \in 0 .. n - 1
                            /\ d + 1 \in 1 .. n - 1 /\ d + 1 - 1 = d
  OBVIOUS
<1>9. \A d \in 0 .. K - 1 : Onward(T, At(d), 1) = At(d + 1)
  <2>1. ASSUME NEW d \in 0 .. K - 1 PROVE Onward(T, At(d), 1) = At(d + 1)
    <3>1. d + 1 \in 1 .. n - 1 /\ d + 1 - 1 = d
      BY <1>8
    <3>2. \A e \in 1 .. n - 1 : Onward(T, Onward(T, hole, e - 1), 1) = Onward(T, hole, e)
      BY <1>1, RoundsOn
    <3>3. QED
      BY <3>1, <3>2
  <2>2. QED
    BY <2>1
<1>10. /\ \A d \in 0 .. K - 1 : R[At(d)] = T[At(d + 1)]
       /\ R[At(K)] = FreeSlot
       /\ \A d \in K + 1 .. n - 1 : R[At(d)] = T[At(d)]
  <2>1. \A d \in 0 .. n - 1 : R[At(d)] = IF d < K THEN T[Onward(T, At(d), 1)]
                                         ELSE IF d = K THEN FreeSlot ELSE T[At(d)]
    <3> HIDE DEF At
    <3>1. QED
      BY <1>2, <1>7
  <2>2. \A d \in 0 .. K - 1 : d < K
    OBVIOUS
  <2>3. \A d \in 0 .. K - 1 : R[At(d)] = T[At(d + 1)]
    BY <1>8, <1>9, <2>1, <2>2
  <2>4. R[At(K)] = FreeSlot
    BY <2>1
  <2>5. \A d \in K + 1 .. n - 1 : d \in 0 .. n - 1 /\ ~(d < K) /\ d # K
    OBVIOUS
  <2>6. \A d \in K + 1 .. n - 1 : R[At(d)] = T[At(d)]
    BY <2>1, <2>5
  <2>7. QED
    BY <2>3, <2>4, <2>6
<1> HIDE DEF At
<1>11. \A d \in 0 .. n - 1 : d \in 0 .. K - 1 \/ d = K \/ d \in K + 1 .. n - 1
  OBVIOUS
<1>12. \A d \in K + 1 .. n - 1 : d \in 0 .. n - 1 /\ d # K /\ d \notin 0 .. K - 1
  OBVIOUS
<1>13. R \in Tables(n)
  <2>1. ASSUME NEW p \in 0 .. n - 1 PROVE R[p] \in Pairs \union {FreeSlot}
    <3>1. PICK d \in 0 .. n - 1 : p = At(d)
      BY <1>3
    <3>2. \A q \in 0 .. n - 1 : T[q] \in Pairs \union {FreeSlot}
      BY <1>1 DEF Tables
    <3>3. CASE d \in 0 .. K - 1
      BY <1>2, <1>8, <1>10, <3>1, <3>2, <3>3
    <3>4. CASE d = K
      BY <1>10, <3>1, <3>4
    <3>5. CASE d \in K + 1 .. n - 1
      BY <1>10, <3>1, <3>2, <3>5
    <3>6. QED
      BY <1>11, <3>3, <3>4, <3>5
  <2>2. R = [p \in 0 .. n - 1 |-> R[p]]
    BY <1>7 DEF ShiftedBack
  <2>3. QED
    BY <2>1, <2>2 DEF Tables
<1>14. /\ \A k : Home(R, k) = Home(T, k)
       /\ \A a, b : Distance(R, a, b) = Distance(T, a, b)
  <2>1. Size(T) = n /\ Size(R) = n
    BY <1>1, <1>13, TableFacts
  <2>2. QED
    BY <2>1 DEF Home, Distance
<1>15. \A p \in 0 .. n - 1 :
        T[p] # FreeSlot => Home(T, T[p].key) \in 0 .. n - 1 /\ Dib(T, p) \in 0 .. n - 1
  <2>1. ASSUME NEW p \in 0 .. n - 1, T[p] # FreeSlot
        PROVE  Home(T, T[p].key) \in 0 .. n - 1 /\ Dib(T, p) \in 0 .. n - 1
    <3>1. T[p] \in Pairs
      BY <1>1, <2>1, TableFacts
    <3>2. Home(T, T[p].key) \in 0 .. n - 1
      BY <1>1, <3>1, TableFacts
    <3>3. Dib(T, p) \in 0 .. n - 1
      BY <1>1, <3>2, RoundsAll DEF Dib
    <3>4. QED
      BY <3>2, <3>3
  <2>2. QED
    BY <2>1
<1>16. /\ T[At(0)] # FreeSlot /\ T[At(0)] = T[hole]
       /\ \A d \in 0 .. K - 1 : T[At(d + 1)] # FreeSlot /\ x(d + 1) # 0
       /\ T[At(K + 1)] = FreeSlot \/ x(K + 1) = 0
  BY <1>4, <1>5
<1> HIDE DEF Stays, Ends, T
<1>17. ASSUME NEW d \in 0 .. K - 1 PROVE x(d + 1) \in Nat /\ r(d) = x(d + 1) - 1
  <2> DEFINE g == Home(T, T[At(d + 1)].key)
  <2>1. /\ d + 1 \in 1 .. n - 1 /\ d + 1 - 1 = d
        /\ At(d) \in 0 .. n - 1 /\ At(d + 1) \in 0 .. n - 1 /\ g \in 0 .. n - 1
    BY <1>2, <1>8, <1>15, <1>16
  <2>2. x(d + 1) = Distance(T, g, At(d + 1)) /\ r(d) = Distance(T, g, At(d))
    BY <1>10, <1>14 DEF Dib
  <2>3. hole \in 0 .. n - 1
    OBVIOUS
  <2> HIDE DEF g
  <2>4. Distance(T, g, At(d + 1)) = IF Distance(T, g, At(d + 1 - 1)) = n - 1 THEN 0
                                    ELSE Distance(T, g, At(d + 1 - 1)) + 1
    BY <1>1, <2>1, <2>3, RoundsNext, SMTT(30) DEF At
  <2>5. Distance(T, g, At(d)) \in 0 .. n - 1
    BY <1>1, <2>1, RoundsAll
  <2>6. x(d + 1) # 0
    BY <1>16
  <2> HIDE DEF x, r
  <2>7. x(d + 1) = Distance(T, g, At(d)) + 1
    BY <2>1, <2>2, <2>4, <2>5, <2>6
  <2>8. QED
    BY <2>2, <2>5, <2>7
<1>18. \A d \in K + 1 .. n - 1 : r(d) = x(d)
  BY <1>10, <1>14 DEF Dib
<1>19. ASSUME NEW d \in 0 .. n - 1, T[At(d)] # FreeSlot, x(d) # 0
       PROVE  LET e == IF d = 0 THEN n - 1 ELSE d - 1 IN
              T[At(e)] # FreeSlot /\ x(d) <= x(e) + 1
  <2>1. At(d) \in DOMAIN T
    BY <1>1, <1>2
  <2>2. Distance(T, 1, At(d)) = IF d = 0 THEN At(n - 1) ELSE At(d - 1)
    BY <1>1, RoundsBack DEF At
  <2>3. Good(T, n)
    BY DEF T
  <2>4. QED
    BY <1>19, <2>1, <2>2, <2>3 DEF Good, Chained
<1>20. \A d \in 0 .. n - 1 : T[At(d)] # FreeSlot => x(d) \in Nat
  BY <1>2, <1>15
<1>21. ASSUME NEW d \in 0 .. n - 1, R[At(d)] # FreeSlot, r(d) # 0
       PROVE  LET e == IF d = 0 THEN n - 1 ELSE d - 1 IN
              R[At(e)] # FreeSlot /\ r(d) <= r(e) + 1
  <2>1. CASE d \in 0 .. K - 1 /\ d # 0
    <3> DEFINE e == d - 1
    <3>1. /\ e \in 0 .. K - 1 /\ e + 1 = d /\ d \in 0 .. K - 1
          /\ d + 1 \in 0 .. n - 1 /\ d + 1 # 0 /\ d + 1 - 1 = d
      BY <2>1
    <3> HIDE DEF e
    <3>2. R[At(e)] # FreeSlot /\ r(e) = x(d) - 1 /\ x(d) \in Nat
      BY <1>10, <1>16, <1>17, <3>1
    <3>3. r(d) = x(d + 1) - 1 /\ x(d + 1) \in Nat
      BY <1>17, <3>1
    <3>4. x(d + 1) <= x(d) + 1
      BY <1>16, <1>19, <3>1
    <3> HIDE DEF x, r
    <3>5. r(d) <= r(e) + 1
      BY <3>2, <3>3, <3>4
    <3>6. QED
      BY <2>1, <3>2, <3>5 DEF e
  <2>2. CASE d \in 0 .. K - 1 /\ d = 0
    <3>1. /\ 0 \in 0 .. K - 1 /\ 0 + 1 = 1 /\ 1 \in 0 .. n - 1 /\ 1 # 0
          /\ 1 - 1 = 0 /\ 0 \in 0 .. n - 1 /\ n - 1 \in 0 .. n - 1
      BY <1>8, <2>2
    <3>2. r(0) = x(1) - 1 /\ x(1) \in Nat /\ x(1) # 0 /\ T[At(1)] # FreeSlot
      BY <1>16, <1>17, <3>1
    <3>3. x(1) <= x(0) + 1 /\ x(0) \in Nat
      BY <1>16, <1>19, <1>20, <3>1, <3>2
    <3>4. x(0) # 0
      BY <1>21, <2>2, <3>2, <3>3
    <3>5. T[At(n - 1)] # FreeSlot /\ x(0) <= x(n - 1) + 1
      BY <1>16, <1>19, <3>1, <3>4
    <3>6. x(n - 1) \in Nat
      BY <1>20, <3>1, <3>5
    <3>7. n - 1 \in K + 1 .. n - 1
      BY <1>5
    <3>8. R[At(n - 1)] # FreeSlot /\ r(n - 1) = x(n - 1)
      BY <1>10, <1>18, <3>5, <3>7
    <3> HIDE DEF x, r, n
    <3>9. r(0) <= r(n - 1) + 1
      BY <3>2, <3>3, <3>5, <3>6, <3>8
    <3>10. QED
      BY <2>2, <3>8, <3>9
  <2>3. CASE d \in K + 1 .. n - 1
    <3> DEFINE e == d - 1
    <3>1. d # 0 /\ r(d) = x(d) /\ T[At(d)] # FreeSlot
      BY <1>10, <1>18, <1>21, <2>3
    <3>2. d # K + 1
      BY <1>16, <1>21, <3>1
    <3>3. e \in K + 1 .. n - 1
      BY <2>3, <3>2
    <3>4. T[At(e)] # FreeSlot /\ x(d) <= x(e) + 1
      BY <1>19, <1>21, <3>1
    <3>5. R[At(e)] # FreeSlot /\ r(e) = x(e)
      BY <1>10, <1>18, <3>3, <3>4
    <3>6. QED
      BY <3>1, <3>4, <3>5
  <2>4. d # K
    BY <1>10, <1>21
  <2>5. QED
    BY <1>11, <2>1, <2>2, <2>3, <2>4
<1>22. Chained(R)
  <2>1. ASSUME NEW p \in 0 .. n - 1, R[p] # FreeSlot, Dib(R, p) # 0
        PROVE  LET before == Distance(R, 1, p) IN
               R[before] # FreeSlot /\ Dib(R, p) <= Dib(R, before) + 1
    <3>1. PICK d \in 0 .. n - 1 : p = At(d)
      BY <1>3
    <3>2. Distance(T, 1, At(d)) = IF d = 0 THEN At(n - 1) ELSE At(d - 1)
      BY <1>1, RoundsBack DEF At
    <3>3. Distance(R, 1, p) = At(IF d = 0 THEN n - 1 ELSE d - 1)
      BY <1>14, <3>1, <3>2
    <3>4. QED
      BY <1>21, <2>1, <3>1, <3>3
  <2>2. QED
    BY <1>7, <2>1 DEF Chained
<1> DEFINE src(d) == IF d < K THEN d + 1 ELSE d
<1>23. \A d \in 0 .. n - 1 : d # K =>
          /\ src(d) \in 0 .. n - 1 /\ src(d) # 0
          /\ R[At(d)] = T[At(src(d))]
  <2>1. ASSUME NEW d \in 0 .. K - 1
        PROVE  src(d) \in 0 .. n - 1 /\ src(d) # 0 /\ R[At(d)] = T[At(src(d))]
    BY <1>8, <1>10
  <2>2. ASSUME NEW d \in K + 1 .. n - 1
        PROVE  src(d) \in 0 .. n - 1 /\ src(d) # 0 /\ R[At(d)] = T[At(src(d))]
    BY <1>10
  <2>3. QED
    BY <1>11, <2>1, <2>2
<1>24. \A b, c \in 0 .. n - 1 : b # K /\ c # K /\ src(b) = src(c) => b = c
  OBVIOUS
<1>25. \A e \in 0 .. n - 1 : e # 0 => \E d \in 0 .. n - 1 : d # K /\ src(d) = e
  <2>1. ASSUME NEW e \in 0 .. n - 1, e # 0 PROVE \E d \in 0 .. n - 1 : d # K /\ src(d) = e
    <3>1. CASE e <= K
      <4>1. e - 1 \in 0 .. n - 1 /\ e - 1 # K /\ src(e - 1) = e
        BY <2>1, <3>1
      <4>2. QED
        BY <4>1
    <3>2. CASE e > K
      BY <3>2
    <3>3. QED
      BY <3>1, <3>2
  <2>2. QED
    BY <2>1
<1> HIDE DEF src
<1>26. \A b, c \in 0 .. n - 1 :
        T[At(b)] # FreeSlot /\ T[At(c)] # FreeSlot /\ T[At(b)].key = T[At(c)].key => b = c
  <2>1. ASSUME NEW b \in 0 .. n - 1, NEW c \in 0 .. n - 1, T[At(b)] # FreeSlot, T[At(c)] # FreeSlot,
               T[At(b)].key = T[At(c)].key
        PROVE  b = c
    <3>1. At(b) \in DOMAIN T /\ At(c) \in DOMAIN T
      BY <1>1, <1>2
    <3>2. KeysDiffer(T)
      BY DEF Good, T
    <3>3. At(b) = At(c)
      BY <2>1, <3>1, <3>2 DEF KeysDiffer
    <3>4. QED
      BY <1>2, <3>3
  <2>2. QED
    BY <2>1
<1>27. KeysDiffer(R)
  <2>1. ASSUME NEW p \in 0 .. n - 1, NEW q \in 0 .. n - 1, R[p] # FreeSlot, R[q] # FreeSlot,
               R[p].key = R[q].key
        PROVE  p = q
    <3>1. PICK b \in 0 .. n - 1 : p = At(b)
      BY <1>3
    <3>2. PICK c \in 0 .. n - 1 : q = At(c)
      BY <1>3
    <3>3. b # K /\ c # K
      BY <1>10, <2>1, <3>1, <3>2
    <3>4. src(b) = src(c)
      BY <1>23, <1>26, <2>1, <3>1, <3>2, <3>3
    <3>5. QED
      BY <1>24, <3>1, <3>2, <3>3, <3>4
  <2>2. QED
    BY <1>7, <2>1 DEF KeysDiffer
<1>28. Holding(R) = Holding(T) \ {T[hole]}
  <2>1. \A z : z \in Holding(R) <=> \E d \in 0 .. n - 1 : z = R[At(d)] /\ z # FreeSlot
    <3>1. \A z : z \in Holding(R) <=> \E p \in 0 .. n - 1 : z = R[p] /\ z # FreeSlot
      BY <1>7 DEF Holding
    <3>2. QED
      BY <1>2, <1>3, <3>1
  <2>2. \A z : z \in Holding(T) <=> \E d \in 0 .. n - 1 : z = T[At(d)] /\ z # FreeSlot
    <3>1. \A z : z \in Holding(T) <=> \E p \in 0 .. n - 1 : z = T[p] /\ z # FreeSlot
      BY <1>1 DEF Holding
    <3>2. QED
      BY <1>2, <1>3, <3>1
  <2>3. ASSUME NEW d \in 0 .. n - 1, R[At(d)] # FreeSlot PROVE R[At(d)] \in Holding(T) \ {T[hole]}
    <3>1. d # K
      BY <1>10, <2>3
    <3>2. src(d) \in 0 .. n - 1 /\ src(d) # 0 /\ R[At(d)] = T[At(src(d))]
      BY <1>23, <3>1
    <3>3. T[At(src(d))] # T[At(0)]
      <4>1. 0 \in 0 .. n - 1
        OBVIOUS
      <4>2. QED
        BY <1>16, <1>26, <3>2, <4>1
    <3>4. QED
      BY <1>16, <2>2, <2>3, <3>2, <3>3
  <2>4. ASSUME NEW e \in 0 .. n - 1, T[At(e)] # FreeSlot, T[At(e)] # T[hole]
        PROVE  T[At(e)] \in Holding(R)
    <3>1. e # 0
      BY <1>16, <2>4
    <3>2. PICK d \in 0 .. n - 1 : d # K /\ src(d) = e
      BY <1>25, <3>1
    <3>3. R[At(d)] = T[At(e)]
      BY <1>23, <3>2
    <3>4. QED
      BY <2>1, <2>4, <3>3
  <2>5. Holding(R) \subseteq Holding(T) \ {T[hole]}
    BY <2>1, <2>3
  <2>6. Holding(T) \ {T[hole]} \subseteq Holding(R)
    BY <2>2, <2>4
  <2>7. QED
    BY <2>5, <2>6
<1>29. At(K) \in Taken(T) /\ Taken(R) = Taken(T) \ {At(K)}
  <2>1. \A d \in 0 .. K : T[At(d)] # FreeSlot
    <3>1. ASSUME NEW d \in 0 .. K, d # 0 PROVE T[At(d)] # FreeSlot
      <4>1. d - 1 \in 0 .. K - 1 /\ d - 1 + 1 = d
        BY <3>1
      <4>2. QED
        BY <1>16, <4>1
    <3>2. QED
      BY <1>16, <3>1
  <2>2. K \in 0 .. K /\ \A d \in 0 .. K - 1 : d \in 0 .. K /\ d # K
    OBVIOUS
  <2>3. ASSUME NEW d \in 0 .. n - 1
        PROVE  R[At(d)] # FreeSlot <=> T[At(d)] # FreeSlot /\ At(d) # At(K)
    <3>1. At(d) = At(K) <=> d = K
      BY <1>2
    <3>2. CASE d \in 0 .. K - 1
      BY <1>10, <1>16, <2>1, <2>2, <3>1, <3>2
    <3>3. CASE d = K
      BY <1>10, <3>3
    <3>4. CASE d \in K + 1 .. n - 1
      BY <1>10, <1>12, <3>1, <3>4
    <3>5. QED
      BY <1>11, <3>2, <3>3, <3>4
  <2>4. \A p \in 0 .. n - 1 : R[p] # FreeSlot <=> T[p] # FreeSlot /\ p # At(K)
    BY <1>3, <2>3
  <2>5. Taken(R) = Taken(T) \ {At(K)}
    BY <1>1, <1>7, <2>4 DEF Taken
  <2>6. At(K) \in Taken(T)
    BY <1>1, <1>2, <2>1, <2>2 DEF Taken
  <2>7. QED
    BY <2>5, <2>6
<1>30. QED
  BY <1>13, <1>22, <1>27, <1>28, <1>29 DEF Good, T

(* The inductive invariant: the order of the chains, keys apart, an exact  *)
(* count, and a free slot in every table that has any.                     *)
HashInv ==
    /\ HashOK
    /\ cap \in Nat
    /\ Good(slots, cap)
    /\ entries = Cardinality(Taken(slots))
    /\ cap # 0 => entries < cap

(* The probe finds a key wherever it is.                                   *)
LEMMA ProbeFinds ==
  ASSUME HashInv, NEW key \in Keys
  PROVE  Probe(key) = {pos \in 0 .. cap - 1 : slots[pos] # FreeSlot /\ slots[pos].key = key}
<1> DEFINE h == Home(slots, key)
           At(d) == Onward(slots, h, d)
           Found(p) == slots[p] # FreeSlot /\ slots[p].key = key
           Ends(d) == \/ slots[At(d)] = FreeSlot \/ slots[At(d)].key = key
                      \/ Dib(slots, At(d)) < d
           end == First(cap, Ends)
<1>1. CASE cap = 0
  <2>1. 0 .. cap - 1 = {}
    BY <1>1
  <2>2. Probe(key) = {}
    BY <1>1 DEF Probe
  <2>3. QED
    BY <2>1, <2>2
<1>2. CASE cap # 0
  <2> DEFINE n == cap
  <2>1. n \in Nat \ {0} /\ HashOK /\ Good(slots, n) /\ slots \in Tables(n)
    BY <1>2 DEF HashInv, Good
  <2>2. DOMAIN slots = 0 .. n - 1 /\ h \in 0 .. n - 1
    BY <2>1, TableFacts
  <2>3. \A d \in 0 .. n - 1 : At(d) \in 0 .. n - 1
    BY <2>1, <2>2, RoundsOut
  <2>4. \A p \in 0 .. n - 1 : \E d \in 0 .. n - 1 : p = At(d)
    <3>1. ASSUME NEW p \in 0 .. n - 1
          PROVE  Distance(slots, h, p) \in 0 .. n - 1 /\ p = At(Distance(slots, h, p))
      <4>1. Distance(slots, h, p) \in 0 .. n - 1
        BY <2>1, <2>2, RoundsAll
      <4>2. p = At(Distance(slots, h, p))
        BY <2>1, <2>2, RoundsAll
      <4>3. QED
        BY <4>1, <4>2
    <3>2. QED
      BY <3>1
  <2>5. \E d \in 0 .. n - 1 : Ends(d)
    <3>1. \E p \in 0 .. n - 1 : slots[p] = FreeSlot
      BY <1>2, <2>1, SomeSlotFree DEF HashInv
    <3>2. QED
      BY <2>4, <3>1
  <2> HIDE DEF Ends
  <2>6. end \in 0 .. n - 1 /\ Ends(end) /\ \A c \in 0 .. end - 1 : ~Ends(c)
    <3> DEFINE F == {d \in 0 .. n - 1 : Ends(d)}
    <3>1. F # {}
      BY <2>5
    <3>2. F \in SUBSET Nat
      OBVIOUS
    <3>3. PICK E \in F : \A d \in F : E <= d
      <4> HIDE DEF F
      <4>1. QED
        BY <3>1, <3>2, LeastElement
    <3>4. E \in 0 .. n - 1 /\ Ends(E)
      OBVIOUS
    <3>5. \A c \in 0 .. E - 1 : c \in 0 .. n - 1 /\ ~(E <= c)
      BY <2>1, <3>4
    <3>6. \A c \in 0 .. E - 1 : ~Ends(c)
      BY <3>3, <3>5
    <3>7. QED
      BY <3>4, <3>6 DEF First
  <2>7. Probe(key) = {pos \in {At(end)} : Found(pos)}
    BY <1>2 DEF Probe, Ends
  <2> HIDE DEF end
  <2>8. ASSUME NEW p \in 0 .. n - 1, Found(p) PROVE p = At(end)
    <3>1. PICK d \in 0 .. n - 1 : p = At(d)
      BY <2>4
    <3>2. \A c \in 0 .. d - 1 : slots[At(c)] # FreeSlot /\ Dib(slots, At(c)) >= c
      BY <2>1, <2>2, <2>8, <3>1, Approach
    <3>3. Ends(d)
      BY <2>8, <3>1 DEF Ends
    <3>4. ~(d < end)
      <4>1. d < end => d \in 0 .. end - 1
        BY <2>6
      <4>2. QED
        BY <2>6, <3>3, <4>1
    <3>5. ASSUME end < d PROVE FALSE
      <4>1. end \in 0 .. d - 1
        BY <2>6, <3>5
      <4>2. slots[At(end)] # FreeSlot /\ Dib(slots, At(end)) >= end /\ At(end) \in 0 .. n - 1
        BY <2>3, <2>6, <3>2, <4>1
      <4>3. Dib(slots, At(end)) \in 0 .. n - 1
        <5>1. slots[At(end)] \in Pairs
          BY <2>1, <4>2, TableFacts
        <5>2. Home(slots, slots[At(end)].key) \in 0 .. n - 1
          BY <2>1, <5>1, TableFacts
        <5>3. QED
          BY <2>1, <4>2, <5>2, RoundsAll DEF Dib
      <4>4. slots[At(end)].key = key
        <5>1. ~(Dib(slots, At(end)) < end)
          BY <2>6, <4>2, <4>3
        <5>2. QED
          BY <2>6, <4>2, <5>1 DEF Ends
      <4>5. At(end) = p
        BY <2>1, <2>2, <2>8, <4>2, <4>4 DEF Good, KeysDiffer
      <4>6. Distance(slots, h, At(end)) = end /\ Distance(slots, h, At(d)) = d
        BY <2>1, <2>2, <2>6, RoundsOut
      <4>7. QED
        BY <3>1, <3>5, <4>5, <4>6
    <3>6. d = end
      BY <2>6, <3>4, <3>5
    <3>7. QED
      BY <3>1, <3>6
  <2>9. At(end) \in 0 .. n - 1
    BY <2>3, <2>6
  <2>10. QED
    BY <2>7, <2>8, <2>9
<1>3. QED
  BY <1>1, <1>2

(* The map the caller sees is what the table holds.                        *)
LEMMA MappingFacts ==
  ASSUME HashInv
  PROVE  /\ Holding(slots) \subseteq Pairs
         /\ \A a, b \in Holding(slots) : a.key = b.key => a = b
         /\ DOMAIN Mapping = {en.key : en \in Holding(slots)}
         /\ Mapping = [key \in DOMAIN Mapping |-> Mapping[key]]
         /\ \A en \in Holding(slots) : Mapping[en.key] = en.val
         /\ \A key \in Keys : Probe(key) # {} <=> \E en \in Holding(slots) : en.key = key
<1>1. /\ slots \in Tables(cap) /\ DOMAIN slots = 0 .. cap - 1
      /\ KeysDiffer(slots)
  BY DEF HashInv, Good, Tables
<1>2. Holding(slots) \subseteq Pairs
  BY <1>1 DEF Holding, Tables
<1>3. \A key \in Keys : Probe(key) # {} <=> \E en \in Holding(slots) : en.key = key
  <2>1. ASSUME NEW key \in Keys PROVE Probe(key) # {} <=> \E en \in Holding(slots) : en.key = key
    <3>1. Probe(key) = {pos \in 0 .. cap - 1 : slots[pos] # FreeSlot /\ slots[pos].key = key}
      BY ProbeFinds
    <3>2. \A z : z \in Holding(slots) <=> \E p \in 0 .. cap - 1 : z = slots[p] /\ z # FreeSlot
      BY <1>1 DEF Holding
    <3>3. QED
      BY <3>1, <3>2
  <2>2. QED
    BY <2>1
<1>4. \A a, b \in Holding(slots) : a.key = b.key => a = b
  <2>1. \A z : z \in Holding(slots) <=> \E p \in 0 .. cap - 1 : z = slots[p] /\ z # FreeSlot
    BY <1>1 DEF Holding
  <2>2. QED
    BY <1>1, <2>1 DEF KeysDiffer
<1>5. Mapping = [key \in {k \in Keys : Probe(k) # {}} |->
                    slots[CHOOSE pos \in Probe(key) : TRUE].val]
  BY DEF Mapping
<1>6. DOMAIN Mapping = {k \in Keys : Probe(k) # {}}
  BY <1>5
<1>7. \A en \in Holding(slots) : en.key \in Keys
  BY <1>2 DEF Pairs
<1>8. DOMAIN Mapping = {en.key : en \in Holding(slots)}
  BY <1>3, <1>6, <1>7
<1>9. ASSUME NEW en \in Holding(slots) PROVE Mapping[en.key] = en.val
  <2> DEFINE pos == CHOOSE p \in Probe(en.key) : TRUE
  <2>1. en.key \in Keys /\ Probe(en.key) # {}
    BY <1>3, <1>7
  <2>2. pos \in Probe(en.key)
    BY <2>1
  <2>3. pos \in 0 .. cap - 1 /\ slots[pos] # FreeSlot /\ slots[pos].key = en.key
    BY <2>1, <2>2, ProbeFinds
  <2>4. slots[pos] \in Holding(slots)
    BY <1>1, <2>3 DEF Holding
  <2>5. slots[pos] = en
    BY <1>4, <2>3, <2>4
  <2>6. Mapping[en.key] = slots[pos].val
    BY <1>5, <2>1
  <2>7. QED
    BY <2>5, <2>6
<1>10. Mapping = [key \in DOMAIN Mapping |-> Mapping[key]]
  BY <1>5, <1>6
<1>11. QED
  BY <1>2, <1>3, <1>4, <1>8, <1>9, <1>10

(* What is good stays good while the hash values are what they were.       *)
LEMMA GoodLater ==
  ASSUME hash' = hash, HashOK, NEW n \in Nat, Good(slots', n), cap' = n
  PROVE  HashOK' /\ (Good(slots, cap))'
BY DEF HashOK, Good, Tables, KeysDiffer, Chained, Dib, Home, Distance, Size

(* The table hashmap_set inserts into holds the same, with room for more.  *)
LEMMA GrownFacts ==
  ASSUME HashInv
  PROVE  \E m \in Nat \ {0} :
            /\ Good(Grown, m) /\ Size(Grown) = m /\ DOMAIN Grown = 0 .. m - 1
            /\ Holding(Grown) = Holding(slots)
            /\ Cardinality(Taken(Grown)) = entries
            /\ entries + 1 < m
<1>1. HashOK /\ cap \in Nat /\ Good(slots, cap) /\ slots \in Tables(cap)
  BY DEF HashInv, Good
<1>2. \A m \in Nat \ {0} : Good(Grown, m) => Size(Grown) = m /\ DOMAIN Grown = 0 .. m - 1
  BY <1>1, TableFacts DEF Good
<1>3. CASE cap = 0
  <2>1. Holding(slots) = {} /\ Taken(slots) = {}
    <3>1. DOMAIN slots = {}
      BY <1>1, <1>3 DEF Tables
    <3>2. QED
      BY <3>1 DEF Holding, Taken
  <2>2. entries = 0
    BY <2>1, FS_EmptySet DEF HashInv
  <2>3. Grown = EmptyTable(InitialCapacity)
    BY <1>3 DEF Grown
  <2>4. /\ Good(Grown, InitialCapacity)
        /\ Holding(Grown) = {} /\ Taken(Grown) = {}
    BY <1>1, <2>3, EmptyGood
  <2>5. InitialCapacity \in Nat \ {0} /\ entries + 1 < InitialCapacity
    BY <2>2
  <2>6. Cardinality(Taken(Grown)) = entries
    BY <2>2, <2>4, FS_EmptySet
  <2>7. QED
    BY <1>2, <2>1, <2>4, <2>5, <2>6
<1>4. CASE cap # 0
  <2>1. cap \in Nat \ {0} /\ entries < cap /\ entries = Cardinality(Taken(slots)) /\ entries \in Nat
    BY <1>1, <1>4, SomeSlotFree DEF HashInv
  <2>2. CASE (entries + 1) * 8 >= cap * 7
    <3> DEFINE m == 2 * cap
    <3>1. m \in Nat \ {0} /\ cap <= m /\ entries + 1 < m
      BY <2>1
    <3>2. Grown = Rehash(slots, m)
      BY <1>4, <2>2 DEF Grown
    <3> HIDE DEF m
    <3>3. /\ Good(Grown, m) /\ Holding(Grown) = Holding(slots)
          /\ Cardinality(Taken(Grown)) = Cardinality(Taken(slots))
      BY <1>1, <2>1, <3>1, <3>2, RehashGood
    <3>4. QED
      BY <1>2, <2>1, <3>1, <3>3
  <2>3. CASE ~((entries + 1) * 8 >= cap * 7)
    <3>1. Grown = slots
      BY <1>4, <2>3 DEF Grown
    <3>2. entries + 1 < cap
      BY <2>1, <2>3
    <3>3. QED
      BY <1>1, <1>2, <2>1, <3>1, <3>2
  <2>4. QED
    BY <2>2, <2>3
<1>5. QED
  BY <1>3, <1>4

(* A set puts the entry in and keeps every other.                          *)
LEMMA SetKeeps ==
  ASSUME HashInv, NEW key \in Keys, NEW val \in Vals, Set(key, val)
  PROVE  /\ HashInv'
         /\ Holding(slots') =
                {x \in Holding(slots) : x.key # key} \union {[key |-> key, val |-> val]}
<1> DEFINE en == [key |-> key, val |-> val]
           T == Grown
           R == Place(T, en)
<1>1. HashOK /\ hash' = hash /\ entries \in Nat
  <2>1. slots \in Tables(cap) /\ DOMAIN slots = 0 .. cap - 1 /\ HashOK
    BY DEF HashInv, Good, Tables
  <2>2. cap = 0 => Taken(slots) = {}
    BY <2>1 DEF Taken
  <2>3. cap \in Nat /\ entries = Cardinality(Taken(slots))
    BY DEF HashInv
  <2>4. entries \in Nat
    BY <2>1, <2>2, <2>3, SomeSlotFree, FS_EmptySet
  <2>5. QED
    BY <2>1, <2>4 DEF Set
<1>2. en \in Pairs /\ en.key = key
  BY DEF Pairs
<1>3. PICK m \in Nat \ {0} :
        /\ Good(T, m) /\ Size(T) = m /\ DOMAIN T = 0 .. m - 1
        /\ Holding(T) = Holding(slots)
        /\ Cardinality(Taken(T)) = entries
        /\ entries + 1 < m
  BY GrownFacts
<1>4. /\ slots' = R /\ cap' = m
      /\ entries' = IF \E pos \in DOMAIN T : T[pos] # FreeSlot /\ T[pos].key = key
                      THEN entries ELSE entries + 1
  BY <1>3 DEF Set
<1>5. T \in Tables(m)
  BY <1>3 DEF Good
<1> HIDE DEF T, en, R
<1>6. Good(R, m) /\ entries' = Cardinality(Taken(R)) /\ entries' < m
      /\ Holding(R) = {x \in Holding(T) : x.key # key} \union {en}
  <2>1. CASE \E pos \in 0 .. m - 1 : T[pos] # FreeSlot /\ T[pos].key = key
    <3>1. PICK p \in 0 .. m - 1 : T[p] # FreeSlot /\ T[p].key = key
      BY <2>1
    <3>2. T[p].key = en.key
      BY <1>2, <3>1
    <3>3. Good(R, m) /\ Taken(R) = Taken(T)
          /\ Holding(R) = {x \in Holding(T) : x.key # en.key} \union {en}
      BY <1>1, <1>2, <1>3, <3>1, <3>2, UpdateGood DEF R
    <3>4. entries' = entries
      BY <1>3, <1>4, <2>1
    <3>5. entries' = Cardinality(Taken(R)) /\ entries' < m
      BY <1>1, <1>3, <3>3, <3>4
    <3>6. QED
      BY <1>2, <3>3, <3>5
  <2>2. CASE ~\E pos \in 0 .. m - 1 : T[pos] # FreeSlot /\ T[pos].key = key
    <3>1. \E p \in 0 .. m - 1 : T[p] = FreeSlot
      <4>1. Cardinality(Taken(T)) < m
        BY <1>1, <1>3
      <4>2. QED
        BY <1>1, <1>5, <4>1, SomeSlotFree
    <3>2. \A p \in 0 .. m - 1 : T[p] # FreeSlot => T[p].key # en.key
      BY <1>2, <2>2
    <3>3. /\ Good(R, m) /\ Holding(R) = Holding(T) \union {en}
          /\ \E p \in 0 .. m - 1 : p \notin Taken(T) /\ Taken(R) = Taken(T) \union {p}
      BY <1>1, <1>2, <1>3, <3>1, <3>2, PlaceAbsent DEF R
    <3>4. Cardinality(Taken(R)) = entries + 1
      <4>1. PICK p \in 0 .. m - 1 : p \notin Taken(T) /\ Taken(R) = Taken(T) \union {p}
        BY <3>3
      <4>2. QED
        BY <1>1, <1>3, <1>5, <4>1, SomeSlotFree, FS_AddElement
    <3>5. entries' = entries + 1
      BY <1>3, <1>4, <2>2
    <3>6. \A x \in Holding(T) : x.key # key
      BY <1>3, <2>2 DEF Holding
    <3>7. {x \in Holding(T) : x.key # key} = Holding(T)
      BY <3>6
    <3>8. entries' = Cardinality(Taken(R)) /\ entries' < m
      BY <1>3, <3>4, <3>5
    <3>9. QED
      BY <3>3, <3>7, <3>8
  <2>3. QED
    BY <2>1, <2>2
<1>7. HashOK' /\ (Good(slots, cap))'
  BY <1>1, <1>4, <1>6, GoodLater
<1>8. cap' \in Nat /\ entries' = Cardinality(Taken(slots')) /\ entries' < cap'
  BY <1>4, <1>6
<1>9. HashInv'
  BY <1>7, <1>8 DEF HashInv
<1>10. QED
  BY <1>3, <1>4, <1>6, <1>9 DEF en

(* A removal takes the entry of the key out, if there is one.              *)
LEMMA RemoveKeyKeeps ==
  ASSUME HashInv, NEW key \in Keys, RemoveKey(key)
  PROVE  /\ HashInv'
         /\ removed' = (Probe(key) # {})
         /\ Probe(key) = {} => UNCHANGED <<slots, hash, cap>>
         /\ Probe(key) # {} => Holding(slots') = {x \in Holding(slots) : x.key # key}
<1>1. HashOK /\ cap \in Nat /\ hash' = hash /\ cap' = cap /\ removed' = (Probe(key) # {})
      /\ Good(slots, cap)
  BY DEF RemoveKey, HashInv
<1>2. Probe(key) = {pos \in 0 .. cap - 1 : slots[pos] # FreeSlot /\ slots[pos].key = key}
  BY ProbeFinds
<1>3. CASE Probe(key) = {}
  <2>1. UNCHANGED <<slots, entries>>
    BY <1>3 DEF RemoveKey
  <2>2. HashOK' /\ (Good(slots, cap))'
    BY <1>1, <2>1, GoodLater
  <2>3. HashInv'
    BY <1>1, <2>1, <2>2 DEF HashInv
  <2>4. QED
    BY <1>1, <1>3, <2>1, <2>3
<1>4. CASE Probe(key) # {}
  <2> DEFINE hole == CHOOSE pos \in Probe(key) : TRUE
             R == ShiftedBack(hole)
  <2>1. slots' = R /\ entries' = entries - 1
    BY <1>4 DEF RemoveKey
  <2>2. hole \in 0 .. cap - 1 /\ slots[hole] # FreeSlot /\ slots[hole].key = key
    <3>1. hole \in Probe(key)
      BY <1>4
    <3>2. QED
      BY <1>2, <3>1
  <2>3. /\ cap \in Nat \ {0} /\ slots \in Tables(cap)
        /\ entries < cap /\ entries = Cardinality(Taken(slots))
    BY <2>2 DEF HashInv, Good
  <2>4. \E p \in 0 .. cap - 1 : slots[p] = FreeSlot
    BY <1>1, <2>3, SomeSlotFree
  <2> HIDE DEF hole, R
  <2>5. /\ Good(R, cap)
        /\ Holding(R) = Holding(slots) \ {slots[hole]}
        /\ \E p \in Taken(slots) : Taken(R) = Taken(slots) \ {p}
    BY <1>1, <2>2, <2>3, <2>4, ShiftGood DEF R
  <2>6. Cardinality(Taken(R)) = entries - 1 /\ entries \in Nat
    <3>1. PICK p \in Taken(slots) : Taken(R) = Taken(slots) \ {p}
      BY <2>5
    <3>2. IsFiniteSet(Taken(slots)) /\ Cardinality(Taken(slots)) \in Nat
      BY <1>1, <2>3, SomeSlotFree
    <3>3. Cardinality(Taken(slots) \ {p}) = Cardinality(Taken(slots)) - 1
      BY <3>1, <3>2, FS_RemoveElement
    <3>4. QED
      BY <2>3, <3>1, <3>2, <3>3
  <2>7. HashOK' /\ (Good(slots, cap))'
    BY <1>1, <2>1, <2>5, GoodLater
  <2>8. cap' \in Nat /\ entries' = Cardinality(Taken(slots')) /\ entries' < cap'
    BY <1>1, <2>1, <2>3, <2>6
  <2>9. HashInv'
    BY <2>7, <2>8 DEF HashInv
  <2>10. Holding(slots) \ {slots[hole]} = {x \in Holding(slots) : x.key # key}
    <3>1. slots[hole] \in Holding(slots)
      BY <2>2, <2>3 DEF Holding, Tables
    <3>2. \A x \in Holding(slots) : x.key = key => x = slots[hole]
      BY <2>2, <3>1, MappingFacts
    <3>3. QED
      BY <2>2, <3>2
  <2>11. QED
    BY <1>1, <1>4, <2>1, <2>5, <2>9, <2>10
<1>5. QED
  BY <1>3, <1>4

(* An empty table, of the old size or of none.                             *)
LEMMA EmptyKeeps ==
  ASSUME HashInv, hash' = hash, cap' \in Nat, slots' = EmptyTable(cap'), entries' = 0
  PROVE  HashInv' /\ Holding(slots') = {}
<1>1. Good(slots', cap') /\ Holding(slots') = {} /\ Taken(slots') = {} /\ HashOK
  BY EmptyGood DEF HashInv
<1>2. HashOK' /\ (Good(slots, cap))'
  BY <1>1, GoodLater
<1>3. Cardinality(Taken(slots')) = 0
  BY <1>1, FS_EmptySet
<1>4. QED
  BY <1>1, <1>2, <1>3 DEF HashInv

LEMMA InitHash == HashInit => HashInv /\ Holding(slots) = {}
<1> SUFFICES ASSUME HashInit PROVE HashInv /\ Holding(slots) = {}
  OBVIOUS
<1>1. HashOK /\ cap = 0 /\ slots = EmptyTable(0) /\ entries = 0
  BY DEF HashInit, HashOK
<1>2. Good(slots, 0) /\ Holding(slots) = {} /\ Taken(slots) = {}
  BY <1>1, EmptyGood
<1>3. QED
  BY <1>1, <1>2, FS_EmptySet DEF HashInv

(* A step keeps the invariant.                                             *)
LEMMA HashStep == HashInv /\ [HashNext]_<<hash, cap, slots, entries, removed>> => HashInv'
<1> SUFFICES ASSUME HashInv, [HashNext]_<<hash, cap, slots, entries, removed>> PROVE HashInv'
  OBVIOUS
<1>1. ASSUME NEW key \in Keys, RemoveKey(key) PROVE HashInv'
  BY <1>1, RemoveKeyKeeps
<1>2. ASSUME NEW key \in Keys, NEW val \in Vals, Set(key, val) PROVE HashInv'
  BY <1>2, SetKeeps
<1>3. cap \in Nat
  BY DEF HashInv
<1>4. CASE Clear
  <2>1. hash' = hash /\ cap' \in Nat /\ slots' = EmptyTable(cap') /\ entries' = 0
    BY <1>3, <1>4 DEF Clear
  <2>2. QED
    BY <2>1, EmptyKeeps
<1>5. CASE FreeTable
  <2>1. hash' = hash /\ cap' \in Nat /\ slots' = EmptyTable(cap') /\ entries' = 0
    BY <1>5 DEF FreeTable
  <2>2. QED
    BY <2>1, EmptyKeeps
<1>6. CASE UNCHANGED <<hash, cap, slots, entries, removed>>
  BY <1>6 DEF HashInv, HashOK, Good, Tables, KeysDiffer, Chained, Dib, Home, Distance, Size, Taken
<1>7. QED
  BY <1>1, <1>2, <1>4, <1>5, <1>6 DEF HashNext

THEOREM HashInvariant == HashSpec => []HashInv
BY InitHash, HashStep, PTL DEF HashSpec

(* After any sequence of inserts, growths and removals the chains are in   *)
(* order, the count is exact and a slot is free: for every hash function.  *)
THEOREM ChainsOrdered == HashSpec => []RobinHoodOrder
<1>1. HashInv => RobinHoodOrder
  <2> SUFFICES ASSUME HashInv PROVE RobinHoodOrder
    OBVIOUS
  <2>1. entries = Cardinality(Occupied) /\ (cap # 0 => entries < cap)
    BY DEF HashInv, Taken, Occupied
  <2>2. Chained(slots)
    BY DEF HashInv, Good
  <2>3. QED
    BY <2>1, <2>2 DEF RobinHoodOrder, Chained, Occupied
<1>2. QED
  BY <1>1, HashInvariant, PTL

(* What the map shows after a step, from what the table holds then.        *)
LEMMA MappingLater ==
  HashInv' =>
     /\ (Holding(slots) \subseteq Pairs)'
     /\ (\A a, b \in Holding(slots) : a.key = b.key => a = b)'
     /\ (DOMAIN Mapping = {en.key : en \in Holding(slots)})'
     /\ (Mapping = [key \in DOMAIN Mapping |-> Mapping[key]])'
     /\ (\A en \in Holding(slots) : Mapping[en.key] = en.val)'
<1>1. HashInv =>
        /\ Holding(slots) \subseteq Pairs
        /\ \A a, b \in Holding(slots) : a.key = b.key => a = b
        /\ DOMAIN Mapping = {en.key : en \in Holding(slots)}
        /\ Mapping = [key \in DOMAIN Mapping |-> Mapping[key]]
        /\ \A en \in Holding(slots) : Mapping[en.key] = en.val
  BY MappingFacts
<1>2. QED
  BY <1>1, PTL

(* Every step is a step of the map: a set binds the one key, a removal     *)
(* frees it and says whether it was bound, a clear frees all.              *)
LEMMA HashRefines ==
  ASSUME HashInv, HashInv', [HashNext]_<<hash, cap, slots, entries, removed>>
  PROVE  [KeyValues!Next]_<<Mapping, removed>>
<1> DEFINE H == Holding(slots)
           G == Holding(slots')
<1>1. /\ H \subseteq Pairs
      /\ \A a, b \in H : a.key = b.key => a = b
      /\ DOMAIN Mapping = {en.key : en \in H}
      /\ Mapping = [key \in DOMAIN Mapping |-> Mapping[key]]
      /\ \A en \in H : Mapping[en.key] = en.val
      /\ \A key \in Keys : Probe(key) # {} <=> \E en \in H : en.key = key
  BY MappingFacts
<1>2. /\ G \subseteq Pairs
      /\ DOMAIN Mapping' = {en.key : en \in G}
      /\ Mapping' = [key \in DOMAIN Mapping' |-> Mapping'[key]]
      /\ \A en \in G : Mapping'[en.key] = en.val
  BY MappingLater DEF Holding
<1>3. UNCHANGED <<hash, cap, slots>> => Mapping' = Mapping
  BY DEF Mapping, Probe, First, Dib, Onward, Distance, Home, Size
<1>4. ASSUME NEW key \in Keys, NEW val \in Vals, Set(key, val) PROVE KeyValues!Set
  <2> DEFINE en == [key |-> key, val |-> val]
             Bound == [j \in DOMAIN Mapping \union {key} |-> IF j = key THEN val ELSE Mapping[j]]
  <2>1. G = {x \in H : x.key # key} \union {en}
    BY <1>4, SetKeeps
  <2>2. en.key = key /\ en.val = val
    OBVIOUS
  <2> HIDE DEF G, H, en
  <2>3. DOMAIN Mapping' = DOMAIN Mapping \union {key}
    BY <1>1, <1>2, <2>1, <2>2
  <2>4. ASSUME NEW j \in DOMAIN Mapping' PROVE Mapping'[j] = IF j = key THEN val ELSE Mapping[j]
    <3>1. PICK x \in G : j = x.key
      BY <1>2, <2>4
    <3>2. Mapping'[j] = x.val
      BY <1>2, <3>1
    <3>3. CASE x = en
      BY <2>2, <3>1, <3>2, <3>3
    <3>4. CASE x \in H /\ x.key # key
      BY <1>1, <3>1, <3>2, <3>4
    <3>5. QED
      BY <2>1, <3>1, <3>3, <3>4
  <2>5. Mapping' = Bound
    BY <1>2, <2>3, <2>4
  <2>6. removed' = removed
    BY <1>4 DEF Set
  <2>7. QED
    BY <2>5, <2>6 DEF KeyValues!Set
<1>5. ASSUME NEW key \in Keys, RemoveKey(key) PROVE KeyValues!Remove
  <2>1. removed' = (key \in DOMAIN Mapping)
    BY <1>1, <1>5, RemoveKeyKeeps
  <2>2. Mapping' = [j \in DOMAIN Mapping \ {key} |-> Mapping[j]]
    <3>1. CASE Probe(key) = {}
      <4>1. Mapping' = Mapping
        BY <1>3, <1>5, <3>1, RemoveKeyKeeps
      <4>2. key \notin DOMAIN Mapping
        BY <1>1, <3>1
      <4>3. DOMAIN Mapping \ {key} = DOMAIN Mapping
        BY <4>2
      <4>4. QED
        BY <1>1, <4>1, <4>3
    <3>2. CASE Probe(key) # {}
      <4>1. G = {x \in H : x.key # key}
        BY <1>5, <3>2, RemoveKeyKeeps
      <4> HIDE DEF G, H
      <4>2. DOMAIN Mapping' = DOMAIN Mapping \ {key}
        BY <1>1, <1>2, <4>1
      <4>3. ASSUME NEW j \in DOMAIN Mapping' PROVE Mapping'[j] = Mapping[j]
        <5>1. PICK x \in G : j = x.key
          BY <1>2, <4>3
        <5>2. QED
          BY <1>1, <1>2, <4>1, <5>1
      <4>4. QED
        BY <1>2, <4>2, <4>3
    <3>3. QED
      BY <3>1, <3>2
  <2>3. QED
    BY <2>1, <2>2 DEF KeyValues!Remove
<1>6. ASSUME G = {}, removed' = removed PROVE KeyValues!Clear
  BY <1>2, <1>6 DEF KeyValues!Clear
<1>7. CASE Clear
  <2>1. /\ hash' = hash /\ cap' \in Nat /\ slots' = EmptyTable(cap')
        /\ entries' = 0 /\ removed' = removed
    BY <1>7 DEF Clear, HashInv
  <2>2. QED
    BY <1>6, <2>1, EmptyKeeps DEF KeyValues!Next
<1>8. CASE FreeTable
  <2>1. /\ hash' = hash /\ cap' \in Nat /\ slots' = EmptyTable(cap')
        /\ entries' = 0 /\ removed' = removed
    BY <1>8 DEF FreeTable, HashInv
  <2>2. QED
    BY <1>6, <2>1, EmptyKeeps DEF KeyValues!Next
<1>9. CASE UNCHANGED <<hash, cap, slots, entries, removed>>
  BY <1>3, <1>9
<1>10. QED
  BY <1>4, <1>5, <1>7, <1>8, <1>9 DEF HashNext, KeyValues!Next

(* The table implements the map: for every hash function a caller finds    *)
(* what was set last under each key, and nothing that was removed.         *)
THEOREM TableIsMap == HashSpec => KeyValueSpec
<1>1. HashInit => KeyValues!Init
  <2> SUFFICES ASSUME HashInit PROVE KeyValues!Init
    OBVIOUS
  <2>1. HashInv /\ Holding(slots) = {} /\ removed = FALSE
    BY InitHash DEF HashInit
  <2>2. DOMAIN Mapping = {} /\ Mapping = [key \in DOMAIN Mapping |-> Mapping[key]]
    BY <2>1, MappingFacts
  <2>3. Mapping = [k \in {} |-> k]
    BY <2>2
  <2>4. QED
    BY <2>1, <2>3 DEF KeyValues!Init
<1>2. ASSUME HashInv, HashInv', [HashNext]_<<hash, cap, slots, entries, removed>>
      PROVE  [KeyValues!Next]_<<Mapping, removed>>
  BY <1>2, HashRefines
<1>3. QED
  BY <1>1, <1>2, HashInvariant, PTL DEF HashSpec, KeyValueSpec, KeyValues!Spec

----------------------------------------------------------------------------
(* Frame contents: batches.                                                *)
USE ContentsAssumption

LEMMA KeyType ==
  ASSUME NEW item \in Items
  PROVE  /\ Key(item) \in Nat \X Nat \X Nat
         /\ Key(item)[1] = PipelineKey[item.material]
         /\ Key(item)[2] = item.material /\ Key(item)[3] = item.mesh
BY DEF Key, Items

(* compare_sort_items is a strict total order of the ordinals.             *)
LEMMA SortOrder ==
  ASSUME draw_items \in Seq(Items)
  PROVE  LET n == Len(draw_items) IN
         /\ \A i \in 1 .. n : ~SortsBefore(i, i)
         /\ \A i, j, k \in 1 .. n :
                SortsBefore(i, j) /\ SortsBefore(j, k) => SortsBefore(i, k)
         /\ \A i, j \in 1 .. n : i # j => SortsBefore(i, j) \/ SortsBefore(j, i)
<1> DEFINE n == Len(draw_items)
           K(i) == Key(draw_items[i])
<1>1. \A i \in 1 .. n : draw_items[i] \in Items
  OBVIOUS
<1>2. \A i \in 1 .. n : K(i) \in Nat \X Nat \X Nat
  BY <1>1, KeyType
<1>3. \A i, j \in 1 .. n : SortsBefore(i, j) <=>
        \/ K(i)[1] < K(j)[1]
        \/ K(i)[1] = K(j)[1] /\ K(i)[2] < K(j)[2]
        \/ K(i)[1] = K(j)[1] /\ K(i)[2] = K(j)[2] /\ K(i)[3] < K(j)[3]
        \/ K(i) = K(j) /\ i < j
  BY DEF SortsBefore
<1>4. \A i, j \in 1 .. n : K(i) = K(j) <=>
        K(i)[1] = K(j)[1] /\ K(i)[2] = K(j)[2] /\ K(i)[3] = K(j)[3]
  <2>1. \A i \in 1 .. n : K(i) = <<K(i)[1], K(i)[2], K(i)[3]>>
    BY <1>2
  <2> HIDE DEF K
  <2>2. QED
    BY <2>1
<1>5. \A i \in 1 .. n : K(i)[1] \in Nat /\ K(i)[2] \in Nat /\ K(i)[3] \in Nat
  BY <1>2
<1>6. n \in Nat
  OBVIOUS
<1> HIDE DEF K, n
<1>7. \A i \in 1 .. n : ~SortsBefore(i, i)
  BY <1>3, <1>5, <1>6
<1>8. ASSUME NEW i \in 1 .. n, NEW j \in 1 .. n, NEW k \in 1 .. n,
             SortsBefore(i, j), SortsBefore(j, k)
      PROVE  SortsBefore(i, k)
  <2>1. \/ K(i)[1] < K(k)[1]
        \/ K(i)[1] = K(k)[1] /\ K(i)[2] < K(k)[2]
        \/ K(i)[1] = K(k)[1] /\ K(i)[2] = K(k)[2] /\ K(i)[3] < K(k)[3]
        \/ /\ K(i)[1] = K(k)[1] /\ K(i)[2] = K(k)[2] /\ K(i)[3] = K(k)[3]
           /\ i < k
    <3>1. /\ K(i)[1] \in Nat /\ K(i)[2] \in Nat /\ K(i)[3] \in Nat
          /\ K(j)[1] \in Nat /\ K(j)[2] \in Nat /\ K(j)[3] \in Nat
          /\ K(k)[1] \in Nat /\ K(k)[2] \in Nat /\ K(k)[3] \in Nat
          /\ i \in Nat /\ j \in Nat /\ k \in Nat
      BY <1>5, <1>6
    <3>2. \/ K(i)[1] < K(j)[1]
          \/ K(i)[1] = K(j)[1] /\ K(i)[2] < K(j)[2]
          \/ K(i)[1] = K(j)[1] /\ K(i)[2] = K(j)[2] /\ K(i)[3] < K(j)[3]
          \/ /\ K(i)[1] = K(j)[1] /\ K(i)[2] = K(j)[2] /\ K(i)[3] = K(j)[3]
             /\ i < j
      BY <1>3, <1>4, <1>8
    <3>3. \/ K(j)[1] < K(k)[1]
          \/ K(j)[1] = K(k)[1] /\ K(j)[2] < K(k)[2]
          \/ K(j)[1] = K(k)[1] /\ K(j)[2] = K(k)[2] /\ K(j)[3] < K(k)[3]
          \/ /\ K(j)[1] = K(k)[1] /\ K(j)[2] = K(k)[2] /\ K(j)[3] = K(k)[3]
             /\ j < k
      BY <1>3, <1>4, <1>8
    <3>4. QED
      BY <3>1, <3>2, <3>3, SMTT(30)
  <2>2. QED
    BY <1>3, <1>4, <2>1
<1>9. ASSUME NEW i \in 1 .. n, NEW j \in 1 .. n, i # j
      PROVE  SortsBefore(i, j) \/ SortsBefore(j, i)
  <2>1. /\ K(i)[1] \in Nat /\ K(i)[2] \in Nat /\ K(i)[3] \in Nat
        /\ K(j)[1] \in Nat /\ K(j)[2] \in Nat /\ K(j)[3] \in Nat
        /\ i \in Nat /\ j \in Nat
    BY <1>5, <1>6
  <2>2. \/ K(i)[1] < K(j)[1] \/ K(j)[1] < K(i)[1]
        \/ K(i)[1] = K(j)[1] /\ K(i)[2] < K(j)[2]
        \/ K(j)[1] = K(i)[1] /\ K(j)[2] < K(i)[2]
        \/ K(i)[1] = K(j)[1] /\ K(i)[2] = K(j)[2] /\ K(i)[3] < K(j)[3]
        \/ K(j)[1] = K(i)[1] /\ K(j)[2] = K(i)[2] /\ K(j)[3] < K(i)[3]
        \/ /\ K(i)[1] = K(j)[1] /\ K(i)[2] = K(j)[2] /\ K(i)[3] = K(j)[3]
           /\ i < j \/ j < i
    BY <1>9, <2>1, SMTT(30)
  <2>3. K(i)[1] = K(j)[1] /\ K(i)[2] = K(j)[2] /\ K(i)[3] = K(j)[3] => K(i) = K(j) /\ K(j) = K(i)
    BY <1>4
  <2>4. QED
    BY <1>3, <2>2, <2>3
<1>10. QED
  BY <1>7, <1>8, <1>9 DEF n

(* qsort: every ordinal once, in that order. *)
LEMMA SortedFacts ==
  ASSUME draw_items \in Seq(Items)
  PROVE  LET n == Len(draw_items) IN
         /\ Sorted \in [1 .. n -> 1 .. n]
         /\ \A k, l \in 1 .. n : k < l => SortsBefore(Sorted[k], Sorted[l])
         /\ \A k, l \in 1 .. n : Sorted[k] = Sorted[l] => k = l
         /\ \A i \in 1 .. n : \E k \in 1 .. n : Sorted[k] = i
<1> DEFINE n == Len(draw_items)
           R == {p \in (1 .. n) \X (1 .. n) : SortsBefore(p[1], p[2])}
<1>1. n \in Nat /\ DOMAIN draw_items = 1 .. n
  OBVIOUS
<1>2. \A i, j \in 1 .. n : <<i, j>> \in R <=> SortsBefore(i, j)
  OBVIOUS
<1> HIDE DEF R
<1>3. /\ \A i \in 1 .. n : <<i, i>> \notin R
      /\ \A i, j, k \in 1 .. n : <<i, j>> \in R /\ <<j, k>> \in R => <<i, k>> \in R
      /\ \A i, j \in 1 .. n : i # j => <<i, j>> \in R \/ <<j, i>> \in R
  BY <1>2, SortOrder
<1> DEFINE Lists(f) == \A k, l \in 1 .. n : k < l => SortsBefore(f[k], f[l])
<1>4. Sorted = CHOOSE f \in [1 .. n -> 1 .. n] : Lists(f)
  BY <1>1 DEF Sorted
<1> HIDE DEF n
<1>5. PICK f \in [1 .. n -> 1 .. n] : \A k, l \in 1 .. n : k < l => <<f[k], f[l]>> \in R
  BY <1>1, <1>3, OrderLists
<1>6. Lists(f)
  BY <1>2, <1>5
<1>7. Sorted \in [1 .. n -> 1 .. n] /\ Lists(Sorted)
  <2> HIDE DEF Lists
  <2>1. QED
    BY <1>4, <1>6
<1>8. ASSUME NEW k \in 1 .. n, NEW l \in 1 .. n, Sorted[k] = Sorted[l] PROVE k = l
  <2>1. \A i \in 1 .. n : ~SortsBefore(i, i)
    BY SortOrder DEF n
  <2>2. ~(k < l) /\ ~(l < k)
    BY <1>7, <1>8, <2>1
  <2>3. QED
    BY <1>1, <2>2
<1>9. \A i \in 1 .. n : \E k \in 1 .. n : Sorted[k] = i
  BY <1>1, <1>7, <1>8, InjectiveReachesAll
<1>10. QED
  BY <1>7, <1>8, <1>9 DEF n

(* The key of the item that an instance draws. *)
KeyAt(p) == Key(draw_items[Sorted[p]])

(* Items that agree lie together, in the order they were submitted.        *)
LEMMA AlikeTogether ==
  ASSUME draw_items \in Seq(Items)
  PROVE  LET n == Len(draw_items) IN
         /\ \A p, q, r \in 1 .. n : p < q /\ q < r /\ KeyAt(p) = KeyAt(r) => KeyAt(q) = KeyAt(p)
         /\ \A p, q \in 1 .. n : p < q /\ KeyAt(p) = KeyAt(q) => Sorted[p] < Sorted[q]
<1> DEFINE n == Len(draw_items)
<1>1. n \in Nat
  OBVIOUS
<1>2. \A p \in 1 .. n : Sorted[p] \in 1 .. n /\ draw_items[Sorted[p]] \in Items
  BY SortedFacts
<1>3. \A p \in 1 .. n : KeyAt(p) \in Nat \X Nat \X Nat
  BY <1>2, KeyType DEF KeyAt
<1>4. \A p, q \in 1 .. n : p < q =>
        \/ KeyAt(p)[1] < KeyAt(q)[1]
        \/ KeyAt(p)[1] = KeyAt(q)[1] /\ KeyAt(p)[2] < KeyAt(q)[2]
        \/ /\ KeyAt(p)[1] = KeyAt(q)[1] /\ KeyAt(p)[2] = KeyAt(q)[2]
           /\ KeyAt(p)[3] < KeyAt(q)[3]
        \/ KeyAt(p) = KeyAt(q) /\ Sorted[p] < Sorted[q]
  BY SortedFacts DEF SortsBefore, KeyAt
<1>5. \A p \in 1 .. n : /\ KeyAt(p)[1] \in Nat /\ KeyAt(p)[2] \in Nat /\ KeyAt(p)[3] \in Nat
                        /\ KeyAt(p) = <<KeyAt(p)[1], KeyAt(p)[2], KeyAt(p)[3]>>
  BY <1>3
<1> HIDE DEF n
<1>6. ASSUME NEW p \in 1 .. n, NEW q \in 1 .. n, NEW r \in 1 .. n,
             p < q, q < r, KeyAt(p) = KeyAt(r)
      PROVE  KeyAt(q) = KeyAt(p)
  <2>1. /\ KeyAt(p)[1] = KeyAt(q)[1] /\ KeyAt(p)[2] = KeyAt(q)[2]
        /\ KeyAt(p)[3] = KeyAt(q)[3]
    <3>1. /\ KeyAt(p)[1] \in Nat /\ KeyAt(p)[2] \in Nat /\ KeyAt(p)[3] \in Nat
          /\ KeyAt(q)[1] \in Nat /\ KeyAt(q)[2] \in Nat /\ KeyAt(q)[3] \in Nat
      BY <1>5
    <3>2. \/ KeyAt(p)[1] < KeyAt(q)[1]
          \/ KeyAt(p)[1] = KeyAt(q)[1] /\ KeyAt(p)[2] < KeyAt(q)[2]
          \/ /\ KeyAt(p)[1] = KeyAt(q)[1] /\ KeyAt(p)[2] = KeyAt(q)[2]
             /\ KeyAt(p)[3] < KeyAt(q)[3]
          \/ KeyAt(p) = KeyAt(q)
      BY <1>4, <1>6
    <3>3. \/ KeyAt(q)[1] < KeyAt(p)[1]
          \/ KeyAt(q)[1] = KeyAt(p)[1] /\ KeyAt(q)[2] < KeyAt(p)[2]
          \/ /\ KeyAt(q)[1] = KeyAt(p)[1] /\ KeyAt(q)[2] = KeyAt(p)[2]
             /\ KeyAt(q)[3] < KeyAt(p)[3]
          \/ KeyAt(p) = KeyAt(q)
      BY <1>4, <1>6
    <3>4. CASE KeyAt(p) = KeyAt(q)
      BY <3>4
    <3>5. CASE KeyAt(p) # KeyAt(q)
      BY <3>1, <3>2, <3>3, <3>5, SMTT(30)
    <3>6. QED
      BY <3>4, <3>5
  <2>2. QED
    BY <1>5, <2>1
<1>7. ASSUME NEW p \in 1 .. n, NEW q \in 1 .. n, p < q, KeyAt(p) = KeyAt(q)
      PROVE  Sorted[p] < Sorted[q]
  BY <1>4, <1>5, <1>7, SMTT(30)
<1>8. QED
  BY <1>6, <1>7 DEF n

Batch == [pipeline_key : Nat, material : Materials, mesh : Meshes,
          instance_base : Nat, instance_count : Nat]

(* What the loop of render_build_batches keeps: the batches of the first n *)
(* instances, each with all those of its key.                              *)
BatchesGood(bs, n) ==
    /\ bs \in Seq(Batch)
    /\ n > 0 => bs # << >>
    /\ \A b \in 1 .. Len(bs) :
        /\ bs[b].instance_count > 0
        /\ bs[b].instance_base + bs[b].instance_count <= n
        /\ b < Len(bs) <=> bs[b].instance_base + bs[b].instance_count < n
        /\ \A p \in 1 .. n : KeyAt(p) = KeyOf(bs[b]) <=> p \in Instances(bs[b])
    /\ \A p \in 1 .. n : \E b \in 1 .. Len(bs) : p \in Instances(bs[b])

LEMMA BatchType ==
  ASSUME NEW batch \in Batch
  PROVE  /\ KeyOf(batch) \in Nat \X Nat \X Nat
         /\ batch.instance_base \in Nat /\ batch.instance_count \in Nat
         /\ \A p : p \in Instances(batch) <=>
                /\ p \in Nat /\ batch.instance_base + 1 <= p
                /\ p <= batch.instance_base + batch.instance_count
<1>1. batch.instance_base \in Nat /\ batch.instance_count \in Nat
  BY DEF Batch
<1>2. batch.pipeline_key \in Nat /\ batch.material \in Nat /\ batch.mesh \in Nat
  BY DEF Batch
<1>3. KeyOf(batch) \in Nat \X Nat \X Nat
  BY <1>2 DEF KeyOf
<1>4. ASSUME NEW p
      PROVE  p \in Instances(batch) <=>
                /\ p \in Nat /\ batch.instance_base + 1 <= p
                /\ p <= batch.instance_base + batch.instance_count
  BY <1>1 DEF Instances
<1>5. QED
  BY <1>1, <1>3, <1>4

(* An item of another key than the one before: a batch of one instance.    *)
LEMMA BatchStarts ==
  ASSUME draw_items \in Seq(Items), NEW n \in 1 .. Len(draw_items), NEW bs,
         BatchesGood(bs, n - 1), NEW item, item = draw_items[Sorted[n]], StartsBatch(bs, item)
  PROVE  BatchesGood(Batched(bs, item, n), n)
<1> DEFINE new == [pipeline_key |-> PipelineKey[item.material],
                   material |-> item.material, mesh |-> item.mesh,
                   instance_base |-> n - 1, instance_count |-> 1]
           m == Len(bs)
           out == Append(bs, new)
<1>1. n \in Nat /\ n - 1 \in Nat /\ item \in Items /\ KeyAt(n) = Key(item)
  <2>1. Sorted[n] \in 1 .. Len(draw_items)
    BY SortedFacts
  <2>2. QED
    BY <2>1 DEF KeyAt
<1>2. bs \in Seq(Batch) /\ m \in Nat /\ \A b \in 1 .. m : bs[b] \in Batch
  BY DEF BatchesGood
<1>3. new \in Batch /\ KeyOf(new) = KeyAt(n) /\ new.instance_base = n - 1 /\ new.instance_count = 1
  BY <1>1 DEF Batch, Items, KeyOf, Key
<1>4. Batched(bs, item, n) = out
  BY DEF Batched
<1> HIDE DEF new
<1>5. out \in Seq(Batch) /\ out # << >> /\ Len(out) = m + 1
      /\ out[m + 1] = new /\ \A b \in 1 .. m : out[b] = bs[b]
  <2>1. out \in Seq(Batch) /\ Len(out) = m + 1
    BY <1>2, <1>3
  <2>2. out[m + 1] = new /\ \A b \in 1 .. m : out[b] = bs[b]
    BY <1>2, <1>3
  <2>3. out # << >>
    BY <1>2, <2>1, EmptySeq
  <2>4. QED
    BY <2>1, <2>2, <2>3
<1>6. \A p : p \in Instances(new) <=> p = n
  BY <1>1, <1>3, BatchType
(* The batches before it have another key, so have the instances. *)
<1>7. \A q \in 1 .. n - 1 : KeyAt(q) # KeyAt(n)
  <2> SUFFICES ASSUME NEW q \in 1 .. n - 1, KeyAt(q) = KeyAt(n) PROVE FALSE
    OBVIOUS
  <2>1. q \in 1 .. n /\ n - 1 \in 1 .. n /\ q \in Nat /\ q <= n - 1 /\ n - 1 < n /\ n \in 1 .. n
    BY <1>1
  <2>2. KeyAt(n - 1) = KeyAt(n)
    <3>1. CASE q = n - 1
      BY <3>1
    <3>2. CASE q # n - 1
      <4>1. q < n - 1 /\ n - 1 \in 1 .. Len(draw_items) /\ q \in 1 .. Len(draw_items)
        BY <1>1, <2>1, <3>2
      <4>2. QED
        BY <2>1, <4>1, AlikeTogether
    <3>3. QED
      BY <3>1, <3>2
  <2>3. n - 1 > 0 /\ n - 1 \in 1 .. n - 1
    BY <1>1, <2>1
  <2>4. bs # << >> /\ m \in 1 .. m
    BY <1>2, <2>3, EmptySeq DEF BatchesGood
  <2>5. /\ bs[m].instance_count > 0
        /\ bs[m].instance_base + bs[m].instance_count = n - 1
    <3>1. /\ bs[m].instance_count > 0
          /\ bs[m].instance_base + bs[m].instance_count <= n - 1
          /\ ~(bs[m].instance_base + bs[m].instance_count < n - 1)
      BY <1>2, <2>4 DEF BatchesGood
    <3>2. bs[m].instance_base \in Nat /\ bs[m].instance_count \in Nat
      BY <1>2, <2>4, BatchType
    <3> HIDE DEF m
    <3>3. bs[m].instance_base + bs[m].instance_count \in Nat
      BY <3>2, SMTT(30)
    <3>4. QED
      BY <1>1, <3>1, <3>3
  <2>6. n - 1 \in Instances(bs[m])
    <3>1. bs[m] \in Batch
      BY <1>2, <2>4
    <3>2. bs[m].instance_base \in Nat /\ bs[m].instance_count \in Nat
      BY <3>1, BatchType
    <3> HIDE DEF m
    <3>3. bs[m].instance_base + 1 <= n - 1 /\ n - 1 <= bs[m].instance_base + bs[m].instance_count
      <4>1. \A a, c \in Nat : c > 0 => a + 1 <= a + c
        OBVIOUS
      <4>2. bs[m].instance_base + 1 <= bs[m].instance_base + bs[m].instance_count
        BY <2>5, <3>2, <4>1
      <4>3. n - 1 <= n - 1
        BY <1>1
      <4>4. QED
        BY <2>5, <4>2, <4>3
    <3>4. QED
      BY <1>1, <3>1, <3>3, BatchType
  <2>7. KeyAt(n - 1) = KeyOf(bs[m])
    BY <2>3, <2>4, <2>6 DEF BatchesGood
  <2>8. QED
    BY <1>1, <2>2, <2>4, <2>7 DEF StartsBatch, Last
<1>8. ASSUME NEW b \in 1 .. m
      PROVE  /\ out[b].instance_count > 0
             /\ out[b].instance_base + out[b].instance_count <= n - 1
             /\ out[b].instance_base + out[b].instance_count < n
             /\ \A p \in 1 .. n : KeyAt(p) = KeyOf(out[b]) <=> p \in Instances(out[b])
  <2>1. /\ out[b] = bs[b] /\ bs[b].instance_count > 0
        /\ bs[b].instance_base + bs[b].instance_count <= n - 1
        /\ \A p \in 1 .. n - 1 : KeyAt(p) = KeyOf(bs[b]) <=> p \in Instances(bs[b])
    BY <1>5 DEF BatchesGood
  <2>2. bs[b].instance_base \in Nat /\ bs[b].instance_count \in Nat
    BY <1>2, BatchType
  <2>3. n \notin Instances(bs[b])
    <3>1. bs[b] \in Batch
      BY <1>2
    <3>2. ~(n <= bs[b].instance_base + bs[b].instance_count)
      BY <1>1, <2>1, <2>2
    <3>3. QED
      BY <3>1, <3>2, BatchType
  <2>4. bs[b].instance_base + bs[b].instance_count \in 1 .. n - 1
    BY <1>1, <2>1, <2>2
  <2>5. bs[b].instance_base + bs[b].instance_count \in Instances(bs[b])
    <3>1. bs[b] \in Batch
      BY <1>2
    <3>2. /\ bs[b].instance_base + bs[b].instance_count \in Nat
          /\ bs[b].instance_base + 1 <= bs[b].instance_base + bs[b].instance_count
      BY <2>1, <2>2, SMTT(30)
    <3>3. QED
      BY <3>1, <3>2, BatchType, SMTT(30)
  <2>6. KeyAt(n) # KeyOf(bs[b])
    BY <1>7, <2>1, <2>4, <2>5
  <2>7. \A p \in 1 .. n : p = n \/ p \in 1 .. n - 1
    BY <1>1
  <2>8. \A p \in 1 .. n : KeyAt(p) = KeyOf(bs[b]) <=> p \in Instances(bs[b])
    BY <2>1, <2>3, <2>6, <2>7
  <2>9. bs[b].instance_base + bs[b].instance_count < n
    BY <1>1, <2>4
  <2>10. QED
    BY <2>1, <2>8, <2>9
<1>9. /\ out[m + 1].instance_count > 0
      /\ out[m + 1].instance_base + out[m + 1].instance_count = n
      /\ \A p \in 1 .. n : KeyAt(p) = KeyOf(out[m + 1]) <=> p \in Instances(out[m + 1])
  <2>1. /\ out[m + 1].instance_count > 0
        /\ out[m + 1].instance_base + out[m + 1].instance_count = n
    BY <1>1, <1>3, <1>5
  <2>2. \A p \in 1 .. n : p = n \/ p \in 1 .. n - 1
    BY <1>1
  <2>3. \A p \in 1 .. n : KeyAt(p) = KeyOf(new) <=> p = n
    BY <1>3, <1>7, <2>2
  <2>4. QED
    BY <1>5, <1>6, <2>1, <2>3
<1> HIDE DEF out, m
<1>10. ASSUME NEW b \in 1 .. Len(out)
       PROVE  /\ out[b].instance_count > 0
              /\ out[b].instance_base + out[b].instance_count <= n
              /\ b < Len(out) <=> out[b].instance_base + out[b].instance_count < n
              /\ \A p \in 1 .. n : KeyAt(p) = KeyOf(out[b]) <=> p \in Instances(out[b])
  <2>1. m \in Nat
    BY <1>2
  <2>2. CASE b = m + 1
    <3>1. ~(b < Len(out))
      BY <1>5, <2>1, <2>2
    <3>2. out[b].instance_base + out[b].instance_count = n
      BY <1>9, <2>2
    <3>3. n <= n /\ ~(n < n)
      BY <1>1
    <3>4. QED
      BY <1>9, <2>2, <3>1, <3>2, <3>3
  <2>3. CASE b # m + 1
    <3>1. b \in 1 .. m /\ b < Len(out)
      BY <1>5, <2>1, <2>3
    <3>2. out[b] \in Batch
      BY <1>5
    <3>3. out[b].instance_base + out[b].instance_count <= n
      BY <1>1, <1>8, <3>1, <3>2, BatchType, SMTT(30)
    <3>4. QED
      BY <1>8, <3>1, <3>3
  <2>4. QED
    BY <2>2, <2>3
<1>11. ASSUME NEW p \in 1 .. n PROVE \E b \in 1 .. Len(out) : p \in Instances(out[b])
  <2>1. m \in Nat
    BY <1>2
  <2>2. CASE p = n
    <3>1. m + 1 \in 1 .. Len(out)
      BY <1>5, <2>1
    <3>2. n \in Instances(out[m + 1])
      BY <1>5, <1>6
    <3>3. QED
      BY <2>2, <3>1, <3>2
  <2>3. CASE p # n
    <3>1. p \in 1 .. n - 1
      BY <1>1, <2>3
    <3>2. PICK b \in 1 .. m : p \in Instances(bs[b])
      BY <3>1 DEF BatchesGood, m
    <3>3. b \in 1 .. Len(out) /\ out[b] = bs[b]
      BY <1>5, <2>1
    <3>4. QED
      BY <3>2, <3>3
  <2>4. QED
    BY <2>2, <2>3
<1>12. BatchesGood(out, n)
  BY <1>5, <1>10, <1>11 DEF BatchesGood
<1>13. QED
  BY <1>4, <1>12

LEMMA BatchLonger ==
  ASSUME NEW batch \in Batch
  PROVE  LET new == [batch EXCEPT !.instance_count = @ + 1] IN
         /\ new \in Batch /\ KeyOf(new) = KeyOf(batch)
         /\ new.instance_base = batch.instance_base
         /\ new.instance_count = batch.instance_count + 1
BY DEF Batch, KeyOf

(* An item of the key of the last batch: one instance more in it.          *)
LEMMA BatchGrows ==
  ASSUME draw_items \in Seq(Items), NEW n \in 1 .. Len(draw_items), NEW bs,
         BatchesGood(bs, n - 1), NEW item, item = draw_items[Sorted[n]], ~StartsBatch(bs, item)
  PROVE  BatchesGood(Batched(bs, item, n), n)
<1> DEFINE m == Len(bs)
           old == bs[m]
           new == [old EXCEPT !.instance_count = @ + 1]
           out == [bs EXCEPT ![m].instance_count = @ + 1]
<1>1. n \in Nat /\ n - 1 \in Nat /\ KeyAt(n) = Key(item)
  BY DEF KeyAt
<1>2. /\ bs \in Seq(Batch) /\ bs # << >> /\ m \in Nat /\ m \in 1 .. m
      /\ \A b \in 1 .. m : bs[b] \in Batch
  BY EmptySeq DEF BatchesGood, StartsBatch
<1>3. old \in Batch /\ KeyOf(old) = KeyAt(n)
  BY <1>1, <1>2 DEF StartsBatch, Last
<1>4. /\ new \in Batch /\ KeyOf(new) = KeyOf(old) /\ new.instance_base = old.instance_base
      /\ new.instance_count = old.instance_count + 1
  BY <1>3, BatchLonger
<1>5. Batched(bs, item, n) = out
  BY DEF Batched
<1>6. out = [b \in 1 .. m |-> IF b = m THEN new ELSE bs[b]]
  <2>1. bs = [b \in 1 .. m |-> bs[b]]
    BY <1>2
  <2>2. QED
    BY <2>1
<1>7. /\ old.instance_base \in Nat /\ old.instance_count \in Nat
      /\ old.instance_count > 0
      /\ old.instance_base + old.instance_count <= n - 1
      /\ ~(old.instance_base + old.instance_count < n - 1)
      /\ \A p \in 1 .. n - 1 : KeyAt(p) = KeyOf(old) <=> p \in Instances(old)
  <2>1. old.instance_base \in Nat /\ old.instance_count \in Nat
    BY <1>3, BatchType
  <2>2. ~(m < m)
    BY <1>2
  <2>3. QED
    BY <1>2, <2>1, <2>2 DEF BatchesGood
<1> HIDE DEF new, old
<1>8. /\ out \in Seq(Batch) /\ out # << >> /\ Len(out) = m
      /\ out[m] = new /\ \A b \in 1 .. m : b # m => out[b] = bs[b]
  <2>1. out \in [1 .. m -> Batch]
    BY <1>2, <1>4, <1>6
  <2>2. out \in Seq(Batch) /\ Len(out) = m
    BY <1>2, <2>1, SeqDef, LenProperties
  <2>3. QED
    BY <1>2, <1>6, <2>2, EmptySeq
<1>9. old.instance_base + old.instance_count = n - 1
  BY <1>1, <1>7
<1> HIDE DEF out, m
<1>10. new.instance_base + new.instance_count = n
  <2>1. old.instance_base + (old.instance_count + 1) = n
    <3>1. \A a, c \in Nat : a + c = n - 1 => a + (c + 1) = n
      BY <1>1
    <3>2. QED
      BY <1>7, <1>9, <3>1
  <2>2. QED
    BY <1>4, <2>1
<1> USE DEF out, m
<1>11. \A p : p \in Instances(new) <=> p \in Instances(old) \/ p = n
  <2> TAKE p
  <2>1. p \in Instances(new) <=> /\ p \in Nat /\ old.instance_base + 1 <= p /\ p <= n
    BY <1>4, <1>10, BatchType
  <2>2. p \in Instances(old) <=> /\ p \in Nat /\ old.instance_base + 1 <= p /\ p <= n - 1
    BY <1>3, <1>9, BatchType
  <2>3. old.instance_base + 1 <= n
    BY <1>1, <1>7
  <2>4. QED
    BY <1>1, <1>7, <2>1, <2>2, <2>3
<1>12. \A p \in 1 .. n : p = n \/ p \in 1 .. n - 1
  BY <1>1
<1>13. /\ new.instance_count > 0
       /\ new.instance_base + new.instance_count = n
       /\ \A p \in 1 .. n : KeyAt(p) = KeyOf(new) <=> p \in Instances(new)
  <2>1. new.instance_count > 0 /\ new.instance_base + new.instance_count = n
    BY <1>4, <1>7, <1>10
  <2>2. \A p \in 1 .. n : KeyAt(p) = KeyOf(new) <=> p \in Instances(new)
    BY <1>3, <1>4, <1>7, <1>11, <1>12
  <2>3. QED
    BY <2>1, <2>2
<1> HIDE DEF out, m
<1>14. ASSUME NEW b \in 1 .. m, b # m
       PROVE  /\ out[b].instance_count > 0
              /\ out[b].instance_base + out[b].instance_count < n
              /\ \A p \in 1 .. n : KeyAt(p) = KeyOf(out[b]) <=> p \in Instances(out[b])
  <2>1. b < m
    BY <1>2, <1>14
  <2>2. /\ out[b] = bs[b] /\ bs[b].instance_count > 0
        /\ bs[b].instance_base + bs[b].instance_count < n - 1
        /\ \A p \in 1 .. n - 1 : KeyAt(p) = KeyOf(bs[b]) <=> p \in Instances(bs[b])
    BY <1>8, <1>14, <2>1 DEF BatchesGood, m
  <2>3. bs[b] \in Batch /\ bs[b].instance_base \in Nat /\ bs[b].instance_count \in Nat
    BY <1>2, BatchType
  <2>4. n \notin Instances(bs[b]) /\ n - 1 \notin Instances(bs[b])
    <3>1. /\ ~(n <= bs[b].instance_base + bs[b].instance_count)
          /\ ~(n - 1 <= bs[b].instance_base + bs[b].instance_count)
      BY <1>1, <2>2, <2>3
    <3>2. QED
      BY <2>3, <3>1, BatchType
  <2>5. KeyAt(n) # KeyOf(bs[b])
    <3>1. n - 1 \in Instances(old)
      <4>1. old.instance_base + 1 <= n - 1
        BY <1>1, <1>7, <1>9
      <4>2. n - 1 <= old.instance_base + old.instance_count
        BY <1>1, <1>9
      <4>3. QED
        BY <1>1, <1>3, <4>1, <4>2, BatchType
    <3>2. n - 1 \in 1 .. n - 1
      BY <1>1, <1>7, <1>9
    <3>3. KeyAt(n - 1) = KeyAt(n)
      BY <1>3, <1>7, <3>1, <3>2
    <3>4. KeyAt(n - 1) # KeyOf(bs[b])
      BY <2>2, <2>4, <3>2
    <3>5. QED
      BY <3>3, <3>4
  <2>6. \A p \in 1 .. n : KeyAt(p) = KeyOf(bs[b]) <=> p \in Instances(bs[b])
    BY <1>12, <2>2, <2>4, <2>5
  <2>7. bs[b].instance_base + bs[b].instance_count < n
    BY <1>1, <2>2, <2>3
  <2>8. QED
    BY <2>2, <2>6, <2>7
<1>15. ASSUME NEW b \in 1 .. Len(out)
       PROVE  /\ out[b].instance_count > 0
              /\ out[b].instance_base + out[b].instance_count <= n
              /\ b < Len(out) <=> out[b].instance_base + out[b].instance_count < n
              /\ \A p \in 1 .. n : KeyAt(p) = KeyOf(out[b]) <=> p \in Instances(out[b])
  <2>1. CASE b = m
    <3>1. ~(b < Len(out)) /\ n <= n /\ ~(n < n)
      BY <1>1, <1>2, <1>8, <2>1
    <3>2. QED
      BY <1>8, <1>13, <2>1, <3>1
  <2>2. CASE b # m
    <3>1. b \in 1 .. m /\ b < Len(out)
      BY <1>2, <1>8, <2>2
    <3>2. out[b] \in Batch
      BY <1>8
    <3>3. out[b].instance_base + out[b].instance_count <= n
      BY <1>1, <1>14, <2>2, <3>1, <3>2, BatchType, SMTT(30)
    <3>4. QED
      BY <1>14, <2>2, <3>1, <3>3
  <2>3. QED
    BY <2>1, <2>2
<1>16. ASSUME NEW p \in 1 .. n PROVE \E b \in 1 .. Len(out) : p \in Instances(out[b])
  <2>1. m \in 1 .. Len(out) /\ out[m] = new
    BY <1>2, <1>8
  <2>2. CASE p = n
    BY <1>11, <2>1, <2>2
  <2>3. CASE p # n
    <3>1. p \in 1 .. n - 1
      BY <1>12, <2>3
    <3>2. PICK b \in 1 .. m : p \in Instances(bs[b])
      BY <3>1 DEF BatchesGood, m
    <3>3. CASE b = m
      BY <1>11, <2>1, <3>2, <3>3 DEF old
    <3>4. CASE b # m
      BY <1>8, <3>2, <3>4
    <3>5. QED
      BY <3>3, <3>4
  <2>4. QED
    BY <2>2, <2>3
<1>17. BatchesGood(out, n)
  BY <1>8, <1>15, <1>16 DEF BatchesGood
<1>18. QED
  BY <1>5, <1>17

(* The batches after each of the items in the order of drawing.            *)
BatchesSoFar ==
    LET Of[n \in 0 .. Len(draw_items)] ==
            IF n = 0 THEN << >> ELSE Batched(Of[n - 1], draw_items[Sorted[n]], n)
    IN  Of

LEMMA BatchesComplete ==
  ASSUME draw_items \in Seq(Items)
  PROVE  BatchesGood(Batches, Len(draw_items))
<1> DEFINE n == Len(draw_items)
           Next(x, k) == Batched(x, draw_items[Sorted[k]], k)
           Body(f) == [k \in 0 .. n |-> IF k = 0 THEN << >> ELSE Next(f[k - 1], k)]
           step == [x \in Seq(Batch) \X (1 .. n) |-> Next(x[1], x[2])]
<1>1. n \in Nat
  OBVIOUS
<1>2. ASSUME NEW x, NEW k \in 1 .. n, BatchesGood(x, k - 1) PROVE BatchesGood(Next(x, k), k)
  BY <1>2, BatchStarts, BatchGrows
<1>3. BatchesGood(<< >>, 0)
  <2>1. << >> \in Seq(Batch) /\ Len(<< >>) = 0
    OBVIOUS
  <2>2. QED
    BY <2>1 DEF BatchesGood
<1>4. \A x, k : BatchesGood(x, k) => x \in Seq(Batch)
  BY DEF BatchesGood
<1>5. BatchesSoFar = CHOOSE f : f = Body(f)
  BY DEF BatchesSoFar
<1>6. Batches = BatchesSoFar[n]
  BY DEF Batches, BatchesSoFar
<1> HIDE DEF n, Next
<1>7. PICK f : IsChain(f, << >>, step, n)
  BY <1>1, ChainExists
<1>8. /\ f = [k \in 0 .. n |-> f[k]]
      /\ \A k \in 0 .. n : f[k] = IF k = 0 THEN << >> ELSE step[<<f[k - 1], k>>]
  BY <1>7 DEF IsChain
<1>9. \A k \in 0 .. n : BatchesGood(f[k], k)
  <2> DEFINE S == {k \in 0 .. n : BatchesGood(f[k], k)}
  <2>1. 0 \in S
    <3>1. 0 \in 0 .. n
      BY <1>1
    <3>2. f[0] = << >>
      BY <1>8, <3>1
    <3>3. QED
      BY <1>3, <3>1, <3>2
  <2>2. ASSUME NEW k \in 1 .. n, k - 1 \in S PROVE k \in S
    <3>1. k \in 0 .. n /\ k # 0 /\ BatchesGood(f[k - 1], k - 1)
      BY <1>1, <2>2
    <3>2. f[k] = step[<<f[k - 1], k>>]
      BY <1>8, <3>1
    <3>3. f[k] = Next(f[k - 1], k)
      BY <1>4, <3>1, <3>2
    <3>4. QED
      BY <1>2, <3>1, <3>3
  <2> HIDE DEF S
  <2>3. \A k \in 0 .. n : k \in S
    BY <1>1, <2>1, <2>2, UpTo
  <2>4. QED
    BY <2>3 DEF S
<1>10. f = Body(f)
  <2>1. \A k \in 0 .. n : k # 0 => k \in 1 .. n /\ k - 1 \in 0 .. n
    BY <1>1
  <2>2. \A k \in 0 .. n : k # 0 => f[k - 1] \in Seq(Batch)
    BY <1>4, <1>9, <2>1
  <2>3. \A k \in 0 .. n : f[k] = IF k = 0 THEN << >> ELSE Next(f[k - 1], k)
    BY <1>8, <2>1, <2>2
  <2>4. QED
    BY <1>8, <2>3
<1> DEFINE of == BatchesSoFar
<1>11. of = Body(of)
  <2> HIDE DEF Body
  <2>1. QED
    BY <1>5, <1>10
<1> HIDE DEF of
<1>12. \A k \in 0 .. n : of[k] = IF k = 0 THEN << >> ELSE Next(of[k - 1], k)
  BY <1>11
<1>13. \A k \in 0 .. n : BatchesGood(of[k], k)
  <2> DEFINE S == {k \in 0 .. n : BatchesGood(of[k], k)}
  <2>1. 0 \in S
    <3>1. 0 \in 0 .. n
      BY <1>1
    <3>2. of[0] = << >>
      BY <1>12, <3>1
    <3>3. QED
      BY <1>3, <3>1, <3>2
  <2>2. ASSUME NEW k \in 1 .. n, k - 1 \in S PROVE k \in S
    <3>1. k \in 0 .. n /\ k # 0 /\ BatchesGood(of[k - 1], k - 1)
      BY <1>1, <2>2
    <3>2. of[k] = Next(of[k - 1], k)
      BY <1>12, <3>1
    <3>3. QED
      BY <1>2, <3>1, <3>2
  <2> HIDE DEF S
  <2>3. \A k \in 0 .. n : k \in S
    BY <1>1, <2>1, <2>2, UpTo
  <2>4. QED
    BY <2>3 DEF S
<1>14. n \in 0 .. n
  BY <1>1
<1>15. QED
  BY <1>6, <1>13, <1>14 DEF of, n

(* What DrawnOnce says, of any items and of any batches.                   *)
DrawsAll(items, out) ==
    LET batches   == out.batches
        instances == out.instances
    IN  \A i \in DOMAIN items :
            /\ Cardinality({p \in DOMAIN instances : instances[p] = i}) = 1
            /\ \E b \in DOMAIN batches :
                /\ \E p \in Instances(batches[b]) : instances[p] = i
                /\ \A j \in DOMAIN items :
                    Key(items[j]) = Key(items[i]) <=>
                        \E q \in Instances(batches[b]) : instances[q] = j
                /\ KeyOf(batches[b]) = Key(items[i])
                /\ \A p, q \in Instances(batches[b]) :
                    p < q => instances[p] < instances[q]

LEMMA AllDrawn ==
  ASSUME draw_items \in Seq(Items),
         NEW out, out = [instances |-> Sorted, batches |-> Batches]
  PROVE  DrawsAll(draw_items, out)
<1> DEFINE n == Len(draw_items)
           batches == out.batches
           instances == out.instances
<1>1. instances = Sorted /\ batches = Batches
  OBVIOUS
<1>2. /\ n \in Nat /\ DOMAIN draw_items = 1 .. n /\ Sorted \in [1 .. n -> 1 .. n]
      /\ DOMAIN Sorted = 1 .. n
      /\ \A k, l \in 1 .. n : Sorted[k] = Sorted[l] => k = l
      /\ \A i \in 1 .. n : \E k \in 1 .. n : Sorted[k] = i
  BY SortedFacts
<1>3. /\ batches \in Seq(Batch)
      /\ \A b \in 1 .. Len(batches) :
            /\ batches[b].instance_base + batches[b].instance_count <= n
            /\ \A p \in 1 .. n : KeyAt(p) = KeyOf(batches[b]) <=> p \in Instances(batches[b])
      /\ \A p \in 1 .. n : \E b \in 1 .. Len(batches) : p \in Instances(batches[b])
  BY <1>1, BatchesComplete DEF BatchesGood
<1>4. DOMAIN batches = 1 .. Len(batches) /\ \A b \in 1 .. Len(batches) : batches[b] \in Batch
  BY <1>3
<1>5. ASSUME NEW b \in 1 .. Len(batches) PROVE Instances(batches[b]) \subseteq 1 .. n
  <2>1. batches[b] \in Batch /\ batches[b].instance_base + batches[b].instance_count <= n
    BY <1>3, <1>4
  <2>2. batches[b].instance_base \in Nat /\ batches[b].instance_count \in Nat
    BY <2>1, BatchType
  <2>3. ASSUME NEW p, p \in Instances(batches[b]) PROVE p \in 1 .. n
    <3>1. /\ p \in Nat /\ batches[b].instance_base + 1 <= p
          /\ p <= batches[b].instance_base + batches[b].instance_count
      BY <2>1, <2>3, BatchType
    <3>2. QED
      BY <1>2, <2>1, <2>2, <3>1
  <2>4. QED
    BY <2>3
<1>6. \A p \in 1 .. n : KeyAt(p) = Key(draw_items[Sorted[p]])
  BY DEF KeyAt
<1> HIDE DEF n, batches, instances
<1>7. ASSUME NEW i \in 1 .. n
      PROVE  /\ Cardinality({p \in 1 .. n : Sorted[p] = i}) = 1
             /\ \E b \in 1 .. Len(batches) :
                 /\ \E p \in Instances(batches[b]) : Sorted[p] = i
                 /\ \A j \in 1 .. n :
                     Key(draw_items[j]) = Key(draw_items[i]) <=>
                         \E q \in Instances(batches[b]) : Sorted[q] = j
                 /\ KeyOf(batches[b]) = Key(draw_items[i])
                 /\ \A p, q \in Instances(batches[b]) : p < q => Sorted[p] < Sorted[q]
  <2>1. PICK p \in 1 .. n : Sorted[p] = i
    BY <1>2
  <2>2. Cardinality({q \in 1 .. n : Sorted[q] = i}) = 1
    <3>1. {q \in 1 .. n : Sorted[q] = i} = {p}
      BY <1>2, <2>1, SMTT(30)
    <3>2. QED
      BY <3>1, FS_Singleton
  <2>3. PICK b \in 1 .. Len(batches) : p \in Instances(batches[b])
    BY <1>3
  <2>4. KeyOf(batches[b]) = KeyAt(p) /\ KeyAt(p) = Key(draw_items[i])
    BY <1>3, <1>6, <2>1, <2>3
  <2>5. ASSUME NEW j \in 1 .. n
        PROVE  Key(draw_items[j]) = Key(draw_items[i]) <=>
                  \E q \in Instances(batches[b]) : Sorted[q] = j
    <3>1. PICK q \in 1 .. n : Sorted[q] = j
      BY <1>2
    <3>2. KeyAt(q) = Key(draw_items[j])
      BY <1>6, <3>1
    <3>3. ASSUME NEW r \in Instances(batches[b]), Sorted[r] = j PROVE r = q
      BY <1>2, <1>5, <3>1, <3>3
    <3>4. KeyAt(q) = KeyOf(batches[b]) <=> q \in Instances(batches[b])
      BY <1>3
    <3>5. QED
      BY <2>4, <3>1, <3>2, <3>3, <3>4
  <2>6. ASSUME NEW q \in Instances(batches[b]), NEW r \in Instances(batches[b]), q < r
        PROVE  Sorted[q] < Sorted[r]
    <3>1. q \in 1 .. n /\ r \in 1 .. n
      BY <1>5
    <3>2. KeyAt(q) = KeyAt(r)
      BY <1>3, <3>1
    <3>3. QED
      BY <2>6, <3>1, <3>2, AlikeTogether DEF n
  <2>7. QED
    BY <2>1, <2>2, <2>3, <2>4, <2>5, <2>6
<1>8. ASSUME NEW i \in DOMAIN draw_items
      PROVE  /\ Cardinality({p \in DOMAIN instances : instances[p] = i}) = 1
             /\ \E b \in DOMAIN batches :
                 /\ \E p \in Instances(batches[b]) : instances[p] = i
                 /\ \A j \in DOMAIN draw_items :
                     Key(draw_items[j]) = Key(draw_items[i]) <=>
                         \E q \in Instances(batches[b]) : instances[q] = j
                 /\ KeyOf(batches[b]) = Key(draw_items[i])
                 /\ \A p, q \in Instances(batches[b]) :
                     p < q => instances[p] < instances[q]
  <2>1. i \in 1 .. n
    BY <1>2
  <2>2. {p \in DOMAIN instances : instances[p] = i} = {p \in 1 .. n : Sorted[p] = i}
    BY <1>1, <1>2
  <2>3. PICK b \in 1 .. Len(batches) :
            /\ \E p \in Instances(batches[b]) : Sorted[p] = i
            /\ \A j \in 1 .. n :
                Key(draw_items[j]) = Key(draw_items[i]) <=>
                    \E q \in Instances(batches[b]) : Sorted[q] = j
            /\ KeyOf(batches[b]) = Key(draw_items[i])
            /\ \A p, q \in Instances(batches[b]) : p < q => Sorted[p] < Sorted[q]
    BY <1>7, <2>1
  <2>4. b \in DOMAIN batches
    BY <1>4
  <2>5. \E p \in Instances(batches[b]) : instances[p] = i
    BY <1>1, <2>3
  <2>6. \A j \in DOMAIN draw_items :
            Key(draw_items[j]) = Key(draw_items[i]) <=>
                \E q \in Instances(batches[b]) : instances[q] = j
    BY <1>1, <1>2, <2>3
  <2>7. \A p, q \in Instances(batches[b]) : p < q => instances[p] < instances[q]
    BY <1>1, <2>3
  <2>8. Cardinality({p \in DOMAIN instances : instances[p] = i}) = 1
    BY <1>7, <2>1, <2>2
  <2>9. QED
    BY <2>3, <2>4, <2>5, <2>6, <2>7, <2>8
<1>9. QED
  BY <1>8, Zenon DEF DrawsAll, batches, instances

----------------------------------------------------------------------------
(* Frame contents: debug lines.                                            *)
Line  == [layer : {"world", "overlay"}, shape : {"line", "aabb", "sphere", "text"}]
OfShape(ls, shape) == {i \in DOMAIN ls : ls[i].shape = shape}

(* The end of the world among the lines there are.                         *)
WorldEnd == IF overlay_started THEN world_count ELSE Len(lines)

LinesGood ==
    /\ lines \in Seq(Line) /\ Len(lines) <= MaxDebugLines
    /\ world_count \in Nat /\ world_count <= Len(lines)
    /\ \A i \in 1 .. Len(lines) : lines[i].layer = "world" <=> i <= WorldEnd
    /\ Cardinality(OfShape(lines, "aabb")) % AabbLines = 0
    /\ Cardinality(OfShape(lines, "sphere")) % SphereLines = 0

LEMMA WholeMore ==
  ASSUME NEW a \in Nat \ {0}, NEW c \in Nat, c % a = 0
  PROVE  (c + a) % a = 0
<1> DEFINE q == c \div a
<1>1. q \in Nat /\ c = a * q
  OBVIOUS
<1>2. c + a = a * (q + 1)
  BY <1>1
<1>3. (a * (q + 1)) % a = 0
  BY <1>1
<1>4. QED
  BY <1>2, <1>3

LEMMA CountedBehind ==
  ASSUME NEW m \in Nat, NEW n \in Nat
  PROVE  IsFiniteSet(m + 1 .. m + n) /\ Cardinality(m + 1 .. m + n) = n
<1> DEFINE a == m + 1
           b == m + n
<1>1. a \in Int /\ b \in Int /\ (IF a > b THEN 0 ELSE b - a + 1) = n
  OBVIOUS
<1> HIDE DEF a, b
<1>2. IsFiniteSet(a .. b) /\ Cardinality(a .. b) = IF a > b THEN 0 ELSE b - a + 1
  BY <1>1, FS_Interval
<1>3. QED
  BY <1>1, <1>2 DEF a, b

(* Lines of one shape behind others.                                       *)
Longer(out, ls, layer, shape, n) ==
    /\ out \in Seq(Line) /\ Len(out) = Len(ls) + n
    /\ \A i \in 1 .. Len(ls) : out[i] = ls[i]
    /\ \A i \in Len(ls) + 1 .. Len(ls) + n : out[i].layer = layer
    /\ \A s : /\ Cardinality(OfShape(ls, s)) \in Nat
              /\ Cardinality(OfShape(out, s)) =
                    Cardinality(OfShape(ls, s)) + (IF s = shape THEN n ELSE 0)

LEMMA LinesAdded ==
  ASSUME NEW ls \in Seq(Line), NEW n \in Nat, NEW layer \in {"world", "overlay"},
         NEW shape \in {"line", "aabb", "sphere", "text"},
         NEW out, out = ls \o Lines(layer, shape, n)
  PROVE  Longer(out, ls, layer, shape, n)
<1> DEFINE more == Lines(layer, shape, n)
           line == [layer |-> layer, shape |-> shape]
           m == Len(ls)
<1>1. line \in Line /\ line.layer = layer /\ line.shape = shape
  BY DEF Line
<1>2. more \in Seq(Line) /\ Len(more) = n /\ \A i \in 1 .. n : more[i] = line
  <2>1. more = [i \in 1 .. n |-> line]
    BY DEF Lines
  <2> HIDE DEF more, line
  <2>2. more \in [1 .. n -> Line]
    BY <1>1, <2>1
  <2>3. more \in Seq(Line) /\ Len(more) = n
    BY <2>2, SeqDef, LenProperties
  <2>4. QED
    BY <2>1, <2>3
<1>a. out = ls \o more
  OBVIOUS
<1> HIDE DEF more, line
<1>3. m \in Nat /\ DOMAIN ls = 1 .. m
  OBVIOUS
<1>4. out \in Seq(Line) /\ Len(out) = m + n /\ DOMAIN out = 1 .. m + n
  <2>1. ls \o more \in Seq(Line) /\ Len(ls \o more) = m + n
    BY <1>2, ConcatProperties DEF m
  <2>2. QED
    BY <1>3, <1>a, <2>1
<1>5. \A i \in 1 .. m : out[i] = ls[i]
  BY <1>2, <1>a
<1>6. ASSUME NEW i \in m + 1 .. m + n PROVE out[i] = line
  <2>1. i \in 1 .. m + n /\ ~(i <= m) /\ i - m \in 1 .. n
    BY <1>3, <1>6
  <2>2. out[i] = more[i - m]
    BY <1>2, <1>3, <1>a, <2>1
  <2>3. QED
    BY <1>2, <2>1, <2>2
<1> HIDE DEF m
<1>7. ASSUME NEW s
      PROVE  /\ Cardinality(OfShape(ls, s)) \in Nat
             /\ Cardinality(OfShape(out, s)) =
                    Cardinality(OfShape(ls, s)) + (IF s = shape THEN n ELSE 0)
  <2> DEFINE old == OfShape(ls, s)
             added == IF s = shape THEN m + 1 .. m + n ELSE {}
  <2>1. IsFiniteSet(1 .. m)
    BY <1>3, FS_Interval
  <2>2. old \in SUBSET (1 .. m)
    BY <1>3 DEF OfShape
  <2>3. IsFiniteSet(old) /\ Cardinality(old) \in Nat
    <3> HIDE DEF old
    <3>1. QED
      BY <2>1, <2>2, FS_Subset, FS_CardinalityType
  <2>4. IsFiniteSet(added) /\ Cardinality(added) = IF s = shape THEN n ELSE 0
    BY <1>3, CountedBehind, FS_EmptySet
  <2>5. OfShape(out, s) = old \union added
    <3>1. \A i \in 1 .. m + n : i \in 1 .. m \/ i \in m + 1 .. m + n
      BY <1>3
    <3>2. \A i \in 1 .. m : i \in 1 .. m + n
      BY <1>3
    <3>3. \A i \in m + 1 .. m + n : i \in 1 .. m + n /\ i \notin 1 .. m
      BY <1>3
    <3>4. \A i \in OfShape(out, s) : i \in old \union added
      BY <1>1, <1>3, <1>4, <1>5, <1>6, <3>1 DEF OfShape
    <3>5. \A i \in old : i \in OfShape(out, s)
      BY <1>3, <1>4, <1>5, <3>2 DEF OfShape
    <3>6. \A i \in added : i \in OfShape(out, s)
      BY <1>1, <1>4, <1>6, <3>3 DEF OfShape
    <3>7. QED
      BY <3>4, <3>5, <3>6
  <2>6. old \cap added = {}
    <3>1. \A i \in m + 1 .. m + n : i \notin 1 .. m
      BY <1>3
    <3>2. QED
      BY <2>2, <3>1
  <2> HIDE DEF old, added
  <2>7. Cardinality(old \union added) = Cardinality(old) + Cardinality(added)
    <3>1. /\ Cardinality(old \union added) =
                Cardinality(old) + Cardinality(added) - Cardinality(old \cap added)
          /\ Cardinality(old \cap added) = 0
      BY <2>3, <2>4, <2>6, FS_Union, FS_EmptySet
    <3>2. Cardinality(old) \in Nat /\ Cardinality(added) \in Nat
      BY <2>3, <2>4
    <3>3. QED
      BY <3>1, <3>2
  <2>8. QED
    BY <2>3, <2>4, <2>5, <2>7 DEF old
<1>8. \A i \in m + 1 .. m + n : out[i].layer = layer
  BY <1>1, <1>6
<1>9. QED
  BY <1>4, <1>5, <1>7, <1>8 DEF m, Longer

LEMMA WorldShapeKeeps ==
  ASSUME LinesGood, NEW shape \in {"line", "aabb", "sphere"}, NEW n \in Nat,
         shape = "aabb" => n = AabbLines, shape = "sphere" => n = SphereLines,
         WorldShape(shape, n)
  PROVE  LinesGood'
<1> DEFINE out == lines \o Lines("world", shape, n)
           m == Len(lines)
<1>1. /\ lines \in Seq(Line) /\ m \in Nat /\ m <= MaxDebugLines
      /\ world_count \in Nat /\ world_count <= m
      /\ \A i \in 1 .. m : lines[i].layer = "world" <=> i <= m
      /\ Cardinality(OfShape(lines, "aabb")) % AabbLines = 0
      /\ Cardinality(OfShape(lines, "sphere")) % SphereLines = 0
  BY DEF LinesGood, WorldEnd, WorldShape
<1>2. /\ lines' = out /\ world_count' = world_count
      /\ overlay_started' = FALSE /\ n <= MaxDebugLines - m
  BY DEF WorldShape, Room
<1>3. /\ out \in Seq(Line) /\ Len(out) = m + n
      /\ \A i \in 1 .. m : out[i] = lines[i]
      /\ \A i \in m + 1 .. m + n : out[i].layer = "world"
      /\ \A s : /\ Cardinality(OfShape(lines, s)) \in Nat
                /\ Cardinality(OfShape(out, s)) =
                      Cardinality(OfShape(lines, s)) + (IF s = shape THEN n ELSE 0)
  <2>1. "world" \in {"world", "overlay"} /\ shape \in {"line", "aabb", "sphere", "text"}
    OBVIOUS
  <2>2. out = lines \o Lines("world", shape, n)
    OBVIOUS
  <2> HIDE DEF out
  <2>3. Longer(out, lines, "world", shape, n)
    BY <1>1, <2>1, <2>2, LinesAdded
  <2>4. QED
    BY <2>3 DEF Longer
<1> HIDE DEF out, m
<1>4. \A i \in 1 .. m + n : out[i].layer = "world" /\ i <= m + n
  <2>1. \A i \in 1 .. m + n : i \in 1 .. m \/ i \in m + 1 .. m + n
    BY <1>1
  <2>2. \A i \in 1 .. m : i <= m
    OBVIOUS
  <2>3. QED
    BY <1>1, <1>3, <2>1, <2>2
<1>5. m + n <= MaxDebugLines /\ world_count <= m + n /\ m + n \in Nat
  BY <1>1, <1>2
<1>6. Cardinality(OfShape(out, "aabb")) % AabbLines = 0
  <2>1. Cardinality(OfShape(lines, "aabb")) \in Nat
    BY <1>3
  <2>2. CASE shape = "aabb"
    BY <1>1, <1>3, <2>1, <2>2, WholeMore
  <2>3. CASE shape # "aabb"
    BY <1>1, <1>3, <2>1, <2>3
  <2>4. QED
    BY <2>2, <2>3
<1>7. Cardinality(OfShape(out, "sphere")) % SphereLines = 0
  <2>1. Cardinality(OfShape(lines, "sphere")) \in Nat
    BY <1>3
  <2>2. CASE shape = "sphere"
    BY <1>1, <1>3, <2>1, <2>2, WholeMore
  <2>3. CASE shape # "sphere"
    BY <1>1, <1>3, <2>1, <2>3
  <2>4. QED
    BY <2>2, <2>3
<1>8. WorldEnd' = m + n /\ Len(lines') = m + n
  BY <1>2, <1>3 DEF WorldEnd
<1>9. QED
  BY <1>1, <1>2, <1>3, <1>4, <1>5, <1>6, <1>7, <1>8 DEF LinesGood

LEMMA TextKeeps ==
  ASSUME LinesGood, NEW n \in Nat, Text(n)
  PROVE  LinesGood'
<1> DEFINE m == Len(lines)
           w == WorldEnd
           k == IF n <= Room THEN n ELSE Room
           out == lines \o Lines("overlay", "text", k)
<1>1. /\ lines \in Seq(Line) /\ m \in Nat /\ m <= MaxDebugLines
      /\ w \in Nat /\ w <= m
      /\ \A i \in 1 .. m : lines[i].layer = "world" <=> i <= w
      /\ Cardinality(OfShape(lines, "aabb")) % AabbLines = 0
      /\ Cardinality(OfShape(lines, "sphere")) % SphereLines = 0
  BY DEF LinesGood, WorldEnd
<1>2. lines' = out /\ world_count' = w /\ overlay_started' = TRUE
  BY DEF Text, WorldEnd
<1>3. k \in Nat /\ m + k <= MaxDebugLines
  BY <1>1 DEF Room
<1> HIDE DEF k
<1>4. /\ out \in Seq(Line) /\ Len(out) = m + k
      /\ \A i \in 1 .. m : out[i] = lines[i]
      /\ \A i \in m + 1 .. m + k : out[i].layer = "overlay"
      /\ \A s : /\ Cardinality(OfShape(lines, s)) \in Nat
                /\ Cardinality(OfShape(out, s)) =
                      Cardinality(OfShape(lines, s)) + (IF s = "text" THEN k ELSE 0)
  <2>1. "overlay" \in {"world", "overlay"} /\ "text" \in {"line", "aabb", "sphere", "text"}
    OBVIOUS
  <2>2. out = lines \o Lines("overlay", "text", k)
    OBVIOUS
  <2> HIDE DEF out
  <2>3. Longer(out, lines, "overlay", "text", k)
    BY <1>1, <1>3, <2>1, <2>2, LinesAdded
  <2>4. QED
    BY <2>3 DEF Longer
<1> HIDE DEF out, m, w
<1>5. \A i \in 1 .. m + k : out[i].layer = "world" <=> i <= w
  <2>1. \A i \in 1 .. m + k : i \in 1 .. m \/ (i \in m + 1 .. m + k /\ ~(i <= w))
    BY <1>1, <1>3
  <2>2. QED
    BY <1>1, <1>4, <2>1
<1>6. w <= m + k /\ m + k \in Nat
  BY <1>1, <1>3
<1>7. /\ Cardinality(OfShape(out, "aabb")) % AabbLines = 0
      /\ Cardinality(OfShape(out, "sphere")) % SphereLines = 0
  <2>1. /\ Cardinality(OfShape(lines, "aabb")) \in Nat
        /\ Cardinality(OfShape(lines, "sphere")) \in Nat
        /\ Cardinality(OfShape(out, "aabb")) = Cardinality(OfShape(lines, "aabb")) + 0
        /\ Cardinality(OfShape(out, "sphere")) = Cardinality(OfShape(lines, "sphere")) + 0
    BY <1>4
  <2>2. QED
    BY <1>1, <2>1
<1>8. WorldEnd' = w /\ Len(lines') = m + k
  BY <1>2, <1>4 DEF WorldEnd
<1>9. QED
  BY <1>1, <1>2, <1>3, <1>4, <1>5, <1>6, <1>7, <1>8 DEF LinesGood

----------------------------------------------------------------------------
(* The invariant of a frame's contents: what a recorded frame shows is     *)
(* settled, for no call of a frame comes after its end.                    *)
FrameInv ==
    /\ draw_items \in Seq(Items)
    /\ LinesGood
    /\ recorded => /\ ~frame_begun
                   /\ world_count = WorldEnd
                   /\ DrawsAll(draw_items, batch_output)

LEMMA FrameBegins == ContentsInit => FrameInv
<1> SUFFICES ASSUME ContentsInit PROVE FrameInv
  OBVIOUS
<1>1. draw_items = << >> /\ lines = << >> /\ world_count = 0 /\ ~recorded
  BY DEF ContentsInit
<1>2. draw_items \in Seq(Items) /\ lines \in Seq(Line) /\ Len(lines) = 0
  BY <1>1
<1>3. \A s : Cardinality(OfShape(lines, s)) = 0
  <2>1. DOMAIN lines = {}
    BY <1>1
  <2>2. \A s : OfShape(lines, s) = {}
    BY <2>1 DEF OfShape
  <2>3. QED
    BY <2>2, FS_EmptySet
<1>4. 0 % AabbLines = 0 /\ 0 % SphereLines = 0
  OBVIOUS
<1>5. LinesGood
  BY <1>1, <1>2, <1>3, <1>4 DEF LinesGood
<1>6. QED
  BY <1>1, <1>2, <1>5 DEF FrameInv

LEMMA FrameKept ==
  ASSUME FrameInv, [ContentsNext]_frame
  PROVE  FrameInv'
<1> USE DEF FrameInv
(* What leaves the contents of the frame alone leaves the invariant alone. *)
<1>1. ASSUME UNCHANGED <<frame_begun, draw_items, debug, batch_output, recorded>>
      PROVE  FrameInv'
  <2>1. /\ draw_items' = draw_items /\ lines' = lines /\ world_count' = world_count
        /\ overlay_started' = overlay_started /\ frame_begun' = frame_begun
        /\ batch_output' = batch_output /\ recorded' = recorded
    BY <1>1 DEF debug
  <2>2. WorldEnd' = WorldEnd
    BY <2>1 DEF WorldEnd
  <2>3. LinesGood'
    BY <2>1, <2>2 DEF LinesGood
  <2>4. QED
    BY <2>1, <2>2, <2>3
<1>2. CASE UNCHANGED frame
  BY <1>1, <1>2 DEF frame
<1>3. CASE Destroy
  BY <1>1, <1>3 DEF Destroy
<1>4. CASE BeginFrame
  <2>1. draw_items' = << >> /\ lines' = << >> /\ world_count' = 0 /\ ~recorded'
    BY <1>4 DEF BeginFrame
  <2>2. draw_items' \in Seq(Items) /\ lines' \in Seq(Line) /\ Len(lines') = 0
    BY <2>1
  <2>3. \A s : Cardinality(OfShape(lines', s)) = 0
    <3>1. DOMAIN lines' = {}
      BY <2>1
    <3>2. \A s : OfShape(lines', s) = {}
      BY <3>1 DEF OfShape
    <3>3. QED
      BY <3>2, FS_EmptySet
  <2>4. 0 % AabbLines = 0 /\ 0 % SphereLines = 0
    OBVIOUS
  <2>5. LinesGood'
    BY <2>1, <2>2, <2>3, <2>4 DEF LinesGood
  <2>6. QED
    BY <2>1, <2>2, <2>5
<1>5. ASSUME NEW items \in SeqOf(Items, MaxSubmitted), Submit(items)
      PROVE  FrameInv'
  <2>1. /\ lines' = lines /\ world_count' = world_count /\ overlay_started' = overlay_started
        /\ draw_items' = draw_items \o items /\ recorded' = recorded /\ ~recorded
    BY <1>5 DEF Submit, debug
  <2>2. items \in Seq(Items)
    BY SeqDef DEF SeqOf
  <2>3. draw_items' \in Seq(Items)
    BY <2>1, <2>2
  <2>4. LinesGood'
    BY <2>1 DEF LinesGood, WorldEnd
  <2>5. QED
    BY <2>1, <2>3, <2>4
<1>6. ASSUME NEW shape \in {"line", "aabb", "sphere"}, NEW n \in Nat,
             shape = "aabb" => n = AabbLines, shape = "sphere" => n = SphereLines,
             WorldShape(shape, n)
      PROVE  FrameInv'
  <2>1. LinesGood'
    BY <1>6, WorldShapeKeeps
  <2>2. draw_items' = draw_items /\ ~recorded'
    BY <1>6 DEF WorldShape
  <2>3. QED
    BY <2>1, <2>2
<1>7. ASSUME NEW n \in TextLines, Text(n) PROVE FrameInv'
  <2>1. n \in Nat
    OBVIOUS
  <2>2. LinesGood'
    BY <1>7, <2>1, TextKeeps
  <2>3. draw_items' = draw_items /\ ~recorded'
    BY <1>7 DEF Text
  <2>4. QED
    BY <2>2, <2>3
<1>8. CASE EndFrame
  <2>1. /\ lines' = lines /\ overlay_started' = overlay_started
        /\ draw_items' = draw_items /\ ~frame_begun' /\ ~recorded
    BY <1>8 DEF EndFrame
  <2>2. \/ world_count' = WorldEnd
        \/ world_count' = world_count /\ recorded' = recorded
    BY <1>8 DEF EndFrame, WorldEnd
  <2>3. WorldEnd' = WorldEnd
    BY <2>1, <2>2 DEF WorldEnd
  <2>4. LinesGood'
    <3>1. Len(lines) \in Nat /\ WorldEnd \in Nat /\ WorldEnd <= Len(lines)
      BY DEF LinesGood, WorldEnd
    <3>2. QED
      BY <2>1, <2>2, <2>3, <3>1 DEF LinesGood
  <2>5. recorded' => batch_output' = [instances |-> Sorted, batches |-> Batches]
    BY <1>8, <2>1 DEF EndFrame
  <2>6. recorded' => DrawsAll(draw_items, batch_output')
    BY <2>5, AllDrawn
  <2>7. QED
    BY <2>1, <2>2, <2>3, <2>4, <2>6
<1>9. QED
  BY <1>2, <1>3, <1>4, <1>5, <1>6, <1>7, <1>8 DEF ContentsNext

LEMMA FrameInvShows == FrameInv => ShownAsSubmitted
<1> SUFFICES ASSUME FrameInv PROVE ShownAsSubmitted
  OBVIOUS
<1>1. DrawnOnce
  <2>1. CASE recorded
    BY <2>1 DEF FrameInv, DrawnOnce, DrawsAll
  <2>2. CASE ~recorded
    BY <2>2 DEF DrawnOnce
  <2>3. QED
    BY <2>1, <2>2
<1>2. LayersApart
  BY DEF FrameInv, LinesGood, LayersApart, OfShape
<1>3. QED
  BY <1>1, <1>2 DEF ShownAsSubmitted

(* Whatever is submitted, refused for lack of room, cut off or destroyed   *)
(* in between, a recorded frame draws every item it was given once, in one *)
(* batch with those alike, in their order; its world is the lines of the   *)
(* world's shapes, each of them whole.                                     *)
THEOREM FrameShown == ContentsSpec => []ShownAsSubmitted
<1>1. FrameInv /\ [ContentsNext]_frame => FrameInv'
  BY FrameKept
<1>2. QED
  BY <1>1, FrameBegins, FrameInvShows, PTL DEF ContentsSpec
=============================================================================
