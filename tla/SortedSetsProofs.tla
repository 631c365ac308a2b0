-------------------------- MODULE SortedSetsProofs --------------------------
(***************************************************************************)
(* What a loop over the slots of a table meets: each slot once, in order,  *)
(* for every finite set of slots; and facts of sets of numbers and of      *)
(* sequences that the other proofs rest on.                                *)
(***************************************************************************)
EXTENDS SortedSets, FiniteSetTheorems, FunctionTheorems, SequenceTheorems,
        WellFoundedInduction, TLAPS

(* Every set of numbers that is not empty has a least element, from which  *)
(* the proofs by the least counterexample start.                           *)
LEMMA LeastElement ==
  ASSUME NEW T \in SUBSET Nat, T # {}
  PROVE  \E x \in T : \A y \in T : x <= y
<1> DEFINE R == OpToRel(<, Nat)
<1>1. R = {ss \in Nat \X Nat : ss[1] < ss[2]}
  BY DEF OpToRel
<1>2. IsWellFoundedOn(R, Nat)
  BY NatLessThanWellFounded
<1> HIDE DEF R
<1>3. PICK x \in T : \A y \in T : ~(<<y, x>> \in R)
  BY <1>2, WFMin, Zenon
<1>4. ASSUME NEW y \in T PROVE x <= y
  <2>1. <<y, x>> \in Nat \X Nat /\ <<y, x>>[1] = y /\ <<y, x>>[2] = x
    OBVIOUS
  <2>2. ~(y < x)
    BY <1>1, <1>3, <2>1
  <2>3. QED
    BY <2>2
<1>5. QED
  BY <1>4

(* A function that is defined along 0 .. n by its value one before.        *)
IsChain(f, first, step, n) ==
    f = [k \in 0 .. n |-> IF k = 0 THEN first ELSE step[<<f[k - 1], k>>]]

(* There is such a function: the shortest one missing would be one longer  *)
(* than one that is there.                                                 *)
LEMMA ChainExists ==
  ASSUME NEW first, NEW step, NEW n \in Nat
  PROVE  \E f : IsChain(f, first, step, n)
<1> DEFINE Fails == {m \in Nat : ~\E f : IsChain(f, first, step, m)}
<1> SUFFICES ASSUME Fails # {} PROVE FALSE
  OBVIOUS
<1>1. PICK m \in Fails : \A y \in Fails : m <= y
  BY LeastElement
<1>2. CASE m = 0
  <2> DEFINE f == [k \in 0 .. 0 |-> first]
  <2>1. IsChain(f, first, step, 0)
    BY DEF IsChain
  <2>2. QED
    BY <1>1, <1>2, <2>1
<1>3. CASE m # 0
  <2>1. m - 1 \in Nat /\ m - 1 \notin Fails
    BY <1>1, <1>3
  <2>2. PICK g : IsChain(g, first, step, m - 1)
    BY <2>1
  <2> DEFINE f == [k \in 0 .. m |-> IF k = m THEN step[<<g[m - 1], m>>] ELSE g[k]]
  <2>3. \A k \in 0 .. m - 1 : g[k] = IF k = 0 THEN first ELSE step[<<g[k - 1], k>>]
    BY <2>2 DEF IsChain
  <2>4. ASSUME NEW k \in 0 .. m
        PROVE  f[k] = IF k = 0 THEN first ELSE step[<<f[k - 1], k>>]
    <3>1. CASE k = m
      <4>1. m - 1 \in 0 .. m /\ m - 1 # m /\ f[m - 1] = g[m - 1]
        BY <2>1
      <4>2. f[k] = step[<<g[m - 1], m>>] /\ k # 0
        BY <1>3, <3>1
      <4>3. QED
        BY <3>1, <4>1, <4>2
    <3>2. CASE k # m
      <4>1. k \in 0 .. m - 1 /\ f[k] = g[k]
        BY <2>1, <3>2
      <4>2. k # 0 => k - 1 \in 0 .. m /\ k - 1 # m /\ f[k - 1] = g[k - 1]
        BY <2>1, <4>1
      <4>3. QED
        BY <2>3, <4>1, <4>2
    <3>3. QED
      BY <3>1, <3>2
  <2>5. f = [k \in 0 .. m |-> f[k]]
    OBVIOUS
  <2> HIDE DEF f
  <2>6. IsChain(f, first, step, m)
    BY <2>4, <2>5, Zenon DEF IsChain
  <2>7. QED
    BY <1>1, <2>6
<1>4. QED
  BY <1>2, <1>3

(* What holds at 0 and goes from each number to the next holds up to n.    *)
LEMMA UpTo ==
  ASSUME NEW n \in Nat, NEW T, 0 \in T,
         \A k \in 1 .. n : k - 1 \in T => k \in T
  PROVE  \A k \in 0 .. n : k \in T
<1> DEFINE Fails == {k \in 0 .. n : k \notin T}
<1> SUFFICES ASSUME Fails # {} PROVE FALSE
  OBVIOUS
<1>1. PICK k \in Fails : \A y \in Fails : k <= y
  <2>1. Fails \in SUBSET Nat
    OBVIOUS
  <2> HIDE DEF Fails
  <2>2. QED
    BY <2>1, LeastElement
<1>2. k \in 1 .. n /\ k - 1 \in 0 .. n /\ ~(k <= k - 1)
  BY <1>1
<1>3. k - 1 \in T
  BY <1>1, <1>2
<1>4. QED
  BY <1>1, <1>2, <1>3

(* The numbers of S in ascending order, each once. *)
Sorts(f, S) ==
    /\ f \in [1 .. Cardinality(S) -> S]
    /\ \A k, l \in 1 .. Cardinality(S) : k < l => f[k] < f[l]
    /\ \A x \in S : \E k \in 1 .. Cardinality(S) : f[k] = x

(* Sets of n numbers can be sorted: a smallest set that cannot be would    *)
(* have a least element in front of a smaller set.                         *)
LEMMA SortExists ==
  ASSUME NEW n \in Nat
  PROVE  \A S \in SUBSET Nat : IsFiniteSet(S) /\ Cardinality(S) = n => \E f : Sorts(f, S)
<1> DEFINE Fails == {m \in Nat : \E S \in SUBSET Nat :
                        IsFiniteSet(S) /\ Cardinality(S) = m /\ ~\E f : Sorts(f, S)}
<1> SUFFICES Fails = {}
  OBVIOUS
<1> SUFFICES ASSUME Fails # {} PROVE FALSE
  OBVIOUS
<1>1. PICK m \in Fails : \A y \in Fails : m <= y
  BY LeastElement
<1>2. PICK S \in SUBSET Nat : IsFiniteSet(S) /\ Cardinality(S) = m /\ ~\E f : Sorts(f, S)
  BY <1>1
<1>3. CASE S = {}
  <2>1. Cardinality(S) = 0
    BY <1>3, FS_EmptySet
  <2>2. Sorts(<< >>, S)
    BY <1>3, <2>1 DEF Sorts
  <2>3. QED
    BY <1>2, <2>2
<1>4. CASE S # {}
  <2>1. PICK x \in S : \A y \in S : x <= y
    BY <1>4, LeastElement
  <2> DEFINE T == S \ {x}
  <2>2. IsFiniteSet(T) /\ Cardinality(T) = m - 1 /\ m \in Nat /\ m # 0
    BY <1>1, <1>2, <1>4, FS_RemoveElement, FS_CardinalityType, FS_EmptySet
  <2>3. m - 1 \notin Fails
    BY <1>1, <2>2
  <2>4. PICK g : Sorts(g, T)
    BY <2>2, <2>3
  <2> DEFINE f == [k \in 1 .. m |-> IF k = 1 THEN x ELSE g[k - 1]]
  <2>5. /\ g \in [1 .. m - 1 -> T]
        /\ \A k, l \in 1 .. m - 1 : k < l => g[k] < g[l]
        /\ \A y \in T : \E k \in 1 .. m - 1 : g[k] = y
    BY <2>2, <2>4 DEF Sorts
  <2>6. f \in [1 .. m -> S]
    BY <2>2, <2>5
  <2>7. ASSUME NEW k \in 1 .. m, NEW l \in 1 .. m, k < l PROVE f[k] < f[l]
    <3>1. CASE k = 1
      <4>1. l \in 2 .. m /\ l - 1 \in 1 .. m - 1
        BY <2>2, <2>7, <3>1
      <4>2. f[k] = x /\ f[l] = g[l - 1] /\ g[l - 1] \in T
        BY <2>5, <3>1, <4>1
      <4>3. x \in Nat /\ f[l] \in Nat /\ x <= f[l] /\ x # f[l]
        BY <2>1, <4>2
      <4>4. QED
        BY <4>2, <4>3
    <3>2. CASE k # 1
      <4>1. k - 1 \in 1 .. m - 1 /\ l - 1 \in 1 .. m - 1 /\ k - 1 < l - 1 /\ l # 1
        BY <2>2, <2>7, <3>2
      <4>2. f[k] = g[k - 1] /\ f[l] = g[l - 1]
        BY <3>2, <4>1
      <4>3. QED
        BY <2>5, <4>1, <4>2
    <3>3. QED
      BY <3>1, <3>2
  <2>8. ASSUME NEW y \in S PROVE \E k \in 1 .. m : f[k] = y
    <3>1. CASE y = x
      <4>1. 1 \in 1 .. m /\ f[1] = x
        BY <2>2
      <4>2. QED
        BY <3>1, <4>1
    <3>2. CASE y # x
      <4>1. PICK k \in 1 .. m - 1 : g[k] = y
        BY <2>5, <3>2
      <4>2. k + 1 \in 1 .. m /\ f[k + 1] = y
        BY <2>2, <4>1
      <4>3. QED
        BY <4>2
    <3>3. QED
      BY <3>1, <3>2
  <2> HIDE DEF f
  <2>9. Sorts(f, S)
    BY <1>2, <2>6, <2>7, <2>8 DEF Sorts
  <2>10. QED
    BY <1>2, <2>9
<1>5. QED
  BY <1>3, <1>4

(* The choice in Ascending is one of those sortings. *)
LEMMA AscendingSorts ==
  ASSUME NEW S \in SUBSET Nat, IsFiniteSet(S)
  PROVE  Sorts(Ascending(S), S)
<1> DEFINE n == Cardinality(S)
           Increasing(f) == \A k, l \in 1 .. n : k < l => f[k] < f[l]
           s == Ascending(S)
<1>1. n \in Nat
  BY FS_CardinalityType
<1>2. \E f \in [1 .. n -> S] : Increasing(f)
  BY <1>1, SortExists DEF Sorts
<1>3. s \in [1 .. n -> S] /\ Increasing(s)
  BY <1>2 DEF Ascending
<1> HIDE DEF s
<1>4. s \in Injection(1 .. n, S)
  <2>1. ASSUME NEW k \in 1 .. n, NEW l \in 1 .. n, k # l PROVE s[k] # s[l]
    <3>1. s[k] \in S /\ s[l] \in S
      BY <1>3
    <3>2. k < l \/ l < k
      BY <2>1
    <3>3. s[k] \in Nat /\ s[l] \in Nat /\ (s[k] < s[l] \/ s[l] < s[k])
      BY <1>3, <3>1, <3>2
    <3>4. QED
      BY <3>3
  <2>2. QED
    BY <1>3, <2>1 DEF Injection, IsInjective
<1>5. s \in Surjection(1 .. n, S)
  <2>1. IsFiniteSet(1 .. n) /\ Cardinality(1 .. n) = n
    BY <1>1, FS_Interval
  <2>2. QED
    BY <1>4, <2>1, FS_Injection
<1>6. QED
  BY <1>3, <1>5 DEF Sorts, Surjection, s

(* A loop that goes up meets every slot once, in order. *)
THEOREM AscendingListing ==
  ASSUME NEW S \in SUBSET Nat, IsFiniteSet(S)
  PROVE  /\ Ascending(S) \in Seq(S)
         /\ Len(Ascending(S)) = Cardinality(S)
         /\ Range(Ascending(S)) = S
         /\ IsInjective(Ascending(S))
         /\ \A k, l \in 1 .. Cardinality(S) : k < l => Ascending(S)[k] < Ascending(S)[l]
<1> DEFINE n == Cardinality(S)
           s == Ascending(S)
<1>1. n \in Nat
  BY FS_CardinalityType
<1>2. Sorts(s, S)
  BY AscendingSorts
<1> HIDE DEF s
<1>3. s \in Seq(S) /\ Len(s) = n /\ DOMAIN s = 1 .. n
  BY <1>1, <1>2 DEF Sorts
<1>4. ASSUME NEW k \in 1 .. n, NEW l \in 1 .. n, k # l PROVE s[k] # s[l]
  <2>1. s[k] \in S /\ s[l] \in S
    BY <1>2 DEF Sorts
  <2>2. k < l \/ l < k
    BY <1>4
  <2>3. s[k] \in Nat /\ s[l] \in Nat /\ (s[k] < s[l] \/ s[l] < s[k])
    BY <1>2, <2>1, <2>2 DEF Sorts
  <2>4. QED
    BY <2>3
<1>5. QED
  BY <1>2, <1>3, <1>4 DEF Sorts, Range, IsInjective, s

(* A loop that pushes what it meets leaves every slot once, the last first. *)
THEOREM DescendingListing ==
  ASSUME NEW S \in SUBSET Nat, IsFiniteSet(S)
  PROVE  /\ Descending(S) \in Seq(S)
         /\ Len(Descending(S)) = Cardinality(S)
         /\ Range(Descending(S)) = S
         /\ IsInjective(Descending(S))
<1> DEFINE n == Cardinality(S)
           s == Ascending(S)
           r == Descending(S)
<1>1. n \in Nat
  BY FS_CardinalityType
<1>2. s \in Seq(S) /\ Len(s) = n /\ Range(s) = S /\ IsInjective(s)
  BY AscendingListing
<1>3. r = [k \in 1 .. n |-> s[n - k + 1]]
  BY <1>2 DEF Descending, Reverse
<1> HIDE DEF s, r
<1>4. r \in Seq(S) /\ Len(r) = n /\ DOMAIN r = 1 .. n /\ DOMAIN s = 1 .. n
  BY <1>1, <1>2, <1>3
<1>5. \A k \in 1 .. n : n - k + 1 \in 1 .. n /\ n - (n - k + 1) + 1 = k
  BY <1>1
<1>6. Range(r) = S
  <2>1. ASSUME NEW x \in S PROVE \E k \in 1 .. n : r[k] = x
    <3>1. PICK l \in 1 .. n : s[l] = x
      BY <1>2, <1>4 DEF Range
    <3>2. QED
      BY <1>3, <1>5, <3>1
  <2>2. \A k \in 1 .. n : r[k] \in S
    BY <1>4
  <2>3. QED
    BY <1>4, <2>1, <2>2 DEF Range
<1>7. IsInjective(r)
  <2>1. ASSUME NEW k \in 1 .. n, NEW l \in 1 .. n, r[k] = r[l] PROVE k = l
    <3>1. n - k + 1 = n - l + 1
      BY <1>2, <1>3, <1>4, <1>5, <2>1 DEF IsInjective
    <3>2. QED
      BY <1>1, <3>1
  <2>2. QED
    BY <1>4, <2>1 DEF IsInjective
<1>8. QED
  BY <1>4, <1>6, <1>7 DEF r

----------------------------------------------------------------------------
(* A function from 1 .. n to itself that confuses no two numbers reaches   *)
(* all of them.                                                            *)
LEMMA InjectiveReachesAll ==
  ASSUME NEW n \in Nat, NEW f \in [1 .. n -> 1 .. n],
         \A k, l \in 1 .. n : f[k] = f[l] => k = l
  PROVE  \A i \in 1 .. n : \E k \in 1 .. n : f[k] = i
<1>1. IsFiniteSet(1 .. n)
  BY FS_Interval
<1>2. f \in Injection(1 .. n, 1 .. n)
  BY Fun_IsInj
<1>3. f \in Surjection(1 .. n, 1 .. n)
  BY <1>1, <1>2, FS_Injection
<1>4. \A i \in 1 .. n : \E k \in 1 .. n : f[k] = i
  BY <1>3 DEF Surjection
<1>5. QED
  BY <1>4

(* Numbers can be listed along any strict total order of them: each at its *)
(* rank, one more than how many come before it.                            *)
LEMMA OrderLists ==
  ASSUME NEW n \in Nat, NEW R,
         \A i \in 1 .. n : <<i, i>> \notin R,
         \A i, j, k \in 1 .. n : <<i, j>> \in R /\ <<j, k>> \in R => <<i, k>> \in R,
         \A i, j \in 1 .. n : i # j => <<i, j>> \in R \/ <<j, i>> \in R
  PROVE  \E f \in [1 .. n -> 1 .. n] :
            \A k, l \in 1 .. n : k < l => <<f[k], f[l]>> \in R
<1> DEFINE Below(i) == {j \in 1 .. n : <<j, i>> \in R}
           rank == [i \in 1 .. n |-> Cardinality(Below(i)) + 1]
<1>1. IsFiniteSet(1 .. n) /\ Cardinality(1 .. n) = n
  BY FS_Interval
<1>2. ASSUME NEW i \in 1 .. n
      PROVE  IsFiniteSet(Below(i)) /\ Cardinality(Below(i)) \in Nat
  <2>1. Below(i) \in SUBSET (1 .. n)
    OBVIOUS
  <2> HIDE DEF Below
  <2>2. IsFiniteSet(Below(i))
    BY <1>1, <2>1, FS_Subset
  <2>3. QED
    BY <2>2, FS_CardinalityType
<1>3. ASSUME NEW i \in 1 .. n PROVE rank[i] \in 1 .. n
  <2>1. i \notin Below(i) /\ Below(i) \subseteq 1 .. n /\ Below(i) # 1 .. n
    OBVIOUS
  <2> HIDE DEF Below
  <2>2. Below(i) \in SUBSET (1 .. n)
    BY <2>1
  <2>3. Cardinality(Below(i)) <= n /\ Cardinality(Below(i)) # n
    BY <1>1, <2>1, <2>2, FS_Subset
  <2>4. Cardinality(Below(i)) \in Nat
    BY <1>2
  <2>5. Cardinality(Below(i)) + 1 \in 1 .. n
    BY <2>3, <2>4
  <2>6. QED
    BY <2>5 DEF rank
<1>4. ASSUME NEW i \in 1 .. n, NEW j \in 1 .. n, <<i, j>> \in R
      PROVE  rank[i] < rank[j]
  <2>1. Below(i) \subseteq Below(j)
    BY <1>4
  <2>2. i \in Below(j) /\ i \notin Below(i)
    BY <1>4
  <2> HIDE DEF Below
  <2>3. Cardinality(Below(i)) < Cardinality(Below(j))
    BY <1>2, <2>1, <2>2, FS_Subset
  <2>4. QED
    BY <1>2, <2>3
<1>5. rank \in [1 .. n -> 1 .. n]
  BY <1>3
<1> HIDE DEF Below, rank
<1>6. ASSUME NEW i \in 1 .. n, NEW j \in 1 .. n, rank[i] = rank[j] PROVE i = j
  <2>1. rank[i] \in 1 .. n /\ rank[j] \in 1 .. n
    BY <1>5
  <2>2. ~(rank[i] < rank[j]) /\ ~(rank[j] < rank[i])
    BY <1>6, <2>1
  <2>3. QED
    BY <1>4, <2>2
<1>7. \A k \in 1 .. n : \E i \in 1 .. n : rank[i] = k
  BY <1>5, <1>6, InjectiveReachesAll, ZenonT(30)
<1> DEFINE f == [k \in 1 .. n |-> CHOOSE i \in 1 .. n : rank[i] = k]
<1>8. \A k \in 1 .. n : f[k] \in 1 .. n /\ rank[f[k]] = k
  BY <1>7
<1>9. f \in [1 .. n -> 1 .. n]
  BY <1>8
<1> HIDE DEF f
<1>10. ASSUME NEW k \in 1 .. n, NEW l \in 1 .. n, k < l PROVE <<f[k], f[l]>> \in R
  <2>1. f[k] # f[l]
    BY <1>8, <1>10
  <2>2. <<f[l], f[k]>> \notin R
    BY <1>4, <1>8, <1>10
  <2>3. QED
    BY <1>8, <2>1, <2>2
<1>11. QED
  BY <1>9, <1>10

(* The largest of some numbers, taken away, leaves one number fewer. *)
LEMMA MaxFacts ==
  ASSUME NEW n \in Nat, NEW S \in SUBSET (1 .. n), S # {}
  PROVE  /\ IsFiniteSet(S) /\ Max(S) \in S /\ S \ {Max(S)} \in SUBSET (1 .. n)
         /\ Cardinality(S) \in Nat \ {0}
         /\ Cardinality(S \ {Max(S)}) = Cardinality(S) - 1
<1>1. IsFiniteSet(S)
  <2>1. IsFiniteSet(1 .. n)
    BY FS_Interval
  <2>2. QED
    BY <2>1, FS_Subset
<1>2. Max(S) \in S
  <2> DEFINE T == {n - x : x \in S}
  <2>1. T \in SUBSET Nat /\ T # {}
    <3>1. \A x \in 1 .. n : n - x \in Nat
      OBVIOUS
    <3>2. \A x \in S : x \in 1 .. n
      OBVIOUS
    <3>3. QED
      BY <3>1, <3>2
  <2> HIDE DEF T
  <2>2. PICK t \in T : \A y \in T : t <= y
    BY <2>1, LeastElement
  <2>3. PICK x \in S : t = n - x
    BY DEF T
  <2>4. (\A y \in S : n - y \in T) /\ \A y \in S : y \in Nat
    <3>1. \A y \in S : n - y \in T
      BY DEF T
    <3>2. QED
      BY <3>1
  <2>5. \A y \in S : x >= y
    <3>1. \A y \in S : n - x <= n - y
      BY <2>2, <2>3, <2>4
    <3>2. QED
      BY <2>4, <3>1
  <2>6. QED
    BY <2>5 DEF Max
<1>3. QED
  BY <1>1, <1>2, FS_RemoveElement, FS_CardinalityType, FS_EmptySet

----------------------------------------------------------------------------
(* Sequences one after another.                                            *)

(* What a sequence of them makes one after another is one of them.         *)
ClosedUnderConcat(S) == \A s, t \in S : s \o t \in S

(* flat is what has been put together so far, at each of the sequences F.  *)
Flattens(flat, F, S) ==
    /\ flat \in [1 .. Len(F) -> S]
    /\ FlattenSeq(F) = flat[Len(F)] /\ flat[1] = F[1]
    /\ \A k \in 2 .. Len(F) : flat[k] = flat[k - 1] \o F[k]

(* What follows the first is put behind what there is, one by one.         *)
LEMMA FlattenChain ==
  ASSUME NEW S, ClosedUnderConcat(S), NEW F \in Seq(S), Len(F) # 0
  PROVE  \E flat : Flattens(flat, F, S)
<1> DEFINE n == Len(F)
           Body(h) == [i \in 1 .. n |-> IF i = 1 THEN F[i] ELSE h[i - 1] \o F[i]]
           step == [z \in S \X (1 .. n - 1) |-> z[1] \o F[z[2] + 1]]
           flat == CHOOSE h : h = Body(h)
<1>1. n \in Nat /\ n >= 1 /\ n - 1 \in Nat
  BY LenProperties
<1>2. FlattenSeq(F) = flat[n]
  BY DEF FlattenSeq
<1>3. \A i \in 1 .. n : F[i] \in S
  BY ElementOfSeq
<1>4. \A s, t \in S : s \o t \in S
  BY DEF ClosedUnderConcat
<1> HIDE DEF n
<1>5. PICK f : IsChain(f, F[1], step, n - 1)
  <2> HIDE DEF step
  <2>1. QED
    BY <1>1, ChainExists
<1>6. \A d \in 0 .. n - 1 : f[d] = IF d = 0 THEN F[1] ELSE step[<<f[d - 1], d>>]
  BY <1>5 DEF IsChain
<1>7. \A d \in 0 .. n - 1 : f[d] \in S
  <2> DEFINE T == {d \in 0 .. n - 1 : f[d] \in S}
  <2>1. 0 \in T
    <3>1. 0 \in 0 .. n - 1 /\ 1 \in 1 .. n
      BY <1>1
    <3>2. f[0] = F[1]
      BY <1>6, <3>1
    <3>3. QED
      BY <1>3, <3>1, <3>2
  <2>2. ASSUME NEW d \in 1 .. n - 1, d - 1 \in T PROVE d \in T
    <3>1. d \in 0 .. n - 1 /\ d # 0 /\ f[d - 1] \in S /\ d + 1 \in 1 .. n
      BY <1>1, <2>2
    <3>2. f[d] = step[<<f[d - 1], d>>]
      BY <1>6, <3>1
    <3>3. <<f[d - 1], d>> \in S \X (1 .. n - 1)
      BY <3>1
    <3>4. f[d] = f[d - 1] \o F[d + 1]
      BY <3>2, <3>3
    <3>5. QED
      BY <1>3, <1>4, <3>1, <3>4
  <2> HIDE DEF T
  <2>3. \A d \in 0 .. n - 1 : d \in T
    BY <1>1, <2>1, <2>2, UpTo
  <2>4. QED
    BY <2>3 DEF T
<1> DEFINE g == [i \in 1 .. n |-> f[i - 1]]
<1>8. g = Body(g)
  <2>1. ASSUME NEW i \in 1 .. n PROVE g[i] = IF i = 1 THEN F[i] ELSE g[i - 1] \o F[i]
    <3>1. i - 1 \in 0 .. n - 1 /\ (i # 1 => i - 1 \in 1 .. n /\ i - 1 \in 1 .. n - 1 /\ i - 1 # 0)
      BY <1>1
    <3>2. CASE i = 1
      <4>1. i - 1 = 0 /\ 0 \in 0 .. n - 1
        BY <1>1, <3>2
      <4>2. f[i - 1] = F[i]
        BY <1>6, <3>2, <4>1
      <4>3. QED
        BY <3>2, <4>2
    <3>3. CASE i # 1
      <4>1. g[i] = f[i - 1] /\ g[i - 1] = f[(i - 1) - 1] /\ (i - 1) - 1 \in 0 .. n - 1
        BY <1>1, <3>1, <3>3
      <4>2. f[i - 1] = step[<<f[(i - 1) - 1], i - 1>>]
        BY <1>6, <3>1, <3>3
      <4>3. <<f[(i - 1) - 1], i - 1>> \in S \X (1 .. n - 1)
        BY <1>7, <3>1, <3>3, <4>1
      <4>4. f[i - 1] = f[(i - 1) - 1] \o F[(i - 1) + 1]
        BY <4>2, <4>3
      <4>5. (i - 1) + 1 = i
        BY <1>1
      <4>6. QED
        BY <3>3, <4>1, <4>4, <4>5
    <3>4. QED
      BY <3>2, <3>3
  <2> HIDE DEF step
  <2>2. QED
    BY <2>1
<1> HIDE DEF step, g
<1>9. flat = Body(flat)
  BY <1>8
<1> HIDE DEF flat
<1>10. \A i \in 1 .. n : flat[i] = IF i = 1 THEN F[i] ELSE flat[i - 1] \o F[i]
  BY <1>9
<1>11. DOMAIN flat = 1 .. n
  BY <1>9
<1> HIDE DEF Body
<1>12. \A d \in 0 .. n - 1 : flat[d + 1] \in S
  <2> DEFINE T == {d \in 0 .. n - 1 : flat[d + 1] \in S}
  <2>1. 0 \in T
    <3>1. 0 \in 0 .. n - 1 /\ 1 \in 1 .. n
      BY <1>1
    <3>2. flat[0 + 1] = F[1]
      BY <1>10, <3>1
    <3>3. QED
      BY <1>3, <3>1, <3>2
  <2>2. ASSUME NEW d \in 1 .. n - 1, d - 1 \in T PROVE d \in T
    <3>1. /\ d \in 0 .. n - 1 /\ d + 1 \in 1 .. n /\ d + 1 # 1
          /\ (d - 1) + 1 = d /\ (d + 1) - 1 = d
      BY <1>1
    <3>2. flat[d] \in S
      BY <2>2, <3>1
    <3>3. flat[d + 1] = flat[d] \o F[d + 1]
      BY <1>10, <3>1
    <3>4. QED
      BY <1>3, <1>4, <3>1, <3>2, <3>3
  <2> HIDE DEF T
  <2>3. \A d \in 0 .. n - 1 : d \in T
    BY <1>1, <2>1, <2>2, UpTo
  <2>4. QED
    BY <2>3 DEF T
<1>13. \A i \in 1 .. n : flat[i] \in S
  <2>1. ASSUME NEW i \in 1 .. n PROVE flat[i] \in S
    <3>1. i - 1 \in 0 .. n - 1 /\ (i - 1) + 1 = i
      BY <1>1
    <3>2. QED
      BY <1>12, <3>1
  <2>2. QED
    BY <2>1
<1>14. flat \in [1 .. n -> S]
  <2>1. flat = [i \in 1 .. n |-> flat[i]]
    BY <1>9 DEF Body
  <2>2. QED
    BY <1>13, <2>1
<1>15. 1 \in 1 .. n /\ \A k \in 2 .. n : k \in 1 .. n /\ k # 1
  BY <1>1
<1>16. Flattens(flat, F, S)
  BY <1>2, <1>10, <1>14, <1>15 DEF n, Flattens
<1>17. QED
  BY <1>16

(* Ten of them. *)
LEMMA TenInARow ==
  ASSUME NEW S, ClosedUnderConcat(S), NEW F \in Seq(S), Len(F) = 10
  PROVE  FlattenSeq(F) = (((((((((F[1] \o F[2]) \o F[3]) \o F[4]) \o F[5]) \o F[6]) \o F[7])
                              \o F[8]) \o F[9]) \o F[10])
<1>1. PICK a : Flattens(a, F, S)
  BY FlattenChain
<1>2. /\ FlattenSeq(F) = a[10] /\ a[1] = F[1]
      /\ \A k \in 2 .. 10 : a[k] = a[k - 1] \o F[k]
  BY <1>1 DEF Flattens
<1>3. /\ 2 \in 2 .. 10 /\ 2 - 1 = 1
      /\ 3 \in 2 .. 10 /\ 3 - 1 = 2
      /\ 4 \in 2 .. 10 /\ 4 - 1 = 3
      /\ 5 \in 2 .. 10 /\ 5 - 1 = 4
      /\ 6 \in 2 .. 10 /\ 6 - 1 = 5
      /\ 7 \in 2 .. 10 /\ 7 - 1 = 6
      /\ 8 \in 2 .. 10 /\ 8 - 1 = 7
      /\ 9 \in 2 .. 10 /\ 9 - 1 = 8
      /\ 10 \in 2 .. 10 /\ 10 - 1 = 9
  OBVIOUS
<1>4. a[2] = F[1] \o F[2]
  <2>1. a[2] = a[2 - 1] \o F[2]
    BY <1>2, <1>3, Zenon
  <2>2. QED
    BY <1>2, <1>3, <2>1, Zenon
<1>5. a[3] = (F[1] \o F[2]) \o F[3]
  <2>1. a[3] = a[3 - 1] \o F[3]
    BY <1>2, <1>3, Zenon
  <2>2. QED
    BY <1>2, <1>3, <1>4, <2>1, Zenon
<1>6. a[4] = ((F[1] \o F[2]) \o F[3]) \o F[4]
  <2>1. a[4] = a[4 - 1] \o F[4]
    BY <1>2, <1>3, Zenon
  <2>2. QED
    BY <1>2, <1>3, <1>5, <2>1, Zenon
<1>7. a[5] = (((F[1] \o F[2]) \o F[3]) \o F[4]) \o F[5]
  <2>1. a[5] = a[5 - 1] \o F[5]
    BY <1>2, <1>3, Zenon
  <2>2. QED
    BY <1>2, <1>3, <1>6, <2>1, Zenon
<1>8. a[6] = ((((F[1] \o F[2]) \o F[3]) \o F[4]) \o F[5]) \o F[6]
  <2>1. a[6] = a[6 - 1] \o F[6]
    BY <1>2, <1>3, Zenon
  <2>2. QED
    BY <1>2, <1>3, <1>7, <2>1, Zenon
<1>9. a[7] = (((((F[1] \o F[2]) \o F[3]) \o F[4]) \o F[5]) \o F[6]) \o F[7]
  <2>1. a[7] = a[7 - 1] \o F[7]
    BY <1>2, <1>3, Zenon
  <2>2. QED
    BY <1>2, <1>3, <1>8, <2>1, Zenon
<1>10. a[8] = ((((((F[1] \o F[2]) \o F[3]) \o F[4]) \o F[5]) \o F[6]) \o F[7]) \o F[8]
  <2>1. a[8] = a[8 - 1] \o F[8]
    BY <1>2, <1>3, Zenon
  <2>2. QED
    BY <1>2, <1>3, <1>9, <2>1, Zenon
<1>11. a[9] = (((((((F[1] \o F[2]) \o F[3]) \o F[4]) \o F[5]) \o F[6]) \o F[7]) \o F[8]) \o F[9]
  <2>1. a[9] = a[9 - 1] \o F[9]
    BY <1>2, <1>3, Zenon
  <2>2. QED
    BY <1>2, <1>3, <1>10, <2>1, Zenon
<1>12. a[10] = ((((((((F[1] \o F[2]) \o F[3]) \o F[4]) \o F[5]) \o F[6]) \o F[7]) \o F[8]) \o F[9]) \o F[10]
  <2>1. a[10] = a[10 - 1] \o F[10]
    BY <1>2, <1>3, Zenon
  <2>2. QED
    BY <1>2, <1>3, <1>11, <2>1, Zenon
<1>13. QED
  BY <1>2, <1>12, Zenon
=============================================================================
