----------------------------- MODULE AssetProofs -----------------------------
(***************************************************************************)
(* Proofs about the asset registry and the files it loads, for every       *)
(* number of slots, every set of ids and names, and every size of the      *)
(* arenas, of the renderer's table and of the counters.                    *)
(***************************************************************************)
EXTENDS AssetFiles, SequenceTheorems, FiniteSetTheorems, SortedSetsProofs

AssetRecords ==
    [path : Paths, type : Types, lifetime : Lifetimes, base : Nat, size : Sizes,
     texture : Textures \union {NoTexture}, refcount : 0 .. RefMax]

(* A slot has a generation from its first use on. *)
RegistryTypes ==
    /\ generations \in [Slots -> 0 .. GenMax]
    /\ Live \subseteq Slots
    /\ assets \in [Live -> AssetRecords]
    /\ free_stack \in Seq(Slots)
    /\ next_fresh \in 0 .. Capacity
    /\ level_offset \in Nat /\ global_offset \in Nat
    /\ initialized \in BOOLEAN
    /\ rendered \subseteq Textures
    /\ \A i \in Slots : generations[i] = 0 <=> next_fresh <= i

(* Each part leans on the others: a payload placed at an arena's offset is *)
(* apart from the rest because they end below it, a slot that is taken is  *)
(* not live because of the stack, and what a release destroys or forgets   *)
(* belongs to no other asset because ids and textures are held once.       *)
RegistryInv == RegistryTypes /\ PayloadsDisjoint /\ IndexExact /\ TexturesOwned /\ SlotsAccounted

----------------------------------------------------------------------------
(* A stack of slots. *)

(* Taking the top of a stack of slots leaves the others, each once. *)
LEMMA StackTop ==
  ASSUME NEW S, NEW s \in Seq(S), s # << >>, IsInjective(s)
  PROVE  /\ Front(s) \in Seq(S) /\ IsInjective(Front(s))
         /\ Last(s) \in S /\ Last(s) \in Range(s)
         /\ Range(Front(s)) = Range(s) \ {Last(s)}
<1> DEFINE n == Len(s)
           f == Front(s)
<1>1. n \in Nat \ {0} /\ DOMAIN s = 1 .. n /\ \A k \in 1 .. n : s[k] \in S
  BY EmptySeq, LenProperties, ElementOfSeq
<1>2. f = SubSeq(s, 1, n - 1) /\ Last(s) = s[n]
  BY DEF Front, Last
<1>3. f \in Seq(S) /\ Len(f) = n - 1 /\ \A k \in 1 .. n - 1 : f[k] = s[k]
  <2>1. n - 1 \in Int /\ 1 \in Int /\ \A k \in 1 .. n - 1 : s[k] \in S
    BY <1>1
  <2> HIDE DEF n
  <2>2. /\ SubSeq(s, 1, n - 1) \in Seq(S)
        /\ Len(SubSeq(s, 1, n - 1)) = IF 1 <= n - 1 THEN n - 1 - 1 + 1 ELSE 0
        /\ \A k \in 1 .. n - 1 - 1 + 1 : SubSeq(s, 1, n - 1)[k] = s[1 + k - 1]
    BY <2>1, SubSeqProperties
  <2>3. QED
    BY <1>1, <1>2, <2>2
<1> HIDE DEF f, n
<1>4. DOMAIN f = 1 .. n - 1
  BY <1>3, LenProperties
<1>5. \A k, l \in 1 .. n : s[k] = s[l] => k = l
  BY <1>1 DEF IsInjective
<1>6. IsInjective(f)
  BY <1>1, <1>3, <1>4, <1>5 DEF IsInjective
<1>7. Last(s) \in S /\ Last(s) \in Range(s)
  BY <1>1, <1>2 DEF Range
<1>8. ASSUME NEW x \in Range(f) PROVE x \in Range(s) \ {Last(s)}
  <2>1. PICK k \in 1 .. n - 1 : x = f[k]
    BY <1>4, <1>8 DEF Range
  <2>2. k \in 1 .. n /\ n \in 1 .. n /\ k # n /\ x = s[k]
    BY <1>1, <1>3, <2>1
  <2>3. QED
    BY <1>1, <1>2, <1>5, <2>2 DEF Range
<1>9. ASSUME NEW x \in Range(s), x # Last(s) PROVE x \in Range(f)
  <2>1. PICK k \in 1 .. n : x = s[k]
    BY <1>1, <1>9 DEF Range
  <2>2. k \in 1 .. n - 1 /\ f[k] = x
    BY <1>1, <1>2, <1>3, <1>9, <2>1
  <2>3. QED
    BY <1>4, <2>2 DEF Range
<1>10. QED
  BY <1>3, <1>6, <1>7, <1>8, <1>9 DEF f

(* Two stacks without a common slot, one on the other. *)
LEMMA StackPush ==
  ASSUME NEW S, NEW s \in Seq(S), NEW t \in Seq(S), IsInjective(s), IsInjective(t),
         Range(s) \cap Range(t) = {}
  PROVE  /\ s \o t \in Seq(S) /\ IsInjective(s \o t)
         /\ Range(s \o t) = Range(s) \union Range(t)
<1> DEFINE n == Len(s)
           m == Len(t)
           u == s \o t
<1>1. /\ n \in Nat /\ DOMAIN s = 1 .. n
      /\ m \in Nat /\ DOMAIN t = 1 .. m
  BY LenProperties
<1>2. /\ u \in Seq(S) /\ Len(u) = n + m
      /\ \A k \in 1 .. n + m : u[k] = IF k <= n THEN s[k] ELSE t[k - n]
  BY ConcatProperties
<1> HIDE DEF u, n, m
<1>3. DOMAIN u = 1 .. n + m
  BY <1>2, LenProperties
<1>4. /\ \A k \in 1 .. n : k \in 1 .. n + m /\ u[k] = s[k] /\ s[k] \in Range(s)
      /\ \A k \in 1 .. m : k + n \in 1 .. n + m /\ u[k + n] = t[k] /\ t[k] \in Range(t)
      /\ \A k \in 1 .. n + m : \/ k \in 1 .. n
                               \/ k - n \in 1 .. m /\ u[k] = t[k - n] /\ t[k - n] \in Range(t)
  <2>1. /\ \A k \in 1 .. n : s[k] \in Range(s)
        /\ \A k \in 1 .. m : t[k] \in Range(t)
    BY <1>1 DEF Range
  <2>2. ASSUME NEW k \in 1 .. n PROVE k \in 1 .. n + m /\ u[k] = s[k]
    BY <1>1, <1>2
  <2>3. ASSUME NEW k \in 1 .. m PROVE k + n \in 1 .. n + m /\ u[k + n] = t[k]
    <3>1. k + n \in 1 .. n + m /\ ~(k + n <= n) /\ (k + n) - n = k
      BY <1>1
    <3>2. QED
      BY <1>2, <3>1
  <2>4. ASSUME NEW k \in 1 .. n + m, k \notin 1 .. n
        PROVE  k - n \in 1 .. m /\ u[k] = t[k - n]
    BY <1>1, <1>2, <2>4
  <2>5. QED
    BY <2>1, <2>2, <2>3, <2>4
<1>5. ASSUME NEW k \in 1 .. n + m, NEW l \in 1 .. n + m, u[k] = u[l] PROVE k = l
  <2>1. CASE k \in 1 .. n /\ l \in 1 .. n
    BY <1>1, <1>4, <1>5, <2>1 DEF IsInjective
  <2>2. CASE k - n \in 1 .. m /\ l - n \in 1 .. m /\ k \notin 1 .. n /\ l \notin 1 .. n
    <3>1. t[k - n] = t[l - n]
      BY <1>4, <1>5, <2>2
    <3>2. k - n = l - n
      BY <1>1, <2>2, <3>1 DEF IsInjective
    <3>3. QED
      BY <1>1, <3>2
  <2>3. CASE k \in 1 .. n /\ l \notin 1 .. n
    BY <1>4, <1>5, <2>3
  <2>4. CASE k \notin 1 .. n /\ l \in 1 .. n
    BY <1>4, <1>5, <2>4
  <2>5. QED
    BY <1>4, <2>1, <2>2, <2>3, <2>4
<1>6. IsInjective(u)
  BY <1>3, <1>5 DEF IsInjective
<1>7. Range(u) \subseteq Range(s) \union Range(t)
  BY <1>3, <1>4 DEF Range
<1>8. ASSUME NEW x \in Range(s) \union Range(t) PROVE x \in Range(u)
  <2>1. CASE x \in Range(s)
    <3>1. PICK k \in 1 .. n : x = s[k]
      BY <1>1, <2>1 DEF Range
    <3>2. QED
      BY <1>3, <1>4, <3>1 DEF Range
  <2>2. CASE x \in Range(t)
    <3>1. PICK k \in 1 .. m : x = t[k]
      BY <1>1, <2>2 DEF Range
    <3>2. QED
      BY <1>3, <1>4, <3>1 DEF Range
  <2>3. QED
    BY <1>8, <2>1, <2>2
<1>9. QED
  BY <1>2, <1>6, <1>7, <1>8 DEF u

----------------------------------------------------------------------------
(* The operations of the registry. *)

(* The invariant holds of the registry after assets_init. *)
LEMMA InitRegistry == Init => RegistryInv
<1> SUFFICES ASSUME Init PROVE RegistryInv
  OBVIOUS
<1>1. Live = {} /\ DOMAIN by_id = {} /\ rendered = {} /\ free_stack = << >>
  BY DEF Init, Live
<1>2. RegistryTypes
  BY <1>1, RegistryAssumption DEF Init, RegistryTypes, Slots, Live
<1>3. Range(free_stack) = {} /\ IsInjective(free_stack)
  BY <1>1 DEF Range, IsInjective
<1>4. SlotsAccounted
  <2>1. Cardinality(Live) = 0
    BY <1>1, FS_EmptySet
  <2>2. {i \in Slots : i < next_fresh /\ i \notin Live} = {}
    BY DEF Init, Slots
  <2>3. QED
    BY <1>1, <1>3, <2>1, <2>2 DEF SlotsAccounted, Init
<1>5. QED
  BY <1>1, <1>2, <1>4 DEF RegistryInv, PayloadsDisjoint, IndexExact, TexturesOwned

(* There are finitely many slots. *)
LEMMA SlotsFinite ==
  ASSUME NEW S \in SUBSET Slots
  PROVE  IsFiniteSet(S) /\ Cardinality(S) \in Nat /\ S \in SUBSET Nat
<1>1. 0 \in Int /\ Capacity - 1 \in Int
  BY RegistryAssumption
<1>2. IsFiniteSet(Slots)
  BY <1>1, FS_Interval DEF Slots
<1>3. QED
  <2>1. IsFiniteSet(S)
    BY <1>2, FS_Subset
  <2>2. Cardinality(S) \in Nat
    BY <2>1, FS_CardinalityType
  <2>3. S \in SUBSET Nat
    BY DEF Slots
  <2>4. QED
    BY <2>1, <2>2, <2>3

(* What an allocation takes was free, from the stack or not used before. *)
LEMMA NextSlotFacts ==
  ASSUME RegistryInv, NEW slot \in NextSlot
  PROVE  /\ slot \in Slots \ Live
         /\ \/ free_stack # << >> /\ slot = Last(free_stack) /\ slot < next_fresh
            \/ free_stack = << >> /\ slot = next_fresh /\ next_fresh < Capacity
<1>1. CASE free_stack # << >>
  <2>1. slot = Last(free_stack)
    BY <1>1 DEF NextSlot
  <2>2. slot \in Range(free_stack)
    BY <1>1, <2>1, StackTop DEF RegistryInv, RegistryTypes, SlotsAccounted
  <2>3. QED
    BY <1>1, <2>1, <2>2 DEF RegistryInv, SlotsAccounted
<1>2. CASE free_stack = << >>
  <2>1. slot = next_fresh /\ next_fresh \notin Live /\ next_fresh < Capacity
    BY <1>2 DEF NextSlot
  <2>2. next_fresh \in 0 .. Capacity /\ Capacity \in Nat
    BY RegistryAssumption DEF RegistryInv, RegistryTypes
  <2>3. QED
    BY <1>2, <2>1, <2>2 DEF Slots
<1>3. QED
  BY <1>1, <1>2

(* What a registration adds, beside what was there. *)
LEMMA CommitKeeps ==
  ASSUME RegistryInv,
         NEW path \in Paths, NEW type \in Types, NEW lifetime \in Lifetimes,
         NEW size \in Sizes, NEW texture \in Textures \union {NoTexture},
         path.id \notin DOMAIN by_id, texture \notin rendered,
         Commit(path, type, lifetime, size, texture),
         rendered' = rendered \union ({texture} \ {NoTexture})
  PROVE  RegistryInv'
<1> DEFINE new == [path |-> path, type |-> type, lifetime |-> lifetime,
                   base |-> Offset(lifetime), size |-> size, texture |-> texture,
                   refcount |-> IF lifetime = "global" THEN 1 ELSE 0]
<1>1. PICK slot \in NextSlot :
        /\ generations' = [generations EXCEPT ![slot] = IF @ = 0 THEN 1 ELSE @]
        /\ assets' = [i \in Live \union {slot} |-> IF i # slot THEN assets[i] ELSE new]
        /\ by_id' = [id \in DOMAIN by_id \union {path.id} |->
                        IF id = path.id THEN slot ELSE by_id[id]]
  BY DEF Commit
<1>2. /\ slot \in Slots \ Live
      /\ \/ free_stack # << >> /\ slot = Last(free_stack) /\ slot < next_fresh
         \/ free_stack = << >> /\ slot = next_fresh /\ next_fresh < Capacity
  BY NextSlotFacts
<1>3. new \in AssetRecords
  BY RegistryAssumption
     DEF AssetRecords, Offset, RegistryInv, RegistryTypes, Lifetimes
<1>4. /\ new.path = path /\ new.lifetime = lifetime /\ new.size = size
      /\ new.base = Offset(lifetime) /\ new.texture = texture
  OBVIOUS
<1> HIDE DEF new
<1>5. /\ Live' = Live \union {slot}
      /\ assets'[slot] = new
      /\ \A i \in Live : assets'[i] = assets[i] /\ i # slot
  BY <1>1, <1>2 DEF Live
<1>6. /\ level_offset' = IF lifetime = "level" THEN level_offset + size ELSE level_offset
      /\ global_offset' = IF lifetime = "level" THEN global_offset ELSE global_offset + size
      /\ Offset(lifetime) + size <= Room(lifetime)
      /\ level_offset \in Nat /\ global_offset \in Nat
  BY DEF Commit, HasRoom, RegistryInv, RegistryTypes
<1>7. \A i \in Live : assets[i] \in AssetRecords
  BY DEF RegistryInv, RegistryTypes
<1>8. next_fresh \in 0 .. Capacity /\ Capacity \in Nat /\ Sizes \subseteq Nat
  BY RegistryAssumption DEF RegistryInv, RegistryTypes
<1>9. RegistryTypes'
  <2>1. generations' \in [Slots -> 0 .. GenMax]
    <3>1. generations \in [Slots -> 0 .. GenMax] /\ 1 \in 0 .. GenMax
      BY RegistryAssumption DEF RegistryInv, RegistryTypes
    <3>2. QED
      BY <1>1, <1>2, <3>1
  <2>2. Live' \subseteq Slots /\ assets' \in [Live' -> AssetRecords]
    BY <1>1, <1>2, <1>3, <1>5, <1>7 DEF RegistryInv, RegistryTypes
  <2>3. free_stack' \in Seq(Slots)
    <3>1. free_stack \in Seq(Slots) /\ IsInjective(free_stack)
      BY DEF RegistryInv, RegistryTypes, SlotsAccounted
    <3>2. CASE free_stack # << >>
      BY <3>1, <3>2, StackTop DEF Commit
    <3>3. CASE free_stack = << >>
      BY <3>1, <3>3 DEF Commit
    <3>4. QED
      BY <3>2, <3>3
  <2>4. next_fresh' \in 0 .. Capacity
    BY <1>2, <1>8 DEF Commit
  <2>5. level_offset' \in Nat /\ global_offset' \in Nat
    BY <1>8 DEF Commit, RegistryInv, RegistryTypes
  <2>6. initialized' \in BOOLEAN /\ rendered' \subseteq Textures
    BY DEF Commit, RegistryInv, RegistryTypes
  <2>7. ASSUME NEW i \in Slots PROVE generations'[i] = 0 <=> next_fresh' <= i
    <3>1. generations[i] = 0 <=> next_fresh <= i
      BY DEF RegistryInv, RegistryTypes
    <3>2. generations'[i] = IF i = slot /\ generations[i] = 0 THEN 1 ELSE generations[i]
      BY <1>1, <1>2 DEF RegistryInv, RegistryTypes
    <3>3. next_fresh' = IF free_stack # << >> THEN next_fresh ELSE next_fresh + 1
      BY DEF Commit
    <3>4. i \in Nat /\ slot \in Nat
      BY <1>2 DEF Slots
    <3>5. QED
      BY <1>2, <1>8, <3>1, <3>2, <3>3, <3>4
  <2>8. QED
    BY <2>1, <2>2, <2>3, <2>4, <2>5, <2>6, <2>7 DEF RegistryTypes
<1>10. PayloadsDisjoint'
  <2>1. \A i \in Live :
          /\ assets[i].base + assets[i].size <= Offset(assets[i].lifetime)
          /\ Offset(assets[i].lifetime) <= Room(assets[i].lifetime)
          /\ assets[i].base \in Nat /\ assets[i].size \in Nat
          /\ assets[i].lifetime \in Lifetimes
    BY <1>7, <1>8 DEF RegistryInv, PayloadsDisjoint, AssetRecords
  <2>2. ASSUME NEW i \in Live'
        PROVE  (/\ assets[i].base + assets[i].size <= Offset(assets[i].lifetime)
                /\ Offset(assets[i].lifetime) <= Room(assets[i].lifetime))'
    <3>1. CASE i = slot
      BY <1>4, <1>5, <1>6, <1>8, <3>1 DEF Offset, Room
    <3>2. CASE i \in Live
      <4>1. assets'[i] = assets[i]
        BY <1>5, <3>2
      <4>2. CASE assets[i].lifetime = lifetime
        <5>1. assets[i].base + assets[i].size <= Offset(lifetime)
          BY <2>1, <3>2, <4>2
        <5>2. assets[i].base + assets[i].size \in Nat
          BY <2>1, <3>2
        <5>3. QED
          BY <1>6, <1>8, <4>1, <4>2, <5>1, <5>2 DEF Offset, Room
      <4>3. CASE assets[i].lifetime # lifetime
        BY <1>6, <2>1, <3>2, <4>1, <4>3 DEF Offset, Room, Lifetimes
      <4>4. QED
        BY <4>2, <4>3
    <3>3. QED
      BY <1>5, <3>1, <3>2
  <2>3. ASSUME NEW i \in Live', NEW j \in Live' \ {i},
               assets'[i].lifetime = assets'[j].lifetime
        PROVE  \/ assets'[i].base + assets'[i].size <= assets'[j].base
               \/ assets'[j].base + assets'[j].size <= assets'[i].base
    <3>1. CASE i = slot
      <4>1. j \in Live /\ assets'[j] = assets[j]
        BY <1>5, <3>1
      <4>2. QED
        BY <1>4, <1>5, <2>1, <2>3, <3>1, <4>1
    <3>2. CASE j = slot
      <4>1. i \in Live /\ assets'[i] = assets[i]
        BY <1>5, <3>2
      <4>2. QED
        BY <1>4, <1>5, <2>1, <2>3, <3>2, <4>1
    <3>3. CASE i \in Live /\ j \in Live
      BY <1>5, <2>3, <3>3 DEF RegistryInv, PayloadsDisjoint
    <3>4. QED
      BY <1>5, <3>1, <3>2, <3>3
  <2>4. QED
    BY <2>2, <2>3 DEF PayloadsDisjoint
<1>11. IndexExact'
  <2>1. DOMAIN by_id' = DOMAIN by_id \union {path.id}
    BY <1>1
  <2>2. {assets'[i].path.id : i \in Live'} = {assets[i].path.id : i \in Live} \union {path.id}
    BY <1>4, <1>5
  <2>3. ASSUME NEW i \in Live' PROVE by_id'[assets'[i].path.id] = i
    <3>1. CASE i = slot
      BY <1>1, <1>4, <1>5, <3>1
    <3>2. CASE i \in Live
      <4>1. assets[i].path.id \in DOMAIN by_id /\ by_id[assets[i].path.id] = i
        BY <3>2 DEF RegistryInv, IndexExact
      <4>2. assets[i].path.id # path.id
        BY <4>1
      <4>3. QED
        BY <1>1, <1>5, <3>2, <4>1, <4>2
    <3>3. QED
      BY <1>5, <3>1, <3>2
  <2>4. QED
    BY <2>1, <2>2, <2>3 DEF IndexExact, RegistryInv
<1>12. TexturesOwned'
  <2>1. {assets'[i].texture : i \in Live'} = {assets[i].texture : i \in Live} \union {texture}
    BY <1>4, <1>5
  <2>2. rendered' = {assets'[i].texture : i \in Live'} \ {NoTexture}
    BY <2>1 DEF RegistryInv, TexturesOwned
  <2>3. \A i \in Live : assets[i].texture = texture => texture = NoTexture
    BY DEF RegistryInv, TexturesOwned
  <2>4. ASSUME NEW i \in Live', NEW j \in Live',
               assets'[i].texture = assets'[j].texture, i # j
        PROVE  assets'[i].texture = NoTexture
    <3>1. CASE i \in Live /\ j \in Live
      BY <1>5, <2>4, <3>1 DEF RegistryInv, TexturesOwned
    <3>2. CASE i = slot \/ j = slot
      BY <1>4, <1>5, <2>3, <2>4, <3>2
    <3>3. QED
      BY <1>5, <3>1, <3>2
  <2>5. QED
    BY <2>2, <2>4 DEF TexturesOwned
<1>13. SlotsAccounted'
  <2>1. /\ Range(free_stack) = {i \in Slots : i < next_fresh /\ i \notin Live}
        /\ IsInjective(free_stack) /\ \A i \in Live : i < next_fresh
    BY DEF RegistryInv, SlotsAccounted
  <2>2. live_count' = Cardinality(Live')
    <3>1. IsFiniteSet(Live) /\ slot \notin Live
      BY <1>2, SlotsFinite DEF RegistryInv, RegistryTypes
    <3>2. Cardinality(Live \union {slot}) = Cardinality(Live) + 1
      BY <3>1, FS_AddElement
    <3>3. QED
      BY <1>5, <3>2 DEF Commit, RegistryInv, SlotsAccounted
  <2>3. \A i \in Slots : i \in Nat
    BY DEF Slots
  <2>4. CASE free_stack # << >>
    <3>1. free_stack' = Front(free_stack) /\ next_fresh' = next_fresh
          /\ slot = Last(free_stack) /\ slot < next_fresh
      BY <1>2, <2>4 DEF Commit
    <3>2. IsInjective(free_stack') /\ Range(free_stack') = Range(free_stack) \ {slot}
      BY <2>1, <2>4, <3>1, StackTop DEF RegistryInv, RegistryTypes
    <3>3. Range(free_stack') = {i \in Slots : i < next_fresh' /\ i \notin Live'}
      BY <1>5, <2>1, <3>1, <3>2
    <3>4. QED
      BY <1>5, <2>1, <2>2, <3>1, <3>2, <3>3 DEF SlotsAccounted
  <2>5. CASE free_stack = << >>
    <3>1. free_stack' = << >> /\ next_fresh' = next_fresh + 1 /\ slot = next_fresh
      BY <1>2, <2>5 DEF Commit
    <3>2. Range(free_stack') = {}
      BY <3>1 DEF Range
    <3>3. {i \in Slots : i < next_fresh /\ i \notin Live} = {}
      BY <2>1, <2>5, <3>1, <3>2
    <3>4. {i \in Slots : i < next_fresh' /\ i \notin Live'} = {}
      BY <1>5, <1>8, <2>3, <3>1, <3>3
    <3>5. \A i \in Live' : i < next_fresh'
      BY <1>5, <1>8, <2>1, <2>3, <3>1 DEF RegistryInv, RegistryTypes
    <3>6. QED
      BY <2>1, <2>2, <2>5, <3>1, <3>2, <3>4, <3>5 DEF SlotsAccounted
  <2>6. QED
    BY <2>4, <2>5
<1>14. QED
  BY <1>9, <1>10, <1>11, <1>12, <1>13 DEF RegistryInv

(* What is retired is forgotten everywhere; an arena is only rewound when  *)
(* nothing that stays is in it.                                            *)
LEMMA RetireKeeps ==
  ASSUME RegistryInv, NEW S \in SUBSET Live, Retire(S),
         level_offset' \in Nat, global_offset' \in Nat, initialized' \in BOOLEAN,
         level_offset' = level_offset \/ \A i \in Live \ S : assets[i].lifetime # "level",
         global_offset' = global_offset \/ \A i \in Live \ S : assets[i].lifetime # "global"
  PROVE  RegistryInv'
<1>1. /\ Live' = Live \ S
      /\ \A i \in Live' : assets'[i] = assets[i]
      /\ assets' = [i \in Live \ S |-> assets[i]]
  BY DEF Retire, Live
<1>2. \A i \in Live : i \in Slots /\ assets[i] \in AssetRecords /\ i < next_fresh
  BY DEF RegistryInv, RegistryTypes, SlotsAccounted
<1>3. IsFiniteSet(S) /\ S \in SUBSET Nat /\ S \subseteq Slots /\ IsFiniteSet(Live)
  BY <1>2, SlotsFinite
<1>4. /\ free_stack \in Seq(Slots) /\ IsInjective(free_stack)
      /\ Range(free_stack) = {i \in Slots : i < next_fresh /\ i \notin Live}
  BY DEF RegistryInv, RegistryTypes, SlotsAccounted
<1>5. /\ Ascending(S) \in Seq(Slots) /\ IsInjective(Ascending(S))
      /\ Range(Ascending(S)) = S
  BY <1>3, AscendingListing, SeqMonotonic
<1>6. /\ free_stack' \in Seq(Slots) /\ IsInjective(free_stack')
      /\ Range(free_stack') = Range(free_stack) \union S
  <2>1. Range(free_stack) \cap Range(Ascending(S)) = {}
    BY <1>4, <1>5
  <2>2. free_stack' = free_stack \o Ascending(S)
    BY DEF Retire
  <2>3. QED
    BY <1>4, <1>5, <2>1, <2>2, StackPush
<1>7. RegistryTypes'
  <2>1. \A i \in Slots : generations[i] \in 0 .. GenMax
    BY DEF RegistryInv, RegistryTypes
  <2>2. \A g \in 0 .. GenMax : NextGen(g) \in 1 .. GenMax
    BY RegistryAssumption DEF NextGen
  <2>3. \A i \in Slots : generations'[i] = IF i \in S THEN NextGen(generations[i])
                                                      ELSE generations[i]
    BY DEF Retire
  <2>4. generations' \in [Slots -> 0 .. GenMax]
    <3>1. \A g \in 1 .. GenMax : g \in 0 .. GenMax
      OBVIOUS
    <3>2. QED
      BY <2>1, <2>2, <3>1 DEF Retire
  <2>5. ASSUME NEW i \in Slots PROVE generations'[i] = 0 <=> next_fresh' <= i
    <3>1. next_fresh' = next_fresh /\ (generations[i] = 0 <=> next_fresh <= i)
      BY DEF Retire, RegistryInv, RegistryTypes
    <3>2. CASE i \in S
      <4>1. generations'[i] \in 1 .. GenMax
        BY <2>1, <2>2, <2>3, <3>2
      <4>2. i < next_fresh /\ i \in Nat /\ next_fresh \in Nat
        BY <1>2, <3>2 DEF Slots, RegistryInv, RegistryTypes
      <4>3. QED
        BY <3>1, <4>1, <4>2
    <3>3. CASE i \notin S
      BY <2>3, <3>1, <3>3
    <3>4. QED
      BY <3>2, <3>3
  <2>6. Live' \subseteq Slots /\ assets' \in [Live' -> AssetRecords]
    BY <1>1, <1>2
  <2>7. rendered' \subseteq Textures /\ next_fresh' \in 0 .. Capacity
    BY DEF Retire, RegistryInv, RegistryTypes
  <2>8. QED
    BY <1>6, <2>4, <2>5, <2>6, <2>7 DEF RegistryTypes
<1>8. PayloadsDisjoint'
  <2>1. ASSUME NEW i \in Live'
        PROVE  (/\ assets[i].base + assets[i].size <= Offset(assets[i].lifetime)
                /\ Offset(assets[i].lifetime) <= Room(assets[i].lifetime))'
    <3>1. assets'[i] = assets[i] /\ i \in Live \ S /\ assets[i].lifetime \in Lifetimes
      BY <1>1, <1>2 DEF AssetRecords
    <3>2. /\ assets[i].base + assets[i].size <= Offset(assets[i].lifetime)
          /\ Offset(assets[i].lifetime) <= Room(assets[i].lifetime)
      BY <3>1 DEF RegistryInv, PayloadsDisjoint
    <3>3. CASE assets[i].lifetime = "level"
      BY <3>1, <3>2, <3>3 DEF Offset
    <3>4. CASE assets[i].lifetime = "global"
      BY <3>1, <3>2, <3>4 DEF Offset
    <3>5. QED
      BY <3>1, <3>3, <3>4 DEF Lifetimes
  <2>2. ASSUME NEW i \in Live', NEW j \in Live' \ {i},
               assets'[i].lifetime = assets'[j].lifetime
        PROVE  \/ assets'[i].base + assets'[i].size <= assets'[j].base
               \/ assets'[j].base + assets'[j].size <= assets'[i].base
    BY <1>1, <2>2 DEF RegistryInv, PayloadsDisjoint
  <2>3. QED
    BY <2>1, <2>2 DEF PayloadsDisjoint
<1>9. IndexExact'
  <2>1. /\ DOMAIN by_id = {assets[i].path.id : i \in Live}
        /\ \A i \in Live : by_id[assets[i].path.id] = i
    BY DEF RegistryInv, IndexExact
  <2>2. /\ DOMAIN by_id' = {id \in DOMAIN by_id : by_id[id] \notin S}
        /\ \A id \in DOMAIN by_id' : by_id'[id] = by_id[id]
    BY DEF Retire, IndexWithout
  <2>3. ASSUME NEW i \in Live'
        PROVE  assets'[i].path.id \in DOMAIN by_id' /\ by_id'[assets'[i].path.id] = i
    BY <1>1, <2>1, <2>2
  <2>4. ASSUME NEW id \in DOMAIN by_id'
        PROVE  \E i \in Live' : id = assets'[i].path.id
    <3>1. PICK i \in Live : id = assets[i].path.id
      BY <2>1, <2>2
    <3>2. i \in Live'
      BY <1>1, <2>1, <2>2, <3>1
    <3>3. QED
      BY <1>1, <3>1, <3>2
  <2>5. QED
    BY <2>3, <2>4 DEF IndexExact
<1>10. TexturesOwned'
  <2>1. /\ rendered = {assets[i].texture : i \in Live} \ {NoTexture}
        /\ \A i, j \in Live :
            assets[i].texture = assets[j].texture /\ i # j => assets[i].texture = NoTexture
    BY DEF RegistryInv, TexturesOwned
  <2>2. rendered' = rendered \ ({assets[i].texture : i \in S} \ {NoTexture})
    BY DEF Retire, TexturesOf
  <2>3. ASSUME NEW x \in rendered'
        PROVE  x # NoTexture /\ \E i \in Live' : x = assets'[i].texture
    <3>1. PICK i \in Live : x = assets[i].texture
      BY <2>1, <2>2
    <3>2. x # NoTexture /\ i \notin S
      BY <2>1, <2>2, <3>1
    <3>3. QED
      BY <1>1, <3>1, <3>2
  <2>4. ASSUME NEW i \in Live', assets'[i].texture # NoTexture
        PROVE  assets'[i].texture \in rendered'
    <3>1. assets'[i] = assets[i] /\ i \in Live /\ i \notin S
      BY <1>1
    <3>2. \A j \in S : assets[j].texture # assets[i].texture
      BY <2>1, <2>4, <3>1
    <3>3. QED
      BY <2>1, <2>2, <2>4, <3>1, <3>2
  <2>5. ASSUME NEW i \in Live', NEW j \in Live',
               assets'[i].texture = assets'[j].texture, i # j
        PROVE  assets'[i].texture = NoTexture
    BY <1>1, <2>1, <2>5
  <2>6. QED
    BY <2>3, <2>4, <2>5 DEF TexturesOwned
<1>11. SlotsAccounted'
  <2>1. next_fresh' = next_fresh
    BY DEF Retire
  <2>2. Range(free_stack') = {i \in Slots : i < next_fresh' /\ i \notin Live'}
    BY <1>1, <1>2, <1>4, <1>6, <2>1
  <2>3. live_count' = Cardinality(Live')
    <3>1. Cardinality(Live \ S) = Cardinality(Live) - Cardinality(Live \cap S)
      BY <1>3, FS_Difference
    <3>2. Live \cap S = S
      OBVIOUS
    <3>3. QED
      BY <1>1, <3>1, <3>2 DEF Retire, RegistryInv, SlotsAccounted
  <2>4. QED
    BY <1>1, <1>2, <1>6, <2>1, <2>2, <2>3 DEF SlotsAccounted
<1>12. QED
  BY <1>7, <1>8, <1>9, <1>10, <1>11 DEF RegistryInv

(* A count of references says nothing about slots, payloads and textures.  *)
LEMMA CountKeeps ==
  ASSUME RegistryInv, NEW slot \in Live, NEW n \in 0 .. RefMax,
         assets' = [assets EXCEPT ![slot].refcount = n],
         UNCHANGED <<generations, free_stack, next_fresh, live_count, by_id,
                     level_offset, global_offset, initialized, rendered>>
  PROVE  RegistryInv'
<1>1. \A i \in Live : assets[i] \in AssetRecords
  BY DEF RegistryInv, RegistryTypes
<1>2. Live' = Live /\ assets' \in [Live -> AssetRecords]
  BY <1>1 DEF Live, AssetRecords, RegistryInv, RegistryTypes
<1>3. ASSUME NEW i \in Live
      PROVE  /\ assets'[i].path = assets[i].path /\ assets'[i].lifetime = assets[i].lifetime
             /\ assets'[i].base = assets[i].base /\ assets'[i].size = assets[i].size
             /\ assets'[i].texture = assets[i].texture
  BY <1>1 DEF Live, AssetRecords
<1>4. RegistryTypes'
  BY <1>2 DEF RegistryInv, RegistryTypes
<1>5. PayloadsDisjoint'
  BY <1>2, <1>3 DEF RegistryInv, PayloadsDisjoint, Offset, Room
<1>6. IndexExact'
  BY <1>2, <1>3 DEF RegistryInv, IndexExact
<1>7. TexturesOwned'
  BY <1>2, <1>3 DEF RegistryInv, TexturesOwned
<1>8. SlotsAccounted'
  BY <1>2 DEF RegistryInv, SlotsAccounted
<1>9. QED
  BY <1>4, <1>5, <1>6, <1>7, <1>8 DEF RegistryInv

(* The renderer hands out a texture that it did not hold. *)
LEMMA TextureFacts ==
  ASSUME RegistryInv, rendered # Textures
  PROVE  Min(Textures \ rendered) \in Textures \ rendered
<1> DEFINE T == Textures \ rendered
<1>1. T # {} /\ T \in SUBSET Nat
  <2>1. rendered \subseteq Textures
    BY DEF RegistryInv, RegistryTypes
  <2>2. \A x \in Textures : x \in Nat
    BY RegistryAssumption DEF Textures
  <2>3. QED
    BY <2>1, <2>2
<1> HIDE DEF T
<1>2. \E x \in T : \A y \in T : x <= y
  BY <1>1, LeastElement
<1>3. Min(T) \in T
  BY <1>2 DEF Min
<1>4. QED
  BY <1>3 DEF T

(* Registering a new asset keeps the invariant, also where it fails on the *)
(* way: with the slots, the arena, the renderer or the index.              *)
LEMMA RegisterKeeps ==
  ASSUME RegistryInv, NEW path \in Paths, NEW lifetime \in Lifetimes, NEW size \in Sizes,
         RegisterTexture(path, lifetime, size) \/ RegisterSound(path, lifetime, size)
  PROVE  RegistryInv'
<1>1. CASE RegisterTexture(path, lifetime, size)
  <2> DEFINE texture == Min(Textures \ rendered)
  <2>1. texture \in Textures \ rendered /\ texture # NoTexture
    BY <1>1, TextureFacts DEF RegisterTexture, Textures, NoTexture
  <2>2. Commit(path, "texture", lifetime, size, texture)
        /\ rendered' = rendered \union {texture} /\ path.id \notin DOMAIN by_id
    BY <1>1 DEF RegisterTexture
  <2> HIDE DEF texture
  <2>3. "texture" \in Types /\ {texture} \ {NoTexture} = {texture}
    BY <2>1 DEF Types
  <2>4. QED
    BY <2>1, <2>2, <2>3, CommitKeeps
<1>2. CASE RegisterSound(path, lifetime, size)
  <2>1. /\ Commit(path, "sound", lifetime, size, NoTexture)
        /\ rendered' = rendered \union ({NoTexture} \ {NoTexture}) /\ path.id \notin DOMAIN by_id
    BY <1>2 DEF RegisterSound
  <2>2. "sound" \in Types /\ NoTexture \notin rendered
    BY DEF Types, NoTexture, Textures, RegistryInv, RegistryTypes
  <2>3. QED
    BY <2>1, <2>2, CommitKeeps
<1>3. QED
  BY <1>1, <1>2

(* Acquiring an asset that is there only counts a reference. *)
LEMMA AcquireKeeps ==
  ASSUME RegistryInv, NEW path \in Paths, NEW type \in Types, NEW lifetime \in Lifetimes,
         Acquire(path, type, lifetime)
  PROVE  RegistryInv'
<1> DEFINE slot == by_id[path.id]
<1>1. slot \in Live
  BY DEF Acquire, RegistryInv, IndexExact
<1>2. /\ assets[slot].refcount < RefMax
      /\ assets' = [assets EXCEPT ![slot].refcount = @ + 1]
  BY DEF Acquire
<1> HIDE DEF slot
<1>3. assets[slot].refcount + 1 \in 0 .. RefMax
  BY <1>1, <1>2, RegistryAssumption DEF RegistryInv, RegistryTypes, AssetRecords
<1>4. assets' = [assets EXCEPT ![slot].refcount = assets[slot].refcount + 1]
  BY <1>2
<1>5. QED
  BY <1>1, <1>3, <1>4, CountKeeps DEF Acquire

(* Releases, one by one or of a level, and the end. *)
LEMMA UnloadKeeps ==
  ASSUME RegistryInv, UnloadLevel \/ Shutdown \/ \E h \in Handles : ReleaseGlobal(h)
  PROVE  RegistryInv'
<1>1. level_offset \in Nat /\ global_offset \in Nat /\ initialized \in BOOLEAN /\ 0 \in Nat
  BY DEF RegistryInv, RegistryTypes
<1>2. CASE UnloadLevel
  <2>1. LevelSlots \in SUBSET Live
        /\ \A i \in Live \ LevelSlots : assets[i].lifetime # "level"
    BY DEF LevelSlots, RegistryInv, SlotsAccounted
  <2>2. QED
    BY <1>1, <1>2, <2>1, RetireKeeps DEF UnloadLevel
<1>3. CASE Shutdown
  <2> DEFINE S == {i \in Live : i < next_fresh}
  <2>1. S \in SUBSET Live /\ Live \ S = {} /\ Retire(S)
    BY <1>3 DEF Shutdown, RegistryInv, SlotsAccounted
  <2> HIDE DEF S
  <2>2. QED
    BY <1>1, <1>3, <2>1, RetireKeeps DEF Shutdown
<1>4. ASSUME NEW h \in Handles, ReleaseGlobal(h) PROVE RegistryInv'
  <2>1. h.index \in Live /\ assets[h.index].refcount # 0
        /\ UNCHANGED <<level_offset, global_offset, initialized>>
    BY <1>4 DEF ReleaseGlobal, ValidHandle
  <2>2. CASE assets[h.index].refcount = 1
    <3>1. Retire({h.index}) /\ {h.index} \in SUBSET Live
      BY <1>4, <2>1, <2>2 DEF ReleaseGlobal
    <3>2. QED
      BY <1>1, <2>1, <3>1, RetireKeeps
  <2>3. CASE assets[h.index].refcount # 1
    <3> DEFINE slot == h.index
    <3>1. /\ assets' = [assets EXCEPT ![slot].refcount = assets[slot].refcount - 1]
          /\ UNCHANGED <<rendered, by_id, generations, free_stack, live_count, next_fresh>>
      BY <1>4, <2>3 DEF ReleaseGlobal
    <3> HIDE DEF slot
    <3>2. slot \in Live /\ assets[slot].refcount - 1 \in 0 .. RefMax
      BY <2>1, RegistryAssumption DEF RegistryInv, RegistryTypes, AssetRecords, slot
    <3>3. QED
      BY <2>1, <3>1, <3>2, CountKeeps
  <2>4. QED
    BY <2>2, <2>3
<1>5. QED
  BY <1>2, <1>3, <1>4

(* Every operation of the registry keeps its invariant. *)
LEMMA RegistryStep == RegistryInv /\ [Next]_vars => RegistryInv'
<1> SUFFICES ASSUME RegistryInv, [Next]_vars PROVE RegistryInv'
  OBVIOUS
<1>1. ASSUME NEW path \in Paths, NEW lifetime \in Lifetimes, NEW size \in Sizes,
             RegisterTexture(path, lifetime, size) \/ RegisterSound(path, lifetime, size)
      PROVE  RegistryInv'
  BY <1>1, RegisterKeeps
<1>2. ASSUME NEW path \in Paths, NEW type \in Types, NEW lifetime \in Lifetimes,
             Acquire(path, type, lifetime)
      PROVE  RegistryInv'
  BY <1>2, AcquireKeeps
<1>3. CASE UnloadLevel \/ Shutdown \/ \E h \in Handles : ReleaseGlobal(h)
  BY <1>3, UnloadKeeps
<1>4. CASE UNCHANGED vars
  BY <1>4 DEF vars, RegistryInv, RegistryTypes, PayloadsDisjoint, IndexExact, TexturesOwned,
              SlotsAccounted, Live, Offset
<1>5. QED
  BY <1>1, <1>2, <1>3, <1>4 DEF Next

----------------------------------------------------------------------------
(* What the registry promises.                                             *)

(* The invariant of the registry, whatever its callers register, release   *)
(* and unload.                                                             *)
THEOREM RegistryInvariant == Spec => []RegistryInv
<1>1. Init => RegistryInv
  BY InitRegistry
<1>2. RegistryInv /\ [Next]_vars => RegistryInv'
  BY RegistryStep
<1>3. QED
  BY <1>1, <1>2, PTL DEF Spec

(* No action of the registry takes a global asset from other holders: only *)
(* the release of the last reference, or the shutdown, retires it.         *)
LEMMA GlobalsStep ==
  ASSUME RegistryInv, Next, initialized',
         NEW i \in Live, assets[i].lifetime = "global", assets[i].refcount > 1
  PROVE  i \in DOMAIN assets' /\ generations'[i] = generations[i]
<1>1. \A j \in Live : j \in Slots /\ assets[j] \in AssetRecords
  BY DEF RegistryInv, RegistryTypes
<1>2. generations \in [Slots -> 0 .. GenMax]
  BY DEF RegistryInv, RegistryTypes
<1>3. ASSUME NEW S, Retire(S), i \notin S
      PROVE  i \in DOMAIN assets' /\ generations'[i] = generations[i]
  <2>1. /\ assets' = [j \in Live \ S |-> assets[j]]
        /\ generations' = [j \in Slots |-> IF j \in S THEN NextGen(generations[j])
                                                      ELSE generations[j]]
    BY <1>3 DEF Retire
  <2>2. QED
    BY <1>1, <1>3, <2>1
<1>4. ASSUME NEW path, NEW type, NEW lifetime, NEW size, NEW texture,
             Commit(path, type, lifetime, size, texture)
      PROVE  i \in DOMAIN assets' /\ generations'[i] = generations[i]
  <2>1. PICK slot \in NextSlot :
          /\ generations' = [generations EXCEPT ![slot] = IF @ = 0 THEN 1 ELSE @]
          /\ DOMAIN assets' = Live \union {slot}
    BY <1>4 DEF Commit
  <2>2. slot \in Slots \ Live
    BY NextSlotFacts
  <2>3. QED
    BY <1>1, <1>2, <2>1, <2>2
<1>5. ASSUME NEW path \in Paths, NEW type \in Types, NEW lifetime \in Lifetimes,
             Acquire(path, type, lifetime)
      PROVE  i \in DOMAIN assets' /\ generations'[i] = generations[i]
  BY <1>5 DEF Acquire, Live
<1>6. ASSUME NEW h \in Handles, ReleaseGlobal(h)
      PROVE  i \in DOMAIN assets' /\ generations'[i] = generations[i]
  <2>1. CASE assets[h.index].refcount = 1
    <3>1. i \notin {h.index} /\ Retire({h.index})
      BY <1>6, <2>1 DEF ReleaseGlobal
    <3>2. QED
      BY <1>3, <3>1
  <2>2. CASE assets[h.index].refcount # 1
    BY <1>6, <2>2 DEF ReleaseGlobal, Live
  <2>3. QED
    BY <2>1, <2>2
<1>7. CASE UnloadLevel
  <2>1. Retire(LevelSlots) /\ i \notin LevelSlots
    BY <1>7 DEF UnloadLevel, LevelSlots
  <2>2. QED
    BY <1>3, <2>1
<1>8. ~Shutdown
  BY DEF Shutdown
<1>9. QED
  BY <1>4, <1>5, <1>6, <1>7, <1>8 DEF Next, RegisterTexture, RegisterSound

(* A global asset outlives an unload of a level and any single release     *)
(* while others hold it.                                                   *)
THEOREM GlobalsOutlive == Spec => GlobalsOutliveOthers
<1> DEFINE Kept ==
      \A i \in Live :
        assets[i].lifetime = "global" /\ assets[i].refcount > 1 /\ initialized' =>
            i \in DOMAIN assets' /\ generations'[i] = generations[i]
<1>1. RegistryInv /\ [Next]_vars => [Kept]_vars
  BY GlobalsStep
<1>2. QED
  BY <1>1, RegistryInvariant, PTL DEF Spec, GlobalsOutliveOthers

----------------------------------------------------------------------------
(* The files: what is on the disk, that a file of one cook is what it is   *)
(* writing, and that every complete baked file, unless cooks have mixed in *)
(* it, is one that a cook was completed for.                               *)

Contents == {"loose"} \union UNION {s.contents : s \in Scenarios}

FileRecords ==
    [format : {"mba", "tga", "wav"}, id : Ids, size : Sizes, written : Nat,
     content : Contents, mixed : BOOLEAN]

FilesTypes ==
    /\ scenario \in Scenarios
    /\ \A cook \in cooking :
            cook.path \in DOMAIN disk /\ cook.id \in Ids /\ cook.size \in Sizes
    /\ \A p \in DOMAIN disk : disk[p] \in FileRecords

(* The file is the one cook's, or of several. *)
Holds(file, cook) ==
    ~file.mixed => /\ file.id = cook.id /\ file.size = cook.size
                   /\ file.content = cook.content

CooksHold == \A cook \in cooking : Holds(disk[cook.path], cook)

(* What is there to the end was recorded when it was completed. *)
Recorded(file, done) ==
    file.format = "mba" /\ ~file.mixed /\ file.written = Header + file.size =>
        [id |-> file.id, content |-> file.content] \in done

CooksRecorded == \A p \in DOMAIN disk : Recorded(disk[p], cooked)

DiskOK == FilesTypes /\ CooksHold /\ CooksRecorded

FilesInv == RegistryInv /\ DiskOK /\ LoadedAsBaked

(* At the start there are no files and no assets. *)
LEMMA InitFiles == FilesInit => FilesInv
<1> SUFFICES ASSUME FilesInit PROVE FilesInv
  OBVIOUS
<1>1. RegistryInv
  BY InitRegistry DEF FilesInit
<1>2. DOMAIN disk = {} /\ cooking = {} /\ scenario \in Scenarios /\ Live = {}
  BY DEF FilesInit, Init, Live
<1>3. QED
  BY <1>1, <1>2 DEF FilesInv, DiskOK, FilesTypes, CooksHold, CooksRecorded, LoadedAsBaked

(* No cook is given the contents that a torn file would show. *)
LEMMA ContentFacts ==
  /\ \A c \in Contents : c # "torn"
  /\ \A file \in FileRecords : /\ file.size \in Sizes /\ file.id \in Ids
                               /\ file.content \in Contents /\ file.content # "torn"
<1>1. ASSUME NEW c \in Contents PROVE c # "torn"
  <2>1. CASE c = "loose"
    BY <2>1
  <2>2. CASE c # "loose"
    <3>1. c \in UNION {s.contents : s \in Scenarios}
      BY <2>2 DEF Contents
    <3>2. PICK C \in {s.contents : s \in Scenarios} : c \in C
      BY <3>1
    <3>3. PICK s \in Scenarios : c \in s.contents
      BY <3>2
    <3>4. QED
      BY <3>3, FilesAssumption
  <2>3. QED
    BY <2>1, <2>2
<1>2. QED
  BY <1>1 DEF FileRecords

(* Whoever puts a file somewhere puts one that is not yet complete, or     *)
(* loose, or complete as it was elsewhere; and what a cook writes to is    *)
(* its own, or of several.                                                 *)
LEMMA FilePutKeeps ==
  ASSUME DiskOK, NEW path, NEW file \in FileRecords, NEW gone, Recorded(file, cooked'),
         disk' = [p \in (DOMAIN disk \union {path}) \ gone |->
                    IF p = path THEN file ELSE disk[p]],
         \A cook \in cooking' :
            /\ cook.id \in Ids /\ cook.size \in Sizes /\ cook.path \in DOMAIN disk'
            /\ cook.path = path => Holds(file, cook)
            /\ cook.path # path => cook \in cooking,
         cooked \subseteq cooked', UNCHANGED scenario
  PROVE  DiskOK'
<1>1. FilesTypes'
  BY DEF DiskOK, FilesTypes
<1>2. CooksRecorded'
  BY DEF DiskOK, CooksRecorded, Recorded
<1>3. CooksHold'
  <2>1. ASSUME NEW cook \in cooking' PROVE Holds(disk'[cook.path], cook)
    <3>1. CASE cook.path = path
      BY <3>1
    <3>2. CASE cook.path # path
      <4>1. disk'[cook.path] = disk[cook.path] /\ cook \in cooking
        BY <3>2
      <4>2. QED
        BY <4>1 DEF DiskOK, CooksHold
    <3>3. QED
      BY <3>1, <3>2
  <2>2. QED
    BY <2>1 DEF CooksHold
<1>4. QED
  BY <1>1, <1>2, <1>3 DEF DiskOK

(* A cook that begins leaves a file that is not complete. *)
LEMMA CookBeginKeeps ==
  ASSUME DiskOK, NEW path, NEW id \in Ids, NEW size \in Sizes, NEW content \in scenario.contents,
         CookBegin(path, id, size, content)
  PROVE  DiskOK'
<1> DEFINE file == [format |-> "mba", id |-> id, size |-> size, written |-> 0,
                    content |-> content, mixed |-> path \in Open]
           new == [no |-> writes, path |-> path, id |-> id, size |-> size,
                   content |-> content]
<1>1. content \in Contents
  BY DEF DiskOK, FilesTypes, Contents
<1>2. file \in FileRecords
  <2>1. (path \in Open) \in BOOLEAN
    OBVIOUS
  <2>2. QED
    BY <1>1, <2>1 DEF FileRecords
<1>3. size \in Nat /\ 0 # Header + size
  BY RegistryAssumption DEF Header
<1>4. /\ file.written = 0 /\ file.size = size /\ file.id = id /\ file.content = content
      /\ file.mixed <=> path \in Open
      /\ new.path = path /\ new.id = id /\ new.size = size /\ new.content = content
  OBVIOUS
<1>5. /\ disk' = [p \in DOMAIN disk \union {path} |-> IF p = path THEN file ELSE disk[p]]
      /\ cooking' = cooking \union {new} /\ cooked' = cooked /\ scenario' = scenario
  BY DEF CookBegin, WithFile
<1> HIDE DEF file, new
<1>6. (DOMAIN disk \union {path}) \ {} = DOMAIN disk \union {path}
  OBVIOUS
<1>7. Recorded(file, cooked')
  BY <1>3, <1>4 DEF Recorded
<1>8. ASSUME NEW cook \in cooking'
      PROVE  /\ cook.id \in Ids /\ cook.size \in Sizes /\ cook.path \in DOMAIN disk'
             /\ cook.path = path => Holds(file, cook)
             /\ cook.path # path => cook \in cooking
  <2>1. CASE cook = new
    BY <1>4, <1>5, <2>1 DEF Holds
  <2>2. CASE cook \in cooking
    <3>1. cook.id \in Ids /\ cook.size \in Sizes /\ cook.path \in DOMAIN disk
      BY <2>2 DEF DiskOK, FilesTypes
    <3>2. cook.path = path => file.mixed
      BY <1>4, <2>2 DEF Open
    <3>3. QED
      BY <1>5, <2>2, <3>1, <3>2 DEF Holds
  <2>3. QED
    BY <1>5, <2>1, <2>2
<1>9. QED
  BY <1>2, <1>5, <1>6, <1>7, <1>8, FilePutKeeps

(* A cook that ends is recorded with the file it completes. *)
LEMMA CookEndKeeps ==
  ASSUME DiskOK, NEW cook \in cooking, CookEnd(cook)
  PROVE  DiskOK' /\ cooked \subseteq cooked'
<1> DEFINE path == cook.path
           old == disk[path]
<1>1. /\ path \in DOMAIN disk /\ old \in FileRecords
      /\ cook.id \in Ids /\ cook.size \in Sizes /\ Holds(old, cook)
  BY DEF DiskOK, FilesTypes, CooksHold
<1>2. PICK written \in 0 .. Header + cook.size, header \in {cook, old} :
        /\ \E length \in Lengths(old, written) :
            disk' = [disk EXCEPT ![path] =
                        [old EXCEPT !.id = header.id, !.size = header.size,
                                    !.written = length]]
        /\ cooked' = IF written = Header + cook.size
                       THEN cooked \union {[id |-> cook.id, content |-> cook.content]}
                       ELSE cooked
        /\ cooking' = cooking \ {cook} /\ scenario' = scenario
  BY DEF CookEnd
<1>3. PICK length \in Lengths(old, written) :
        disk' = [disk EXCEPT ![path] =
                    [old EXCEPT !.id = header.id, !.size = header.size, !.written = length]]
  BY <1>2
<1> DEFINE file == [old EXCEPT !.id = header.id, !.size = header.size, !.written = length]
<1>4. header.id \in Ids /\ header.size \in Sizes
  BY <1>1 DEF FileRecords
<1>5. length \in Nat /\ (~old.mixed => length = written)
  <2>1. cook.size \in Nat /\ old.written \in Nat
    BY <1>1, RegistryAssumption DEF FileRecords
  <2>2. written \in Nat /\ \A n \in old.written .. written : n \in Nat
    BY <2>1 DEF Header
  <2>3. QED
    BY <2>1, <2>2 DEF Lengths
<1>6. file \in FileRecords
  BY <1>1, <1>4, <1>5 DEF FileRecords
<1>7. /\ file.written = length /\ file.size = header.size /\ file.id = header.id
      /\ file.content = old.content /\ file.mixed = old.mixed
  BY <1>1 DEF FileRecords
<1>8. disk' = [p \in DOMAIN disk |-> IF p = path THEN file ELSE disk[p]]
  BY <1>1, <1>3
<1> HIDE DEF file
<1>9. ~old.mixed => /\ header.id = cook.id /\ header.size = cook.size
                    /\ old.content = cook.content /\ old.id = cook.id /\ old.size = cook.size
  BY <1>1 DEF Holds
<1>10. cooked \subseteq cooked'
  BY <1>2
<1>11. Recorded(file, cooked')
  BY <1>2, <1>5, <1>7, <1>9 DEF Recorded
<1>12. ASSUME NEW c \in cooking'
       PROVE  /\ c.id \in Ids /\ c.size \in Sizes /\ c.path \in DOMAIN disk'
              /\ c.path = path => Holds(file, c)
              /\ c.path # path => c \in cooking
  <2>1. c \in cooking
    BY <1>2
  <2>2. /\ c.id \in Ids /\ c.size \in Sizes /\ c.path \in DOMAIN disk
        /\ Holds(disk[c.path], c)
    BY <2>1 DEF DiskOK, FilesTypes, CooksHold
  <2>3. c.path = path => Holds(file, c)
    BY <1>7, <1>9, <2>2 DEF Holds
  <2>4. QED
    BY <1>8, <2>1, <2>2, <2>3
<1>13. (DOMAIN disk \union {path}) \ {} = DOMAIN disk
  BY <1>1
<1>14. disk' = [p \in (DOMAIN disk \union {path}) \ {} |-> IF p = path THEN file ELSE disk[p]]
  BY <1>8, <1>13
<1>15. UNCHANGED scenario
  BY <1>2
<1> HIDE DEF path, old
<1>16. DiskOK'
  BY <1>6, <1>10, <1>11, <1>12, <1>14, <1>15, FilePutKeeps
<1>17. QED
  BY <1>10, <1>16

(* Placing a loose file writes nothing that reads as baked. *)
LEMMA PlaceKeeps ==
  ASSUME DiskOK, NEW path \in Paths, NEW format \in scenario.formats, NEW size \in Sizes,
         NEW written \in Nat, Place(path, format, size, written, "loose")
  PROVE  DiskOK'
<1> DEFINE file == [format |-> format, id |-> path.id, size |-> size,
                    written |-> written, content |-> "loose", mixed |-> FALSE]
<1>1. "loose" \in Contents /\ format \in {"tga", "wav"} /\ path.id \in Ids
  <2>1. scenario \in Scenarios
    BY DEF DiskOK, FilesTypes
  <2>2. format \in {"tga", "wav"}
    BY <2>1, FilesAssumption
  <2>3. path.id \in Ids
    BY DEF Paths
  <2>4. "loose" \in Contents
    BY DEF Contents
  <2>5. QED
    BY <2>2, <2>3, <2>4
<1>2. file \in FileRecords
  BY <1>1 DEF FileRecords
<1>3. file.format # "mba"
  BY <1>1
<1> HIDE DEF file
<1>4. /\ disk' = [p \in DOMAIN disk \union {path} |-> IF p = path THEN file ELSE disk[p]]
      /\ cooking' = cooking /\ cooked' = cooked /\ scenario' = scenario
  BY DEF Place, WithFile, file
<1>5. (DOMAIN disk \union {path}) \ {} = DOMAIN disk \union {path}
  OBVIOUS
<1>6. ASSUME NEW cook \in cooking'
      PROVE  /\ cook.id \in Ids /\ cook.size \in Sizes /\ cook.path \in DOMAIN disk'
             /\ cook.path # path /\ cook \in cooking
  BY <1>4 DEF DiskOK, FilesTypes, Place, Open
<1>7. Recorded(file, cooked')
  BY <1>3 DEF Recorded
<1>8. QED
  BY <1>2, <1>4, <1>5, <1>6, <1>7, FilePutKeeps

(* A baked file that is moved or repeated remains what was cooked. *)
LEMMA MoveKeeps ==
  ASSUME DiskOK, NEW from, NEW to, Move(from, to)
  PROVE  DiskOK'
<1>1. /\ from \in DOMAIN disk /\ from \notin Open /\ to \notin Open /\ from # to
      /\ disk' = [p \in (DOMAIN disk \union {to}) \ {from} |-> IF p = to THEN disk[from]
                                                                     ELSE disk[p]]
      /\ cooking' = cooking /\ cooked' = cooked /\ scenario' = scenario
  BY DEF Move
<1>2. disk[from] \in FileRecords /\ Recorded(disk[from], cooked')
  BY <1>1 DEF DiskOK, FilesTypes, CooksRecorded
<1>3. ASSUME NEW cook \in cooking'
      PROVE  /\ cook.id \in Ids /\ cook.size \in Sizes /\ cook.path \in DOMAIN disk'
             /\ cook.path # to /\ cook \in cooking
  BY <1>1 DEF DiskOK, FilesTypes, Open
<1>4. QED
  BY <1>1, <1>2, <1>3, FilePutKeeps

----------------------------------------------------------------------------
(* What a load shows.                                                      *)

(* A registration takes one slot that was not live and keeps the others;   *)
(* a new slot has the path that was registered.                            *)
LEMMA NewSlot ==
  ASSUME RegistryInv, NEW path, NEW type, NEW lifetime, NEW size, NEW texture,
         Commit(path, type, lifetime, size, texture)
  PROVE  /\ \A i \in Live : i \in DOMAIN assets' /\ assets'[i].path = assets[i].path
         /\ \A i \in DOMAIN assets' \ Live : assets'[i].path = path
<1>1. PICK slot \in NextSlot :
        assets' = [i \in Live \union {slot} |->
            IF i # slot THEN assets[i]
            ELSE [path |-> path, type |-> type, lifetime |-> lifetime,
                  base |-> Offset(lifetime), size |-> size, texture |-> texture,
                  refcount |-> IF lifetime = "global" THEN 1 ELSE 0]]
  BY DEF Commit
<1>2. slot \in Slots \ Live
  BY NextSlotFacts
<1>3. QED
  BY <1>1, <1>2

(* A registration touches no live asset, and shows under its own path. *)
LEMMA RegisterSlot ==
  ASSUME RegistryInv, NEW path, NEW lifetime, NEW size,
         RegisterTexture(path, lifetime, size) \/ RegisterSound(path, lifetime, size)
  PROVE  /\ \A i \in Live : i \in DOMAIN assets' /\ assets'[i].path = assets[i].path
         /\ \A i \in DOMAIN assets' \ Live : assets'[i].path = path
<1>1. PICK type, texture : Commit(path, type, lifetime, size, texture)
  BY DEF RegisterTexture, RegisterSound
<1>2. QED
  BY <1>1, NewSlot

(* An acquisition adds and removes no asset. *)
LEMMA AcquireSlot ==
  ASSUME RegistryInv, NEW path, NEW type, NEW lifetime, Acquire(path, type, lifetime)
  PROVE  /\ DOMAIN assets' = Live
         /\ \A i \in Live : assets'[i].path = assets[i].path
<1>1. by_id[path.id] \in Live
  BY DEF Acquire, RegistryInv, IndexExact
<1>2. \A i \in Live : assets[i] \in AssetRecords
  BY DEF RegistryInv, RegistryTypes
<1>3. QED
  BY <1>1, <1>2 DEF Acquire, Live, AssetRecords

(* What was shown stays, and what is new shows its origin's content.       *)
LEMMA ShowsKeeps ==
  ASSUME LoadedAsBaked, NEW origin, NEW content, Shows(origin, content), cooked' = cooked,
         \A i \in Live : i \in DOMAIN assets' => assets'[i].path = assets[i].path,
         \A i \in DOMAIN assets' \ Live :
            /\ content # "torn"
            /\ origin = "baked" /\ content # "mixed" =>
                [id |-> assets'[i].path.id, content |-> content] \in cooked
  PROVE  LoadedAsBaked'
<1>1. ASSUME NEW i \in DOMAIN assets'
      PROVE  /\ shown'[i].content # "torn"
             /\ shown'[i].origin = "baked" /\ shown'[i].content # "mixed" =>
                    [id |-> assets'[i].path.id, content |-> shown'[i].content] \in cooked'
  <2>1. shown'[i] = IF i \in Live THEN shown[i] ELSE [origin |-> origin, content |-> content]
    BY DEF Shows
  <2>2. QED
    BY <2>1 DEF LoadedAsBaked
<1>2. QED
  BY <1>1 DEF LoadedAsBaked, Live

(* What is read below the root was there to its end.                       *)
LEMMA WholeFile ==
  ASSUME DiskOK, NEW path \in DOMAIN disk, disk[path].written = Header + disk[path].size
  PROVE  /\ disk[path].size \in Sizes /\ disk[path].id \in Ids
         /\ ContentOf(disk[path]) # "torn"
         /\ ContentOf(disk[path]) # "mixed" =>
                ~disk[path].mixed /\ ContentOf(disk[path]) = disk[path].content
BY ContentFacts DEF DiskOK, FilesTypes, ContentOf

(* Loading a baked file is a step of the registry and shows what was       *)
(* cooked.                                                                 *)
LEMMA LoadBakedKeeps ==
  ASSUME FilesInv, NEW path \in Paths, NEW lifetime \in Lifetimes, LoadBaked(path, lifetime)
  PROVE  LoadedAsBaked' /\ Next /\ UNCHANGED files
<1>1. /\ path \in DOMAIN disk /\ disk[path].written = Header + disk[path].size
      /\ disk[path].format = "mba" /\ disk[path].id = path.id
      /\ Shows("baked", ContentOf(disk[path])) /\ UNCHANGED files
  BY DEF LoadBaked, Readable, Baked
<1> DEFINE content == ContentOf(disk[path])
<1>2. /\ disk[path].size \in Sizes /\ content # "torn"
      /\ content # "mixed" => ~disk[path].mixed /\ content = disk[path].content
  BY <1>1, WholeFile DEF FilesInv
<1>3. content # "mixed" => [id |-> path.id, content |-> content] \in cooked
  BY <1>1, <1>2 DEF FilesInv, DiskOK, CooksRecorded, Recorded
<1>4. cooked' = cooked
  BY <1>1 DEF files
<1>5. Shows("baked", content)
  BY <1>1
<1> HIDE DEF content
<1>6. CASE Acquire(path, "texture", lifetime)
  <2>1. /\ DOMAIN assets' = Live
        /\ \A i \in Live : assets'[i].path = assets[i].path
    BY <1>6, AcquireSlot DEF FilesInv
  <2>2. LoadedAsBaked'
    BY <1>4, <1>5, <2>1, ShowsKeeps DEF FilesInv
  <2>3. Next
    BY <1>6 DEF Next, Types
  <2>4. QED
    BY <1>1, <2>2, <2>3
<1>7. CASE RegisterTexture(path, lifetime, disk[path].size)
  <2>1. /\ \A i \in Live : i \in DOMAIN assets' /\ assets'[i].path = assets[i].path
        /\ \A i \in DOMAIN assets' \ Live : assets'[i].path = path
    BY <1>7, RegisterSlot DEF FilesInv
  <2>2. content # "torn"
    BY <1>2
  <2>3. \A i \in DOMAIN assets' \ Live :
            content # "mixed" => [id |-> assets'[i].path.id, content |-> content] \in cooked
    BY <1>3, <2>1
  <2>4. LoadedAsBaked'
    BY <1>4, <1>5, <2>1, <2>2, <2>3, ShowsKeeps DEF FilesInv
  <2>5. Next
    BY <1>2, <1>7 DEF Next
  <2>6. QED
    BY <1>1, <2>4, <2>5
<1>8. QED
  BY <1>6, <1>7 DEF LoadBaked

(* Loading a loose file is a step of the registry and claims no cook. *)
LEMMA LoadLooseKeeps ==
  ASSUME FilesInv, NEW path \in Paths, NEW format \in {"tga", "wav"},
         NEW lifetime \in Lifetimes, LoadLoose(path, format, lifetime)
  PROVE  LoadedAsBaked' /\ Next /\ UNCHANGED files
<1> DEFINE type == IF format = "tga" THEN "texture" ELSE "sound"
           content == IF path \in DOMAIN disk THEN ContentOf(disk[path]) ELSE "none"
<1>1. type \in Types /\ Shows("loose", content) /\ UNCHANGED files
  BY DEF LoadLoose, Types
<1>2. cooked' = cooked
  BY <1>1 DEF files
<1>3. CASE Acquire(path, type, lifetime)
  <2>1. /\ DOMAIN assets' = Live
        /\ \A i \in Live : assets'[i].path = assets[i].path
    BY <1>3, AcquireSlot DEF FilesInv
  <2> HIDE DEF content, type
  <2>2. LoadedAsBaked'
    BY <1>1, <1>2, <2>1, ShowsKeeps DEF FilesInv
  <2>3. Next
    BY <1>1, <1>3 DEF Next
  <2>4. QED
    BY <1>1, <2>2, <2>3
<1>4. CASE /\ Readable(path) /\ Loose(path, format)
           /\ \/ RegisterTexture(path, lifetime, disk[path].size)
              \/ RegisterSound(path, lifetime, disk[path].size)
  <2>1. path \in DOMAIN disk /\ disk[path].written = Header + disk[path].size
    BY <1>4 DEF Readable, Loose
  <2>2. disk[path].size \in Sizes /\ content # "torn"
    BY <2>1, WholeFile DEF FilesInv
  <2>3. /\ \A i \in Live : i \in DOMAIN assets' /\ assets'[i].path = assets[i].path
        /\ \A i \in DOMAIN assets' \ Live : assets'[i].path = path
    BY <1>4, RegisterSlot DEF FilesInv
  <2> HIDE DEF content, type
  <2>4. LoadedAsBaked'
    BY <1>1, <1>2, <2>2, <2>3, ShowsKeeps DEF FilesInv
  <2>5. Next
    BY <1>4, <2>2 DEF Next
  <2>6. QED
    BY <1>1, <2>4, <2>5
<1>5. QED
  BY <1>3, <1>4 DEF LoadLoose

(* A caller who registers bytes of its own claims no cook. *)
LEMMA CallerKeeps ==
  ASSUME FilesInv, NEW path \in Paths, NEW lifetime \in Lifetimes, NEW size \in Sizes,
         Register(path, lifetime, size)
  PROVE  LoadedAsBaked' /\ Next /\ UNCHANGED files
<1>1. Shows("caller", "own") /\ UNCHANGED files /\ cooked' = cooked
  BY DEF Register, files
<1>2. CASE RegisterTexture(path, lifetime, size) \/ RegisterSound(path, lifetime, size)
  <2>1. /\ \A i \in Live : i \in DOMAIN assets' /\ assets'[i].path = assets[i].path
        /\ \A i \in DOMAIN assets' \ Live : assets'[i].path = path
    BY <1>2, RegisterSlot DEF FilesInv
  <2>2. LoadedAsBaked'
    BY <1>1, <2>1, ShowsKeeps DEF FilesInv
  <2>3. QED
    BY <1>1, <1>2, <2>2 DEF Next
<1>3. ASSUME NEW type \in Types, Acquire(path, type, lifetime)
      PROVE  LoadedAsBaked' /\ Next
  <2>1. /\ DOMAIN assets' = Live
        /\ \A i \in Live : assets'[i].path = assets[i].path
    BY <1>3, AcquireSlot DEF FilesInv
  <2>2. LoadedAsBaked'
    BY <1>1, <2>1, ShowsKeeps DEF FilesInv
  <2>3. QED
    BY <1>3, <2>2 DEF Next
<1>4. QED
  BY <1>1, <1>2, <1>3 DEF Register

(* Nothing that is unloaded or released is shown as something else.        *)
LEMMA UnloadShows ==
  ASSUME FilesInv, Unload
  PROVE  LoadedAsBaked' /\ Next /\ UNCHANGED files
<1>1. /\ UnloadLevel \/ Shutdown \/ \E h \in Handles : ReleaseGlobal(h)
      /\ shown' = [i \in DOMAIN assets' |-> shown[i]]
      /\ UNCHANGED files /\ cooked' = cooked
  BY DEF Unload, files
<1>2. \A i \in DOMAIN assets' : i \in Live /\ assets'[i].path = assets[i].path
  <2>1. ASSUME NEW S, Retire(S)
        PROVE  \A i \in DOMAIN assets' : i \in Live /\ assets'[i].path = assets[i].path
    BY <2>1 DEF Retire
  <2>2. ASSUME NEW h \in Handles, ReleaseGlobal(h), assets[h.index].refcount # 1
        PROVE  \A i \in DOMAIN assets' : i \in Live /\ assets'[i].path = assets[i].path
    <3>1. \A i \in Live : assets[i] \in AssetRecords
      BY DEF FilesInv, RegistryInv, RegistryTypes
    <3>2. QED
      BY <2>2, <3>1 DEF ReleaseGlobal, Live, AssetRecords
  <2>3. QED
    BY <1>1, <2>1, <2>2 DEF UnloadLevel, Shutdown, ReleaseGlobal
<1>3. LoadedAsBaked'
  BY <1>1, <1>2 DEF FilesInv, LoadedAsBaked, Live
<1>4. QED
  BY <1>1, <1>3 DEF Next

(* The writers of files leave the registry alone, the loads the files.     *)
LEMMA WritersKeep ==
  ASSUME FilesInv, \/ Writers \/ \E cook \in cooking : CookEnd(cook)
         \/ \E from, to \in FilePaths : Move(from, to)
  PROVE  DiskOK' /\ LoadedAsBaked' /\ UNCHANGED vars
<1>1. DiskOK /\ scenario \in Scenarios
  BY DEF FilesInv, DiskOK, FilesTypes
<1>2. UNCHANGED vars /\ UNCHANGED shown
  BY DEF Writers, CookBegin, Place, CookEnd, Move, registry
<1>3. DiskOK' /\ cooked \subseteq cooked'
  <2>1. ASSUME NEW cook \in cooking, CookEnd(cook)
        PROVE  DiskOK' /\ cooked \subseteq cooked'
    BY <1>1, <2>1, CookEndKeeps
  <2>2. ASSUME NEW from, NEW to, Move(from, to)
        PROVE  DiskOK' /\ cooked \subseteq cooked'
    BY <1>1, <2>2, MoveKeeps DEF Move
  <2>3. ASSUME NEW path \in FilePaths, NEW size \in Sizes, NEW id \in Ids,
               NEW content \in scenario.contents, CookBegin(path, id, size, content)
        PROVE  DiskOK' /\ cooked \subseteq cooked'
    BY <1>1, <2>3, CookBeginKeeps DEF CookBegin
  <2>4. ASSUME NEW path \in FilePaths, NEW size \in Sizes, NEW format \in scenario.formats,
               NEW written \in {size, Header + size},
               Place(path, format, size, written, "loose")
        PROVE  DiskOK' /\ cooked \subseteq cooked'
    <3>1. written \in Nat /\ path \in Paths
      BY RegistryAssumption DEF Header, FilePaths
    <3>2. QED
      BY <1>1, <2>4, <3>1, PlaceKeeps DEF Place
  <2>5. QED
    BY <2>1, <2>2, <2>3, <2>4 DEF Writers
<1>4. LoadedAsBaked'
  BY <1>2, <1>3 DEF FilesInv, LoadedAsBaked, Live, vars
<1>5. QED
  BY <1>2, <1>3, <1>4

(* Every step with files keeps the invariant, and is one of the registry   *)
(* or none.                                                                *)
LEMMA FilesStep == FilesInv /\ [FilesNext]_all => FilesInv' /\ [Next]_vars
<1> SUFFICES ASSUME FilesInv, [FilesNext]_all PROVE FilesInv' /\ [Next]_vars
  OBVIOUS
<1>1. CASE \/ Writers \/ \E cook \in cooking : CookEnd(cook)
         \/ \E from, to \in FilePaths : Move(from, to)
  <2>1. DiskOK' /\ LoadedAsBaked' /\ UNCHANGED vars
    BY <1>1, WritersKeep
  <2>2. RegistryInv'
    BY <2>1, RegistryStep DEF FilesInv
  <2>3. QED
    BY <2>1, <2>2 DEF FilesInv
<1>2. ASSUME LoadedAsBaked', Next, UNCHANGED files PROVE FilesInv' /\ [Next]_vars
  <2>1. RegistryInv'
    BY <1>2, RegistryStep DEF FilesInv
  <2>2. DiskOK'
    BY <1>2 DEF FilesInv, DiskOK, FilesTypes, CooksHold, CooksRecorded, files
  <2>3. QED
    BY <1>2, <2>1, <2>2 DEF FilesInv
<1>3. CASE Loads
  BY <1>2, <1>3, LoadBakedKeeps, LoadLooseKeeps DEF Loads
<1>4. CASE \E path \in Paths, lifetime \in Lifetimes, size \in Sizes :
             Register(path, lifetime, size)
  BY <1>2, <1>4, CallerKeeps
<1>5. CASE Unload
  BY <1>2, <1>5, UnloadShows
<1>6. CASE UNCHANGED all
  <2>1. UNCHANGED vars /\ UNCHANGED files /\ shown' = shown
    BY <1>6 DEF all, registry
  <2>2. RegistryInv'
    BY <2>1, RegistryStep DEF FilesInv
  <2>3. DiskOK' /\ LoadedAsBaked'
    BY <2>1 DEF FilesInv, DiskOK, FilesTypes, CooksHold, CooksRecorded, LoadedAsBaked, files, vars, Live
  <2>4. QED
    BY <2>1, <2>2, <2>3 DEF FilesInv
<1>7. QED
  BY <1>1, <1>3, <1>4, <1>5, <1>6 DEF FilesNext

(* The invariant of registry and files holds in every reachable state:     *)
(* what assets.cpp loads was cooked whole.                                 *)
THEOREM FilesInvariant == FilesSpec => []FilesInv
<1>1. FilesInit => FilesInv
  BY InitFiles
<1>2. FilesInv /\ [FilesNext]_all => FilesInv'
  BY FilesStep
<1>3. QED
  BY <1>1, <1>2, PTL DEF FilesSpec

(* Whatever files come and go, the registry only does what a registry may. *)
THEOREM FilesUseRegistry == FilesSpec => Spec
<1>1. FilesInit => Init
  BY DEF FilesInit
<1>2. FilesInv /\ [FilesNext]_all => [Next]_vars
  BY FilesStep
<1>3. QED
  BY <1>1, <1>2, FilesInvariant, PTL DEF FilesSpec, Spec

(* Rewinding the level arena and using it again never changes what a valid *)
(* handle shows.                                                           *)
THEOREM PayloadsApart == FilesSpec => []PayloadsDisjoint
<1>1. RegistryInv => PayloadsDisjoint
  BY DEF RegistryInv
<1>2. QED
  BY <1>1, FilesUseRegistry, RegistryInvariant, PTL

(* What a lookup finds and what an allocation takes never disagree, and no *)
(* slot is lost or handed out twice.                                       *)
THEOREM RegistryStaysConsistent == FilesSpec => []RegistryConsistent
<1>1. RegistryInv => RegistryConsistent
  BY DEF RegistryInv, RegistryConsistent
<1>2. QED
  BY <1>1, FilesUseRegistry, RegistryInvariant, PTL

(* The renderer holds the textures of the live assets, each once, and      *)
(* no others.                                                              *)
THEOREM NoTextureLeaks == FilesSpec => []TexturesOwned
<1>1. RegistryInv => TexturesOwned
  BY DEF RegistryInv
<1>2. QED
  BY <1>1, FilesUseRegistry, RegistryInvariant, PTL

(* Nothing that is loaded was cut off, and a baked texture shows what a    *)
(* completed cook baked for its id, unless several cookers had the file    *)
(* open at a time.                                                         *)
THEOREM BakedIsWhatIsShown == FilesSpec => []LoadedAsBaked
<1>1. FilesInv => LoadedAsBaked
  BY DEF FilesInv
<1>2. QED
  BY <1>1, FilesInvariant, PTL

(* The loads of files do not weaken what holders of a global rely on.      *)
THEOREM HoldersKeepGlobals == FilesSpec => GlobalsOutliveOthers
BY FilesUseRegistry, GlobalsOutlive, PTL
=============================================================================
