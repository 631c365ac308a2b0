------------------------ MODULE EntityManagerProofs ------------------------
(***************************************************************************)
(* Proofs about the entity allocator for every capacity and every number   *)
(* of generations.                                                         *)
(***************************************************************************)
EXTENDS EntityManager, FiniteSetTheorems, SequenceTheorems, TLAPS

(* What the manager keeps by itself, without the history of the ids: the   *)
(* arrays have their types, the stack holds exactly the used dead slots    *)
(* and the counters are exact.                                             *)
ManagerTypes ==
    /\ generations \in [Slots -> 0 .. GenMax]
    /\ liveness \in [Slots -> BOOLEAN]
    /\ free_stack \in Seq(Slots)
    /\ next_fresh \in 0 .. Capacity
    /\ live_count \in 0 .. Capacity

ManagerInv == ManagerTypes /\ FreeStackExact /\ CountsExact

(* The inductive invariant: in addition, the history of an id is its       *)
(* distance around the ring of generations.                                *)
IInv == TypeOK /\ FreeStackExact /\ CountsExact /\ AgeIsDistance

(* The part of the invariant that does not read the history, which a world *)
(* uses by itself.                                                         *)
LEMMA ManagerOfIInv == IInv => ManagerInv
  BY DEF IInv, TypeOK, ManagerInv, ManagerTypes

(* The parameters are positive naturals. *)
USE CapacityAssumption, GenMaxAssumption

----------------------------------------------------------------------------
(* The live slots are finitely many, so counting them is meaningful. *)
LEMMA OccupiedFinite == IsFiniteSet(Occupied)
<1>1. IsFiniteSet(Slots)
  BY FS_Interval DEF Slots
<1>2. Occupied \subseteq Slots
  BY DEF Occupied
<1>3. QED
  BY <1>1, <1>2, FS_Subset

(* Popping removes exactly the top entry. *)
LEMMA PopProperties ==
  ASSUME free_stack \in Seq(Slots), free_stack # << >>
  PROVE  /\ PoppedStack \in Seq(Slots)
         /\ Len(PoppedStack) = Len(free_stack) - 1
         /\ \A k \in 1 .. Len(free_stack) - 1 : PoppedStack[k] = free_stack[k]
         /\ Len(free_stack) \in Nat \ {0}
         /\ Top \in Slots
<1>1. Len(free_stack) \in Nat \ {0}
  BY EmptySeq, LenProperties
<1>2. Top \in Slots
  BY <1>1, ElementOfSeq DEF Top
<1>3. /\ PoppedStack \in Seq(Slots)
      /\ Len(PoppedStack) = Len(free_stack) - 1
      /\ \A k \in 1 .. Len(free_stack) - 1 : PoppedStack[k] = free_stack[k]
  <2> DEFINE n == Len(free_stack) - 1
  <2>1. n \in Nat /\ \A k \in 1 .. n : free_stack[k] \in Slots
    BY <1>1, ElementOfSeq
  <2> HIDE DEF n
  <2>2. /\ SubSeq(free_stack, 1, n) \in Seq(Slots)
        /\ Len(SubSeq(free_stack, 1, n)) = IF 1 <= n THEN n - 1 + 1 ELSE 0
        /\ \A k \in 1 .. n - 1 + 1 :
              SubSeq(free_stack, 1, n)[k] = free_stack[1 + k - 1]
    BY <2>1, SubSeqProperties, Z3
  <2>3. /\ Len(SubSeq(free_stack, 1, n)) = n
        /\ \A k \in 1 .. n : SubSeq(free_stack, 1, n)[k] = free_stack[k]
    <3>1. n - 1 + 1 = n /\ \A k \in 1 .. n : 1 + k - 1 = k
      BY <2>1
    <3>2. QED
      BY <2>1, <2>2, <3>1
  <2>4. QED
    BY <2>2, <2>3 DEF n, PoppedStack
<1>4. QED
  BY <1>1, <1>2, <1>3

(* Pushing a released slot adds exactly that entry at the top. *)
LEMMA AppendFacts ==
  ASSUME free_stack \in Seq(Slots), NEW i \in Slots
  PROVE  /\ Append(free_stack, i) \in Seq(Slots)
         /\ Len(Append(free_stack, i)) = Len(free_stack) + 1
         /\ Append(free_stack, i)[Len(free_stack) + 1] = i
         /\ \A k \in 1 .. Len(free_stack) : Append(free_stack, i)[k] = free_stack[k]
  OBVIOUS

(* What a create does, whichever slot it takes: one dead slot comes alive. *)
LEMMA CreateEffect ==
  ASSUME ManagerInv, NEW i \in CreateSlot
  PROVE  /\ i \in Slots
         /\ ~liveness[i]
         /\ free_stack # << >> => i = Top
         /\ free_stack = << >> => i = next_fresh /\ next_fresh < Capacity
  BY DEF ManagerInv, ManagerTypes, FreeStackExact, CreateSlot, Slots, Occupied

----------------------------------------------------------------------------
(* A create preserves each part of what the manager keeps. *)
LEMMA CreateManager ==
  ASSUME ManagerInv, DoCreate
  PROVE  ManagerInv'
<1> PICK i \in CreateSlot :
       /\ generations' = [generations EXCEPT ![i] = Issued(i).gen]
       /\ liveness' = [liveness EXCEPT ![i] = TRUE]
       /\ live_count' = live_count + 1
       /\ IF free_stack # << >>
            THEN /\ free_stack' = PoppedStack
                 /\ next_fresh' = next_fresh
            ELSE /\ next_fresh' = next_fresh + 1
                 /\ free_stack' = free_stack
  BY DEF DoCreate
<1>1. /\ i \in Slots
      /\ ~liveness[i]
      /\ free_stack # << >> => i = Top
      /\ free_stack = << >> => i = next_fresh /\ next_fresh < Capacity
  BY CreateEffect
<1>2. generations[i] \in 0 .. GenMax /\ Issued(i).gen \in Generations
  BY <1>1 DEF ManagerInv, ManagerTypes, Issued, Generations
<1>3. Issued(i).gen = IF generations[i] = 0 THEN 1 ELSE generations[i]
  BY DEF Issued
<1>4. free_stack' \in Seq(Slots) /\ Len(free_stack) \in Nat
  BY PopProperties, LenProperties DEF ManagerInv, ManagerTypes
<1>5. free_stack = << >> => Len(free_stack) = 0
  OBVIOUS
<1>6. live_count' + Len(free_stack') = next_fresh'
  BY <1>4, <1>5, PopProperties DEF ManagerInv, ManagerTypes, CountsExact
<1>7. ManagerTypes'
  <2>1. next_fresh' \in 0 .. Capacity
    BY <1>1, <1>5 DEF ManagerInv, ManagerTypes
  <2>2. live_count' \in 0 .. Capacity
    BY <2>1, <1>4, <1>6, LenProperties DEF ManagerInv, ManagerTypes
  <2>3. generations' \in [Slots -> 0 .. GenMax] /\ liveness' \in [Slots -> BOOLEAN]
    BY <1>1, <1>2 DEF ManagerInv, ManagerTypes, Generations
  <2>4. QED
    BY <1>4, <2>1, <2>2, <2>3 DEF ManagerTypes
<1>8. FreeStackExact'
  <2>1. CASE free_stack # << >>
    <3>1. i = Top
      BY <1>1, <2>1
    <3> DEFINE n == Len(free_stack)
    <3>2. /\ n \in Nat \ {0} /\ Len(free_stack') = n - 1
          /\ \A k \in 1 .. n - 1 : free_stack'[k] = free_stack[k]
          /\ free_stack[n] = i
      BY <2>1, <3>1, PopProperties DEF ManagerInv, ManagerTypes, Top
    <3>3. /\ \A j, k \in 1 .. n : free_stack[j] = free_stack[k] => j = k
          /\ Stacked = {free_stack[k] : k \in 1 .. n}
      BY DEF ManagerInv, FreeStackExact, Stacked
    <3> HIDE DEF n
    <3>a. \A j, k \in 1 .. Len(free_stack') : free_stack'[j] = free_stack'[k] => j = k
      BY <3>2, <3>3
    <3>b. Stacked' = Stacked \ {i} /\ i \in Stacked
      <4>1. Stacked' = {free_stack[k] : k \in 1 .. n - 1}
        BY <3>2 DEF Stacked
      <4>2. QED
        BY <3>2, <3>3, <4>1
    <3>4. i < next_fresh /\ generations[i] # 0
      BY <1>1, <3>b DEF ManagerInv, ManagerTypes, FreeStackExact
    <3>5. QED
      BY <1>1, <1>3, <2>1, <3>a, <3>b, <3>4 DEF ManagerInv, ManagerTypes, FreeStackExact, Occupied
  <2>2. CASE free_stack = << >>
    <3>1. i = next_fresh /\ next_fresh' = next_fresh + 1 /\ free_stack' = free_stack
      BY <1>1, <2>2
    <3>2. Stacked' = Stacked /\ Stacked = {}
      BY <1>5, <2>2, <3>1 DEF Stacked
    <3>3. generations[i] = 0
      BY <1>1, <3>1 DEF ManagerInv, ManagerTypes, FreeStackExact
    <3>4. \A j \in Slots : j < next_fresh' <=> j < next_fresh \/ j = i
      <4>1. next_fresh \in Nat
        BY DEF ManagerInv, ManagerTypes
      <4>2. QED
        BY <3>1, <4>1 DEF Slots
    <3>5. Stacked' = {j \in Slots : j < next_fresh' /\ ~liveness'[j]}
      <4>1. \A j \in Slots : j < next_fresh => liveness[j]
        BY <3>2 DEF ManagerInv, FreeStackExact
      <4>2. \A j \in Slots : j < next_fresh' => liveness'[j]
        BY <1>1, <3>4, <4>1 DEF ManagerInv, ManagerTypes
      <4>3. QED
        BY <3>2, <4>2
    <3>6. \A j \in Slots : j < next_fresh' <=> generations'[j] # 0
      <4>1. generations'[i] # 0 /\ \A j \in Slots : j # i => generations'[j] = generations[j]
        BY <1>1, <1>3 DEF ManagerInv, ManagerTypes
      <4>2. QED
        BY <3>1, <3>4, <4>1 DEF ManagerInv, ManagerTypes, FreeStackExact, Slots
    <3>7. \A j \in Occupied' : j < next_fresh'
      BY <1>1, <3>4 DEF ManagerInv, ManagerTypes, FreeStackExact, Occupied
    <3>8. QED
      BY <1>5, <2>2, <3>1, <3>5, <3>6, <3>7 DEF FreeStackExact
  <2>3. QED
    BY <2>1, <2>2
<1>9. CountsExact'
  <2>1. Occupied' = Occupied \union {i} /\ i \notin Occupied
    BY <1>1 DEF Occupied, ManagerInv, ManagerTypes
  <2>2. QED
    BY <1>6, <2>1, OccupiedFinite, FS_AddElement DEF ManagerInv, CountsExact
<1>10. QED
  BY <1>7, <1>8, <1>9 DEF ManagerInv

(* A create leaves the history alone, and issues no older generation. *)
LEMMA CreateIInv ==
  ASSUME IInv, Create
  PROVE  IInv'
<1>1. ManagerInv /\ ManagerInv'
  BY ManagerOfIInv, CreateManager DEF Create
<1> PICK i \in CreateSlot :
       /\ generations' = [generations EXCEPT ![i] = Issued(i).gen]
       /\ since' = since
  BY DEF Create, DoCreate
<1>2. i \in Slots
  BY <1>1, CreateEffect
<1>3. Issued(i).gen = IF generations[i] = 0 THEN 1 ELSE generations[i]
  BY DEF Issued
<1>4. AgeIsDistance'
  BY <1>2, <1>3 DEF IInv, TypeOK, AgeIsDistance
<1>5. QED
  BY <1>1, <1>4 DEF IInv, TypeOK, ManagerInv, ManagerTypes

(* A release preserves each part of what the manager keeps. *)
LEMMA ReleaseManager ==
  ASSUME ManagerInv, NEW e \in Entities, DoRelease(e)
  PROVE  ManagerInv'
<1> DEFINE i == e.index
<1>1. i \in Slots /\ e.gen \in Generations /\ liveness[i] /\ generations[i] = e.gen
  BY DEF DoRelease, ReleaseAccepted, IsAlive, Entities
<1>2. NextGen(e.gen) \in Generations
  BY <1>1 DEF NextGen, Generations
<1>3. /\ free_stack' = Append(free_stack, i)
      /\ free_stack' \in Seq(Slots)
      /\ Len(free_stack) \in Nat
      /\ Len(free_stack') = Len(free_stack) + 1
      /\ free_stack'[Len(free_stack) + 1] = i
      /\ \A k \in 1 .. Len(free_stack) : free_stack'[k] = free_stack[k]
  BY <1>1, AppendFacts, LenProperties DEF DoRelease, ManagerInv, ManagerTypes
<1>4. ManagerTypes'
  <2>1. live_count' \in 0 .. Capacity
    BY DEF DoRelease, ReleaseAccepted, ManagerInv, ManagerTypes
  <2>2. generations' \in [Slots -> 0 .. GenMax]
    BY <1>1, <1>2 DEF DoRelease, ManagerInv, ManagerTypes, Generations
  <2>3. QED
    BY <1>1, <1>3, <2>1, <2>2 DEF DoRelease, ManagerInv, ManagerTypes
<1>5. FreeStackExact'
  <2>1. i < next_fresh /\ i \notin Stacked
    BY <1>1 DEF ManagerInv, ManagerTypes, FreeStackExact, Occupied
  <2>2. Stacked' = Stacked \union {i}
    BY <1>3 DEF Stacked
  <2>3. \A j, k \in 1 .. Len(free_stack') : free_stack'[j] = free_stack'[k] => j = k
    BY <1>3, <2>1 DEF Stacked, ManagerInv, FreeStackExact
  <2>4. Stacked' = {j \in Slots : j < next_fresh' /\ ~liveness'[j]}
    BY <1>1, <2>1, <2>2 DEF DoRelease, ManagerInv, ManagerTypes, FreeStackExact
  <2>5. \A j \in Slots : j < next_fresh' <=> generations'[j] # 0
    <3>1. generations'[i] = NextGen(e.gen) /\ NextGen(e.gen) # 0
      BY <1>1, <1>2 DEF DoRelease, ManagerInv, ManagerTypes, Generations
    <3>2. \A j \in Slots : j # i => generations'[j] = generations[j]
      BY <1>1 DEF DoRelease, ManagerInv, ManagerTypes
    <3>3. next_fresh' = next_fresh
      BY DEF DoRelease
    <3>4. QED
      BY <2>1, <3>1, <3>2, <3>3 DEF ManagerInv, FreeStackExact
  <2>6. \A j \in Occupied' : j < next_fresh'
    BY <1>1 DEF DoRelease, ManagerInv, ManagerTypes, FreeStackExact, Occupied
  <2>7. QED
    BY <2>3, <2>4, <2>5, <2>6 DEF FreeStackExact
<1>6. CountsExact'
  <2>1. Occupied' = Occupied \ {i} /\ i \in Occupied
    BY <1>1 DEF DoRelease, Occupied, ManagerInv, ManagerTypes
  <2>2. live_count' = Cardinality(Occupied')
    BY <2>1, OccupiedFinite, FS_RemoveElement DEF DoRelease, ManagerInv, CountsExact
  <2>3. live_count' + Len(free_stack') = next_fresh'
    BY <1>3 DEF DoRelease, ReleaseAccepted, ManagerInv, ManagerTypes, CountsExact
  <2>4. QED
    BY <2>2, <2>3 DEF CountsExact
<1>7. QED
  BY <1>4, <1>5, <1>6 DEF ManagerInv

(* A release ages the ids of its slot by one. *)
LEMMA ReleaseIInv ==
  ASSUME IInv, NEW e \in Entities, Release(e)
  PROVE  IInv'
<1> DEFINE i == e.index
<1>1. i \in Slots /\ e.gen \in Generations /\ generations[i] = e.gen
  BY DEF Release, DoRelease, ReleaseAccepted, IsAlive, Entities
<1>2. ManagerInv'
  BY ManagerOfIInv, ReleaseManager DEF Release
<1>3. since' \in [Slots -> [Generations -> 0 .. GenMax]]
  <2>1. \A g \in Generations : since[i][g] # 0 /\ g # e.gen => since[i][g] + 1 \in 0 .. GenMax
    <3> SUFFICES ASSUME NEW g \in Generations, since[i][g] # 0, g # e.gen
                 PROVE  since[i][g] + 1 \in 0 .. GenMax
      OBVIOUS
    <3>1. since[i][g] = IF g < e.gen THEN e.gen - g ELSE e.gen + GenMax - g
      BY <1>1 DEF IInv, AgeIsDistance
    <3>2. QED
      BY <1>1, <3>1 DEF Generations
  <2>2. Released(since[i], e.gen) \in [Generations -> 0 .. GenMax]
    BY <1>1, <2>1 DEF Released
  <2>3. QED
    BY <1>1, <2>2 DEF Release, DoRelease, IInv, TypeOK
<1>4. AgeIsDistance'
  <2> SUFFICES ASSUME NEW j \in Slots, NEW g \in Generations, since'[j][g] # 0
               PROVE  /\ generations'[j] # 0
                      /\ since'[j][g] = IF g < generations'[j] THEN generations'[j] - g
                                        ELSE generations'[j] + GenMax - g
    BY DEF AgeIsDistance
  <2>1. CASE j # i
    BY <1>1, <2>1 DEF Release, DoRelease, IInv, TypeOK, AgeIsDistance
  <2>2. CASE j = i
    <3>1. generations'[i] = NextGen(e.gen)
      BY <1>1 DEF Release, DoRelease, IInv, TypeOK
    <3>2. since'[i][g] = IF g = e.gen THEN 1
                        ELSE IF since[i][g] = 0 THEN 0 ELSE since[i][g] + 1
      BY <1>1 DEF Release, DoRelease, Released, IInv, TypeOK
    <3>3. CASE g = e.gen
      BY <1>1, <2>2, <3>1, <3>2, <3>3 DEF NextGen, Generations
    <3>4. CASE g # e.gen
      <4>1. since[i][g] # 0 /\ since[i][g] \in 0 .. GenMax
        BY <1>1, <2>2, <3>2, <3>4 DEF IInv, TypeOK
      <4>2. since[i][g] = IF g < e.gen THEN e.gen - g ELSE e.gen + GenMax - g
        BY <1>1, <4>1 DEF IInv, AgeIsDistance
      <4>3. QED
        BY <1>1, <2>2, <3>1, <3>2, <3>4, <4>1, <4>2 DEF NextGen, Generations
    <3>5. QED
      BY <3>3, <3>4
  <2>3. QED
    BY <2>1, <2>2
<1>5. QED
  BY <1>2, <1>3, <1>4 DEF IInv, TypeOK, ManagerInv, ManagerTypes

(* An empty manager keeps all of it. *)
LEMMA InitManager ==
  ASSUME generations = [i \in Slots |-> 0], liveness = [i \in Slots |-> FALSE],
         free_stack = << >>, next_fresh = 0, live_count = 0
  PROVE  ManagerInv
<1>1. ManagerTypes
  BY EmptySeq DEF ManagerTypes
<1>2. FreeStackExact
  BY DEF FreeStackExact, Stacked, Occupied, Slots
<1>3. Occupied = {}
  BY DEF Occupied
<1>4. QED
  BY <1>1, <1>2, <1>3, FS_EmptySet DEF ManagerInv, CountsExact

(* The ids that validate: a create adds the one it returns, of a slot none *)
(* of them has, and a release takes one away.                              *)
LEMMA CreateAlive ==
  ASSUME ManagerInv, DoCreate
  PROVE  /\ CreateResult \in Entities /\ CreateResult.gen # 0
         /\ \A f \in Entities : IsAlive(f) => f.index # CreateResult.index
         /\ \A f \in Entities : IsAlive(f)' <=> IsAlive(f) \/ f = CreateResult
<1> PICK i \in CreateSlot :
       /\ generations' = [generations EXCEPT ![i] = Issued(i).gen]
       /\ liveness' = [liveness EXCEPT ![i] = TRUE]
  BY DEF DoCreate
<1>1. i \in Slots /\ ~liveness[i]
  BY CreateEffect
<1>2. CreateResult = Issued(i)
  <2>1. \A j, k \in CreateSlot : j = k
    BY DEF CreateSlot
  <2>2. (CHOOSE j \in CreateSlot : TRUE) = i
    BY <2>1
  <2>3. QED
    BY <2>2 DEF CreateResult
<1>3. Issued(i) \in Entities /\ Issued(i).index = i /\ Issued(i).gen # 0
  BY <1>1 DEF ManagerInv, ManagerTypes, Issued, Entities, Generations
<1> DEFINE e == Issued(i)
<1>4. generations'[i] = e.gen /\ liveness'[i] = TRUE
  BY <1>1 DEF ManagerInv, ManagerTypes
<1> HIDE DEF e
<1>5. \A f \in Entities : IsAlive(f) => f.index # i
  BY <1>1 DEF IsAlive
<1>6. \A f \in Entities : f.index # i => (IsAlive(f)' <=> IsAlive(f))
  BY <1>1 DEF IsAlive, ManagerInv, ManagerTypes
<1>7. \A f \in Entities : f.index = i => (IsAlive(f)' <=> f = e)
  <2>1. \A f \in Entities : f.index = i /\ f.gen = e.gen <=> f = e
    BY <1>3 DEF e, Entities
  <2>2. QED
    BY <1>1, <1>3, <1>4, <2>1 DEF e, IsAlive
<1>8. QED
  BY <1>2, <1>3, <1>5, <1>6, <1>7 DEF e

(* A release ends exactly the id it is given. *)
LEMMA ReleaseAlive ==
  ASSUME ManagerInv, NEW e \in Entities, DoRelease(e)
  PROVE  /\ IsAlive(e)
         /\ \A f \in Entities : f.index = e.index /\ IsAlive(f) => f = e
         /\ \A f \in Entities : IsAlive(f)' <=> IsAlive(f) /\ f # e
<1>1. IsAlive(e) /\ e.index \in Slots /\ e.gen \in Generations
  BY DEF DoRelease, ReleaseAccepted, IsAlive, Entities
<1>2. \A f \in Entities : f.index = e.index /\ IsAlive(f) => f = e
  <2>1. \A f \in Entities : f.index = e.index /\ IsAlive(f) => f.gen = e.gen
    BY <1>1 DEF IsAlive
  <2>2. \A f \in Entities : f.index = e.index /\ f.gen = e.gen => f = e
    BY DEF Entities
  <2>3. QED
    BY <2>1, <2>2
<1>3. \A f \in Entities : f.index # e.index => (IsAlive(f)' <=> IsAlive(f))
  BY <1>1 DEF DoRelease, IsAlive, ManagerInv, ManagerTypes
<1>4. \A f \in Entities : f.index = e.index => ~IsAlive(f)'
  BY <1>1 DEF DoRelease, IsAlive, ManagerInv, ManagerTypes
<1>5. QED
  BY <1>1, <1>2, <1>3, <1>4

(* The counter checks of a release refuse no live id. *)
LEMMA LiveReleasable ==
  ASSUME ManagerInv, NEW e \in Entities, IsAlive(e)
  PROVE  ReleaseAccepted(e)
<1>1. e.index \in Occupied
  BY DEF IsAlive, Occupied
<1>2. live_count # 0
  BY <1>1, OccupiedFinite, FS_EmptySet DEF ManagerInv, CountsExact
<1>3. Len(free_stack) < Capacity
  BY <1>2, LenProperties DEF ManagerInv, ManagerTypes, CountsExact
<1>4. QED
  BY <1>2, <1>3 DEF ReleaseAccepted

----------------------------------------------------------------------------
(* The invariant holds initially: nothing is used, live or stacked. *)
LEMMA InitIInv == Init => IInv
<1> SUFFICES ASSUME Init PROVE IInv
  OBVIOUS
<1>1. ManagerInv
  BY InitManager DEF Init
<1>2. since \in [Slots -> [Generations -> 0 .. GenMax]] /\ AgeIsDistance
  BY DEF Init, AgeIsDistance, Slots, Generations
<1>3. QED
  BY <1>1, <1>2 DEF IInv, TypeOK, ManagerInv, ManagerTypes

(* The strengthened invariant holds in every reachable state, for every    *)
(* capacity and every number of generations.                               *)
THEOREM InductiveInvariant == Spec => []IInv
<1>1. ASSUME IInv, UNCHANGED vars PROVE IInv'
  <2>1. /\ UNCHANGED generations /\ UNCHANGED liveness /\ UNCHANGED free_stack
        /\ UNCHANGED next_fresh /\ UNCHANGED live_count /\ UNCHANGED since
    BY <1>1, Zenon DEF vars
  <2>2. TypeOK'
    BY <1>1, <2>1, Zenon DEF IInv, TypeOK
  <2>3. FreeStackExact'
    <3>1. Stacked' = Stacked /\ Occupied' = Occupied
      BY <2>1 DEF Stacked, Occupied
    <3>2. QED
      BY <1>1, <2>1, <3>1, Zenon DEF IInv, FreeStackExact
  <2>4. CountsExact'
    BY <1>1, <2>1, Zenon DEF IInv, CountsExact, Occupied
  <2>5. AgeIsDistance'
    BY <1>1, <2>1, Zenon DEF IInv, AgeIsDistance
  <2>6. QED
    BY <2>2, <2>3, <2>4, <2>5 DEF IInv
<1>2. IInv /\ [Next]_vars => IInv'
  BY <1>1, CreateIInv, ReleaseIInv DEF Next
<1>3. QED
  BY InitIInv, <1>2, PTL DEF Spec

(* The arrays and counters of entity.cpp stay in their ranges. *)
THEOREM TypeCorrect == Spec => []TypeOK
<1>1. IInv => TypeOK
  BY DEF IInv
<1>2. QED
  BY <1>1, InductiveInvariant, PTL

(* The free stack of entity.cpp is exactly the used dead slots. *)
THEOREM FreeStackIsExact == Spec => []FreeStackExact
<1>1. IInv => FreeStackExact
  BY DEF IInv
<1>2. QED
  BY <1>1, InductiveInvariant, PTL

(* live_count and the stack's length count what they claim to count. *)
THEOREM CountsAreExact == Spec => []CountsExact
<1>1. IInv => CountsExact
  BY DEF IInv
<1>2. QED
  BY <1>1, InductiveInvariant, PTL

(* Neither a slot nor a count goes astray in any history of entity.cpp. *)
THEOREM EverySlotAccounted == Spec => []SlotsAccounted
  BY FreeStackIsExact, CountsAreExact, PTL DEF SlotsAccounted

(* entity_manager_create returns null only when every slot is alive. *)
THEOREM CreateTotal == Spec => []CreateFailsOnlyWhenFull
<1>1. IInv => CreateFailsOnlyWhenFull
  <2> SUFFICES ASSUME IInv, CreateResult = NullEntity, NEW i \in Slots, ~liveness[i]
               PROVE  FALSE
    BY DEF CreateFailsOnlyWhenFull, IInv, TypeOK
  <2>1. \A j \in Slots : Issued(j) # NullEntity
    BY DEF Issued, NullEntity
  <2>2. \A j \in CreateSlot : j \in Slots
    BY ManagerOfIInv, CreateEffect
  <2>3. CreateSlot = {}
    <3> SUFFICES ASSUME CreateSlot # {} PROVE FALSE
      OBVIOUS
    <3>1. (CHOOSE j \in CreateSlot : TRUE) \in CreateSlot
      OBVIOUS
    <3>2. QED
      BY <2>1, <2>2, <3>1 DEF CreateResult
  <2>4. CASE free_stack # << >>
    <3>1. Top \in Stacked
      <4>1. Len(free_stack) \in 1 .. Len(free_stack)
        BY <2>4, PopProperties DEF IInv, TypeOK
      <4>2. QED
        BY <4>1 DEF Top, Stacked
    <3>2. Top \in Slots /\ ~liveness[Top]
      BY <3>1 DEF IInv, FreeStackExact
    <3>3. QED
      BY <2>3, <2>4, <3>2 DEF CreateSlot
  <2>5. CASE free_stack = << >>
    <3>1. Stacked = {}
      BY <2>5 DEF Stacked
    <3>2. ~(i < next_fresh)
      BY <3>1 DEF IInv, FreeStackExact
    <3>3. next_fresh < Capacity
      BY <3>2 DEF Slots, IInv, TypeOK
    <3>4. QED
      BY <2>3, <2>5, <3>3 DEF CreateSlot
  <2>6. QED
    BY <2>4, <2>5
<1>2. QED
  BY <1>1, InductiveInvariant, PTL

(* No counter check of entity_manager_release refuses a live id. *)
THEOREM ReleaseTotal == Spec => []LiveCanBeReleased
<1>1. IInv => LiveCanBeReleased
  BY ManagerOfIInv, LiveReleasable DEF LiveCanBeReleased
<1>2. QED
  BY <1>1, InductiveInvariant, PTL

(* Neither operation of entity.cpp refuses what its caller is entitled to. *)
THEOREM RefusalsAreJustified == Spec => []RefusalsJustified
  BY CreateTotal, ReleaseTotal, PTL DEF RefusalsJustified

(* A released id stays invalid until GenMax releases of its slot. *)
THEOREM StaleIdsRejected == Spec => []StaleRejected
<1>1. IInv => StaleRejected
  <2> SUFFICES ASSUME IInv, NEW e \in Entities, IsAlive(e),
                      since[e.index][e.gen] \in 1 .. GenMax - 1
               PROVE  FALSE
    BY DEF StaleRejected
  <2>1. e.index \in Slots /\ e.gen \in Generations /\ generations[e.index] = e.gen
    BY DEF Entities, IsAlive
  <2>2. since[e.index][e.gen] # 0
    OBVIOUS
  <2>3. since[e.index][e.gen] = GenMax
    BY <2>1, <2>2 DEF IInv, AgeIsDistance, Generations
  <2>4. QED
    BY <2>3
<1>2. QED
  BY <1>1, InductiveInvariant, PTL
----------------------------------------------------------------------------
(* The allocator implements the lifecycle: a create issues an id of a free *)
(* slot that is out of quarantine, a release kills exactly that id.        *)
LEMMA CreateRefines ==
  ASSUME IInv, Create
  PROVE  Lifecycle!Create
<1> DEFINE e == CreateResult
<1>1. /\ e \in Entities /\ e.gen # 0
      /\ \A f \in Entities : IsAlive(f) => f.index # e.index
      /\ \A f \in Entities : IsAlive(f)' <=> IsAlive(f) \/ f = e
  BY ManagerOfIInv, CreateAlive DEF Create
<1>2. generations[e.index] # 0 => e.gen = generations[e.index]
  <2>1. CreateSlot # {}
    BY DEF Create, DoCreate
  <2>2. QED
    BY <2>1 DEF CreateResult, Issued
<1> HIDE DEF e
<1>3. Alive' = Alive \union {e} /\ \A a \in Alive : a.index # e.index
  BY <1>1 DEF Alive
<1>4. since[e.index][e.gen] \notin 1 .. GenMax - 1
  <2> SUFFICES ASSUME since[e.index][e.gen] \in 1 .. GenMax - 1
               PROVE  FALSE
    OBVIOUS
  <2>1. e.index \in Slots /\ e.gen \in Generations /\ since[e.index][e.gen] # 0
    BY <1>1 DEF Entities
  <2>2. generations[e.index] # 0
    BY <2>1 DEF IInv, AgeIsDistance
  <2>3. since[e.index][e.gen] = GenMax
    BY <1>2, <2>1, <2>2 DEF IInv, AgeIsDistance, Generations
  <2>4. QED
    BY <2>3
<1>5. since' = since
  BY DEF Create
<1>6. QED
  BY <1>1, <1>3, <1>4, <1>5 DEF Lifecycle!Create, Lifecycle!Entities, Entities

(* A release is a release of the lifecycle: one id dies, the slot's ids age. *)
LEMMA ReleaseRefines ==
  ASSUME IInv, NEW e \in Entities, Release(e)
  PROVE  Lifecycle!Release
<1>1. Alive' = Alive \ {e} /\ e \in Alive
  BY ManagerOfIInv, ReleaseAlive DEF Release, Alive
<1>2. since' = [since EXCEPT ![e.index] = Lifecycle!Older(@, e.gen)]
  BY DEF Release, Released, Lifecycle!Older
<1>3. QED
  BY <1>1, <1>2 DEF Lifecycle!Release

(* entity.cpp implements the lifecycle its callers rely on: ids are issued *)
(* for free slots and out of quarantine, and die one at a time.            *)
THEOREM ImplementsLifecycle == Spec => LifecycleSpec
<1>1. Init => Lifecycle!Init
  BY DEF Init, Lifecycle!Init, Alive, IsAlive
<1>2. IInv /\ [Next]_vars => [Lifecycle!Next]_<<Alive, since>>
  <2>1. IInv /\ Create => Lifecycle!Next
    BY CreateRefines DEF Lifecycle!Next
  <2>2. ASSUME IInv, NEW e \in Entities, Release(e)
        PROVE  Lifecycle!Next
    BY <2>2, ReleaseRefines DEF Lifecycle!Next
  <2>3. UNCHANGED vars => UNCHANGED <<Alive, since>>
    BY DEF vars, Alive, IsAlive
  <2>4. QED
    BY <2>1, <2>2, <2>3 DEF Next
<1>3. QED
  BY <1>1, <1>2, InductiveInvariant, PTL DEF Spec, LifecycleSpec, Lifecycle!Spec
=============================================================================
