---------------------------- MODULE ReplayProofs ----------------------------
(***************************************************************************)
(* Proofs about the replay tool for any number of recorders, readers,      *)
(* recordings and ticks, every limit on the size of a file, and every      *)
(* seed.  Of the simulation they use that it is a function: what a tick    *)
(* does and what the hash computes is left open.                           *)
(*                                                                         *)
(* Then proofs about what the tool compares and prints: two worlds of any  *)
(* size under any calls, their hash, the difference reported of them, and  *)
(* that worlds which hash alike stay so under the same calls.              *)
(***************************************************************************)
EXTENDS ReplayTool, StateDiff, SequenceTheorems, FiniteSetTheorems, SortedSetsProofs

----------------------------------------------------------------------------
(* Runs of the simulation.                                                 *)

(* f is the worlds of a run from a world a, of n ticks with commands C[k]. *)
IsRun(f, a, C, n) ==
    f = [k \in 0 .. n |-> IF k = 0 THEN a ELSE Ticked(f[k - 1], C[k])]

(* The shortest run that is not there would be one tick longer than one    *)
(* that is.                                                                *)
LEMMA RunExists ==
  ASSUME NEW a, NEW C, NEW n \in Nat
  PROVE  \E f : IsRun(f, a, C, n)
<1> DEFINE Fails == {m \in Nat : ~\E f : IsRun(f, a, C, m)}
<1> SUFFICES ASSUME Fails # {} PROVE FALSE
  OBVIOUS
<1>1. PICK m \in Fails : \A y \in Fails : m <= y
  BY LeastElement
<1>2. CASE m = 0
  <2> DEFINE f == [k \in 0 .. 0 |-> a]
  <2>1. IsRun(f, a, C, 0)
    BY DEF IsRun
  <2>2. QED
    BY <1>1, <1>2, <2>1
<1>3. CASE m # 0
  <2>1. m - 1 \in Nat /\ m - 1 \notin Fails
    BY <1>1, <1>3
  <2>2. PICK g : IsRun(g, a, C, m - 1)
    BY <2>1
  <2> DEFINE f == [k \in 0 .. m |-> IF k = m THEN Ticked(g[m - 1], C[m]) ELSE g[k]]
  <2>3. \A k \in 0 .. m - 1 : g[k] = IF k = 0 THEN a ELSE Ticked(g[k - 1], C[k])
    BY <2>2 DEF IsRun
  <2>4. ASSUME NEW k \in 0 .. m
        PROVE  f[k] = IF k = 0 THEN a ELSE Ticked(f[k - 1], C[k])
    <3>1. CASE k = m
      <4>1. f[k] = Ticked(g[m - 1], C[m]) /\ m - 1 \in 0 .. m /\ m - 1 # m
        BY <2>1, <3>1
      <4>2. f[k - 1] = g[m - 1]
        BY <3>1, <4>1
      <4>3. QED
        BY <1>3, <3>1, <4>1, <4>2
    <3>2. CASE k # m
      <4>1. k \in 0 .. m - 1 /\ f[k] = g[k]
        BY <2>1, <3>2
      <4>2. k # 0 => k - 1 \in 0 .. m /\ k - 1 # m /\ f[k - 1] = g[k - 1]
        BY <2>1, <4>1
      <4>3. QED
        BY <2>3, <4>1, <4>2
    <3>3. QED
      BY <3>1, <3>2
  <2>5. f = [k \in 0 .. m |-> f[k]]
    OBVIOUS
  <2> HIDE DEF f
  <2>6. IsRun(f, a, C, m)
    BY <2>4, <2>5, Zenon DEF IsRun
  <2>7. QED
    BY <1>1, <2>6
<1>4. QED
  BY <1>2, <1>3

(* A run is determined by its world, its commands and its length: the      *)
(* first world in which two runs differ would follow from the same one.    *)
LEMMA RunUnique ==
  ASSUME NEW a, NEW C, NEW n \in Nat, NEW f, NEW g, IsRun(f, a, C, n), IsRun(g, a, C, n)
  PROVE  f = g
<1> DEFINE Fails == {k \in 0 .. n : f[k] # g[k]}
<1>1. /\ f = [k \in 0 .. n |-> f[k]] /\ g = [k \in 0 .. n |-> g[k]]
      /\ \A k \in 0 .. n : f[k] = IF k = 0 THEN a ELSE Ticked(f[k - 1], C[k])
      /\ \A k \in 0 .. n : g[k] = IF k = 0 THEN a ELSE Ticked(g[k - 1], C[k])
  BY DEF IsRun
<1>2. CASE Fails = {}
  BY <1>1, <1>2
<1>3. CASE Fails # {}
  <2>1. PICK k \in Fails : \A y \in Fails : k <= y
    <3>1. Fails \in SUBSET Nat
      OBVIOUS
    <3> HIDE DEF Fails
    <3>2. QED
      BY <1>3, <3>1, LeastElement
  <2>2. k # 0
    BY <1>1, <2>1
  <2>3. k - 1 \in 0 .. n /\ k - 1 \notin Fails
    BY <2>1, <2>2
  <2>4. f[k - 1] = g[k - 1]
    BY <2>3
  <2>5. QED
    BY <1>1, <2>1, <2>2, <2>4
<1>4. QED
  BY <1>2, <1>3

CommandsOf(replay) == [k \in 1 .. Len(replay.ticks) |-> replay.ticks[k].commands]

(* The worlds of what a file describes. *)
LEMMA WorldsFacts ==
  ASSUME NEW replay, Len(replay.ticks) \in Nat
  PROVE  /\ Worlds(replay)[0] = NewWorld(replay.header.seed)
         /\ \A k \in 1 .. Len(replay.ticks) :
                Worlds(replay)[k] = Ticked(Worlds(replay)[k - 1], replay.ticks[k].commands)
         /\ IsRun(Worlds(replay), NewWorld(replay.header.seed), CommandsOf(replay),
                  Len(replay.ticks))
<1> DEFINE n == Len(replay.ticks)
           a == NewWorld(replay.header.seed)
           C == CommandsOf(replay)
           Body(f) == [k \in 0 .. n |-> IF k = 0 THEN a
                                        ELSE Ticked(f[k - 1], replay.ticks[k].commands)]
<1>1. Worlds(replay) = CHOOSE f : f = Body(f)
  BY DEF Worlds
<1>2. ASSUME NEW f, IsRun(f, a, C, n) PROVE f = Body(f)
  <2>1. f = [k \in 0 .. n |-> f[k]]
        /\ \A k \in 0 .. n : f[k] = IF k = 0 THEN a ELSE Ticked(f[k - 1], C[k])
    BY <1>2 DEF IsRun
  <2>2. \A k \in 1 .. n : C[k] = replay.ticks[k].commands
    BY DEF CommandsOf
  <2>3. \A k \in 0 .. n : k # 0 => k \in 1 .. n
    OBVIOUS
  <2> HIDE DEF n, a, C
  <2>4. \A k \in 0 .. n : f[k] = IF k = 0 THEN a ELSE Ticked(f[k - 1], replay.ticks[k].commands)
    BY <2>1, <2>2, <2>3
  <2>5. QED
    BY <2>1, <2>4
<1>3. \E f : f = Body(f)
  BY <1>2, RunExists
<1>4. Worlds(replay) = Body(Worlds(replay))
  <2> HIDE DEF Body
  <2>1. QED
    BY <1>1, <1>3
<1> DEFINE f == Worlds(replay)
<1>5. f = [k \in 0 .. n |-> f[k]]
      /\ \A k \in 0 .. n : f[k] = IF k = 0 THEN a ELSE Ticked(f[k - 1], replay.ticks[k].commands)
  <2> HIDE DEF f
  <2>1. f = Body(f)
    BY <1>4 DEF f
  <2> HIDE DEF n, a
  <2>2. QED
    BY <2>1
<1>6. IsRun(f, a, C, n)
  <2>1. \A k \in 1 .. n : C[k] = replay.ticks[k].commands
    BY DEF CommandsOf
  <2>2. \A k \in 0 .. n : k # 0 => k \in 1 .. n
    OBVIOUS
  <2> HIDE DEF n, a, C, f
  <2>3. \A k \in 0 .. n : f[k] = IF k = 0 THEN a ELSE Ticked(f[k - 1], C[k])
    BY <1>5, <2>1, <2>2
  <2>4. QED
    BY <1>5, <2>3 DEF IsRun
<1>7. 0 \in 0 .. n /\ \A k \in 1 .. n : k \in 0 .. n /\ k # 0
  OBVIOUS
<1> HIDE DEF f, n, a
<1>8. QED
  BY <1>5, <1>6, <1>7 DEF f, n, a

(* The generator issues commands that the simulation accepts, two at most. *)
LEMMA GeneratedFacts ==
  ASSUME NEW seed \in Seeds, NEW tick \in Nat
  PROVE  LET c == Generated(seed, tick) IN
         /\ c \in Seq(1 .. 4) /\ Len(c) <= MaxPerTick
         /\ Accepted(c) /\ ToSet(c) \subseteq Canonical
<1> DEFINE bits == (seed + tick) % 2
           c == Generated(seed, tick)
<1>1. bits \in 0 .. 1
  BY CodecAssumption
<1>2. Velocity(bits) \in 1 .. 4 /\ Damage(bits) \in 1 .. 4
  BY <1>1 DEF Velocity, Damage
<1>3. /\ << >> \in Seq(1 .. 4) /\ <<Velocity(bits)>> \in Seq(1 .. 4)
      /\ <<Damage(bits)>> \in Seq(1 .. 4)
  BY <1>2
<1> HIDE DEF bits
<1>4. PICK s \in {<< >>, <<Velocity(bits)>>}, t \in {<< >>, <<Damage(bits)>>} : c = s \o t
  BY DEF Generated, bits
<1>5. s \in Seq(1 .. 4) /\ Len(s) \in 0 .. 1
  <2>1. CASE s = << >>
    BY <1>3, <2>1
  <2>2. CASE s = <<Velocity(bits)>>
    BY <1>3, <2>2
  <2>3. QED
    BY <2>1, <2>2
<1>11. t \in Seq(1 .. 4) /\ Len(t) \in 0 .. 1
  <2>1. CASE t = << >>
    BY <1>3, <2>1
  <2>2. CASE t = <<Damage(bits)>>
    BY <1>3, <2>2
  <2>3. QED
    BY <2>1, <2>2
<1>6. c \in Seq(1 .. 4) /\ Len(c) = Len(s) + Len(t)
  BY <1>4, <1>5, <1>11, ConcatProperties
<1> HIDE DEF c
<1>7. Len(c) <= MaxPerTick
  <2>1. \A x, y \in 0 .. 1 : x + y <= 2
    OBVIOUS
  <2>2. QED
    BY <1>5, <1>6, <1>11, <2>1 DEF MaxPerTick
<1>8. \A k \in 1 .. Len(c) : c[k] \in Canonical \ {Stale}
  BY <1>6, ElementOfSeq DEF Canonical, Stale
<1>9. DOMAIN c = 1 .. Len(c)
  BY <1>6, LenProperties
<1>10. QED
  BY <1>6, <1>7, <1>8, <1>9 DEF Accepted, ToSet, c

(* A recording is what it describes. *)
LEMMA RecordingFacts ==
  ASSUME NEW seed \in Seeds, NEW ticks \in Nat
  PROVE  LET r == Recording(seed, ticks) IN
         /\ r = [header |-> Header(seed, ticks), ticks |-> r.ticks, rest |-> "end"]
         /\ Len(r.ticks) = ticks
         /\ r.ticks = [k \in 1 .. ticks |-> [commands |-> Generated(seed, k - 1),
                                             hash |-> HashState(Worlds(r)[k])]]
<1> DEFINE r == Recording(seed, ticks)
           a == NewWorld(seed)
           Body(f) == [k \in 0 .. ticks |-> IF k = 0 THEN a
                                            ELSE Ticked(f[k - 1], Generated(seed, k - 1))]
           world == CHOOSE f : f = Body(f)
           C == [k \in 1 .. ticks |-> Generated(seed, k - 1)]
<1>1. r = [header |-> Header(seed, ticks),
           ticks |-> [k \in 1 .. ticks |-> [commands |-> Generated(seed, k - 1),
                                            hash |-> HashState(world[k])]],
           rest |-> "end"]
  BY DEF Recording
<1>2. \A f : IsRun(f, a, C, ticks) <=> f = Body(f)
  <2>1. ASSUME NEW f PROVE [k \in 0 .. ticks |-> IF k = 0 THEN a ELSE Ticked(f[k - 1], C[k])]
                           = Body(f)
    <3>1. \A k \in 0 .. ticks : k # 0 => k \in 1 .. ticks /\ C[k] = Generated(seed, k - 1)
      OBVIOUS
    <3> HIDE DEF C, a
    <3>2. \A k \in 0 .. ticks : (IF k = 0 THEN a ELSE Ticked(f[k - 1], C[k]))
                              = (IF k = 0 THEN a ELSE Ticked(f[k - 1], Generated(seed, k - 1)))
      BY <3>1
    <3>3. QED
      BY <3>2
  <2> HIDE DEF Body, C, a
  <2>2. QED
    BY <2>1 DEF IsRun
<1> HIDE DEF Body, C, a
<1>3. IsRun(world, a, C, ticks)
  <2>1. \E f : f = Body(f)
    BY <1>2, RunExists
  <2>2. world = Body(world)
    BY <2>1
  <2> HIDE DEF world
  <2>3. QED
    BY <1>2, <2>2
<1> HIDE DEF world
<1>4. r.header = Header(seed, ticks) /\ r.rest = "end"
      /\ r.ticks = [k \in 1 .. ticks |-> [commands |-> Generated(seed, k - 1),
                                          hash |-> HashState(world[k])]]
  BY <1>1
<1>5. r = [header |-> Header(seed, ticks), ticks |-> r.ticks, rest |-> "end"]
  BY <1>1, <1>4
<1> HIDE DEF r
<1>6. Len(r.ticks) = ticks /\ \A k \in 1 .. ticks : r.ticks[k].commands = Generated(seed, k - 1)
  BY <1>4
<1>7. r.header.seed = seed
  BY <1>4 DEF Header
<1>8. IsRun(Worlds(r), NewWorld(r.header.seed), CommandsOf(r), Len(r.ticks))
  BY <1>6, WorldsFacts
<1>9. CommandsOf(r) = C /\ NewWorld(r.header.seed) = a
  BY <1>6, <1>7 DEF CommandsOf, C, a
<1>10. Worlds(r) = world
  BY <1>3, <1>6, <1>8, <1>9, RunUnique
<1>11. QED
  BY <1>4, <1>5, <1>6, <1>10 DEF r

----------------------------------------------------------------------------
(* Sizes.                                                                  *)

(* The sum over some of the first n ticks, as a fold takes it: the last    *)
(* one of them and the sum over the others.                                *)
IsSum(g, base, s, n) ==
    g = [S \in SUBSET (1 .. n) |->
            IF S = {} THEN base ELSE g[S \ {Max(S)}] + EncodedSize(s[Max(S)])]

(* There is a function of the sums over all sets of ticks. *)
LEMMA SumExists ==
  ASSUME NEW base, NEW s, NEW n \in Nat
  PROVE  \E g : IsSum(g, base, s, n)
<1> DEFINE Value(g, S) == IF S = {} THEN base ELSE g[S \ {Max(S)}] + EncodedSize(s[Max(S)])
           Upto(g, m) == \A S \in SUBSET (1 .. n) : Cardinality(S) <= m => g[S] = Value(g, S)
           Fails == {m \in Nat : ~\E g : Upto(g, m)}
<1>1. \A S \in SUBSET (1 .. n) : Cardinality(S) \in Nat /\ (Cardinality(S) = 0 <=> S = {})
  <2>1. \A S \in SUBSET (1 .. n) : IsFiniteSet(S)
    <3>1. IsFiniteSet(1 .. n)
      BY FS_Interval
    <3>2. QED
      BY <3>1, FS_Subset
  <2>2. QED
    BY <2>1, FS_CardinalityType, FS_EmptySet
<1>2. \A S \in SUBSET (1 .. n) : S # {} =>
          S \ {Max(S)} \in SUBSET (1 .. n) /\ Cardinality(S \ {Max(S)}) = Cardinality(S) - 1
  BY MaxFacts
<1>3. Fails = {}
  <2> SUFFICES ASSUME Fails # {} PROVE FALSE
    OBVIOUS
  <2>1. PICK m \in Fails : \A y \in Fails : m <= y
    BY LeastElement
  <2>2. CASE m = 0
    <3> DEFINE g == [S \in SUBSET (1 .. n) |-> base]
    <3>1. Upto(g, 0)
      BY <1>1
    <3>2. QED
      BY <2>1, <2>2, <3>1
  <2>3. CASE m # 0
    <3>1. m - 1 \in Nat /\ m - 1 \notin Fails /\ m \in Nat
      <4>1. m \in Nat
        BY <2>1
      <4>2. m - 1 \in Nat /\ ~(m <= m - 1)
        BY <2>3, <4>1
      <4> HIDE DEF Fails
      <4>3. QED
        BY <2>1, <4>1, <4>2
    <3>2. PICK g : Upto(g, m - 1)
      BY <3>1
    <3> DEFINE h == [S \in SUBSET (1 .. n) |-> IF Cardinality(S) <= m - 1 THEN g[S]
                                                                        ELSE Value(g, S)]
    <3>3. ASSUME NEW S \in SUBSET (1 .. n), Cardinality(S) <= m PROVE h[S] = Value(g, S)
      BY <3>2, <3>3
    <3>4. ASSUME NEW S \in SUBSET (1 .. n), Cardinality(S) <= m
          PROVE  Value(h, S) = Value(g, S)
      <4>1. CASE S = {}
        BY <4>1
      <4>2. CASE S # {}
        <5>1. S \ {Max(S)} \in SUBSET (1 .. n) /\ Cardinality(S \ {Max(S)}) <= m - 1
          BY <1>1, <1>2, <3>1, <3>4, <4>2
        <5>2. h[S \ {Max(S)}] = g[S \ {Max(S)}]
          BY <5>1
        <5>3. QED
          BY <4>2, <5>2
      <4>3. QED
        BY <4>1, <4>2
    <3> HIDE DEF h, Value
    <3>5. Upto(h, m)
      BY <3>3, <3>4
    <3>6. QED
      BY <2>1, <3>5
  <2>4. QED
    BY <2>2, <2>3
<1>4. PICK g : Upto(g, n)
  BY <1>3
<1>5. \A S \in SUBSET (1 .. n) : Cardinality(S) <= n
  <2>1. IsFiniteSet(1 .. n) /\ Cardinality(1 .. n) = n
    BY FS_Interval
  <2>2. QED
    BY <2>1, FS_Subset
<1> DEFINE h == [S \in SUBSET (1 .. n) |-> g[S]]
<1>6. \A S \in SUBSET (1 .. n) : h[S] = Value(h, S)
  BY <1>2, <1>4, <1>5
<1>7. h = [S \in SUBSET (1 .. n) |-> h[S]]
  OBVIOUS
<1> HIDE DEF h
<1>8. IsSum(h, base, s, n)
  BY <1>6, <1>7 DEF IsSum
<1>9. QED
  BY <1>8

(* The fold that sizes a file is the sum over all its ticks. *)
LEMMA FoldIsSum ==
  ASSUME NEW base, NEW s, NEW n \in Nat, DOMAIN s = 1 .. n
  PROVE  \E g : /\ IsSum(g, base, s, n)
                /\ FoldLeft(LAMBDA m, tick : m + EncodedSize(tick), base, s) = g[1 .. n]
<1> DEFINE Body(g) == [S \in SUBSET (1 .. n) |->
                          IF S = {} THEN base
                          ELSE g[S \ {Max(S)}] + EncodedSize(s[Max(S)])]
           sum == CHOOSE g : g = Body(g)
<1>1. FoldLeft(LAMBDA m, tick : m + EncodedSize(tick), base, s) = sum[1 .. n]
  BY DEF FoldLeft, MapThenFoldSet
<1>2. \A g : IsSum(g, base, s, n) <=> g = Body(g)
  BY DEF IsSum
<1> HIDE DEF Body
<1>3. sum = Body(sum)
  BY <1>2, SumExists
<1> HIDE DEF sum
<1>4. QED
  BY <1>1, <1>2, <1>3

(* A file of n ticks takes the sizes of its header, its ticks and the      *)
(* rest: a tick takes between 12 bytes and 44.                             *)
LEMMA SumBounds ==
  ASSUME NEW base \in Nat, NEW s, NEW n \in Nat, DOMAIN s = 1 .. n,
         \A k \in 1 .. n : Len(s[k].commands) \in Nat
  PROVE  LET v == FoldLeft(LAMBDA m, tick : m + EncodedSize(tick), base, s) IN
         /\ v \in Nat /\ v >= base + TickSize * n
         /\ n = 0 => v = base
         /\ (\A k \in 1 .. n : Len(s[k].commands) <= MaxPerTick) =>
                v <= base + (TickSize + MaxPerTick * CommandSize) * n
<1> DEFINE Few == \A k \in 1 .. n : Len(s[k].commands) <= MaxPerTick
<1>1. PICK g : IsSum(g, base, s, n)
               /\ FoldLeft(LAMBDA m, tick : m + EncodedSize(tick), base, s) = g[1 .. n]
  BY FoldIsSum
<1>2. ASSUME NEW k \in 1 .. n
      PROVE  /\ EncodedSize(s[k]) \in Nat /\ EncodedSize(s[k]) >= 12
             /\ Few => EncodedSize(s[k]) <= 44
  BY DEF EncodedSize, TickSize, CommandSize, MaxPerTick
<1> DEFINE Sized(S) == /\ g[S] \in Nat /\ g[S] >= base + 12 * Cardinality(S)
                       /\ Few => g[S] <= base + 44 * Cardinality(S)
           Fails == {m \in Nat : \E S \in SUBSET (1 .. n) : Cardinality(S) = m /\ ~Sized(S)}
<1>3. g[{}] = base /\ \A S \in SUBSET (1 .. n) : S # {} =>
                          g[S] = g[S \ {Max(S)}] + EncodedSize(s[Max(S)])
  BY <1>1 DEF IsSum
<1>4. Fails = {}
  <2> SUFFICES ASSUME Fails # {} PROVE FALSE
    OBVIOUS
  <2>1. PICK m \in Fails : \A y \in Fails : m <= y
    BY LeastElement
  <2>2. PICK S \in SUBSET (1 .. n) : Cardinality(S) = m /\ ~Sized(S)
    BY <2>1
  <2>3. CASE S = {}
    <3>1. Cardinality(S) = 0
      BY <2>3, FS_EmptySet
    <3> HIDE DEF Few
    <3>2. Sized(S)
      BY <1>3, <2>3, <3>1
    <3>3. QED
      BY <2>2, <3>2
  <2>4. CASE S # {}
    <3> DEFINE x == Max(S)
               T == S \ {x}
    <3>1. /\ x \in 1 .. n /\ T \in SUBSET (1 .. n)
          /\ Cardinality(S) \in Nat \ {0} /\ Cardinality(T) = Cardinality(S) - 1
      BY <2>4, MaxFacts
    <3>2. g[S] = g[T] + EncodedSize(s[x])
      BY <1>3, <2>4
    <3>3. Cardinality(T) \in Nat /\ ~(m <= Cardinality(T))
      BY <2>2, <3>1
    <3>4. Cardinality(T) \notin Fails
      <4> HIDE DEF Fails, T
      <4>1. QED
        BY <2>1, <3>3
    <3>5. Sized(T)
      <4> HIDE DEF T, Sized
      <4>1. QED
        BY <3>1, <3>3, <3>4
    <3> DEFINE c == Cardinality(T)
               e == EncodedSize(s[x])
    <3> HIDE DEF x, T, Few
    <3>8. c \in Nat /\ Cardinality(S) = c + 1
      BY <3>1
    <3>9. e \in Nat /\ e >= 12 /\ (Few => e <= 44)
      BY <1>2, <3>1
    <3>10. g[T] \in Nat /\ g[T] >= base + 12 * c /\ (Few => g[T] <= base + 44 * c)
      BY <3>5
    <3>11. g[S] = g[T] + e
      BY <3>2
    <3> HIDE DEF c, e
    <3>6. Sized(S)
      BY <3>8, <3>9, <3>10, <3>11
    <3>7. QED
      BY <2>2, <3>6
  <2>5. QED
    BY <2>3, <2>4
<1>5. 1 .. n \in SUBSET (1 .. n) /\ Cardinality(1 .. n) = n
  <2>1. 1 \in Int /\ n \in Int /\ (1 > n => n = 0)
    OBVIOUS
  <2>2. QED
    BY <2>1, FS_Interval
<1>6. Sized(1 .. n)
  <2> HIDE DEF Sized
  <2>1. QED
    BY <1>4, <1>5
<1>7. n = 0 => g[1 .. n] = base
  <2>1. n = 0 => 1 .. n = {}
    OBVIOUS
  <2>2. QED
    BY <1>3, <2>1
<1> DEFINE v == FoldLeft(LAMBDA m, tick : m + EncodedSize(tick), base, s)
<1>8. v = g[1 .. n]
  BY <1>1
<1> HIDE DEF v
<1>9. /\ v \in Nat /\ v >= base + TickSize * n
      /\ n = 0 => v = base
      /\ Few => v <= base + (TickSize + MaxPerTick * CommandSize) * n
  <2> HIDE DEF Few
  <2>1. QED
    BY <1>5, <1>6, <1>7, <1>8 DEF TickSize, MaxPerTick, CommandSize
<1>10. QED
  BY <1>9 DEF v

----------------------------------------------------------------------------
(* Files.                                                                  *)

(* What is known of a file that a reader may find at the path: its ticks   *)
(* can be read, and one as long as its header says is not too large.       *)
IsFile(f) ==
    /\ f.rest \in {"end", "loose", "bad_count"}
    /\ f.header.ticks \in Nat
    /\ Len(f.ticks) \in Nat /\ f.ticks = [k \in 1 .. Len(f.ticks) |-> f.ticks[k]]
    /\ \A k \in 1 .. Len(f.ticks) : /\ f.ticks[k].commands \in Seq(1 .. 6)
                                    /\ Len(f.ticks[k].commands) <= MaxPerTick
    /\ f.header.status = "OK" /\ f.header.ticks = Len(f.ticks) =>
           Capacity(Len(f.ticks)) <= MaxFileBytes

(* What remains of a file has room for the ticks that are left, and is     *)
(* empty only behind the last one.                                         *)
LEMMA RemainingFacts ==
  ASSUME NEW f, IsFile(f), NEW n \in Nat, n <= Len(f.ticks)
  PROVE  LET v == Remaining(f, n)
             m == Len(f.ticks) - n
         IN  /\ v \in Nat /\ v >= TickSize * m
             /\ v <= RestSize[f.rest] + (TickSize + MaxPerTick * CommandSize) * m
             /\ v = 0 <=> m = 0 /\ f.rest = "end"
<1> DEFINE s == SubSeq(f.ticks, n + 1, Len(f.ticks))
           m == Len(f.ticks) - n
           base == RestSize[f.rest]
<1>1. m \in Nat /\ base \in Nat /\ (base = 0 <=> f.rest = "end")
  BY DEF IsFile, RestSize, TickSize
<1>2. /\ Len(s) = m /\ s \in Seq({f.ticks[k] : k \in 1 .. Len(f.ticks)})
      /\ \A i \in 1 .. m : s[i] = f.ticks[n + i]
  <2> DEFINE S == {f.ticks[k] : k \in 1 .. Len(f.ticks)}
             l == Len(f.ticks)
  <2>1. l \in Nat /\ n <= l
    BY DEF IsFile
  <2>2. \A k \in 1 .. l : f.ticks[k] \in S
    OBVIOUS
  <2> HIDE DEF S, l
  <2>3. \A k \in n + 1 .. l : f.ticks[k] \in S
    BY <2>1, <2>2
  <2>4. n + 1 \in Int /\ l \in Int
    BY <2>1
  <2>5. /\ s \in Seq(S)
        /\ Len(s) = IF n + 1 <= l THEN l - (n + 1) + 1 ELSE 0
        /\ \A i \in 1 .. l - (n + 1) + 1 : s[i] = f.ticks[n + 1 + i - 1]
    BY <2>3, <2>4, SubSeqProperties DEF l
  <2>6. l - (n + 1) + 1 = l - n /\ \A i \in 1 .. l - n : n + 1 + i - 1 = n + i
    BY <2>1
  <2>7. Len(s) = l - n
    BY <2>1, <2>5
  <2>8. \A i \in 1 .. l - n : s[i] = f.ticks[n + i]
    BY <2>5, <2>6
  <2>9. QED
    BY <2>5, <2>7, <2>8 DEF S, l
<1>4. DOMAIN s = 1 .. m
  BY <1>2, LenProperties
<1>5. ASSUME NEW i \in 1 .. m
      PROVE  Len(s[i].commands) \in Nat /\ Len(s[i].commands) <= MaxPerTick
  <2>1. n + i \in 1 .. Len(f.ticks)
    BY DEF IsFile
  <2>2. s[i] = f.ticks[n + i]
    BY <1>2
  <2>3. QED
    BY <2>1, <2>2, LenProperties DEF IsFile
<1> DEFINE v == Remaining(f, n)
<1> HIDE DEF m, base, s
<1>6. /\ v \in Nat /\ v >= base + TickSize * m /\ (m = 0 => v = base)
      /\ v <= base + (TickSize + MaxPerTick * CommandSize) * m
  BY <1>1, <1>4, <1>5, SumBounds DEF Remaining, s, base
<1> HIDE DEF v
<1>7. /\ v \in Nat /\ v >= TickSize * m
      /\ v <= base + (TickSize + MaxPerTick * CommandSize) * m
      /\ v = 0 <=> m = 0 /\ f.rest = "end"
  BY <1>1, <1>6 DEF TickSize, MaxPerTick, CommandSize
<1>8. QED
  BY <1>7 DEF v, m, base

(* A file of the form a reader asks for is not too large to be read. *)
LEMMA WellFormedFits ==
  ASSUME NEW f, IsFile(f), WellFormed(f), MaxFileBytes \in Nat
  PROVE  FileSize(f) \in Nat /\ FileSize(f) <= MaxFileBytes
<1>1. /\ f.header.status = "OK" /\ f.rest = "end"
      /\ Len(f.ticks) \in Nat /\ Capacity(Len(f.ticks)) <= MaxFileBytes
  BY DEF IsFile, WellFormed
<1>2. /\ Remaining(f, 0) \in Nat
      /\ Remaining(f, 0) <= RestSize[f.rest]
                            + (TickSize + MaxPerTick * CommandSize) * (Len(f.ticks) - 0)
  BY <1>1, RemainingFacts
<1>3. RestSize[f.rest] = 0
  BY <1>1 DEF RestSize
<1>4. FileSize(f) = HeaderSize + Remaining(f, 0)
  BY <1>1 DEF FileSize
<1> DEFINE v == Remaining(f, 0)
           n == Len(f.ticks)
<1>5. n \in Nat /\ v \in Nat /\ v <= 44 * n /\ 44 + n * 44 <= MaxFileBytes
  BY <1>1, <1>2, <1>3 DEF Capacity, HeaderSize, TickSize, MaxPerTick, CommandSize
<1> HIDE DEF n, v
<1>6. 44 + v \in Nat /\ 44 + v <= MaxFileBytes
  BY <1>5
<1>7. QED
  BY <1>4, <1>6 DEF v, HeaderSize

(* A recording is a file whose hashes are those of the run it describes.   *)
LEMMA RecordingFaithful ==
  ASSUME NEW seed \in Seeds, NEW ticks \in Nat, Capacity(ticks) <= MaxFileBytes
  PROVE  IsFile(Recording(seed, ticks)) /\ Faithful(Recording(seed, ticks))
<1> DEFINE r == Recording(seed, ticks)
<1>1. /\ r.header = Header(seed, ticks) /\ r.rest = "end" /\ Len(r.ticks) = ticks
      /\ r.ticks = [k \in 1 .. ticks |-> [commands |-> Generated(seed, k - 1),
                                          hash |-> HashState(Worlds(r)[k])]]
  <2>1. r = [header |-> Header(seed, ticks), ticks |-> r.ticks, rest |-> "end"]
        /\ Len(r.ticks) = ticks
        /\ r.ticks = [k \in 1 .. ticks |-> [commands |-> Generated(seed, k - 1),
                                            hash |-> HashState(Worlds(r)[k])]]
    BY RecordingFacts
  <2> HIDE DEF r
  <2>2. QED
    BY <2>1
<1> HIDE DEF r
<1>2. r.header.status = "OK" /\ r.header.ticks = ticks
  BY <1>1 DEF Header
<1>3. ASSUME NEW k \in 1 .. ticks
      PROVE  /\ r.ticks[k].commands = Generated(seed, k - 1)
             /\ r.ticks[k].hash = HashState(Worlds(r)[k])
             /\ r.ticks[k].commands \in Seq(1 .. 6) /\ Len(r.ticks[k].commands) <= MaxPerTick
             /\ Accepted(r.ticks[k].commands)
             /\ ToSet(r.ticks[k].commands) \subseteq Canonical
  <2>1. /\ r.ticks[k].commands = Generated(seed, k - 1)
        /\ r.ticks[k].hash = HashState(Worlds(r)[k])
    BY <1>1
  <2>2. k - 1 \in Nat
    OBVIOUS
  <2>3. /\ Generated(seed, k - 1) \in Seq(1 .. 4)
        /\ Len(Generated(seed, k - 1)) <= MaxPerTick
        /\ Accepted(Generated(seed, k - 1))
        /\ ToSet(Generated(seed, k - 1)) \subseteq Canonical
    BY <2>2, GeneratedFacts
  <2>4. Generated(seed, k - 1) \in Seq(1 .. 6)
    <3>1. 1 .. 4 \subseteq 1 .. 6
      OBVIOUS
    <3>2. QED
      BY <2>3, <3>1, SeqMonotonic
  <2>5. QED
    BY <2>1, <2>3, <2>4
<1>4. r.ticks = [k \in 1 .. Len(r.ticks) |-> r.ticks[k]]
  BY <1>1
<1>5. IsFile(r)
  BY <1>1, <1>2, <1>3, <1>4 DEF IsFile
<1>6. WellFormed(r)
  BY <1>1, <1>2, <1>3 DEF WellFormed
<1>7. \A k \in 1 .. Len(r.ticks) : Matches(r, k)
  BY <1>1, <1>3 DEF Matches
<1>8. QED
  BY <1>5, <1>6, <1>7 DEF Faithful, r

(* A recording with one thing wrong with it is a file too.                 *)
LEMMA FilesAreFiles ==
  ASSUME NEW f \in FirstFiles
  PROVE  IsFile(f)
<1>1. CASE f \in Recordings
  <2>1. PICK seed \in Seeds, ticks \in {n \in 0 .. MaxTicks : Capacity(n) <= MaxFileBytes} :
            f = Recording(seed, ticks)
    BY <1>1 DEF Recordings
  <2>2. QED
    BY <2>1, RecordingFaithful
<1>2. CASE f \notin Recordings
  <2>1. PICK r \in Recordings : f \in Damaged(r)
    BY <1>2 DEF FirstFiles
  <2>2. PICK seed \in Seeds, ticks \in {n \in 0 .. MaxTicks : Capacity(n) <= MaxFileBytes} :
            r = Recording(seed, ticks)
    BY <2>1 DEF Recordings
  <2> DEFINE t == r.ticks
             h == [status |-> "OK", seed |-> seed, ticks |-> ticks]
  <2>3. r = [header |-> h, ticks |-> t, rest |-> "end"] /\ Len(t) = ticks /\ ticks \in Nat
    <3>1. ticks \in Nat
      OBVIOUS
    <3>2. r = [header |-> Header(seed, ticks), ticks |-> t, rest |-> "end"] /\ Len(t) = ticks
      BY <2>2, <3>1, RecordingFacts
    <3>3. QED
      BY <3>1, <3>2 DEF Header
  <2>4. IsFile(r) /\ Capacity(ticks) <= MaxFileBytes
    BY <2>2, RecordingFaithful
  <2>5. /\ t = [k \in 1 .. ticks |-> t[k]]
        /\ \A k \in 1 .. ticks : t[k].commands \in Seq(1 .. 6) /\ Len(t[k].commands) <= MaxPerTick
    BY <2>3, <2>4 DEF IsFile
  <2>6. t = [k \in 1 .. ticks |-> [commands |-> t[k].commands, hash |-> t[k].hash]]
    <3>1. t = [k \in 1 .. ticks |-> [commands |-> Generated(seed, k - 1),
                                     hash |-> HashState(Worlds(r)[k])]]
      BY <2>2, RecordingFacts
    <3> HIDE DEF t
    <3>2. \A k \in 1 .. ticks : t[k] = [commands |-> t[k].commands, hash |-> t[k].hash]
      BY <3>1
    <3>3. QED
      BY <2>5, <3>2
  <2> HIDE DEF t
  <2>7. ASSUME \/ f \in {[r EXCEPT !.header.status = s] : s \in {"BAD_MAGIC", "BAD_LOGIC_HASH"}}
               \/ f \in {[r EXCEPT !.rest = s] : s \in {"loose", "bad_count"}}
               \/ f \in {[r EXCEPT !.header.ticks = n] : n \in 0 .. MaxTicks}
               \/ f = [r EXCEPT !.header.seed = @ + 1]
        PROVE  IsFile(f)
    <3>1. f.ticks = t /\ f.header.ticks \in Nat /\ f.rest \in {"end", "loose", "bad_count"}
      BY <2>3, <2>7
    <3>2. QED
      BY <2>3, <2>4, <2>5, <3>1 DEF IsFile
  <2>8. ASSUME NEW n \in 0 .. ticks, f = Stored(r, n) PROVE IsFile(f)
    <3>1. CASE n = 0
      <4>1. f.ticks = << >> /\ f.header.ticks = ticks /\ f.rest = "end"
            /\ f.header.status = "TRUNCATED"
        BY <2>3, <2>8, <3>1 DEF Stored
      <4>2. Len(<< >>) = 0 /\ << >> = [k \in 1 .. 0 |-> << >>[k]] /\ 1 .. 0 = {}
        OBVIOUS
      <4>3. QED
        BY <2>3, <4>1, <4>2 DEF IsFile
    <3>2. CASE n # 0
      <4>1. f.ticks = SubSeq(t, 1, n - 1) /\ f.header.ticks = ticks /\ f.rest = "end"
            /\ f.header.status = "OK"
        BY <2>3, <2>8, <3>2 DEF Stored
      <4>2. n - 1 \in Nat /\ n - 1 < ticks /\ \A k \in 1 .. n - 1 : k \in 1 .. ticks
        BY <2>3, <3>2
      <4>3. f.ticks = [k \in 1 .. n - 1 |-> t[k]]
        BY <4>1, <4>2
      <4> HIDE DEF t
      <4>4. Len(f.ticks) = n - 1 /\ \A k \in 1 .. n - 1 : f.ticks[k] = t[k]
        BY <4>2, <4>3
      <4>5. f.ticks = [k \in 1 .. n - 1 |-> f.ticks[k]]
        BY <4>3, <4>4
      <4>6. f.header.ticks # Len(f.ticks)
        BY <2>3, <4>1, <4>2, <4>4
      <4>7. QED
        BY <2>3, <2>5, <4>1, <4>2, <4>4, <4>5, <4>6 DEF IsFile
    <3>3. QED
      BY <3>1, <3>2
  <2>9. ASSUME f = [r EXCEPT !.ticks = @ \o @] PROVE IsFile(f)
    <3>1. f.ticks = t \o t /\ f.header.ticks = ticks /\ f.rest = "end"
      BY <2>3, <2>9
    <3>2. \A k \in 1 .. ticks : t[k] \in {t[i] : i \in 1 .. ticks}
      OBVIOUS
    <3> DEFINE S == {t[i] : i \in 1 .. ticks}
    <3>3. t \in Seq(S)
      <4> HIDE DEF S
      <4>1. t \in [1 .. ticks -> S]
        BY <2>5, <3>2 DEF S
      <4>2. QED
        BY <2>3, <4>1, SeqDef
    <3>4. \A x \in S : x.commands \in Seq(1 .. 6) /\ Len(x.commands) <= MaxPerTick
      BY <2>5
    <3> HIDE DEF S
    <3>5. f.ticks \in Seq(S) /\ Len(f.ticks) = ticks + ticks
      <4>1. t \o t \in Seq(S) /\ Len(t \o t) = Len(t) + Len(t)
        BY <3>3, ConcatProperties
      <4>2. QED
        BY <2>3, <3>1, <4>1
    <3>6. \A k \in 1 .. Len(f.ticks) : f.ticks[k] \in S
      BY <3>5, ElementOfSeq
    <3>7. f.ticks = [k \in 1 .. Len(f.ticks) |-> f.ticks[k]]
      BY <3>5
    <3>8. f.header.ticks = Len(f.ticks) => Len(f.ticks) = ticks
      BY <3>1
    <3>9. Len(f.ticks) \in Nat
      BY <2>3, <3>5
    <3>10. QED
      BY <2>3, <2>4, <3>1, <3>4, <3>6, <3>7, <3>8, <3>9 DEF IsFile
  <2>10. ASSUME NEW k \in 1 .. ticks, NEW x, f.header = h, f.rest = "end",
                f.ticks = [t EXCEPT ![k] = x],
                x.commands \in Seq(1 .. 6), Len(x.commands) <= MaxPerTick
         PROVE  IsFile(f)
    <3>1. f.ticks = [i \in 1 .. ticks |-> IF i = k THEN x ELSE t[i]]
      BY <2>5, <2>10
    <3>2. Len(f.ticks) = ticks /\ \A i \in 1 .. ticks : f.ticks[i] = IF i = k THEN x ELSE t[i]
      BY <2>3, <3>1
    <3>3. f.ticks = [i \in 1 .. ticks |-> f.ticks[i]]
      BY <3>1, <3>2
    <3>4. \A i \in 1 .. ticks : /\ f.ticks[i].commands \in Seq(1 .. 6)
                                /\ Len(f.ticks[i].commands) <= MaxPerTick
      BY <2>5, <2>10, <3>2
    <3>5. f.header.ticks = ticks
      BY <2>10
    <3>6. QED
      BY <2>3, <2>4, <2>10, <3>2, <3>3, <3>4, <3>5 DEF IsFile
  <2>11. ASSUME NEW k \in 1 .. ticks, NEW hash, f = [r EXCEPT !.ticks[k].hash = hash]
         PROVE  IsFile(f)
    <3> DEFINE x == [commands |-> t[k].commands, hash |-> hash]
    <3>1. f.header = h /\ f.rest = "end" /\ f.ticks = [t EXCEPT ![k] = [t[k] EXCEPT !.hash = hash]]
      BY <2>3, <2>11
    <3>2. [t[k] EXCEPT !.hash = hash] = x
      BY <2>6
    <3>3. x.commands = t[k].commands
      OBVIOUS
    <3> HIDE DEF x
    <3>4. QED
      BY <2>5, <2>10, <3>1, <3>2, <3>3
  <2>12. ASSUME NEW k \in 1 .. ticks, NEW c \in {Velocity(0), Stale, Malformed},
                f = [r EXCEPT !.ticks[k].commands = <<c>>]
         PROVE  IsFile(f)
    <3> DEFINE x == [commands |-> <<c>>, hash |-> t[k].hash]
    <3>1. f.header = h /\ f.rest = "end"
          /\ f.ticks = [t EXCEPT ![k] = [t[k] EXCEPT !.commands = <<c>>]]
      BY <2>3, <2>12
    <3>2. [t[k] EXCEPT !.commands = <<c>>] = x
      BY <2>6
    <3>3. c \in 1 .. 6
      BY DEF Velocity, Stale, Malformed
    <3>4. x.commands \in Seq(1 .. 6) /\ Len(x.commands) <= MaxPerTick
      BY <3>3 DEF MaxPerTick
    <3> HIDE DEF x
    <3>5. QED
      BY <2>10, <3>1, <3>2, <3>4
  <2>13. QED
    <3>1. \/ f \in {[r EXCEPT !.header.status = s] : s \in {"BAD_MAGIC", "BAD_LOGIC_HASH"}}
          \/ f \in {[r EXCEPT !.rest = s] : s \in {"loose", "bad_count"}}
          \/ f \in {[r EXCEPT !.header.ticks = n] : n \in 0 .. MaxTicks}
          \/ f = [r EXCEPT !.header.seed = @ + 1]
          \/ f \in {Stored(r, n) : n \in 0 .. ticks}
          \/ f = [r EXCEPT !.ticks = @ \o @]
          \/ f \in {[r EXCEPT !.ticks[k].hash = hh] : k \in 1 .. ticks, hh \in 0 .. 1}
          \/ f \in {[r EXCEPT !.ticks[k].commands = <<c>>] :
                        k \in 1 .. ticks, c \in {Velocity(0), Stale, Malformed}}
      <4>1. Len(r.ticks) = ticks
        BY <2>3
      <4>2. QED
        BY <2>1, <4>1 DEF Damaged
    <3>2. f \in {Stored(r, n) : n \in 0 .. ticks} => IsFile(f)
      BY <2>8
    <3>3. f \in {[r EXCEPT !.ticks[k].hash = hh] : k \in 1 .. ticks, hh \in 0 .. 1} => IsFile(f)
      BY <2>11
    <3>4. f \in {[r EXCEPT !.ticks[k].commands = <<c>>] :
                     k \in 1 .. ticks, c \in {Velocity(0), Stale, Malformed}} => IsFile(f)
      BY <2>12
    <3>5. CASE f = [r EXCEPT !.ticks = @ \o @]
      BY <2>9, <3>5
    <3>6. CASE \/ f \in {[r EXCEPT !.header.status = s] : s \in {"BAD_MAGIC", "BAD_LOGIC_HASH"}}
               \/ f \in {[r EXCEPT !.rest = s] : s \in {"loose", "bad_count"}}
               \/ f \in {[r EXCEPT !.header.ticks = n] : n \in 0 .. MaxTicks}
               \/ f = [r EXCEPT !.header.seed = @ + 1]
      BY <2>7, <3>6
    <3>7. QED
      BY <3>1, <3>2, <3>3, <3>4, <3>5, <3>6
<1>3. QED
  BY <1>1, <1>2

----------------------------------------------------------------------------
(* Verdicts.                                                               *)

(* What VerdictExact says of one reader that is done with what it loaded.  *)
Verdict(mode, replay, tick, exit) ==
    exit # "io" /\ replay # Absent =>
        /\ (exit = "success") = (IF mode = "verify" THEN Faithful(replay) ELSE WellFormed(replay))
        /\ exit = "divergence" =>
            /\ \A k \in 1 .. tick : Matches(replay, k)
            /\ ~Matches(replay, tick + 1)
            /\ Accepted(replay.ticks[tick + 1].commands)
        /\ exit = "invalid" =>
            \/ ~WellFormed(replay)
            \/ \E k \in 1 .. Len(replay.ticks) : ~Accepted(replay.ticks[k].commands)
        /\ replay \in Recordings => exit = "success"

(* Every file that a recorder makes can be read, is well formed and        *)
(* verifies.                                                               *)
LEMMA RecordingsFaithful ==
  ASSUME NEW f \in Recordings
  PROVE  IsFile(f) /\ Faithful(f) /\ WellFormed(f)
<1>1. PICK seed \in Seeds, ticks \in {n \in 0 .. MaxTicks : Capacity(n) <= MaxFileBytes} :
          f = Recording(seed, ticks)
  BY DEF Recordings
<1>2. QED
  BY <1>1, RecordingFaithful DEF Faithful

(* What a reader has found so far: the first n ticks are canonical, and a  *)
(* verifier has found that they match and stands in the world behind them. *)
ReadUpTo(mode, f, n, world) ==
    /\ f.header.status = "OK"
    /\ n \in 0 .. Len(f.ticks) /\ n <= f.header.ticks
    /\ \A k \in 1 .. n : ToSet(f.ticks[k].commands) \subseteq Canonical
    /\ mode = "verify" => /\ \A k \in 1 .. n : Matches(f, k)
                          /\ world = Worlds(f)[n]

(* An exit other than success is right for a file that is not sound. *)
LEMMA NotSuccess ==
  ASSUME NEW mode, NEW f, NEW exit, exit # "success",
         IF mode = "verify" THEN ~Faithful(f) ELSE ~WellFormed(f)
  PROVE  (exit = "success") = (IF mode = "verify" THEN Faithful(f) ELSE WellFormed(f))
BY DEF Faithful, WellFormed

(* A file without the form is rightly called invalid. *)
LEMMA FormVerdict ==
  ASSUME NEW mode, NEW f, NEW n, ~WellFormed(f)
  PROVE  Verdict(mode, f, n, "invalid")
<1>1. f \notin Recordings /\ ~Faithful(f)
  BY RecordingsFaithful DEF Faithful
<1>2. QED
  BY <1>1, NotSuccess DEF Verdict

(* The header: read with as many ticks as can be there. *)
LEMMA HeaderVerdict ==
  ASSUME NEW f, IsFile(f), NEW mode
  PROVE  /\ HeaderStatus(f) # "OK" => ~WellFormed(f)
         /\ HeaderStatus(f) = "OK" => ReadUpTo(mode, f, 0, NewWorld(f.header.seed))
<1>1. Len(f.ticks) \in Nat /\ f.header.ticks \in Nat
  BY DEF IsFile
<1>2. ASSUME HeaderStatus(f) # "OK", WellFormed(f) PROVE FALSE
  <2>1. f.header.status = "OK" /\ f.header.ticks = Len(f.ticks)
    BY <1>2 DEF WellFormed
  <2>2. Remaining(f, 0) \in Nat /\ Remaining(f, 0) >= TickSize * (Len(f.ticks) - 0)
    BY <1>1, RemainingFacts
  <2> DEFINE v == Remaining(f, 0)
             l == Len(f.ticks)
  <2>3. l \in Nat /\ v \in Nat /\ v >= 12 * l
    BY <1>1, <2>2 DEF TickSize
  <2>4. f.header.ticks > v \div 12
    BY <1>2, <2>1 DEF HeaderStatus, TickSize
  <2>5. l > v \div 12
    BY <2>1, <2>4
  <2> HIDE DEF v, l
  <2>6. QED
    BY <2>3, <2>5
<1>3. ASSUME HeaderStatus(f) = "OK" PROVE ReadUpTo(mode, f, 0, NewWorld(f.header.seed))
  <2>1. f.header.status = "OK"
    BY <1>3 DEF HeaderStatus
  <2>2. Worlds(f)[0] = NewWorld(f.header.seed)
    BY <1>1, WorldsFacts
  <2>3. 0 \in 0 .. Len(f.ticks) /\ 0 <= f.header.ticks /\ 1 .. 0 = {}
    BY <1>1
  <2>4. QED
    BY <2>1, <2>2, <2>3 DEF ReadUpTo
<1>4. QED
  BY <1>2, <1>3

(* A turn of the loop: what ends it, and what it adds. *)
LEMMA TickVerdict ==
  ASSUME NEW f, IsFile(f), NEW mode \in {"verify", "inspect"}, NEW n, NEW world,
         ReadUpTo(mode, f, n, world), n < f.header.ticks
  PROVE  LET read == f.ticks[n + 1]
             next == Ticked(world, read.commands)
         IN  /\ TickStatus(f, n) # "OK" => Verdict(mode, f, n, "invalid")
             /\ TickStatus(f, n) = "OK" /\ mode = "inspect" => ReadUpTo(mode, f, n + 1, world)
             /\ TickStatus(f, n) = "OK" /\ mode = "verify" =>
                 /\ ~Accepted(read.commands) => Verdict(mode, f, n, "invalid")
                 /\ Accepted(read.commands) /\ HashState(next) # read.hash =>
                        Verdict(mode, f, n, "divergence")
                 /\ Accepted(read.commands) /\ HashState(next) = read.hash =>
                        ReadUpTo(mode, f, n + 1, next)
<1> DEFINE read == f.ticks[n + 1]
           next == Ticked(world, read.commands)
           l == Len(f.ticks)
<1>1. /\ l \in Nat /\ n \in 0 .. l /\ f.header.ticks \in Nat
      /\ f.header.status = "OK"
      /\ \A k \in 1 .. n : ToSet(f.ticks[k].commands) \subseteq Canonical
  BY DEF IsFile, ReadUpTo
<1>2. ASSUME TickStatus(f, n) # "OK" PROVE Verdict(mode, f, n, "invalid")
  <2>1. ~WellFormed(f)
    <3>1. CASE n < l
      <4>1. ~(ToSet(f.ticks[n + 1].commands) \subseteq Canonical) /\ n + 1 \in 1 .. l
        BY <1>1, <1>2, <3>1 DEF TickStatus
      <4>2. QED
        BY <4>1 DEF WellFormed
    <3>2. CASE ~(n < l)
      <4>1. l # f.header.ticks
        BY <1>1, <3>2
      <4>2. QED
        BY <4>1 DEF WellFormed
    <3>3. QED
      BY <3>1, <3>2
  <2>2. QED
    BY <2>1, FormVerdict
<1>3. ASSUME TickStatus(f, n) = "OK"
      PROVE  /\ n + 1 \in 1 .. l /\ n + 1 \in 0 .. l /\ n + 1 <= f.header.ticks
             /\ \A k \in 1 .. n + 1 : ToSet(f.ticks[k].commands) \subseteq Canonical
             /\ \A k \in 1 .. n + 1 : k \in 1 .. n \/ k = n + 1
  <2>1. n < l /\ ToSet(f.ticks[n + 1].commands) \subseteq Canonical
    BY <1>3 DEF TickStatus
  <2>2. /\ n + 1 \in 1 .. l /\ n + 1 \in 0 .. l /\ n + 1 <= f.header.ticks
        /\ \A k \in 1 .. n + 1 : k \in 1 .. n \/ k = n + 1
    BY <1>1, <2>1
  <2>3. QED
    BY <1>1, <2>1, <2>2
<1>4. ASSUME TickStatus(f, n) = "OK", mode = "inspect" PROVE ReadUpTo(mode, f, n + 1, world)
  BY <1>1, <1>3, <1>4 DEF ReadUpTo
<1>5. ASSUME TickStatus(f, n) = "OK", mode = "verify"
      PROVE  /\ ~Accepted(read.commands) => Verdict(mode, f, n, "invalid")
             /\ Accepted(read.commands) /\ HashState(next) # read.hash =>
                    Verdict(mode, f, n, "divergence")
             /\ Accepted(read.commands) /\ HashState(next) = read.hash =>
                    ReadUpTo(mode, f, n + 1, next)
  <2>1. n + 1 \in 1 .. l /\ n + 1 \in 0 .. l /\ n + 1 <= f.header.ticks
        /\ (\A k \in 1 .. n + 1 : ToSet(f.ticks[k].commands) \subseteq Canonical)
        /\ (\A k \in 1 .. n + 1 : k \in 1 .. n \/ k = n + 1)
    BY <1>3, <1>5
  <2>2. world = Worlds(f)[n] /\ \A k \in 1 .. n : Matches(f, k)
    BY <1>5 DEF ReadUpTo
  <2>3. next = Worlds(f)[n + 1]
    <3>1. Worlds(f)[n + 1] = Ticked(Worlds(f)[(n + 1) - 1], f.ticks[n + 1].commands)
      BY <1>1, <2>1, WorldsFacts
    <3>2. (n + 1) - 1 = n
      BY <1>1
    <3>3. QED
      BY <2>2, <3>1, <3>2
  <2>4. Matches(f, n + 1) <=> Accepted(read.commands) /\ read.hash = HashState(next)
    <3>1. n + 1 <= Len(f.ticks)
      BY <1>1, <2>1
    <3> HIDE DEF next, l
    <3>2. QED
      BY <2>3, <3>1 DEF Matches
  <2>5. ~Matches(f, n + 1) => f \notin Recordings /\ ~Faithful(f)
    BY <2>1, RecordingsFaithful DEF Faithful
  <2> HIDE DEF next
  <2>6. ASSUME ~Accepted(read.commands) PROVE Verdict(mode, f, n, "invalid")
    BY <1>5, <2>1, <2>4, <2>5, <2>6, NotSuccess DEF Verdict
  <2>7. ASSUME Accepted(read.commands), HashState(next) # read.hash
        PROVE  Verdict(mode, f, n, "divergence")
    BY <1>5, <2>2, <2>4, <2>5, <2>7, NotSuccess DEF Verdict
  <2>8. ASSUME Accepted(read.commands), HashState(next) = read.hash
        PROVE  ReadUpTo(mode, f, n + 1, next)
    <3>1. \A k \in 1 .. n + 1 : Matches(f, k)
      BY <2>1, <2>2, <2>4, <2>8
    <3>2. QED
      BY <1>1, <2>1, <2>3, <3>1 DEF ReadUpTo
  <2>9. QED
    BY <2>6, <2>7, <2>8
<1>6. QED
  BY <1>2, <1>4, <1>5

(* Behind the last tick of the header: what is left decides. *)
LEMMA EndVerdict ==
  ASSUME NEW f, IsFile(f), NEW mode \in {"verify", "inspect"}, NEW n, NEW world,
         ReadUpTo(mode, f, n, world), n = f.header.ticks
  PROVE  Verdict(mode, f, n, IF EndStatus(f, n) = "OK" THEN "success" ELSE "invalid")
<1>1. /\ Len(f.ticks) \in Nat /\ n \in 0 .. Len(f.ticks)
      /\ f.header.status = "OK"
      /\ \A k \in 1 .. n : ToSet(f.ticks[k].commands) \subseteq Canonical
  BY DEF IsFile, ReadUpTo
<1>2. EndStatus(f, n) = "OK" <=> n = Len(f.ticks) /\ f.rest = "end"
  <2>1. n \in Nat /\ n <= Len(f.ticks)
    BY <1>1
  <2>2. Remaining(f, n) = 0 <=> Len(f.ticks) - n = 0 /\ f.rest = "end"
    BY <2>1, RemainingFacts
  <2>3. Len(f.ticks) - n = 0 <=> n = Len(f.ticks)
    BY <1>1
  <2>4. QED
    BY <2>2, <2>3 DEF EndStatus
<1>3. EndStatus(f, n) = "OK" <=> WellFormed(f)
  BY <1>1, <1>2 DEF WellFormed
<1>4. CASE EndStatus(f, n) # "OK"
  BY <1>3, <1>4, FormVerdict
<1>5. CASE EndStatus(f, n) = "OK"
  <2>1. mode = "verify" => Faithful(f)
    BY <1>2, <1>3, <1>5 DEF Faithful, ReadUpTo
  <2>2. QED
    BY <1>3, <1>5, <2>1 DEF Verdict
<1>6. QED
  BY <1>4, <1>5

----------------------------------------------------------------------------
(* Recorders.                                                              *)

(* The first n ticks of a recording. *)
Prefix(seed, ticks, n) ==
    [header |-> Header(seed, ticks),
     ticks  |-> [k \in 1 .. n |-> Recording(seed, ticks).ticks[k]],
     rest   |-> "end"]

(* A recorder that has come n ticks far has the first n ticks of its       *)
(* recording, and stands in the world behind them.                         *)
LEMMA PrefixFacts ==
  ASSUME NEW seed \in Seeds, NEW ticks \in Nat, NEW n \in 0 .. ticks
  PROVE  LET commands == Generated(seed, n)
             r        == Recording(seed, ticks)
             world    == Ticked(Worlds(r)[n], commands)
         IN  /\ Len(Prefix(seed, ticks, n).ticks) = n
             /\ Prefix(seed, ticks, 0) = Begun(seed, ticks)
             /\ Prefix(seed, ticks, ticks) = r
             /\ Worlds(r)[0] = NewWorld(seed)
             /\ n < ticks => /\ WithTick(Prefix(seed, ticks, n), commands, world)
                                    = Prefix(seed, ticks, n + 1)
                             /\ world = Worlds(r)[n + 1]
<1> DEFINE commands == Generated(seed, n)
           r        == Recording(seed, ticks)
           world    == Ticked(Worlds(r)[n], commands)
           T(k)     == [commands |-> Generated(seed, k - 1), hash |-> HashState(Worlds(r)[k])]
<1>1. /\ r = [header |-> Header(seed, ticks), ticks |-> r.ticks, rest |-> "end"]
      /\ Len(r.ticks) = ticks /\ r.ticks = [k \in 1 .. ticks |-> T(k)]
  BY RecordingFacts
<1>2. Len(Prefix(seed, ticks, n).ticks) = n
  BY DEF Prefix
<1> HIDE DEF r
<1>3. Prefix(seed, ticks, 0) = Begun(seed, ticks)
  <2>1. [k \in 1 .. 0 |-> r.ticks[k]] = << >>
    OBVIOUS
  <2>2. QED
    BY <2>1 DEF Prefix, Begun, r
<1>4. Prefix(seed, ticks, ticks) = r
  <2>1. [k \in 1 .. ticks |-> r.ticks[k]] = r.ticks
    BY <1>1
  <2>2. QED
    BY <1>1, <2>1 DEF Prefix, r
<1>5. r.header.seed = seed
  BY <1>1 DEF Header
<1>6. /\ Worlds(r)[0] = NewWorld(r.header.seed)
      /\ \A k \in 1 .. ticks : Worlds(r)[k] = Ticked(Worlds(r)[k - 1], r.ticks[k].commands)
  BY <1>1, WorldsFacts
<1>7. ASSUME n < ticks
      PROVE  WithTick(Prefix(seed, ticks, n), commands, world) = Prefix(seed, ticks, n + 1)
             /\ world = Worlds(r)[n + 1]
  <2>1. n + 1 \in 1 .. ticks /\ (n + 1) - 1 = n
    BY <1>7
  <2>2. r.ticks[n + 1] = T(n + 1)
    BY <1>1, <2>1
  <2>3. r.ticks[n + 1].commands = commands
    BY <2>1, <2>2
  <2>4. world = Worlds(r)[n + 1]
    BY <1>6, <2>1, <2>3
  <2> HIDE DEF world
  <2>5. r.ticks[n + 1] = [commands |-> commands, hash |-> HashState(world)]
    BY <2>1, <2>2, <2>4
  <2> DEFINE p == [k \in 1 .. n |-> r.ticks[k]]
             x == [commands |-> commands, hash |-> HashState(world)]
  <2>6. Append(p, x) = [k \in 1 .. n + 1 |-> r.ticks[k]]
    <3> HIDE DEF x, commands, T
    <3>1. Append(p, x) = [k \in 1 .. n + 1 |-> IF k = n + 1 THEN x ELSE p[k]]
      OBVIOUS
    <3>2. \A k \in 1 .. n + 1 : (IF k = n + 1 THEN x ELSE p[k]) = r.ticks[k]
      BY <2>5 DEF x
    <3>3. QED
      BY <3>1, <3>2
  <2> HIDE DEF commands, T
  <2>7. WithTick(Prefix(seed, ticks, n), commands, world)
            = [header |-> Header(seed, ticks), ticks |-> Append(p, x), rest |-> "end"]
    <3>1. Prefix(seed, ticks, n) = [header |-> Header(seed, ticks), ticks |-> p, rest |-> "end"]
      BY DEF Prefix, r
    <3> HIDE DEF p
    <3>2. QED
      BY <3>1 DEF WithTick
  <2> HIDE DEF p, x
  <2>8. QED
    BY <2>4, <2>6, <2>7 DEF Prefix, r
<1>8. QED
  BY <1>2, <1>3, <1>4, <1>5, <1>6, <1>7 DEF r

(* The recorder p of a run, at a step, with n ticks of it. *)
RecorderAtTick(p, pc, seed, ticks, n) ==
    /\ Capacity(ticks) <= MaxFileBytes /\ n <= ticks
    /\ p = [pc |-> pc, seed |-> seed, ticks |-> ticks, world |-> p.world,
            bytes |-> Prefix(seed, ticks, n)]
    /\ pc = "tick" => p.world = Worlds(Recording(seed, ticks))[n]
    /\ pc # "tick" => n = ticks

RecorderOK(p) ==
    \/ p = [pc |-> "idle"]
    \/ \E seed \in Seeds, ticks \in 0 .. MaxTicks, n \in 0 .. MaxTicks,
          pc \in {"tick", "create", "write", "discard", "close"} :
           RecorderAtTick(p, pc, seed, ticks, n)

RecordersOK ==
    /\ rec = [w \in Recorders |-> rec[w]]
    /\ \A w \in Recorders : RecorderOK(rec[w])

(* The temporary file belongs to whoever writes or discards it, and is his *)
(* recording as far as he has written it.                                  *)
TempOK ==
    /\ temp \in {Absent} \union Temps
    /\ \A w \in Recorders :
        /\ rec[w].pc \in {"write", "discard"} => temp # Absent /\ temp.by = w
        /\ rec[w].pc = "write" => /\ temp.records \in 0 .. Records(rec[w].bytes)
                                  /\ temp.bytes = Stored(rec[w].bytes, temp.records)

(* The file at the path is a whole one. *)
FileOK ==
    /\ file \in {first} \union Recordings
    /\ first \in {Absent} \union FirstFiles

(* Some of the pieces of a write are the header and the ticks before the   *)
(* last piece.                                                             *)
LEMMA StoredIs ==
  ASSUME NEW f, NEW n, n # 0
  PROVE  Stored(f, n) = [f EXCEPT !.ticks = SubSeq(f.ticks, 1, n - 1)]
BY Zenon DEF Stored

(* A recorder that has ticked its whole run holds the recording. *)
LEMMA WholeRun ==
  ASSUME MaxTicks \in Nat,
         NEW p, RecorderOK(p), p.pc \in {"create", "write", "discard", "close"}
  PROVE  /\ p.bytes \in Recordings
         /\ Records(p.bytes) \in 1 .. MaxTicks + 1
         /\ Stored(p.bytes, Records(p.bytes)) = p.bytes
         /\ p = [pc |-> p.pc, seed |-> p.seed, ticks |-> p.ticks, world |-> p.world,
                 bytes |-> p.bytes]
         /\ \A c \in {"write", "discard", "close"} : RecorderOK([p EXCEPT !.pc = c])
<1>1. PICK seed \in Seeds, ticks \in 0 .. MaxTicks, n \in 0 .. MaxTicks,
           pc \in {"tick", "create", "write", "discard", "close"} :
               RecorderAtTick(p, pc, seed, ticks, n)
  <2>1. p # [pc |-> "idle"]
    OBVIOUS
  <2>2. QED
    BY <2>1 DEF RecorderOK
<1>2. /\ p = [pc |-> pc, seed |-> seed, ticks |-> ticks, world |-> p.world,
              bytes |-> Prefix(seed, ticks, n)]
      /\ pc # "tick" => n = ticks
      /\ Capacity(ticks) <= MaxFileBytes
  BY <1>1 DEF RecorderAtTick
<1>3. p.pc = pc /\ p.seed = seed /\ p.ticks = ticks /\ p.bytes = Prefix(seed, ticks, n)
  BY <1>2
<1>4. n = ticks /\ ticks \in Nat /\ ticks <= MaxTicks
  BY <1>2, <1>3
<1>5. p.bytes = Recording(seed, ticks)
  <2>1. ticks \in 0 .. ticks
    BY <1>4
  <2>2. QED
    BY <1>3, <1>4, <2>1, PrefixFacts
<1>6. p.bytes \in Recordings
  BY <1>2, <1>5 DEF Recordings
<1>7. /\ Len(p.bytes.ticks) = ticks
      /\ p.bytes = [header |-> p.bytes.header, ticks |-> p.bytes.ticks, rest |-> "end"]
      /\ p.bytes.ticks = [k \in 1 .. ticks |-> p.bytes.ticks[k]]
  <2>1. LET r == Recording(seed, ticks) IN
            /\ r = [header |-> Header(seed, ticks), ticks |-> r.ticks, rest |-> "end"]
            /\ Len(r.ticks) = ticks
            /\ r.ticks = [k \in 1 .. ticks |-> [commands |-> Generated(seed, k - 1),
                                                hash |-> HashState(Worlds(r)[k])]]
    BY <1>4, RecordingFacts
  <2> DEFINE r == Recording(seed, ticks)
  <2> HIDE DEF r
  <2>2. Len(r.ticks) = ticks /\ r = [header |-> r.header, ticks |-> r.ticks, rest |-> "end"]
        /\ r.ticks = [k \in 1 .. ticks |-> r.ticks[k]]
    BY <2>1 DEF r
  <2>3. QED
    BY <1>5, <2>2 DEF r
<1>8. Records(p.bytes) = 1 + ticks
  BY <1>7 DEF Records
<1>9. Stored(p.bytes, Records(p.bytes)) = p.bytes
  <2> DEFINE b == p.bytes
  <2>1. SubSeq(b.ticks, 1, (1 + ticks) - 1) = b.ticks
    <3>1. (1 + ticks) - 1 = ticks
      BY <1>4
    <3>2. SubSeq(b.ticks, 1, ticks) = [k \in 1 .. ticks |-> b.ticks[k]]
      BY <1>4
    <3>3. QED
      BY <1>7, <3>1, <3>2
  <2>2. 1 + ticks # 0
    BY <1>4
  <2> HIDE DEF b
  <2>3. Stored(b, 1 + ticks) = [b EXCEPT !.ticks = SubSeq(b.ticks, 1, (1 + ticks) - 1)]
    BY <2>2, StoredIs
  <2>4. b = [header |-> b.header, ticks |-> b.ticks, rest |-> "end"]
    BY <1>7 DEF b
  <2>5. Stored(b, 1 + ticks) = b
    BY <2>1, <2>3, <2>4
  <2>6. QED
    BY <1>8, <2>5 DEF b
<1>10. ASSUME NEW c \in {"write", "discard", "close"} PROVE RecorderOK([p EXCEPT !.pc = c])
  <2> DEFINE q == [p EXCEPT !.pc = c]
  <2>1. q = [pc |-> c, seed |-> seed, ticks |-> ticks, world |-> p.world,
             bytes |-> Prefix(seed, ticks, n)]
    BY <1>2
  <2>2. q.world = p.world /\ c # "tick" /\ n <= ticks
    BY <1>4, <2>1
  <2> HIDE DEF q
  <2>3. RecorderAtTick(q, c, seed, ticks, n)
    BY <1>2, <1>4, <2>1, <2>2 DEF RecorderAtTick
  <2>4. RecorderOK(q)
    BY <2>3 DEF RecorderOK
  <2>5. QED
    BY <2>4 DEF q
<1>11. QED
  BY <1>2, <1>3, <1>4, <1>6, <1>8, <1>9, <1>10

----------------------------------------------------------------------------
(* Readers.                                                                *)

Reader(pc, mode, reserved, size, loaded, world, tick, exit) ==
    [pc |-> pc, mode |-> mode, reserved |-> reserved, size |-> size, loaded |-> loaded,
     world |-> world, tick |-> tick, exit |-> exit]

(* What a reader can load: what was there first, or a recording.           *)
Published == {f \in {first} \union Recordings : f # Absent}

ReaderOK(v) ==
    \/ v = [pc |-> "idle"]
    \/ /\ v = Reader(v.pc, v.mode, v.reserved, v.size, v.loaded, v.world, v.tick, v.exit)
       /\ v.mode \in {"verify", "inspect"}
       /\ v.loaded \in {Absent} \union Published
       /\ v.pc \in {"stat", "open", "read", "header", "tick", "done"}
       /\ v.pc \in {"stat", "open", "read"} => v.loaded = Absent
       /\ v.pc = "read" => file # Absent /\ v.size = FileSize(file)
       /\ v.pc \in {"header", "tick"} => v.loaded # Absent
       /\ v.pc \in {"stat", "open", "read", "header"} => v.tick = 0
       /\ v.pc = "tick" => ReadUpTo(v.mode, v.loaded, v.tick, v.world)
       /\ v.pc = "done" => Verdict(v.mode, v.loaded, v.tick, v.exit)

ReadersOK ==
    /\ ver = [r \in Readers |-> ver[r]]
    /\ \A r \in Readers : ReaderOK(ver[r])

ToolInv == FileOK /\ RecordersOK /\ TempOK /\ ReadersOK

(* Whatever a reader finds at the path is a file it can size. *)
LEMMA PublishedFiles ==
  ASSUME FileOK, NEW f \in Published
  PROVE  IsFile(f)
<1>1. CASE f \in Recordings
  BY <1>1, RecordingsFaithful
<1>2. CASE f \notin Recordings
  <2>1. f \in FirstFiles
    BY <1>2 DEF Published, FileOK
  <2>2. QED
    BY <2>1, FilesAreFiles
<1>3. QED
  BY <1>1, <1>2

(* What recorders do does not touch a reader: while one reads, the file is *)
(* not replaced.                                                           *)
LEMMA ReadersUntouched ==
  ASSUME ReadersOK, UNCHANGED <<first, ver>>, file' = file \/ ~FileInUse
  PROVE  ReadersOK'
<1>1. \A r \in Readers : ver[r].pc = "read" => file' = file
  BY DEF FileInUse
<1>2. ASSUME NEW r \in Readers PROVE ReaderOK(ver[r])'
  <2> DEFINE v == ver[r]
  <2>1. ReaderOK(v) /\ (v.pc = "read" => file' = file) /\ v' = v
    BY <1>1 DEF ReadersOK
  <2>2. Published' = Published
    BY DEF Published
  <2> HIDE DEF v
  <2>3. ReaderOK(v)'
    BY <2>1, <2>2 DEF ReaderOK
  <2>4. QED
    BY <2>3 DEF v
<1>3. QED
  BY <1>2 DEF ReadersOK

(* A reader's step is sound when it leaves that reader in a sound state. *)
LEMMA ReaderStep ==
  ASSUME ReadersOK, UNCHANGED <<file, first>>, NEW r \in Readers, NEW v, ReaderOK(v),
         ver' = [ver EXCEPT ![r] = v]
  PROVE  ReadersOK'
<1>1. \A x : ReaderOK(x)' <=> ReaderOK(x)
  BY DEF ReaderOK, Published
<1>2. ver' = [x \in Readers |-> ver'[x]] /\ \A x \in Readers : ver'[x] = IF x = r THEN v ELSE ver[x]
  BY DEF ReadersOK
<1>3. \A x \in Readers : ReaderOK(ver'[x])
  BY <1>2 DEF ReadersOK
<1>4. QED
  BY <1>1, <1>2, <1>3 DEF ReadersOK

(* A reader that exits keeps what it has found. *)
LEMMA ExitStep ==
  ASSUME ReadersOK, UNCHANGED <<file, first>>, NEW r \in Readers, NEW code, Exit(r, code),
         ver[r].pc # "idle", Verdict(ver[r].mode, ver[r].loaded, ver[r].tick, code)
  PROVE  ReadersOK'
<1> DEFINE v == ver[r]
           w == Reader("done", v.mode, v.reserved, v.size, v.loaded, v.world, v.tick, code)
<1>1. ReaderOK(v) /\ ver = [x \in Readers |-> ver[x]]
  BY DEF ReadersOK
<1>2. /\ v = Reader(v.pc, v.mode, v.reserved, v.size, v.loaded, v.world, v.tick, v.exit)
      /\ v.mode \in {"verify", "inspect"} /\ v.loaded \in {Absent} \union Published
  BY <1>1 DEF ReaderOK
<1>3. ver' = [ver EXCEPT ![r] = w]
  <2>1. [[v EXCEPT !.pc = "done"] EXCEPT !.exit = code] = w
    <3> DEFINE a == [v EXCEPT !.pc = "done"]
    <3> HIDE DEF v
    <3>1. a = Reader("done", v.mode, v.reserved, v.size, v.loaded, v.world, v.tick, v.exit)
      BY <1>2 DEF Reader
    <3> HIDE DEF a
    <3>2. [a EXCEPT !.exit = code] = w
      BY <3>1 DEF Reader
    <3>3. QED
      BY <3>2 DEF a
  <2>2. ver' = [ver EXCEPT ![r] = [[v EXCEPT !.pc = "done"] EXCEPT !.exit = code]]
    BY <1>1 DEF Exit
  <2>3. QED
    BY <2>1, <2>2
<1>4. ReaderOK(w)
  <2>1. /\ w = Reader(w.pc, w.mode, w.reserved, w.size, w.loaded, w.world, w.tick, w.exit)
        /\ w.pc = "done" /\ w.mode = v.mode /\ w.loaded = v.loaded /\ w.tick = v.tick
        /\ w.exit = code
    <3> HIDE DEF v
    <3>1. QED
      BY DEF Reader
  <2> HIDE DEF w
  <2>2. QED
    BY <1>2, <2>1 DEF ReaderOK
<1> HIDE DEF w
<1>5. QED
  BY <1>3, <1>4, ReaderStep

(* Every step of a reader keeps all readers sound. *)
LEMMA ReaderActions ==
  ASSUME ToolInv, NEW r \in Readers,
         \/ \E mode \in {"verify", "inspect"} : StartReader(r, mode)
         \/ Stat(r) \/ Open(r) \/ Read(r) \/ ReadFails(r)
         \/ ReadHeader(r) \/ ReadTick(r) \/ ReadEnd(r)
  PROVE  ReadersOK'
<1> DEFINE v == ver[r]
<1>1. /\ ReadersOK /\ ReaderOK(v) /\ FileOK /\ ver = [x \in Readers |-> ver[x]]
      /\ UNCHANGED <<file, first>>
  BY DEF ToolInv, ReadersOK, StartReader, Stat, Open, Read, ReadFails, ReadHeader, ReadTick,
         ReadEnd
<1>2. ASSUME NEW pc \in {"stat", "open", "read", "header", "tick", "done"}, v.pc = pc
      PROVE  /\ v = Reader(pc, v.mode, v.reserved, v.size, v.loaded, v.world, v.tick, v.exit)
             /\ v.pc # "idle" /\ v.mode \in {"verify", "inspect"}
             /\ v.loaded \in {Absent} \union Published
             /\ pc \in {"header", "tick"} => v.loaded \in Published
             /\ pc \in {"stat", "open", "read"} => v.loaded = Absent
             /\ pc \in {"stat", "open", "read", "header"} => v.tick = 0
  BY <1>1, <1>2 DEF ReaderOK
<1>3. \A mode, n, code : Verdict(mode, Absent, n, code)
  BY DEF Verdict
<1>4. \A mode, f, n : Verdict(mode, f, n, "io")
  BY DEF Verdict
<1>5. ASSUME NEW mode \in {"verify", "inspect"}, StartReader(r, mode) PROVE ReadersOK'
  <2> DEFINE w == Reader("stat", mode, 0, 0, Absent, 0, 0, "none")
  <2>1. ver' = [ver EXCEPT ![r] = w]
    BY <1>5 DEF StartReader, Reader
  <2>2. ReaderOK(w)
    BY DEF ReaderOK, Reader
  <2> HIDE DEF w
  <2>3. QED
    BY <1>1, <2>1, <2>2, ReaderStep
<1>6. CASE Stat(r)
  <2>1. v.pc = "stat"
    BY <1>6 DEF Stat
  <2>2. v.pc # "idle" /\ v.loaded = Absent /\ v.mode \in {"verify", "inspect"}
    BY <1>2, <2>1
  <2>3. ASSUME NEW code, Exit(r, code) PROVE ReadersOK'
    BY <1>1, <1>3, <2>2, <2>3, ExitStep
  <2>4. ASSUME NEW n, ver' = [ver EXCEPT ![r].pc = "open", ![r].reserved = n] PROVE ReadersOK'
    <3> DEFINE w == Reader("open", v.mode, n, v.size, v.loaded, v.world, v.tick, v.exit)
    <3>1. v = Reader("stat", v.mode, v.reserved, v.size, v.loaded, v.world, v.tick, v.exit)
          /\ v.tick = 0
      BY <1>2, <2>1
    <3>2. [[v EXCEPT !.pc = "open"] EXCEPT !.reserved = n] = w
      <4> DEFINE a == [v EXCEPT !.pc = "open"]
      <4> HIDE DEF v
      <4>1. a = Reader("open", v.mode, v.reserved, v.size, v.loaded, v.world, v.tick, v.exit)
        BY <3>1 DEF Reader
      <4> HIDE DEF a
      <4>2. [a EXCEPT !.reserved = n] = w
        BY <4>1 DEF Reader
      <4>3. QED
        BY <4>2 DEF a
    <3>3. ver' = [ver EXCEPT ![r] = w]
      BY <1>1, <2>4, <3>2
    <3>4. ReaderOK(w)
      <4> HIDE DEF v
      <4>1. QED
        BY <2>2, <3>1 DEF ReaderOK, Reader
    <3> HIDE DEF w
    <3>5. QED
      BY <1>1, <3>3, <3>4, ReaderStep
  <2>5. QED
    BY <1>6, <2>3, <2>4 DEF Stat
<1>7. CASE Open(r)
  <2>1. v.pc = "open"
    BY <1>7 DEF Open
  <2>2. v.pc # "idle" /\ v.loaded = Absent /\ v.mode \in {"verify", "inspect"}
    BY <1>2, <2>1
  <2>3. ASSUME Exit(r, "io") PROVE ReadersOK'
    BY <1>1, <1>3, <2>2, <2>3, ExitStep
  <2>4. ASSUME file # Absent,
               ver' = [ver EXCEPT ![r].pc = "read", ![r].size = FileSize(file)]
        PROVE  ReadersOK'
    <3> DEFINE n == FileSize(file)
               w == Reader("read", v.mode, v.reserved, n, v.loaded, v.world, v.tick, v.exit)
    <3>1. v = Reader("open", v.mode, v.reserved, v.size, v.loaded, v.world, v.tick, v.exit)
          /\ v.tick = 0
      BY <1>2, <2>1
    <3>2. [[v EXCEPT !.pc = "read"] EXCEPT !.size = n] = w
      <4> DEFINE a == [v EXCEPT !.pc = "read"]
      <4> HIDE DEF v, n
      <4>1. a = Reader("read", v.mode, v.reserved, v.size, v.loaded, v.world, v.tick, v.exit)
        BY <3>1 DEF Reader
      <4> HIDE DEF a
      <4>2. [a EXCEPT !.size = n] = w
        BY <4>1 DEF Reader
      <4>3. QED
        BY <4>2 DEF a
    <3>3. ver' = [ver EXCEPT ![r] = w]
      BY <1>1, <2>4, <3>2
    <3>4. ReaderOK(w)
      <4> HIDE DEF v
      <4>1. QED
        BY <2>2, <2>4, <3>1 DEF ReaderOK, Reader
    <3> HIDE DEF w
    <3>5. QED
      BY <1>1, <3>3, <3>4, ReaderStep
  <2>5. QED
    BY <1>7, <2>3, <2>4 DEF Open
<1>8. CASE Read(r)
  <2>1. v.pc = "read"
    BY <1>8 DEF Read
  <2>2. v = Reader("read", v.mode, v.reserved, v.size, v.loaded, v.world, v.tick, v.exit)
        /\ v.tick = 0 /\ v.mode \in {"verify", "inspect"}
    BY <1>2, <2>1
  <2>3. file \in Published /\ v.size = FileSize(file)
    BY <1>1, <2>1 DEF ReaderOK, FileOK, Published
  <2> DEFINE large == v.size > MaxFileBytes
             pc    == IF large THEN "done" ELSE "header"
             exit  == IF large THEN "invalid" ELSE v.exit
             w == Reader(pc, v.mode, v.reserved, v.size, file, v.world, v.tick, exit)
  <2>4. ver' = [ver EXCEPT ![r] = w]
    <3>1. [[[v EXCEPT !.loaded = file] EXCEPT !.pc = pc] EXCEPT !.exit = exit] = w
      <4> DEFINE a == [v EXCEPT !.loaded = file]
                 b == [a EXCEPT !.pc = pc]
      <4> HIDE DEF v
      <4>1. a = Reader("read", v.mode, v.reserved, v.size, file, v.world, v.tick, v.exit)
        BY <2>2 DEF Reader
      <4> HIDE DEF a, pc, exit
      <4>2. b = Reader(pc, v.mode, v.reserved, v.size, file, v.world, v.tick, v.exit)
        BY <4>1 DEF Reader
      <4> HIDE DEF b
      <4>3. [b EXCEPT !.exit = exit] = w
        BY <4>2 DEF Reader
      <4>4. QED
        BY <4>3 DEF a, b
    <3>2. ver' = [[[ver EXCEPT ![r].loaded = file] EXCEPT ![r].pc = pc] EXCEPT ![r].exit =
                    IF large THEN "invalid" ELSE @]
      BY <1>8 DEF Read
    <3>3. ver' = [ver EXCEPT ![r] =
                    [[[v EXCEPT !.loaded = file] EXCEPT !.pc = pc] EXCEPT !.exit = exit]]
      <4> HIDE DEF pc, large
      <4> DEFINE a == [v EXCEPT !.loaded = file]
                 b == [a EXCEPT !.pc = pc]
      <4>1. b.exit = v.exit
        <5> HIDE DEF v
        <5>1. a = Reader("read", v.mode, v.reserved, v.size, file, v.world, v.tick, v.exit)
          BY <2>2 DEF Reader
        <5> HIDE DEF a
        <5>2. QED
          BY <5>1 DEF Reader
      <4>2. [ver EXCEPT ![r].loaded = file] = [ver EXCEPT ![r] = a]
        BY <1>1
      <4> HIDE DEF a, v
      <4>3. [[ver EXCEPT ![r] = a] EXCEPT ![r].pc = pc] = [ver EXCEPT ![r] = b]
        BY <1>1
      <4> HIDE DEF b
      <4>4. [[ver EXCEPT ![r] = b] EXCEPT ![r].exit = IF large THEN "invalid" ELSE @]
            = [ver EXCEPT ![r] = [b EXCEPT !.exit = exit]]
        BY <1>1, <4>1
      <4>5. QED
        BY <3>2, <4>2, <4>3, <4>4 DEF a, b
    <3>4. QED
      BY <3>1, <3>3
  <2>5. ReaderOK(w)
    <3>1. /\ w.pc = pc /\ w.mode = v.mode /\ w.loaded = file /\ w.tick = 0 /\ w.exit = exit
          /\ w = Reader(w.pc, w.mode, w.reserved, w.size, w.loaded, w.world, w.tick, w.exit)
      <4> HIDE DEF v, pc, exit
      <4>1. QED
        BY <2>2 DEF Reader
    <3> HIDE DEF w, v
    <3>2. CASE large
      <4>1. ~WellFormed(file)
        <5>1. IsFile(file)
          BY <1>1, <2>3, PublishedFiles
        <5>2. FileSize(file) > MaxFileBytes
          BY <2>3, <3>2
        <5>3. WellFormed(file) => FileSize(file) \in Nat /\ FileSize(file) <= MaxFileBytes
          BY <5>1, WellFormedFits, ToolAssumption
        <5>4. QED
          BY <5>2, <5>3, ToolAssumption
      <4>2. Verdict(v.mode, file, 0, "invalid")
        BY <4>1, FormVerdict
      <4>3. QED
        BY <2>2, <2>3, <3>1, <3>2, <4>2 DEF ReaderOK
    <3>3. CASE ~large
      BY <2>2, <2>3, <3>1, <3>3 DEF ReaderOK, Published
    <3>4. QED
      BY <3>2, <3>3
  <2> HIDE DEF w
  <2>6. QED
    BY <1>1, <2>4, <2>5, ReaderStep
<1>9. CASE ReadFails(r)
  <2>1. v.pc # "idle" /\ Exit(r, "io")
    BY <1>9 DEF ReadFails
  <2>2. QED
    BY <1>1, <1>4, <2>1, ExitStep
<1>10. CASE ReadHeader(r)
  <2>1. v.pc = "header"
    BY <1>10 DEF ReadHeader
  <2>2. /\ v = Reader("header", v.mode, v.reserved, v.size, v.loaded, v.world, v.tick, v.exit)
        /\ v.tick = 0 /\ v.loaded \in Published /\ v.mode \in {"verify", "inspect"}
    BY <1>2, <2>1
  <2>3. IsFile(v.loaded)
    BY <1>1, <2>2, PublishedFiles
  <2>4. /\ HeaderStatus(v.loaded) # "OK" => ~WellFormed(v.loaded)
        /\ HeaderStatus(v.loaded) = "OK" =>
               ReadUpTo(v.mode, v.loaded, 0, NewWorld(v.loaded.header.seed))
    BY <2>3, HeaderVerdict
  <2>5. CASE HeaderStatus(v.loaded) # "OK"
    <3>1. Exit(r, "invalid")
      BY <1>10, <2>5 DEF ReadHeader
    <3>2. Verdict(v.mode, v.loaded, v.tick, "invalid")
      BY <2>4, <2>5, FormVerdict
    <3>3. QED
      BY <1>1, <2>1, <3>1, <3>2, ExitStep
  <2>6. CASE HeaderStatus(v.loaded) = "OK"
    <3> DEFINE n == NewWorld(v.loaded.header.seed)
               w == Reader("tick", v.mode, v.reserved, v.size, v.loaded, n, v.tick, v.exit)
    <3>1. ver' = [ver EXCEPT ![r].pc = "tick", ![r].world = n]
      BY <1>10, <2>6 DEF ReadHeader
    <3>2. [[v EXCEPT !.pc = "tick"] EXCEPT !.world = n] = w
      <4> DEFINE a == [v EXCEPT !.pc = "tick"]
      <4> HIDE DEF v, n
      <4>1. a = Reader("tick", v.mode, v.reserved, v.size, v.loaded, v.world, v.tick, v.exit)
        BY <2>2 DEF Reader
      <4> HIDE DEF a
      <4>2. [a EXCEPT !.world = n] = w
        BY <4>1 DEF Reader
      <4>3. QED
        BY <4>2 DEF a
    <3>3. ver' = [ver EXCEPT ![r] = w]
      BY <1>1, <3>1, <3>2
    <3>4. /\ w.pc = "tick" /\ w.mode = v.mode /\ w.loaded = v.loaded /\ w.tick = 0 /\ w.world = n
          /\ w = Reader(w.pc, w.mode, w.reserved, w.size, w.loaded, w.world, w.tick, w.exit)
      <4> HIDE DEF v, n
      <4>1. QED
        BY <2>2 DEF Reader
    <3>5. ReadUpTo(v.mode, v.loaded, 0, n) /\ v.loaded # Absent
      BY <2>2, <2>4, <2>6 DEF Published
    <3> HIDE DEF w, v, n
    <3>6. ReaderOK(w)
      BY <2>2, <3>4, <3>5 DEF ReaderOK
    <3>7. QED
      BY <1>1, <3>3, <3>6, ReaderStep DEF v
  <2>7. QED
    BY <2>5, <2>6
<1>11. CASE ReadTick(r)
  <2> DEFINE f     == v.loaded
             n     == v.tick
             read  == f.ticks[n + 1]
             world == Ticked(v.world, read.commands)
  <2>1. v.pc = "tick" /\ n < f.header.ticks
    BY <1>11 DEF ReadTick
  <2>2. /\ v = Reader("tick", v.mode, v.reserved, v.size, v.loaded, v.world, v.tick, v.exit)
        /\ f \in Published /\ v.mode \in {"verify", "inspect"}
    BY <1>2, <2>1
  <2>3. IsFile(f) /\ ReadUpTo(v.mode, f, n, v.world)
    BY <1>1, <2>1, <2>2, PublishedFiles DEF ReaderOK
  <2>4. /\ TickStatus(f, n) # "OK" => Verdict(v.mode, f, n, "invalid")
        /\ TickStatus(f, n) = "OK" /\ v.mode = "inspect" => ReadUpTo(v.mode, f, n + 1, v.world)
        /\ TickStatus(f, n) = "OK" /\ v.mode = "verify" =>
            /\ ~Accepted(read.commands) => Verdict(v.mode, f, n, "invalid")
            /\ Accepted(read.commands) /\ HashState(world) # read.hash =>
                   Verdict(v.mode, f, n, "divergence")
            /\ Accepted(read.commands) /\ HashState(world) = read.hash =>
                   ReadUpTo(v.mode, f, n + 1, world)
    BY <2>1, <2>2, <2>3, TickVerdict
  <2>5. ASSUME NEW code, Exit(r, code), Verdict(v.mode, f, n, code) PROVE ReadersOK'
    BY <1>1, <2>1, <2>5, ExitStep
  <2>6. ASSUME NEW next, ReadUpTo(v.mode, f, n + 1, next),
               ver' = [ver EXCEPT ![r] =
                         Reader("tick", v.mode, v.reserved, v.size, f, next, n + 1, v.exit)]
        PROVE  ReadersOK'
    <3> DEFINE w == Reader("tick", v.mode, v.reserved, v.size, f, next, n + 1, v.exit)
    <3>1. /\ w.pc = "tick" /\ w.mode = v.mode /\ w.loaded = f /\ w.tick = n + 1 /\ w.world = next
          /\ w = Reader(w.pc, w.mode, w.reserved, w.size, w.loaded, w.world, w.tick, w.exit)
      <4> HIDE DEF v, n, f
      <4>1. QED
        BY DEF Reader
    <3>2. f # Absent
      BY <2>2 DEF Published
    <3>3. ver' = [ver EXCEPT ![r] = w]
      BY <2>6
    <3> HIDE DEF w, v, n, f
    <3>4. ReaderOK(w)
      BY <2>2, <2>6, <3>1, <3>2 DEF ReaderOK
    <3>5. QED
      BY <1>1, <3>3, <3>4, ReaderStep DEF v
  <2>7. CASE TickStatus(f, n) # "OK"
    <3>1. Exit(r, "invalid")
      BY <1>11, <2>7 DEF ReadTick
    <3>2. QED
      BY <2>4, <2>5, <2>7, <3>1
  <2>8. CASE TickStatus(f, n) = "OK" /\ v.mode = "inspect"
    <3>1. ver' = [ver EXCEPT ![r].tick = n + 1]
      BY <1>11, <2>8 DEF ReadTick
    <3>2. [v EXCEPT !.tick = n + 1]
            = Reader("tick", v.mode, v.reserved, v.size, f, v.world, n + 1, v.exit)
      <4> DEFINE m == n + 1
      <4> HIDE DEF v, m
      <4>1. [v EXCEPT !.tick = m]
              = Reader("tick", v.mode, v.reserved, v.size, v.loaded, v.world, m, v.exit)
        BY <2>2 DEF Reader
      <4>2. QED
        BY <4>1 DEF m
    <3>3. ver' = [ver EXCEPT ![r] =
                    Reader("tick", v.mode, v.reserved, v.size, f, v.world, n + 1, v.exit)]
      BY <1>1, <3>1, <3>2
    <3>4. QED
      BY <2>4, <2>6, <2>8, <3>3
  <2>9. CASE TickStatus(f, n) = "OK" /\ v.mode # "inspect"
    <3>1. v.mode = "verify"
      BY <2>2, <2>9
    <3>2. CASE ~Accepted(read.commands)
      <4>1. Exit(r, "invalid")
        BY <1>11, <2>9, <3>2 DEF ReadTick
      <4>2. QED
        BY <2>4, <2>5, <2>9, <3>1, <3>2, <4>1
    <3>3. CASE Accepted(read.commands) /\ HashState(world) # read.hash
      <4>1. Exit(r, "divergence")
        BY <1>11, <2>9, <3>3 DEF ReadTick
      <4>2. QED
        BY <2>4, <2>5, <2>9, <3>1, <3>3, <4>1
    <3>4. CASE Accepted(read.commands) /\ HashState(world) = read.hash
      <4>1. ver' = [ver EXCEPT ![r].tick = n + 1, ![r].world = world]
        BY <1>11, <2>9, <3>4 DEF ReadTick
      <4>2. [[v EXCEPT !.tick = n + 1] EXCEPT !.world = world]
              = Reader("tick", v.mode, v.reserved, v.size, f, world, n + 1, v.exit)
        <5> DEFINE m == n + 1
                   l == world
                   a == [v EXCEPT !.tick = m]
        <5> HIDE DEF v, m, l
        <5>1. a = Reader("tick", v.mode, v.reserved, v.size, v.loaded, v.world, m, v.exit)
          BY <2>2 DEF Reader
        <5> HIDE DEF a
        <5>2. [a EXCEPT !.world = l]
                = Reader("tick", v.mode, v.reserved, v.size, v.loaded, l, m, v.exit)
          BY <5>1 DEF Reader
        <5>3. QED
          BY <5>2 DEF a, m, l
      <4>3. ver' = [ver EXCEPT ![r] =
                      Reader("tick", v.mode, v.reserved, v.size, f, world, n + 1, v.exit)]
        BY <1>1, <4>1, <4>2
      <4>4. QED
        BY <2>4, <2>6, <2>9, <3>1, <3>4, <4>3
    <3>5. QED
      BY <3>2, <3>3, <3>4
  <2>10. QED
    BY <2>7, <2>8, <2>9
<1>12. CASE ReadEnd(r)
  <2>1. v.pc = "tick" /\ v.tick = v.loaded.header.ticks
        /\ Exit(r, IF EndStatus(v.loaded, v.tick) = "OK" THEN "success" ELSE "invalid")
    BY <1>12 DEF ReadEnd
  <2>2. v.loaded \in Published /\ v.mode \in {"verify", "inspect"}
    BY <1>2, <2>1
  <2>3. IsFile(v.loaded) /\ ReadUpTo(v.mode, v.loaded, v.tick, v.world)
    BY <1>1, <2>1, <2>2, PublishedFiles DEF ReaderOK
  <2>4. Verdict(v.mode, v.loaded, v.tick,
                IF EndStatus(v.loaded, v.tick) = "OK" THEN "success" ELSE "invalid")
    BY <2>1, <2>2, <2>3, EndVerdict
  <2>5. QED
    BY <1>1, <2>1, <2>4, ExitStep
<1>13. QED
  BY <1>5, <1>6, <1>7, <1>8, <1>9, <1>10, <1>11, <1>12

----------------------------------------------------------------------------
(* The steps of recorders.                                                 *)

(* A recorder's step is sound when it leaves that recorder in a sound      *)
(* state.                                                                  *)
LEMMA RecorderStep ==
  ASSUME RecordersOK, NEW w \in Recorders, NEW p, RecorderOK(p), rec' = [rec EXCEPT ![w] = p]
  PROVE  RecordersOK' /\ \A x \in Recorders : rec'[x] = IF x = w THEN p ELSE rec[x]
<1>1. \A x : RecorderOK(x)' <=> RecorderOK(x)
  BY DEF RecorderOK, RecorderAtTick
<1>2. rec' = [x \in Recorders |-> rec'[x]] /\ \A x \in Recorders : rec'[x] = IF x = w THEN p ELSE rec[x]
  BY DEF RecordersOK
<1>3. \A x \in Recorders : RecorderOK(rec'[x])
  BY <1>2 DEF RecordersOK
<1>4. QED
  BY <1>1, <1>2, <1>3 DEF RecordersOK

(* A temporary file that stays is as it should be unless its recorder      *)
(* takes it up; one that leaves its recorder is nobody else's business.    *)
LEMMA TempStays ==
  ASSUME RecordersOK, TempOK, NEW w \in Recorders, NEW p, RecorderOK(p),
         rec' = [rec EXCEPT ![w] = p], temp' = temp,
         p.pc \notin {"write", "discard"} \/ (p.pc = "discard" /\ rec[w].pc \in {"write", "discard"})
  PROVE  TempOK'
<1>1. \A x \in Recorders : rec'[x] = IF x = w THEN p ELSE rec[x]
  BY DEF RecordersOK
<1>2. Temps' = Temps
  BY DEF Temps
<1>3. QED
  BY <1>1, <1>2 DEF TempOK

(* A recorder that gives up its temporary file takes it away, or leaves it *)
(* to nobody.                                                              *)
LEMMA TempLeaves ==
  ASSUME RecordersOK, TempOK, NEW w \in Recorders, NEW p, RecorderOK(p),
         rec' = [rec EXCEPT ![w] = p], p.pc \notin {"write", "discard"},
         temp # Absent => temp.by = w,
         temp' = Absent \/ (temp # Absent /\ temp' = [temp EXCEPT !.by = Nobody])
  PROVE  TempOK'
<1>1. \A x \in Recorders : rec'[x] = IF x = w THEN p ELSE rec[x]
  BY DEF RecordersOK
<1>2. temp' \in {Absent} \union Temps
  <2>1. CASE temp' = Absent
    BY <2>1
  <2>2. CASE temp # Absent /\ temp' = [temp EXCEPT !.by = Nobody]
    <3>1. temp \in Temps
      BY <2>2 DEF TempOK
    <3>2. QED
      BY <2>2, <3>1 DEF Temps
  <2>3. QED
    BY <2>1, <2>2
<1>3. \A x \in Recorders : rec'[x].pc \notin {"write", "discard"}
  BY <1>1 DEF TempOK
<1>4. QED
  BY <1>2, <1>3 DEF TempOK

(* Every step of a recorder keeps the recorders, the temporary file and    *)
(* the published file sound.                                               *)
LEMMA RecorderActions ==
  ASSUME ToolAssumption, ToolInv, NEW w \in Recorders,
         \/ \E seed \in Seeds, ticks \in 0 .. MaxTicks : StartRecord(w, seed, ticks)
         \/ RecordTick(w) \/ CreateTemp(w) \/ CreateFails(w)
         \/ Write(w) \/ Rename(w) \/ WriteFails(w)
         \/ Discard(w) \/ DiscardFails(w) \/ Close(w) \/ Kill(w)
  PROVE  RecordersOK' /\ TempOK' /\ FileOK' /\ (file' = file \/ ~FileInUse)
<1> DEFINE p == rec[w]
           Idle == [pc |-> "idle"]
<1>1. /\ RecordersOK /\ RecorderOK(p) /\ FileOK /\ TempOK /\ first' = first
      /\ rec = [x \in Recorders |-> rec[x]]
  BY DEF ToolInv, RecordersOK, StartRecord, RecordTick, CreateTemp, CreateFails, Write, Rename,
         WriteFails, Discard, DiscardFails, Close, Kill
<1>2. RecorderOK(Idle) /\ Idle.pc = "idle"
  BY DEF RecorderOK
<1>3. file' = file => FileOK'
  BY <1>1 DEF FileOK
<1>4. ASSUME NEW q, RecorderOK(q), rec' = [rec EXCEPT ![w] = q], temp' = temp, file' = file,
             q.pc \notin {"write", "discard"} \/ (q.pc = "discard" /\ p.pc \in {"write", "discard"})
      PROVE  RecordersOK' /\ TempOK' /\ FileOK' /\ file' = file
  BY <1>1, <1>3, <1>4, RecorderStep, TempStays
<1>5. ASSUME p.pc \in {"create", "write", "discard", "close"}
      PROVE  /\ p.bytes \in Recordings /\ Records(p.bytes) \in 1 .. MaxTicks + 1
             /\ Stored(p.bytes, Records(p.bytes)) = p.bytes
             /\ \A c \in {"write", "discard", "close"} : RecorderOK([p EXCEPT !.pc = c])
             /\ \A c : [p EXCEPT !.pc = c].pc = c /\ [p EXCEPT !.pc = c].bytes = p.bytes
  <2>1. /\ p.bytes \in Recordings /\ Records(p.bytes) \in 1 .. MaxTicks + 1
        /\ Stored(p.bytes, Records(p.bytes)) = p.bytes
        /\ p = [pc |-> p.pc, seed |-> p.seed, ticks |-> p.ticks, world |-> p.world,
                bytes |-> p.bytes]
        /\ \A c \in {"write", "discard", "close"} : RecorderOK([p EXCEPT !.pc = c])
    BY <1>1, <1>5, WholeRun DEF ToolAssumption
  <2> HIDE DEF p
  <2>2. \A c : [p EXCEPT !.pc = c].pc = c /\ [p EXCEPT !.pc = c].bytes = p.bytes
    BY <2>1
  <2>3. QED
    BY <2>1, <2>2
<1>6. ASSUME NEW c, Goto(w, c) PROVE rec' = [rec EXCEPT ![w] = [p EXCEPT !.pc = c]]
  BY <1>1, <1>6 DEF Goto
<1>7. ASSUME NEW seed \in Seeds, NEW ticks \in 0 .. MaxTicks, StartRecord(w, seed, ticks)
      PROVE  RecordersOK' /\ TempOK' /\ FileOK' /\ file' = file
  <2>1. /\ p.pc = "idle" /\ temp' = temp /\ file' = file
        /\ rec' = [rec EXCEPT ![w] = IF Capacity(ticks) > MaxFileBytes THEN p
                     ELSE [pc |-> "tick", seed |-> seed, ticks |-> ticks,
                           world |-> NewWorld(seed), bytes |-> Begun(seed, ticks)]]
    BY <1>7 DEF StartRecord, RecorderAt
  <2>2. CASE Capacity(ticks) > MaxFileBytes
    <3>1. rec' = [rec EXCEPT ![w] = p]
      BY <2>1, <2>2
    <3>2. QED
      BY <1>1, <1>4, <2>1, <3>1
  <2>3. CASE ~(Capacity(ticks) > MaxFileBytes)
    <3> DEFINE q == [pc |-> "tick", seed |-> seed, ticks |-> ticks,
                     world |-> NewWorld(seed), bytes |-> Begun(seed, ticks)]
    <3>1. ticks \in Nat /\ 0 \in 0 .. ticks /\ 0 \in 0 .. MaxTicks /\ Capacity(ticks) \in Nat
      BY DEF ToolAssumption, Capacity, HeaderSize, TickSize, MaxPerTick, CommandSize
    <3>2. Capacity(ticks) <= MaxFileBytes /\ 0 <= ticks
      BY <2>3, <3>1 DEF ToolAssumption
    <3>3. Prefix(seed, ticks, 0) = Begun(seed, ticks)
          /\ Worlds(Recording(seed, ticks))[0] = NewWorld(seed)
      BY <3>1, PrefixFacts
    <3>4. RecorderAtTick(q, "tick", seed, ticks, 0)
      BY <3>2, <3>3 DEF RecorderAtTick
    <3>5. RecorderOK(q) /\ q.pc = "tick"
      BY <3>1, <3>4 DEF RecorderOK
    <3>6. rec' = [rec EXCEPT ![w] = q]
      BY <2>1, <2>3
    <3> HIDE DEF q
    <3>7. QED
      BY <1>4, <2>1, <3>5, <3>6
  <2>4. QED
    BY <2>2, <2>3
<1>8. CASE RecordTick(w)
  <2>1. p.pc = "tick" /\ temp' = temp /\ file' = file
    BY <1>8 DEF RecordTick, RecorderAt
  <2>2. PICK seed \in Seeds, ticks \in 0 .. MaxTicks, n \in 0 .. MaxTicks,
             pc \in {"tick", "create", "write", "discard", "close"} :
                 RecorderAtTick(p, pc, seed, ticks, n)
    <3>1. p # [pc |-> "idle"]
      BY <2>1
    <3>2. QED
      BY <1>1, <3>1 DEF RecorderOK
  <2>3. /\ p = [pc |-> pc, seed |-> seed, ticks |-> ticks, world |-> p.world,
                bytes |-> Prefix(seed, ticks, n)]
        /\ Capacity(ticks) <= MaxFileBytes /\ n <= ticks
        /\ pc = "tick" => p.world = Worlds(Recording(seed, ticks))[n]
    BY <2>2 DEF RecorderAtTick
  <2>4. /\ pc = "tick" /\ p.seed = seed /\ p.ticks = ticks /\ p.bytes = Prefix(seed, ticks, n)
        /\ p.world = Worlds(Recording(seed, ticks))[n]
    BY <2>1, <2>3
  <2>5. ticks \in Nat /\ n \in 0 .. ticks /\ n \in Nat
    BY <2>3 DEF ToolAssumption
  <2> DEFINE commands == Generated(seed, n)
             world    == Ticked(p.world, commands)
             bytes    == WithTick(p.bytes, commands, world)
  <2>6. Len(p.bytes.ticks) = n
    BY <2>4, <2>5, PrefixFacts
  <2>7. \/ n = ticks /\ rec' = [rec EXCEPT ![w] = [p EXCEPT !.pc = "create"]]
        \/ n # ticks /\ rec' = [rec EXCEPT ![w] = [p EXCEPT !.world = world, !.bytes = bytes]]
        \/ rec' = [rec EXCEPT ![w] = Idle]
    <3>1. rec' = [rec EXCEPT ![w] =
                    IF n = ticks THEN [p EXCEPT !.pc = "create"]
                    ELSE IF Accepted(commands) /\ FileSize(bytes) <= Capacity(ticks)
                           THEN [p EXCEPT !.world = world, !.bytes = bytes]
                           ELSE Idle]
      BY <1>8, <2>4, <2>6 DEF RecordTick
    <3> HIDE DEF commands, world, bytes, p, Idle
    <3>2. QED
      BY <3>1
  <2>8. CASE n = ticks /\ rec' = [rec EXCEPT ![w] = [p EXCEPT !.pc = "create"]]
    <3> DEFINE q == [p EXCEPT !.pc = "create"]
    <3>1. q = [pc |-> "create", seed |-> seed, ticks |-> ticks, world |-> q.world,
               bytes |-> Prefix(seed, ticks, n)] /\ q.pc = "create"
      <4> HIDE DEF p
      <4>1. q = [pc |-> "create", seed |-> seed, ticks |-> ticks, world |-> p.world,
                 bytes |-> Prefix(seed, ticks, n)]
        BY <2>3
      <4> HIDE DEF q
      <4>2. q.world = p.world /\ q.pc = "create"
        BY <4>1
      <4>3. QED
        BY <4>1, <4>2
    <3> HIDE DEF q
    <3>2. RecorderAtTick(q, "create", seed, ticks, n)
      BY <2>3, <2>8, <3>1 DEF RecorderAtTick
    <3>3. RecorderOK(q)
      BY <3>2 DEF RecorderOK
    <3>4. rec' = [rec EXCEPT ![w] = q]
      BY <2>8 DEF q
    <3>5. QED
      BY <1>4, <2>1, <3>1, <3>3, <3>4
  <2>9. CASE n # ticks /\ rec' = [rec EXCEPT ![w] = [p EXCEPT !.world = world, !.bytes = bytes]]
    <3> DEFINE q == [pc |-> "tick", seed |-> seed, ticks |-> ticks, world |-> world,
                     bytes |-> bytes]
    <3>1. n < ticks /\ n + 1 \in 0 .. MaxTicks /\ n + 1 <= ticks
      BY <2>3, <2>5, <2>9 DEF ToolAssumption
    <3>2. bytes = Prefix(seed, ticks, n + 1) /\ world = Worlds(Recording(seed, ticks))[n + 1]
      BY <2>4, <2>5, <3>1, PrefixFacts
    <3>3. [p EXCEPT !.world = world, !.bytes = bytes] = q
      <4> DEFINE a == [p EXCEPT !.world = world]
      <4> HIDE DEF p, world, bytes
      <4>1. a = [pc |-> "tick", seed |-> seed, ticks |-> ticks, world |-> world,
                 bytes |-> Prefix(seed, ticks, n)]
        BY <2>3, <2>4
      <4> HIDE DEF a
      <4>2. [a EXCEPT !.bytes = bytes] = q
        BY <4>1
      <4>3. QED
        BY <4>2 DEF a
    <3>4. q.world = world /\ q.pc = "tick"
      OBVIOUS
    <3> HIDE DEF world, bytes
    <3>5. RecorderAtTick(q, "tick", seed, ticks, n + 1)
      BY <2>3, <3>1, <3>2, <3>4 DEF RecorderAtTick
    <3>6. rec' = [rec EXCEPT ![w] = q]
      BY <2>9, <3>3
    <3> HIDE DEF q
    <3>7. RecorderOK(q)
      BY <3>1, <3>5 DEF RecorderOK
    <3>8. QED
      BY <1>4, <2>1, <3>4, <3>6, <3>7
  <2>10. CASE rec' = [rec EXCEPT ![w] = Idle]
    BY <1>2, <1>4, <2>1, <2>10
  <2>11. QED
    BY <2>7, <2>8, <2>9, <2>10
<1>9. CASE CreateTemp(w)
  <2>1. /\ p.pc = "create" /\ temp = Absent /\ file' = file
        /\ temp' = [by |-> w, bytes |-> Stored(p.bytes, 0), records |-> 0]
        /\ Goto(w, "write")
    BY <1>9 DEF CreateTemp, RecorderAt, CreateAllowed
  <2> DEFINE q == [p EXCEPT !.pc = "write"]
  <2>2. /\ p.bytes \in Recordings /\ Records(p.bytes) \in 1 .. MaxTicks + 1
        /\ RecorderOK(q) /\ q.pc = "write" /\ q.bytes = p.bytes
    BY <1>5, <2>1
  <2>3. rec' = [rec EXCEPT ![w] = q]
    BY <1>6, <2>1
  <2> HIDE DEF q
  <2>4. RecordersOK' /\ \A x \in Recorders : rec'[x] = IF x = w THEN q ELSE rec[x]
    BY <1>1, <2>2, <2>3, RecorderStep
  <2>5. 0 \in 0 .. Records(p.bytes) /\ 0 \in 0 .. MaxTicks + 1
    BY <2>2 DEF ToolAssumption
  <2>6. temp' \in Temps
    <3>1. Stored(p.bytes, 0) \in UNION {{Stored(r, n) : n \in 0 .. Records(r)} : r \in Recordings}
      BY <2>2, <2>5
    <3>2. QED
      BY <2>1, <2>5, <3>1 DEF Temps
  <2>7. temp' # Absent
    BY <2>6 DEF ToolAssumption
  <2>8. temp'.by = w /\ temp'.records = 0 /\ temp'.bytes = Stored(p.bytes, 0)
    BY <2>1
  <2>9. \A x \in Recorders : x # w => rec[x].pc \notin {"write", "discard"}
    BY <1>1, <2>1 DEF TempOK
  <2>10. TempOK'
    BY <2>2, <2>4, <2>5, <2>6, <2>7, <2>8, <2>9 DEF TempOK
  <2>11. QED
    BY <1>3, <2>1, <2>4, <2>10
<1>10. CASE CreateFails(w)
  BY <1>2, <1>4, <1>10 DEF CreateFails, Ended
<1>11. CASE Write(w)
  <2>1. /\ p.pc = "write" /\ temp.records # Records(p.bytes)
        /\ temp' = [temp EXCEPT !.records = @ + 1, !.bytes = Stored(p.bytes, temp.records + 1)]
        /\ rec' = rec /\ file' = file
    BY <1>11 DEF Write, RecorderAt, WholeWritten
  <2>2. /\ temp \in Temps /\ temp.by = w /\ temp.records \in 0 .. Records(p.bytes)
    BY <1>1, <2>1 DEF TempOK
  <2>3. p.bytes \in Recordings /\ Records(p.bytes) \in 1 .. MaxTicks + 1
    BY <1>5, <2>1
  <2> DEFINE m == temp.records + 1
  <2>4. m \in 0 .. Records(p.bytes) /\ m \in 0 .. MaxTicks + 1
    BY <2>1, <2>2, <2>3 DEF ToolAssumption
  <2>5. temp' = [by |-> w, records |-> m, bytes |-> Stored(p.bytes, m)]
    BY <2>1, <2>2 DEF Temps
  <2> HIDE DEF m
  <2>6. temp' \in Temps
    <3>1. Stored(p.bytes, m) \in UNION {{Stored(r, n) : n \in 0 .. Records(r)} : r \in Recordings}
      BY <2>3, <2>4
    <3>2. QED
      BY <2>4, <2>5, <3>1 DEF Temps
  <2>7. temp' # Absent /\ temp'.by = w /\ temp'.records = m /\ temp'.bytes = Stored(p.bytes, m)
    BY <2>5, <2>6 DEF ToolAssumption
  <2>8. \A x \in Recorders : x # w => rec[x].pc \notin {"write", "discard"}
    BY <1>1, <2>2 DEF TempOK
  <2>9. TempOK'
    BY <2>1, <2>4, <2>6, <2>7, <2>8 DEF TempOK
  <2>10. RecordersOK'
    BY <1>1, <2>1 DEF RecordersOK, RecorderOK, RecorderAtTick
  <2>11. QED
    BY <1>3, <2>1, <2>9, <2>10
<1>12. CASE Rename(w)
  <2>1. /\ p.pc = "write" /\ temp.records = Records(p.bytes) /\ ~FileInUse
        /\ file' = temp.bytes /\ temp' = Absent /\ Goto(w, "close")
    BY <1>12 DEF Rename, RecorderAt, WholeWritten
  <2>2. /\ temp.by = w /\ temp.bytes = Stored(p.bytes, temp.records)
    BY <1>1, <2>1 DEF TempOK
  <2> DEFINE q == [p EXCEPT !.pc = "close"]
  <2>3. /\ p.bytes \in Recordings /\ Stored(p.bytes, Records(p.bytes)) = p.bytes
        /\ RecorderOK(q) /\ q.pc = "close"
    BY <1>5, <2>1
  <2>4. rec' = [rec EXCEPT ![w] = q]
    BY <1>6, <2>1
  <2> HIDE DEF q
  <2>5. RecordersOK'
    BY <1>1, <2>3, <2>4, RecorderStep
  <2>6. TempOK'
    BY <1>1, <2>1, <2>2, <2>3, <2>4, TempLeaves
  <2>7. FileOK'
    BY <1>1, <2>1, <2>2, <2>3 DEF FileOK
  <2>8. QED
    BY <2>1, <2>5, <2>6, <2>7
<1>13. CASE WriteFails(w)
  <2>1. p.pc = "write" /\ Goto(w, "discard") /\ temp' = temp /\ file' = file
    BY <1>13 DEF WriteFails, RecorderAt
  <2> DEFINE q == [p EXCEPT !.pc = "discard"]
  <2>2. RecorderOK(q) /\ q.pc = "discard"
    BY <1>5, <2>1
  <2>3. rec' = [rec EXCEPT ![w] = q]
    BY <1>6, <2>1
  <2> HIDE DEF q
  <2>4. QED
    BY <1>4, <2>1, <2>2, <2>3
<1>14. CASE Discard(w) \/ DiscardFails(w)
  <2>1. /\ p.pc = "discard" /\ rec' = [rec EXCEPT ![w] = Idle] /\ file' = file
        /\ temp' = Absent \/ temp' = [temp EXCEPT !.by = Nobody]
    BY <1>14 DEF Discard, DiscardFails, RecorderAt, Ended
  <2>2. temp # Absent /\ temp.by = w
    BY <1>1, <2>1 DEF TempOK
  <2>3. RecordersOK'
    BY <1>1, <1>2, <2>1, RecorderStep
  <2>4. TempOK'
    BY <1>1, <1>2, <2>1, <2>2, TempLeaves
  <2>5. QED
    BY <1>3, <2>1, <2>3, <2>4
<1>15. CASE Close(w)
  BY <1>2, <1>4, <1>15 DEF Close, Ended
<1>16. CASE Kill(w)
  <2>1. /\ rec' = [rec EXCEPT ![w] = Idle] /\ file' = file
        /\ \/ temp # Absent /\ temp.by = w /\ temp' = [temp EXCEPT !.by = Nobody]
           \/ temp' = temp
    BY <1>16 DEF Kill, Ended
  <2>2. CASE temp' = temp
    BY <1>2, <1>4, <2>1, <2>2
  <2>3. CASE temp # Absent /\ temp.by = w /\ temp' = [temp EXCEPT !.by = Nobody]
    <3>1. RecordersOK'
      BY <1>1, <1>2, <2>1, RecorderStep
    <3>2. TempOK'
      BY <1>1, <1>2, <2>1, <2>3, TempLeaves
    <3>3. QED
      BY <1>3, <2>1, <3>1, <3>2
  <2>4. QED
    BY <2>1, <2>2, <2>3
<1>17. QED
  BY <1>7, <1>8, <1>9, <1>10, <1>11, <1>12, <1>13, <1>14, <1>15, <1>16, <1>3, <1>4

----------------------------------------------------------------------------
(* The tool keeps to its invariant. *)
THEOREM ToolInvariant == Spec => []ToolInv
<1>1. Init => ToolInv
  <2> SUFFICES ASSUME Init PROVE ToolInv
    OBVIOUS
  <2>1. FileOK
    BY DEF Init, FileOK
  <2>2. RecordersOK
    BY DEF Init, RecordersOK, RecorderOK
  <2>3. TempOK
    BY DEF Init, TempOK
  <2>4. ReadersOK
    BY DEF Init, ReadersOK, ReaderOK
  <2>5. QED
    BY <2>1, <2>2, <2>3, <2>4 DEF ToolInv
<1>2. ToolInv /\ [Next]_vars => ToolInv'
  <2> SUFFICES ASSUME ToolInv, [Next]_vars PROVE ToolInv'
    OBVIOUS
  <2>1. ASSUME NEW w \in Recorders,
               \/ \E seed \in Seeds, ticks \in 0 .. MaxTicks : StartRecord(w, seed, ticks)
               \/ RecordTick(w) \/ CreateTemp(w) \/ CreateFails(w)
               \/ Write(w) \/ Rename(w) \/ WriteFails(w)
               \/ Discard(w) \/ DiscardFails(w) \/ Close(w) \/ Kill(w)
        PROVE  ToolInv'
    <3>1. RecordersOK' /\ TempOK' /\ FileOK' /\ (file' = file \/ ~FileInUse)
      BY <2>1, RecorderActions, ToolAssumption
    <3>2. UNCHANGED <<first, ver>>
      BY <2>1 DEF StartRecord, RecordTick, CreateTemp, CreateFails, Write, Rename, WriteFails,
                  Discard, DiscardFails, Close, Kill
    <3>3. ReadersOK'
      BY <3>1, <3>2, ReadersUntouched DEF ToolInv
    <3>4. QED
      BY <3>1, <3>3 DEF ToolInv
  <2>2. ASSUME NEW r \in Readers,
               \/ \E mode \in {"verify", "inspect"} : StartReader(r, mode)
               \/ Stat(r) \/ Open(r) \/ Read(r) \/ ReadFails(r)
               \/ ReadHeader(r) \/ ReadTick(r) \/ ReadEnd(r)
        PROVE  ToolInv'
    <3>1. ReadersOK'
      BY <2>2, ReaderActions
    <3>2. UNCHANGED <<file, first, temp, rec>>
      BY <2>2 DEF StartReader, Stat, Open, Read, ReadFails, ReadHeader, ReadTick, ReadEnd
    <3>3. FileOK' /\ RecordersOK' /\ TempOK'
      BY <3>2 DEF ToolInv, FileOK, RecordersOK, RecorderOK, RecorderAtTick, TempOK
    <3>4. QED
      BY <3>1, <3>3 DEF ToolInv
  <2>3. CASE UNCHANGED vars
    <3>1. UNCHANGED <<file, first, temp, rec, ver>>
      BY <2>3 DEF vars
    <3>2. FileOK' /\ RecordersOK' /\ TempOK'
      BY <3>1 DEF ToolInv, FileOK, RecordersOK, RecorderOK, RecorderAtTick, TempOK
    <3>3. ReadersOK'
      BY <3>1, ReadersUntouched DEF ToolInv
    <3>4. QED
      BY <3>2, <3>3 DEF ToolInv
  <2>4. QED
    BY <2>1, <2>2, <2>3 DEF Next
<1>3. QED
  BY <1>1, <1>2, PTL DEF Spec

(* At the path is what was there or a whole recording, and no reader loads *)
(* anything else: the rename replaces the file by what the recorder holds  *)
(* when it has written the last of its records.                            *)
THEOREM ReadersSeeWholeFiles == Spec => []PublishedWhole
<1>1. ToolInv => PublishedWhole
  <2> SUFFICES ASSUME ToolInv PROVE PublishedWhole
    OBVIOUS
  <2>1. file \in {first} \union Recordings
    BY DEF ToolInv, FileOK
  <2>2. ASSUME NEW r \in Readers, ver[r].pc # "idle"
        PROVE  ver[r].loaded \in {Absent, first} \union Recordings
    <3>1. ReaderOK(ver[r])
      BY DEF ToolInv, ReadersOK
    <3>2. ver[r].loaded \in {Absent} \union Published
      BY <2>2, <3>1 DEF ReaderOK
    <3>3. QED
      BY <3>2 DEF Published
  <2>3. QED
    BY <2>1, <2>2 DEF PublishedWhole
<1>2. QED
  BY <1>1, ToolInvariant, PTL

(* A temporary file that no recorder holds was left by a kill or by a      *)
(* refused discard: every other way out of a recording goes through the    *)
(* discard or the rename.                                                  *)
THEOREM FailuresLeaveNothing == Spec => []NoLeftovers
<1>1. Init => NoLeftovers
  BY DEF Init, NoLeftovers
<1>2. ToolInv /\ NoLeftovers /\ [Next]_vars => NoLeftovers'
  <2> SUFFICES ASSUME ToolInv, NoLeftovers, [Next]_vars PROVE NoLeftovers'
    OBVIOUS
  <2>1. CASE UNCHANGED <<temp, spilled>>
    BY <2>1 DEF NoLeftovers
  <2>2. ASSUME NEW w \in Recorders, CreateTemp(w) PROVE NoLeftovers'
    <3>1. temp'.by = w
      BY <2>2 DEF CreateTemp
    <3>2. QED
      BY <3>1, ToolAssumption DEF NoLeftovers
  <2>3. ASSUME NEW w \in Recorders, Write(w) PROVE NoLeftovers'
    <3>1. temp \in Temps /\ temp.by = w
      BY <2>3 DEF ToolInv, TempOK, Write, RecorderAt
    <3>2. temp'.by = w
      BY <2>3, <3>1 DEF Write, Temps
    <3>3. QED
      BY <3>2, ToolAssumption DEF NoLeftovers
  <2>4. ASSUME NEW w \in Recorders, Rename(w) \/ Discard(w) PROVE NoLeftovers'
    BY <2>4 DEF Rename, Discard, NoLeftovers
  <2>5. ASSUME NEW w \in Recorders, DiscardFails(w) \/ Kill(w) PROVE NoLeftovers'
    BY <2>5 DEF DiscardFails, Kill, NoLeftovers
  <2>6. ASSUME NEW w \in Recorders,
               \/ \E seed \in Seeds, ticks \in 0 .. MaxTicks : StartRecord(w, seed, ticks)
               \/ RecordTick(w) \/ CreateFails(w) \/ WriteFails(w) \/ Close(w)
        PROVE  NoLeftovers'
    BY <2>1, <2>6 DEF StartRecord, RecordTick, CreateFails, WriteFails, Close
  <2>7. ASSUME NEW r \in Readers,
               \/ \E mode \in {"verify", "inspect"} : StartReader(r, mode)
               \/ Stat(r) \/ Open(r) \/ Read(r) \/ ReadFails(r)
               \/ ReadHeader(r) \/ ReadTick(r) \/ ReadEnd(r)
        PROVE  NoLeftovers'
    BY <2>1, <2>7 DEF StartReader, Stat, Open, Read, ReadFails, ReadHeader, ReadTick, ReadEnd
  <2>8. CASE UNCHANGED vars
    BY <2>1, <2>8 DEF vars
  <2>9. QED
    BY <2>2, <2>3, <2>4, <2>5, <2>6, <2>7, <2>8 DEF Next
<1>3. QED
  BY <1>1, <1>2, ToolInvariant, PTL DEF Spec

(* A verifier's verdict is exact: success for the files that are well      *)
(* formed and match their hashes, a divergence at the first tick that      *)
(* differs, invalid for a fault of form and for nothing else.              *)
THEOREM VerdictsAreExact == Spec => []VerdictExact
<1>1. ToolInv => VerdictExact
  <2> SUFFICES ASSUME ToolInv PROVE VerdictExact
    OBVIOUS
  <2>1. ASSUME NEW r \in Readers, ver[r].pc = "done"
        PROVE  Verdict(ver[r].mode, ver[r].loaded, ver[r].tick, ver[r].exit)
    BY <2>1 DEF ToolInv, ReadersOK, ReaderOK
  <2>2. QED
    BY <2>1, Zenon DEF VerdictExact, Verdict
<1>2. QED
  BY <1>1, ToolInvariant, PTL
----------------------------------------------------------------------------
(* What is hashed of a world, and what the report says of two.             *)
(* Tells follows the bytes: equal streams come from equal values.          *)
(* Locates follows a stream and a comparison side by side.  Twins are      *)
(* worlds that agree on all that an operation asks.                        *)

(* The fields of a world. *)
Names ==
    {"tick", "config_max_entities", "config_initial_unit_count",
     "config_damage_event_capacity", "rng_state", "rng_inc", "entity_capacity",
     "entity_live_count", "entity_next_fresh", "entity_free_count",
     "entity_generation", "entity_liveness", "entity_free_stack", "unit_entity",
     "pending_destroy_count", "pending_destroy_entity",
     "damage_event_read_count", "damage_event_read_source",
     "damage_event_read_target", "damage_event_read_amount",
     "damage_event_write_count", "damage_event_write_source",
     "damage_event_write_target", "damage_event_write_amount",
     "transform_count", "transform_entity", "position_x", "position_y", "facing",
     "velocity_count", "velocity_entity", "velocity_x", "velocity_y",
     "health_count", "health_entity", "health_current", "health_maximum",
     "damage_cooldown"}

(* What the hash consumes: bytes, each with the field and the index it is  *)
(* of.                                                                     *)
Cells   == [field : Names, index : Int, byte : Nat]
Streams == Seq(Cells)

(* The same bytes, whatever they belong to. *)
Alike(s, t) ==
    Len(s) = Len(t) /\ \A k \in 1 .. Len(s) : s[k].byte = t[k].byte

(* Who reads s at the head of one stream of bytes and t at the head of     *)
(* another finds u in the one and v in the other: the bytes cannot be the  *)
(* same unless these are.                                                  *)
Tells(s, t, u, v) ==
    \A x, y \in Streams : Alike(s \o x, t \o y) => u = v /\ Alike(x, y)

(* What is told tells whatever follows from it. *)
LEMMA TellsAlso ==
  ASSUME NEW s, NEW t, NEW u, NEW v, NEW u2, NEW v2,
         Tells(s, t, u, v), u = v => u2 = v2
  PROVE  Tells(s, t, u2, v2)
BY DEF Tells

(* Concatenation of streams is associative. *)
LEMMA ConcatStreams ==
  ASSUME NEW s \in Streams, NEW t \in Streams, NEW u \in Streams
  PROVE  (s \o t) \o u = s \o (t \o u)
BY ConcatAssociative, SMT DEF Streams

(* One after the other; what is read second may hang on the first. *)
LEMMA TellsBoth ==
  ASSUME NEW s1 \in Streams, NEW t1 \in Streams, NEW u1, NEW v1,
         NEW s2 \in Streams, NEW t2 \in Streams, NEW u2, NEW v2,
         Tells(s1, t1, u1, v1), u1 = v1 => Tells(s2, t2, u2, v2)
  PROVE  /\ s1 \o s2 \in Streams /\ t1 \o t2 \in Streams
         /\ Tells(s1 \o s2, t1 \o t2, <<u1, u2>>, <<v1, v2>>)
<1>1. s1 \o s2 \in Streams /\ t1 \o t2 \in Streams
  BY ConcatProperties DEF Streams
<1>2. ASSUME NEW x \in Streams, NEW y \in Streams, Alike((s1 \o s2) \o x, (t1 \o t2) \o y)
      PROVE  <<u1, u2>> = <<v1, v2>> /\ Alike(x, y)
  <2>1. (s1 \o s2) \o x = s1 \o (s2 \o x)
    BY ConcatStreams, ZenonT(20)
  <2>2. (t1 \o t2) \o y = t1 \o (t2 \o y)
    BY ConcatStreams, ZenonT(20)
  <2>3. s2 \o x \in Streams /\ t2 \o y \in Streams
    BY ConcatProperties DEF Streams
  <2>4. u1 = v1 /\ Alike(s2 \o x, t2 \o y)
    BY <1>2, <2>1, <2>2, <2>3 DEF Tells
  <2>5. u2 = v2 /\ Alike(x, y)
    BY <2>4 DEF Tells
  <2>6. QED
    BY <2>4, <2>5
<1>3. QED
  BY <1>1, <1>2 DEF Tells

(* Streams of one length are told apart at any byte. *)
LEMMA TellsBytes ==
  ASSUME NEW s \in Streams, NEW t \in Streams, Len(s) = Len(t)
  PROVE  Tells(s, t, [k \in 1 .. Len(s) |-> s[k].byte], [k \in 1 .. Len(s) |-> t[k].byte])
<1> SUFFICES ASSUME NEW x \in Streams, NEW y \in Streams, Alike(s \o x, t \o y)
             PROVE  /\ [k \in 1 .. Len(s) |-> s[k].byte] = [k \in 1 .. Len(s) |-> t[k].byte]
                    /\ Alike(x, y)
  BY DEF Tells
<1>1. /\ Len(s) \in Nat /\ Len(x) \in Nat /\ Len(y) \in Nat
      /\ Len(s \o x) = Len(s) + Len(x) /\ Len(t \o y) = Len(s) + Len(y)
      /\ \A k \in 1 .. Len(s) + Len(x) : (s \o x)[k] = IF k <= Len(s) THEN s[k] ELSE x[k - Len(s)]
      /\ \A k \in 1 .. Len(s) + Len(y) : (t \o y)[k] = IF k <= Len(s) THEN t[k] ELSE y[k - Len(s)]
  <2>1. /\ s \in Seq(Cells) /\ t \in Seq(Cells) /\ x \in Seq(Cells) /\ y \in Seq(Cells)
    BY DEF Streams
  <2>2. /\ Len(s \o x) = Len(s) + Len(x)
        /\ \A k \in 1 .. Len(s) + Len(x) : (s \o x)[k] = IF k <= Len(s) THEN s[k] ELSE x[k - Len(s)]
    BY <2>1, ConcatProperties
  <2>3. /\ Len(t \o y) = Len(t) + Len(y)
        /\ \A k \in 1 .. Len(t) + Len(y) : (t \o y)[k] = IF k <= Len(t) THEN t[k] ELSE y[k - Len(t)]
    BY <2>1, ConcatProperties
  <2>4. QED
    BY <2>1, <2>2, <2>3, LenProperties
<1>2. Len(x) = Len(y)
  <2>1. Len(s \o x) = Len(t \o y)
    BY DEF Alike
  <2>2. QED
    BY <1>1, <2>1
<1>3. \A k \in 1 .. Len(s) + Len(x) : (s \o x)[k].byte = (t \o y)[k].byte
  BY <1>1 DEF Alike
<1>4. ASSUME NEW k \in 1 .. Len(s) PROVE s[k].byte = t[k].byte
  <2>1. k \in 1 .. Len(s) + Len(x) /\ k <= Len(s)
    BY <1>1
  <2>2. QED
    BY <1>1, <1>2, <1>3, <2>1
<1>5. ASSUME NEW k \in 1 .. Len(x) PROVE x[k].byte = y[k].byte
  <2>1. /\ Len(s) + k \in 1 .. Len(s) + Len(x) /\ ~(Len(s) + k <= Len(s))
        /\ (Len(s) + k) - Len(s) = k
    BY <1>1
  <2>2. QED
    BY <1>1, <1>2, <1>3, <2>1
<1>6. QED
  BY <1>2, <1>4, <1>5 DEF Alike

----------------------------------------------------------------------------
(* Integers, byte by byte. *)

LEMMA Bytes ==
  ByteBase \in Nat /\ ByteBase > 1
BY StateDiffAssumption

(* A number is a multiple of its base and a rest. *)
LEMMA Division ==
  ASSUME NEW b \in Nat \ {0}, NEW v \in Nat
  PROVE  v % b \in 0 .. b - 1 /\ v \div b \in Nat /\ v = b * (v \div b) + (v % b)
OBVIOUS

(* A number is its lowest byte and the rest of it. *)
LEMMA ByteAndRest ==
  ASSUME NEW v \in Nat
  PROVE  /\ v % ByteBase \in 0 .. ByteBase - 1 /\ v % ByteBase \in Nat
         /\ Shifted(v) \in Nat /\ v = ByteBase * Shifted(v) + (v % ByteBase)
<1>1. ByteBase \in Nat \ {0}
  BY Bytes
<1>2. /\ v % ByteBase \in 0 .. ByteBase - 1 /\ v \div ByteBase \in Nat
      /\ v = ByteBase * (v \div ByteBase) + (v % ByteBase)
  BY <1>1, Division
<1>3. v % ByteBase \in Nat
  BY <1>1, <1>2
<1>4. QED
  BY <1>2, <1>3, Zenon DEF Shifted

(* A number is known by its lowest byte and by what is above it. *)
LEMMA ByteAndRestTell ==
  ASSUME NEW v \in Nat, NEW w \in Nat, v % ByteBase = w % ByteBase, Shifted(v) = Shifted(w)
  PROVE  v = w
<1>1. v = ByteBase * Shifted(v) + (v % ByteBase)
  BY ByteAndRest
<1>2. w = ByteBase * Shifted(w) + (w % ByteBase)
  BY ByteAndRest
<1>3. QED
  BY <1>1, <1>2, Zenon

(* Without its lowest byte a number is a byte shorter. *)
LEMMA ShiftedBelow ==
  ASSUME NEW limit \in Nat, NEW v \in Nat, v < ByteBase * limit
  PROVE  Shifted(v) < limit
<1> SUFFICES ASSUME limit <= Shifted(v) PROVE FALSE
  BY ByteAndRest
<1> DEFINE q == Shifted(v)
           r == v % ByteBase
<1>1. /\ q \in Nat /\ r \in Nat /\ ByteBase \in Nat
      /\ v = ByteBase * q + r /\ limit <= q
  BY ByteAndRest, Bytes
<1> HIDE DEF q, r
<1>2. q - limit \in Nat /\ ByteBase * q = ByteBase * limit + ByteBase * (q - limit)
  BY <1>1
<1>3. ByteBase * (q - limit) \in Nat /\ ByteBase * limit \in Nat
  BY <1>1, <1>2
<1> DEFINE m == ByteBase * (q - limit)
           n == ByteBase * limit
<1>4. m \in Nat /\ n \in Nat /\ v = n + m + r /\ v < n
  BY <1>1, <1>2, <1>3
<1> HIDE DEF m, n
<1>5. QED
  BY <1>1, <1>4

(* The widths of the code's integers are natural numbers. *)
LEMMA Limits ==
  /\ Limit8 \in Nat /\ Limit16 \in Nat /\ Limit32 \in Nat /\ Limit64 \in Nat
  /\ ByteBase * Limit16 \in Nat
  /\ ByteBase * Limit32 \in Nat /\ ByteBase * (ByteBase * Limit32) \in Nat
  /\ ByteBase * (ByteBase * (ByteBase * Limit32)) \in Nat
<1>1. \A b, c \in Nat : b * c \in Nat
  OBVIOUS
<1>2. QED
  BY <1>1, Bytes DEF Limit8, Limit16, Limit32, Limit64

(* A byte of a field is a cell. *)
LEMMA ByteIsCell ==
  ASSUME NEW f \in Names, NEW i \in Int, NEW v \in Nat
  PROVE  Byte(f, i, v) \in Cells /\ Byte(f, i, v).byte = v % ByteBase
<1>1. v % ByteBase \in Nat
  BY ByteAndRest
<1>2. QED
  BY <1>1 DEF Byte, Cells

(* hash_u8 tells values of one byte apart. *)
LEMMA U8Tells ==
  ASSUME NEW f \in Names, NEW i \in Int, NEW v \in 0 .. Limit8 - 1,
         NEW g \in Names, NEW j \in Int, NEW w \in 0 .. Limit8 - 1
  PROVE  /\ U8(f, i, v) \in Streams /\ U8(g, j, w) \in Streams
         /\ Tells(U8(f, i, v), U8(g, j, w), v, w)
<1> DEFINE c == Byte(f, i, v)
           d == Byte(g, j, w)
<1>1. v \in Nat /\ w \in Nat /\ v % ByteBase = v /\ w % ByteBase = w
  BY Bytes DEF Limit8
<1>2. c \in Cells /\ d \in Cells /\ c.byte = v /\ d.byte = w
  BY <1>1, ByteIsCell
<1>3. U8(f, i, v) = <<c>> /\ U8(g, j, w) = <<d>>
  BY DEF U8
<1> HIDE DEF c, d
<1>4. /\ <<c>> \in Streams /\ <<d>> \in Streams /\ Len(<<c>>) = 1 /\ Len(<<d>>) = 1
      /\ <<c>>[1] = c /\ <<d>>[1] = d
  BY <1>2 DEF Streams
<1> DEFINE cs == [k \in 1 .. 1 |-> <<c>>[k].byte]
           ds == [k \in 1 .. 1 |-> <<d>>[k].byte]
<1>5. Tells(<<c>>, <<d>>, cs, ds)
  BY <1>4, TellsBytes
<1>6. cs[1] = v /\ ds[1] = w
  BY <1>2, <1>4
<1> HIDE DEF cs, ds
<1>7. cs = ds => v = w
  BY <1>6
<1>8. QED
  BY <1>3, <1>4, <1>5, <1>7, TellsAlso

(* hash_u16_le tells values of two bytes apart. *)
LEMMA U16Tells ==
  ASSUME NEW f \in Names, NEW i \in Int, NEW v \in 0 .. Limit16 - 1,
         NEW g \in Names, NEW j \in Int, NEW w \in 0 .. Limit16 - 1
  PROVE  /\ U16(f, i, v) \in Streams /\ U16(g, j, w) \in Streams
         /\ Tells(U16(f, i, v), U16(g, j, w), v, w)
<1>1. v \in Nat /\ w \in Nat /\ v < ByteBase * Limit8 /\ w < ByteBase * Limit8
  BY Limits DEF Limit16
<1>2. Shifted(v) \in 0 .. ByteBase - 1 /\ Shifted(w) \in 0 .. ByteBase - 1
  <2>1. Shifted(v) < Limit8 /\ Shifted(w) < Limit8
    BY <1>1, ShiftedBelow, Limits
  <2>2. Shifted(v) \in Nat /\ Shifted(w) \in Nat
    BY <1>1, ByteAndRest
  <2>3. QED
    BY <2>1, <2>2, Bytes DEF Limit8
<1>3. Shifted(v) % ByteBase = Shifted(v) /\ Shifted(w) % ByteBase = Shifted(w)
  BY <1>2, Bytes
<1> DEFINE c1 == Byte(f, i, v)
           c2 == Byte(f, i, Shifted(v))
           d1 == Byte(g, j, w)
           d2 == Byte(g, j, Shifted(w))
<1>4. /\ c1 \in Cells /\ c2 \in Cells /\ d1 \in Cells /\ d2 \in Cells
      /\ c1.byte = v % ByteBase /\ c2.byte = Shifted(v)
      /\ d1.byte = w % ByteBase /\ d2.byte = Shifted(w)
  BY <1>1, <1>2, <1>3, ByteAndRest, ByteIsCell
<1>5. U16(f, i, v) = <<c1, c2>> /\ U16(g, j, w) = <<d1, d2>>
  BY DEF U16
<1> HIDE DEF c1, c2, d1, d2
<1> DEFINE c == <<c1, c2>>
           d == <<d1, d2>>
<1>6. /\ c \in Streams /\ d \in Streams /\ Len(c) = 2 /\ Len(d) = 2
      /\ c[1] = c1 /\ c[2] = c2 /\ d[1] = d1 /\ d[2] = d2
  BY <1>4 DEF Streams
<1> HIDE DEF c, d
<1> DEFINE cs == [k \in 1 .. 2 |-> c[k].byte]
           ds == [k \in 1 .. 2 |-> d[k].byte]
<1>7. Tells(c, d, cs, ds)
  BY <1>6, TellsBytes
<1>8. /\ cs[1] = v % ByteBase /\ cs[2] = Shifted(v)
      /\ ds[1] = w % ByteBase /\ ds[2] = Shifted(w)
  BY <1>4, <1>6
<1> HIDE DEF cs, ds
<1>9. cs = ds => v = w
  BY <1>1, <1>8, ByteAndRestTell
<1>10. QED
  BY <1>5, <1>6, <1>7, <1>9, TellsAlso DEF c, d

(* The four bytes from a number on. *)
Four(v) ==
    <<v % ByteBase, Shifted(v) % ByteBase,
      Shifted(Shifted(v)) % ByteBase, Shifted(Shifted(Shifted(v))) % ByteBase>>

(* hash_u32_le tells the four bytes it is given apart. *)
LEMMA FourTell ==
  ASSUME NEW f \in Names, NEW i \in Int, NEW v \in Nat,
         NEW g \in Names, NEW j \in Int, NEW w \in Nat
  PROVE  /\ U32(f, i, v) \in Streams /\ U32(g, j, w) \in Streams
         /\ Tells(U32(f, i, v), U32(g, j, w), Four(v), Four(w))
<1>1. ASSUME NEW h \in Names, NEW m \in Int, NEW u \in Nat
      PROVE  /\ U32(h, m, u) \in Streams /\ Len(U32(h, m, u)) = 4
             /\ Four(u) = <<U32(h, m, u)[1].byte, U32(h, m, u)[2].byte,
                            U32(h, m, u)[3].byte, U32(h, m, u)[4].byte>>
  <2> DEFINE c1 == Byte(h, m, u)
             c2 == Byte(h, m, Shifted(u))
             c3 == Byte(h, m, Shifted(Shifted(u)))
             c4 == Byte(h, m, Shifted(Shifted(Shifted(u))))
  <2>1. /\ Shifted(u) \in Nat /\ Shifted(Shifted(u)) \in Nat
        /\ Shifted(Shifted(Shifted(u))) \in Nat
    BY ByteAndRest
  <2>2. /\ c1 \in Cells /\ c2 \in Cells /\ c3 \in Cells /\ c4 \in Cells
        /\ Four(u) = <<c1.byte, c2.byte, c3.byte, c4.byte>>
    BY <2>1, ByteIsCell DEF Four
  <2>3. U32(h, m, u) = <<c1, c2, c3, c4>>
    BY DEF U32
  <2> HIDE DEF c1, c2, c3, c4
  <2>4. <<c1, c2, c3, c4>> \in Streams /\ Len(<<c1, c2, c3, c4>>) = 4
    BY <2>2 DEF Streams
  <2>5. QED
    BY <2>2, <2>3, <2>4
<1> DEFINE s == U32(f, i, v)
           t == U32(g, j, w)
           ss == [k \in 1 .. 4 |-> s[k].byte]
           ts == [k \in 1 .. 4 |-> t[k].byte]
<1>2. /\ s \in Streams /\ Len(s) = 4
      /\ Four(v) = <<s[1].byte, s[2].byte, s[3].byte, s[4].byte>>
  BY <1>1
<1>3. /\ t \in Streams /\ Len(t) = 4
      /\ Four(w) = <<t[1].byte, t[2].byte, t[3].byte, t[4].byte>>
  BY <1>1
<1> HIDE DEF s, t
<1>4. Tells(s, t, ss, ts)
  BY <1>2, <1>3, TellsBytes
<1>5. /\ Four(v) = <<ss[1], ss[2], ss[3], ss[4]>>
      /\ Four(w) = <<ts[1], ts[2], ts[3], ts[4]>>
  BY <1>2, <1>3
<1> HIDE DEF ss, ts
<1>6. ss = ts => Four(v) = Four(w)
  BY <1>5
<1>7. QED
  BY <1>2, <1>3, <1>4, <1>6, TellsAlso DEF s, t

(* Four bytes and what is above them are the number. *)
LEMMA FourAndRestTell ==
  ASSUME NEW v \in Nat, NEW w \in Nat, Four(v) = Four(w),
         Shifted(Shifted(Shifted(Shifted(v)))) = Shifted(Shifted(Shifted(Shifted(w))))
  PROVE  v = w
<1>1. /\ Shifted(v) \in Nat /\ Shifted(Shifted(v)) \in Nat /\ Shifted(Shifted(Shifted(v))) \in Nat
      /\ Shifted(w) \in Nat /\ Shifted(Shifted(w)) \in Nat /\ Shifted(Shifted(Shifted(w))) \in Nat
  BY ByteAndRest
<1>2. /\ v % ByteBase = w % ByteBase /\ Shifted(v) % ByteBase = Shifted(w) % ByteBase
      /\ Shifted(Shifted(v)) % ByteBase = Shifted(Shifted(w)) % ByteBase
      /\ Shifted(Shifted(Shifted(v))) % ByteBase = Shifted(Shifted(Shifted(w))) % ByteBase
  BY DEF Four
<1>3. Shifted(Shifted(Shifted(v))) = Shifted(Shifted(Shifted(w)))
  BY <1>1, <1>2, ByteAndRestTell
<1>4. Shifted(Shifted(v)) = Shifted(Shifted(w))
  BY <1>1, <1>2, <1>3, ByteAndRestTell
<1>5. Shifted(v) = Shifted(w)
  BY <1>1, <1>2, <1>4, ByteAndRestTell
<1>6. QED
  BY <1>2, <1>5, ByteAndRestTell

(* A number of four bytes has nothing above them. *)
LEMMA NothingAbove ==
  ASSUME NEW v \in 0 .. Limit32 - 1
  PROVE  Shifted(Shifted(Shifted(Shifted(v)))) = 0
<1>1. v \in Nat /\ v < ByteBase * (ByteBase * Limit16)
  BY Limits DEF Limit32
<1>2. Shifted(v) \in Nat /\ Shifted(v) < ByteBase * Limit16
  BY <1>1, Limits, ShiftedBelow, ByteAndRest
<1>3. Shifted(Shifted(v)) \in Nat /\ Shifted(Shifted(v)) < ByteBase * Limit8
  BY <1>2, Limits, ShiftedBelow, ByteAndRest DEF Limit16
<1>4. Shifted(Shifted(Shifted(v))) \in Nat /\ Shifted(Shifted(Shifted(v))) < ByteBase * 1
  BY <1>3, Limits, ShiftedBelow, ByteAndRest, Bytes DEF Limit8
<1>5. Shifted(Shifted(Shifted(Shifted(v)))) \in Nat /\ Shifted(Shifted(Shifted(Shifted(v)))) < 1
  BY <1>4, ShiftedBelow, ByteAndRest
<1>6. QED
  BY <1>5

(* hash_u32_le tells values of four bytes apart. *)
LEMMA U32Tells ==
  ASSUME NEW f \in Names, NEW i \in Int, NEW v \in 0 .. Limit32 - 1,
         NEW g \in Names, NEW j \in Int, NEW w \in 0 .. Limit32 - 1
  PROVE  /\ U32(f, i, v) \in Streams /\ U32(g, j, w) \in Streams
         /\ Tells(U32(f, i, v), U32(g, j, w), v, w)
<1>1. v \in Nat /\ w \in Nat
  BY Limits
<1>2. Four(v) = Four(w) => v = w
  BY <1>1, NothingAbove, FourAndRestTell
<1>3. QED
  BY <1>1, <1>2, FourTell, TellsAlso

(* hash_u64_le tells values of eight bytes apart. *)
LEMMA U64Tells ==
  ASSUME NEW f \in Names, NEW v \in 0 .. Limit64 - 1,
         NEW g \in Names, NEW w \in 0 .. Limit64 - 1
  PROVE  /\ U64(f, v) \in Streams /\ U64(g, w) \in Streams
         /\ Tells(U64(f, v), U64(g, w), v, w)
<1> DEFINE v4 == Shifted(Shifted(Shifted(Shifted(v))))
           w4 == Shifted(Shifted(Shifted(Shifted(w))))
<1>1. v \in Nat /\ w \in Nat
  BY Limits
<1>2. ASSUME NEW u \in Nat, u < Limit64
      PROVE  Shifted(Shifted(Shifted(Shifted(u)))) \in 0 .. Limit32 - 1
  <2>1. Shifted(u) \in Nat /\ Shifted(u) < ByteBase * (ByteBase * (ByteBase * Limit32))
    BY <1>2, Limits, ShiftedBelow, ByteAndRest DEF Limit64
  <2>2. Shifted(Shifted(u)) \in Nat /\ Shifted(Shifted(u)) < ByteBase * (ByteBase * Limit32)
    BY <2>1, Limits, ShiftedBelow, ByteAndRest
  <2>3. Shifted(Shifted(Shifted(u))) \in Nat /\ Shifted(Shifted(Shifted(u))) < ByteBase * Limit32
    BY <2>2, Limits, ShiftedBelow, ByteAndRest
  <2>4. Shifted(Shifted(Shifted(Shifted(u)))) \in Nat /\ Shifted(Shifted(Shifted(Shifted(u)))) < Limit32
    BY <2>3, Limits, ShiftedBelow, ByteAndRest
  <2>5. QED
    BY <2>4, Limits
<1>3. v4 \in 0 .. Limit32 - 1 /\ w4 \in 0 .. Limit32 - 1
  BY <1>1, <1>2, Limits
<1>4. NoIndex \in Int
  BY DEF NoIndex
<1>5. /\ U32(f, NoIndex, v) \in Streams /\ U32(g, NoIndex, w) \in Streams
      /\ Tells(U32(f, NoIndex, v), U32(g, NoIndex, w), Four(v), Four(w))
  BY <1>1, <1>4, FourTell
<1>6. /\ U32(f, NoIndex, v4) \in Streams /\ U32(g, NoIndex, w4) \in Streams
      /\ Tells(U32(f, NoIndex, v4), U32(g, NoIndex, w4), v4, w4)
  BY <1>3, <1>4, U32Tells
<1>7. /\ U64(f, v) \in Streams /\ U64(g, w) \in Streams
      /\ Tells(U64(f, v), U64(g, w), <<Four(v), v4>>, <<Four(w), w4>>)
  BY <1>5, <1>6, TellsBoth DEF U64
<1>8. <<Four(v), v4>> = <<Four(w), w4>> => v = w
  BY <1>1, FourAndRestTell
<1> HIDE DEF v4, w4
<1>9. QED
  BY <1>7, <1>8, TellsAlso

----------------------------------------------------------------------------
(* Streams one after another. *)

(* Two streams one after the other are a stream. *)
LEMMA StreamsClosed == ClosedUnderConcat(Streams)
BY ConcatProperties DEF ClosedUnderConcat, Streams

(* What follows the first is put behind what there is, one by one. *)
LEMMA FlattenSteps ==
  ASSUME NEW F \in Seq(Streams), Len(F) # 0
  PROVE  \E flat \in [1 .. Len(F) -> Streams] :
            /\ FlattenSeq(F) = flat[Len(F)]
            /\ flat[1] = F[1]
            /\ \A k \in 2 .. Len(F) : flat[k] = flat[k - 1] \o F[k]
<1>1. PICK flat : Flattens(flat, F, Streams)
  BY StreamsClosed, FlattenChain
<1>2. QED
  BY <1>1 DEF Flattens

(* Streams in a row are a stream. *)
LEMMA FlattenIsStream ==
  ASSUME NEW F \in Seq(Streams)
  PROVE  FlattenSeq(F) \in Streams
<1>1. CASE Len(F) = 0
  <2>1. F = << >> /\ FlattenSeq(F) = F
    BY <1>1, EmptySeq DEF FlattenSeq
  <2>2. << >> \in Streams
    BY EmptySeq DEF Streams
  <2>3. QED
    BY <2>1, <2>2
<1>2. CASE Len(F) # 0
  <2>1. Len(F) \in 1 .. Len(F)
    BY <1>2, LenProperties
  <2>2. PICK flat \in [1 .. Len(F) -> Streams] : FlattenSeq(F) = flat[Len(F)]
    BY <1>2, FlattenSteps, Zenon
  <2>3. QED
    BY <2>1, <2>2
<1>3. QED
  BY <1>1, <1>2

(* Who can read each of as many streams can read them all. *)
LEMMA FlattenTells ==
  ASSUME NEW n \in Nat, NEW F \in Seq(Streams), NEW G \in Seq(Streams),
         Len(F) = n, Len(G) = n, NEW f, NEW g,
         f = [k \in 1 .. n |-> f[k]], g = [k \in 1 .. n |-> g[k]],
         \A k \in 1 .. n : Tells(F[k], G[k], f[k], g[k])
  PROVE  /\ FlattenSeq(F) \in Streams /\ FlattenSeq(G) \in Streams
         /\ Tells(FlattenSeq(F), FlattenSeq(G), f, g)
<1>1. FlattenSeq(F) \in Streams /\ FlattenSeq(G) \in Streams
  BY FlattenIsStream
<1>2. CASE n = 0
  <2>1. FlattenSeq(F) = << >> /\ FlattenSeq(G) = << >>
    BY <1>2, EmptySeq DEF FlattenSeq
  <2>2. \A x \in Streams : << >> \o x = x
    BY ConcatEmptySeq DEF Streams
  <2>3. f = g
    BY <1>2
  <2>4. QED
    BY <1>1, <2>1, <2>2, <2>3 DEF Tells
<1>3. CASE n # 0
  <2>1. PICK a \in [1 .. n -> Streams] :
            /\ FlattenSeq(F) = a[n] /\ a[1] = F[1]
            /\ \A k \in 2 .. n : a[k] = a[k - 1] \o F[k]
    <3>1. Len(F) # 0
      BY <1>3
    <3>2. \E a \in [1 .. Len(F) -> Streams] :
            /\ FlattenSeq(F) = a[Len(F)] /\ a[1] = F[1]
            /\ \A k \in 2 .. Len(F) : a[k] = a[k - 1] \o F[k]
      BY <3>1, FlattenSteps, Zenon
    <3>3. QED
      BY <3>2, Zenon
  <2>2. PICK b \in [1 .. n -> Streams] :
            /\ FlattenSeq(G) = b[n] /\ b[1] = G[1]
            /\ \A k \in 2 .. n : b[k] = b[k - 1] \o G[k]
    <3>1. Len(G) # 0
      BY <1>3
    <3>2. \E b \in [1 .. Len(G) -> Streams] :
            /\ FlattenSeq(G) = b[Len(G)] /\ b[1] = G[1]
            /\ \A k \in 2 .. Len(G) : b[k] = b[k - 1] \o G[k]
      BY <3>1, FlattenSteps, Zenon
    <3>3. QED
      BY <3>2, Zenon
  <2> DEFINE Firsts(h, k) == [i \in 1 .. k |-> h[i]]
             T == {d \in 0 .. n - 1 : Tells(a[d + 1], b[d + 1], Firsts(f, d + 1), Firsts(g, d + 1))}
  <2>3. n - 1 \in Nat
    BY <1>3
  <2>4. 0 \in T
    <3>1. Tells(a[1], b[1], f[1], g[1])
      BY <1>3, <2>1, <2>2
    <3>2. f[1] = g[1] => Firsts(f, 1) = Firsts(g, 1)
      OBVIOUS
    <3> HIDE DEF Firsts
    <3>3. Tells(a[1], b[1], Firsts(f, 1), Firsts(g, 1))
      BY <3>1, <3>2, TellsAlso
    <3>4. 0 \in 0 .. n - 1 /\ 0 + 1 = 1
      BY <2>3
    <3>5. QED
      BY <3>3, <3>4
  <2>5. ASSUME NEW d \in 1 .. n - 1, d - 1 \in T PROVE d \in T
    <3>1. /\ d \in 0 .. n - 1 /\ (d - 1) + 1 = d /\ (d + 1) - 1 = d
          /\ d \in 1 .. n /\ d + 1 \in 1 .. n /\ d + 1 \in 2 .. n
      BY <2>3
    <3>2. Tells(a[d], b[d], Firsts(f, d), Firsts(g, d))
      BY <2>5, <3>1
    <3>3. a[d + 1] = a[d] \o F[d + 1] /\ b[d + 1] = b[d] \o G[d + 1]
      BY <2>1, <2>2, <3>1
    <3>4. /\ a[d] \in Streams /\ b[d] \in Streams
          /\ F[d + 1] \in Streams /\ G[d + 1] \in Streams
      BY <2>1, <2>2, <3>1, ElementOfSeq
    <3>5. Tells(F[d + 1], G[d + 1], f[d + 1], g[d + 1])
      BY <3>1
    <3>6. <<Firsts(f, d), f[d + 1]>> = <<Firsts(g, d), g[d + 1]>> => Firsts(f, d + 1) = Firsts(g, d + 1)
      <4> SUFFICES ASSUME Firsts(f, d) = Firsts(g, d), f[d + 1] = g[d + 1]
                   PROVE  \A i \in 1 .. d + 1 : f[i] = g[i]
        BY Zenon
      <4>1. \A i \in 1 .. d : Firsts(f, d)[i] = f[i] /\ Firsts(g, d)[i] = g[i]
        OBVIOUS
      <4>2. \A i \in 1 .. d + 1 : i \in 1 .. d \/ i = d + 1
        OBVIOUS
      <4> HIDE DEF Firsts
      <4>3. QED
        BY <4>1, <4>2
    <3> HIDE DEF Firsts
    <3>7. Tells(a[d] \o F[d + 1], b[d] \o G[d + 1],
                <<Firsts(f, d), f[d + 1]>>, <<Firsts(g, d), g[d + 1]>>)
      BY <3>2, <3>4, <3>5, TellsBoth
    <3>8. Tells(a[d + 1], b[d + 1], Firsts(f, d + 1), Firsts(g, d + 1))
      <4> DEFINE u == <<Firsts(f, d), f[d + 1]>>
                 v == <<Firsts(g, d), g[d + 1]>>
      <4>0. Tells(a[d] \o F[d + 1], b[d] \o G[d + 1], u, v) /\ (u = v => Firsts(f, d + 1) = Firsts(g, d + 1))
        BY <3>6, <3>7
      <4> HIDE DEF u, v
      <4>1. Tells(a[d] \o F[d + 1], b[d] \o G[d + 1], Firsts(f, d + 1), Firsts(g, d + 1))
        BY <4>0, TellsAlso
      <4>2. QED
        BY <3>3, <4>1, Zenon
    <3>9. QED
      BY <3>1, <3>8
  <2> HIDE DEF T
  <2>6. \A d \in 0 .. n - 1 : d \in T
    BY <2>3, <2>4, <2>5, UpTo
  <2>7. n - 1 \in 0 .. n - 1 /\ (n - 1) + 1 = n
    BY <2>3
  <2>8. Tells(a[n], b[n], Firsts(f, n), Firsts(g, n))
    BY <2>6, <2>7 DEF T
  <2>9. QED
    BY <1>1, <2>1, <2>2, <2>8
<1>4. QED
  BY <1>2, <1>3

----------------------------------------------------------------------------
(* Worlds. *)

Words  == 0 .. Limit32 - 1
(* What a column may hold. *)
Values == 0 .. ValueMod - 1

(* A pool has a row for each member, a value for each column, and no       *)
(* member twice.                                                           *)
IsPool(q, p) ==
    /\ Len(q.rows) = Len(q.dense)
    /\ \A d \in 1 .. Len(q.rows) : Len(q.rows[d]) = Len(Columns[p])
    /\ \A c, d \in 1 .. Len(q.dense) : q.dense[c] = q.dense[d] => c = d

(* The type of a world. *)
World ==
    [event_capacity : Words, tick : Nat, rng : Nat,
     generations : [Slots -> 0 .. GenMax], liveness : [Slots -> {0, 1}],
     free_stack : [1 .. MaxEntities -> Slots], next_fresh : 0 .. MaxEntities,
     live_count : Int, free_count : Nat,
     unit_entities : [UnitSlots -> Handles \union {Null}], pending_destroy : Seq(Handles),
     buffers : [1 .. 2 -> Seq(DamageEvents)], read_index : {1, 2},
     pools : [Pools -> [dense : Seq(Handles), rows : Seq(Seq(Values))]]]

(* A world after at most n calls. *)
IsWorld(w, n) ==
    /\ w \in World
    /\ w.tick <= n /\ w.rng <= n
    /\ \A b \in 1 .. 2 : Len(w.buffers[b]) <= w.event_capacity
    /\ \A p \in Pools : IsPool(w.pools[p], p)

(* The sizes of a world fit the integers they are hashed in. *)
LEMMA Sizes ==
  /\ MaxEntities \in Nat \ {0} /\ MaxEntities < Limit32
  /\ GenMax \in Nat \ {0} /\ GenMax < Limit16 /\ UnitCount \in Nat /\ UnitCount < Limit32
  /\ MaxUnits \in Nat /\ ValueMod \in Nat \ {0} /\ ValueMod <= Limit32
  /\ 1 < Limit8 /\ 1 < Limit64 /\ Limit32 \in Nat \ {0}
<1>1. /\ MaxEntities \in Nat \ {0} /\ GenMax \in Nat \ {0} /\ GenMax < Limit16
      /\ UnitCount \in Nat /\ UnitCount <= MaxEntities /\ MaxUnits \in Nat
      /\ ValueMod \in Nat \ {0} /\ ValueMod <= Limit32
      /\ MaxEntities * (GenMax + 1) <= Limit32
  BY StateDiffAssumption
<1>2. MaxEntities * (GenMax + 1) = MaxEntities + MaxEntities * GenMax
  BY <1>1
<1>3. MaxEntities * GenMax \in Nat \ {0}
  BY <1>1
<1> DEFINE m == MaxEntities * GenMax
<1>4. m \in Nat \ {0} /\ MaxEntities + m <= Limit32
  BY <1>1, <1>2, <1>3
<1> HIDE DEF m
<1>5. MaxEntities < Limit32 /\ UnitCount < Limit32 /\ Limit32 \in Nat \ {0}
  BY <1>1, <1>4, Limits
<1>6. 1 < Limit8
  BY Bytes DEF Limit8
<1>7. \A l \in Nat : 1 < l => ByteBase * l \in Nat /\ 1 < ByteBase * l
  BY Bytes
<1>8. 1 < Limit16
  BY <1>6, <1>7, Limits DEF Limit16
<1>9. 1 < Limit32
  BY <1>7, <1>8, Limits DEF Limit32
<1>10. 1 < Limit64
  BY <1>7, <1>9, Limits DEF Limit64
<1>11. QED
  BY <1>1, <1>5, <1>6, <1>10

(* A handle is its index and its generation. *)
LEMMA HandleParts ==
  ASSUME NEW i \in Slots, NEW g \in 0 .. GenMax
  PROVE  Handle(i, g) \in Words
<1> DEFINE a == g * MaxEntities
           b == (GenMax - g) * MaxEntities
<1>1. /\ MaxEntities \in Nat \ {0} /\ GenMax \in Nat /\ i \in Nat /\ i < MaxEntities
      /\ MaxEntities * (GenMax + 1) <= Limit32 /\ Limit32 \in Nat
      /\ g \in Nat /\ GenMax - g \in Nat
  BY Sizes, StateDiffAssumption DEF Slots
<1>2. a \in Nat /\ b \in Nat /\ MaxEntities * (GenMax + 1) = a + b + MaxEntities
  BY <1>1
<1>3. Handle(i, g) = a + i
  BY DEF Handle
<1> HIDE DEF a, b
<1>4. a + b + MaxEntities <= Limit32
  BY <1>1, <1>2
<1>5. a + i \in 0 .. Limit32 - 1
  BY <1>1, <1>2, <1>4
<1>6. QED
  BY <1>3, <1>5 DEF Words

(* A handle is made of its index and its generation. *)
LEMMA PartsHandle ==
  ASSUME NEW h \in Nat
  PROVE  Index(h) \in Slots /\ Gen(h) \in Nat /\ h = Handle(Index(h), Gen(h))
<1>1. MaxEntities \in Nat \ {0}
  BY Sizes
<1>2. /\ h % MaxEntities \in 0 .. MaxEntities - 1 /\ h \div MaxEntities \in Nat
      /\ h = MaxEntities * (h \div MaxEntities) + (h % MaxEntities)
  BY <1>1, Division
<1> DEFINE q == h \div MaxEntities
           r == h % MaxEntities
<1>3. q \in Nat /\ r \in Nat /\ h = MaxEntities * q + r
  BY <1>1, <1>2
<1> HIDE DEF q, r
<1>4. h = q * MaxEntities + r
  BY <1>1, <1>3
<1>5. QED
  BY <1>2, <1>4 DEF Index, Gen, Handle, Slots, q, r

(* Handles, the null handle among them, are integers of four bytes. *)
LEMMA HandlesAreWords ==
  Handles \subseteq Words /\ Null \in Words /\ Words \subseteq Nat
<1>1. Handles \subseteq Words
  BY HandleParts, Sizes DEF Handles
<1>2. QED
  BY <1>1, Sizes DEF Words, Null

(* The two widths most proofs need. *)
LEMMA WordLimits ==
  Limit32 \in Nat /\ Limit64 \in Nat
BY Limits, Zenon

(* The counts of a world that validates. *)
LEMMA Counts ==
  ASSUME NEW n \in 0 .. Limit64 - 1, NEW w, IsWorld(w, n), CanonicalWorld(w)
  PROVE  /\ w.tick \in 0 .. Limit64 - 1 /\ w.rng \in 0 .. Limit64 - 1
         /\ w.event_capacity \in Words /\ w.live_count \in Words
         /\ w.next_fresh \in Words /\ w.free_count \in Words
         /\ w.next_fresh \in 0 .. MaxEntities /\ w.free_count \in 0 .. MaxEntities
         /\ Len(w.pending_destroy) \in Words
         /\ \A p \in Pools : Len(w.pools[p].dense) \in Words
         /\ \A b \in 1 .. 2 : Len(w.buffers[b]) \in Words
<1>1. /\ w.tick \in Nat /\ w.tick <= n /\ w.rng \in Nat /\ w.rng <= n
      /\ w.event_capacity \in Words /\ w.next_fresh \in 0 .. MaxEntities
      /\ w.free_count \in Nat /\ w.live_count \in Int /\ w.pending_destroy \in Seq(Handles)
      /\ w.buffers \in [1 .. 2 -> Seq(DamageEvents)]
      /\ \A b \in 1 .. 2 : Len(w.buffers[b]) <= w.event_capacity
  BY DEF IsWorld, World
<1>2. /\ w.free_count <= w.next_fresh /\ w.live_count + w.free_count = w.next_fresh
      /\ Len(w.pending_destroy) <= MaxEntities
      /\ \A p \in Pools : Len(w.pools[p].dense) <= MaxEntities
  BY DEF CanonicalWorld, ManagerValid, PendingValid, MembershipValid
<1>3. \A p \in Pools : w.pools[p].dense \in Seq(Handles)
  BY DEF IsWorld, World
<1>4. w.tick \in 0 .. Limit64 - 1 /\ w.rng \in 0 .. Limit64 - 1
  BY <1>1, WordLimits
<1>5. /\ w.live_count \in Words /\ w.next_fresh \in Words /\ w.free_count \in Words
      /\ w.free_count \in 0 .. MaxEntities
  <2>1. w.free_count \in 0 .. MaxEntities /\ w.live_count \in 0 .. MaxEntities
    BY <1>1, <1>2, Sizes
  <2>2. 0 .. MaxEntities \subseteq Words
    BY Sizes DEF Words
  <2>3. QED
    BY <1>1, <2>1, <2>2
<1>6. Len(w.pending_destroy) \in Words
  BY <1>1, <1>2, Sizes, LenProperties DEF Words
<1>7. ASSUME NEW p \in Pools PROVE Len(w.pools[p].dense) \in Words
  BY <1>2, <1>3, Sizes, LenProperties DEF Words
<1>8. ASSUME NEW b \in 1 .. 2 PROVE Len(w.buffers[b]) \in Words
  <2>1. Len(w.buffers[b]) \in Nat /\ Len(w.buffers[b]) <= w.event_capacity
    BY <1>1, LenProperties
  <2>2. w.event_capacity \in 0 .. Limit32 - 1
    BY <1>1 DEF Words
  <2>3. QED
    BY <2>1, <2>2, WordLimits DEF Words
<1>9. QED
  BY <1>1, <1>4, <1>5, <1>6, <1>7, <1>8

(* What a list of numbers tells, each hashed in the same width. *)
LEMMA ListTells ==
  ASSUME NEW n \in Nat, NEW F, NEW G, NEW f, NEW g,
         F = [k \in 1 .. n |-> F[k]], G = [k \in 1 .. n |-> G[k]],
         f = [k \in 1 .. n |-> f[k]], g = [k \in 1 .. n |-> g[k]],
         \A k \in 1 .. n : F[k] \in Streams /\ G[k] \in Streams /\ Tells(F[k], G[k], f[k], g[k])
  PROVE  /\ FlattenSeq(F) \in Streams /\ FlattenSeq(G) \in Streams
         /\ Tells(FlattenSeq(F), FlattenSeq(G), f, g)
<1>1. F \in Seq(Streams) /\ Len(F) = n
  <2>1. F \in [1 .. n -> Streams]
    BY Zenon
  <2>2. QED
    BY <2>1
<1>2. G \in Seq(Streams) /\ Len(G) = n
  <2>1. G \in [1 .. n -> Streams]
    BY Zenon
  <2>2. QED
    BY <2>1
<1>3. QED
  BY <1>1, <1>2, FlattenTells

(* What sim_hash_state hashes first: ten numbers of the world. *)
ScalarsOf(w) ==
    <<w.tick, MaxEntities, UnitCount, w.event_capacity, w.rng, 1, MaxEntities,
      w.live_count, w.next_fresh, w.free_count>>

(* Their names, and how each is hashed: three of them in eight bytes.      *)
ScalarNames ==
    <<"tick", "config_max_entities", "config_initial_unit_count", "config_damage_event_capacity",
      "rng_state", "rng_inc", "entity_capacity", "entity_live_count", "entity_next_fresh",
      "entity_free_count">>

ScalarBytes(w) ==
    [k \in 1 .. 10 |-> IF k \in {1, 5, 6} THEN U64(ScalarNames[k], ScalarsOf(w)[k])
                       ELSE U32(ScalarNames[k], NoIndex, ScalarsOf(w)[k])]

(* The hash of the scalars tells the ten numbers apart. *)
LEMMA ScalarsTell ==
  ASSUME NEW n \in 0 .. Limit64 - 1, NEW e, NEW a,
         IsWorld(e, n), CanonicalWorld(e), IsWorld(a, n), CanonicalWorld(a)
  PROVE  /\ HashScalars(e) \in Streams /\ HashScalars(a) \in Streams
         /\ Tells(HashScalars(e), HashScalars(a), ScalarsOf(e), ScalarsOf(a))
<1>1. ASSUME NEW w PROVE HashScalars(w) = FlattenSeq(ScalarBytes(w))
  <2> DEFINE s == ScalarsOf(w)
             F == <<U64("tick", s[1]), U32("config_max_entities", NoIndex, s[2]),
                    U32("config_initial_unit_count", NoIndex, s[3]),
                    U32("config_damage_event_capacity", NoIndex, s[4]),
                    U64("rng_state", s[5]), U64("rng_inc", s[6]),
                    U32("entity_capacity", NoIndex, s[7]), U32("entity_live_count", NoIndex, s[8]),
                    U32("entity_next_fresh", NoIndex, s[9]), U32("entity_free_count", NoIndex, s[10])>>
  <2>1. HashScalars(w) = FlattenSeq(F)
    BY DEF HashScalars, ScalarsOf
  <2> HIDE DEF s
  <2>2. F = [k \in 1 .. 10 |-> IF k \in {1, 5, 6} THEN U64(ScalarNames[k], s[k])
                               ELSE U32(ScalarNames[k], NoIndex, s[k])]
    BY DEF ScalarNames
  <2>3. QED
    BY <2>1, <2>2 DEF ScalarBytes, s
<1>2. \A k \in 1 .. 10 : ScalarNames[k] \in Names
  BY DEF ScalarNames, Names
<1>3. ASSUME NEW w, IsWorld(w, n), CanonicalWorld(w), NEW k \in 1 .. 10
      PROVE  /\ k \in {1, 5, 6} => ScalarsOf(w)[k] \in 0 .. Limit64 - 1
             /\ k \notin {1, 5, 6} => ScalarsOf(w)[k] \in 0 .. Limit32 - 1
  <2>1. /\ MaxEntities \in 0 .. Limit32 - 1 /\ UnitCount \in 0 .. Limit32 - 1 /\ 1 \in 0 .. Limit64 - 1
    BY Sizes, Limits
  <2>2. /\ w.tick \in 0 .. Limit64 - 1 /\ w.rng \in 0 .. Limit64 - 1
        /\ w.event_capacity \in 0 .. Limit32 - 1 /\ w.live_count \in 0 .. Limit32 - 1
        /\ w.next_fresh \in 0 .. Limit32 - 1 /\ w.free_count \in 0 .. Limit32 - 1
    BY <1>3, Counts DEF Words
  <2>3. QED
    BY <2>1, <2>2 DEF ScalarsOf
<1>4. NoIndex \in Int
  BY DEF NoIndex
<1> DEFINE F == ScalarBytes(e)
           G == ScalarBytes(a)
           f == ScalarsOf(e)
           g == ScalarsOf(a)
<1>5. ASSUME NEW k \in 1 .. 10
      PROVE  F[k] \in Streams /\ G[k] \in Streams /\ Tells(F[k], G[k], f[k], g[k])
  <2>1. CASE k \in {1, 5, 6}
    <3>1. F[k] = U64(ScalarNames[k], f[k]) /\ G[k] = U64(ScalarNames[k], g[k])
      BY <2>1 DEF ScalarBytes
    <3>2. f[k] \in 0 .. Limit64 - 1 /\ g[k] \in 0 .. Limit64 - 1 /\ ScalarNames[k] \in Names
      BY <1>2, <1>3, <2>1
    <3> HIDE DEF F, G, f, g
    <3>3. QED
      BY <3>1, <3>2, U64Tells, Zenon
  <2>2. CASE k \notin {1, 5, 6}
    <3>1. F[k] = U32(ScalarNames[k], NoIndex, f[k]) /\ G[k] = U32(ScalarNames[k], NoIndex, g[k])
      BY <2>2 DEF ScalarBytes
    <3>2. f[k] \in 0 .. Limit32 - 1 /\ g[k] \in 0 .. Limit32 - 1 /\ ScalarNames[k] \in Names
      BY <1>2, <1>3, <2>2
    <3> HIDE DEF F, G, f, g
    <3>3. QED
      BY <1>4, <3>1, <3>2, U32Tells, Zenon
  <2>3. QED
    BY <2>1, <2>2
<1>6. /\ F = [k \in 1 .. 10 |-> F[k]] /\ G = [k \in 1 .. 10 |-> G[k]]
      /\ f = [k \in 1 .. 10 |-> f[k]] /\ g = [k \in 1 .. 10 |-> g[k]]
  BY DEF ScalarBytes, ScalarsOf
<1> HIDE DEF F, G, f, g
<1>7. /\ FlattenSeq(F) \in Streams /\ FlattenSeq(G) \in Streams
      /\ Tells(FlattenSeq(F), FlattenSeq(G), f, g)
  BY <1>5, <1>6, ListTells
<1>8. QED
  BY <1>1, <1>7 DEF F, G, f, g

(* The four lists of the entities, each as long as it is hashed. *)
Generations(w) == [n \in 1 .. w.next_fresh |-> w.generations[n - 1]]
Livenesses(w)  == [n \in 1 .. w.next_fresh |-> w.liveness[n - 1]]
FreeSlots(w)   == [k \in 1 .. w.free_count |-> w.free_stack[k]]
UnitList(w)    == [n \in 1 .. MaxUnits |-> w.unit_entities[n - 1]]

(* The lists of the entities, nested in the order they are read. *)
EntitiesOf(w) ==
    <<<<<<<<<<Generations(w), Livenesses(w)>>, FreeSlots(w)>>, UnitList(w)>>,
       Len(w.pending_destroy)>>, w.pending_destroy>>

(* The hash of the entities tells their lists apart, once the scalars have *)
(* told their lengths.                                                     *)
LEMMA EntitiesTell ==
  ASSUME NEW n \in 0 .. Limit64 - 1, NEW e, NEW a,
         IsWorld(e, n), CanonicalWorld(e), IsWorld(a, n), CanonicalWorld(a),
         e.next_fresh = a.next_fresh, e.free_count = a.free_count
  PROVE  /\ HashEntities(e) \in Streams /\ HashEntities(a) \in Streams
         /\ Tells(HashEntities(e), HashEntities(a), EntitiesOf(e), EntitiesOf(a))
<1> DEFINE Gens(w) == [m \in 1 .. w.next_fresh |-> U16("entity_generation", m - 1, w.generations[m - 1])]
           Live(w) == [m \in 1 .. w.next_fresh |-> U8("entity_liveness", m - 1, w.liveness[m - 1])]
           Free(w) == [k \in 1 .. w.free_count |-> U32("entity_free_stack", k - 1, w.free_stack[k])]
           Units(w) == [m \in 1 .. MaxUnits |-> U32("unit_entity", m - 1, w.unit_entities[m - 1])]
           Count(w) == U32("pending_destroy_count", NoIndex, Len(w.pending_destroy))
           Pending(w) == [k \in DOMAIN w.pending_destroy |->
                            U32("pending_destroy_entity", k - 1, w.pending_destroy[k])]
<1>1. ASSUME NEW w, IsWorld(w, n), CanonicalWorld(w)
      PROVE  /\ w.generations \in [Slots -> 0 .. GenMax] /\ w.liveness \in [Slots -> {0, 1}]
             /\ w.free_stack \in [1 .. MaxEntities -> Slots]
             /\ w.unit_entities \in [UnitSlots -> Handles \union {Null}]
             /\ w.pending_destroy \in Seq(Handles) /\ Len(w.pending_destroy) \in Words
             /\ w.next_fresh \in 0 .. MaxEntities /\ w.free_count \in 0 .. MaxEntities
  BY <1>1, Counts DEF IsWorld, World
<1>2. /\ "entity_generation" \in Names /\ "entity_liveness" \in Names
      /\ "entity_free_stack" \in Names /\ "unit_entity" \in Names
      /\ "pending_destroy_count" \in Names /\ "pending_destroy_entity" \in Names
  BY DEF Names
<1>3. /\ MaxEntities \in Nat \ {0} /\ GenMax \in Nat /\ GenMax < Limit16 /\ MaxUnits \in Nat
      /\ MaxEntities < Limit32 /\ 1 < Limit8 /\ NoIndex \in Int
  BY Sizes DEF NoIndex
<1>4. e.next_fresh \in Nat /\ e.free_count \in Nat
  BY <1>1, <1>3
<1>5. /\ FlattenSeq(Gens(e)) \in Streams /\ FlattenSeq(Gens(a)) \in Streams
      /\ Tells(FlattenSeq(Gens(e)), FlattenSeq(Gens(a)), Generations(e), Generations(a))
  <2>1. ASSUME NEW k \in 1 .. e.next_fresh
        PROVE  /\ Gens(e)[k] \in Streams /\ Gens(a)[k] \in Streams
               /\ Tells(Gens(e)[k], Gens(a)[k], Generations(e)[k], Generations(a)[k])
    <3>1. k - 1 \in Slots /\ k - 1 \in Int
      BY <1>1, <1>3 DEF Slots
    <3>2. e.generations[k - 1] \in 0 .. GenMax /\ a.generations[k - 1] \in 0 .. GenMax
      BY <1>1, <3>1
    <3>3. e.generations[k - 1] \in 0 .. Limit16 - 1 /\ a.generations[k - 1] \in 0 .. Limit16 - 1
      BY <1>3, <3>2, Limits
    <3>4. /\ U16("entity_generation", k - 1, e.generations[k - 1]) \in Streams
          /\ U16("entity_generation", k - 1, a.generations[k - 1]) \in Streams
          /\ Tells(U16("entity_generation", k - 1, e.generations[k - 1]),
                   U16("entity_generation", k - 1, a.generations[k - 1]),
                   e.generations[k - 1], a.generations[k - 1])
      BY <1>2, <3>1, <3>3, U16Tells, Zenon
    <3>5. QED
      BY <3>4 DEF Generations
  <2> DEFINE F == Gens(e)
             G == Gens(a)
             f == Generations(e)
             g == Generations(a)
  <2>2. /\ F = [k \in 1 .. e.next_fresh |-> F[k]] /\ G = [k \in 1 .. e.next_fresh |-> G[k]]
        /\ f = [k \in 1 .. e.next_fresh |-> f[k]] /\ g = [k \in 1 .. e.next_fresh |-> g[k]]
    BY DEF Generations
  <2>3. \A k \in 1 .. e.next_fresh : F[k] \in Streams /\ G[k] \in Streams /\ Tells(F[k], G[k], f[k], g[k])
    BY <2>1
  <2> HIDE DEF F, G, f, g
  <2>4. /\ FlattenSeq(F) \in Streams /\ FlattenSeq(G) \in Streams
        /\ Tells(FlattenSeq(F), FlattenSeq(G), f, g)
    BY <1>4, <2>2, <2>3, ListTells
  <2>5. QED
    BY <2>4 DEF F, G, f, g
<1>6. /\ FlattenSeq(Live(e)) \in Streams /\ FlattenSeq(Live(a)) \in Streams
      /\ Tells(FlattenSeq(Live(e)), FlattenSeq(Live(a)), Livenesses(e), Livenesses(a))
  <2>1. ASSUME NEW k \in 1 .. e.next_fresh
        PROVE  /\ Live(e)[k] \in Streams /\ Live(a)[k] \in Streams
               /\ Tells(Live(e)[k], Live(a)[k], Livenesses(e)[k], Livenesses(a)[k])
    <3>1. k - 1 \in Slots /\ k - 1 \in Int
      BY <1>1, <1>3 DEF Slots
    <3>2. e.liveness[k - 1] \in {0, 1} /\ a.liveness[k - 1] \in {0, 1}
      BY <1>1, <3>1
    <3>3. e.liveness[k - 1] \in 0 .. Limit8 - 1 /\ a.liveness[k - 1] \in 0 .. Limit8 - 1
      BY <1>3, <3>2, Limits
    <3>4. /\ U8("entity_liveness", k - 1, e.liveness[k - 1]) \in Streams
          /\ U8("entity_liveness", k - 1, a.liveness[k - 1]) \in Streams
          /\ Tells(U8("entity_liveness", k - 1, e.liveness[k - 1]),
                   U8("entity_liveness", k - 1, a.liveness[k - 1]),
                   e.liveness[k - 1], a.liveness[k - 1])
      BY <1>2, <3>1, <3>3, U8Tells, Zenon
    <3>5. QED
      BY <3>4 DEF Livenesses
  <2> DEFINE F == Live(e)
             G == Live(a)
             f == Livenesses(e)
             g == Livenesses(a)
  <2>2. /\ F = [k \in 1 .. e.next_fresh |-> F[k]] /\ G = [k \in 1 .. e.next_fresh |-> G[k]]
        /\ f = [k \in 1 .. e.next_fresh |-> f[k]] /\ g = [k \in 1 .. e.next_fresh |-> g[k]]
    BY DEF Livenesses
  <2>3. \A k \in 1 .. e.next_fresh : F[k] \in Streams /\ G[k] \in Streams /\ Tells(F[k], G[k], f[k], g[k])
    BY <2>1
  <2> HIDE DEF F, G, f, g
  <2>4. /\ FlattenSeq(F) \in Streams /\ FlattenSeq(G) \in Streams
        /\ Tells(FlattenSeq(F), FlattenSeq(G), f, g)
    BY <1>4, <2>2, <2>3, ListTells
  <2>5. QED
    BY <2>4 DEF F, G, f, g
<1>7. /\ FlattenSeq(Free(e)) \in Streams /\ FlattenSeq(Free(a)) \in Streams
      /\ Tells(FlattenSeq(Free(e)), FlattenSeq(Free(a)), FreeSlots(e), FreeSlots(a))
  <2>1. ASSUME NEW k \in 1 .. e.free_count
        PROVE  /\ Free(e)[k] \in Streams /\ Free(a)[k] \in Streams
               /\ Tells(Free(e)[k], Free(a)[k], FreeSlots(e)[k], FreeSlots(a)[k])
    <3>1. k \in 1 .. MaxEntities /\ k - 1 \in Int
      BY <1>1, <1>3
    <3>2. e.free_stack[k] \in Slots /\ a.free_stack[k] \in Slots
      BY <1>1, <3>1
    <3>3. e.free_stack[k] \in Words /\ a.free_stack[k] \in Words
      BY <1>3, <3>2, WordLimits DEF Slots, Words
    <3>4. /\ U32("entity_free_stack", k - 1, e.free_stack[k]) \in Streams
          /\ U32("entity_free_stack", k - 1, a.free_stack[k]) \in Streams
          /\ Tells(U32("entity_free_stack", k - 1, e.free_stack[k]),
                   U32("entity_free_stack", k - 1, a.free_stack[k]), e.free_stack[k], a.free_stack[k])
      BY <1>2, <3>1, <3>3, U32Tells, Zenon DEF Words
    <3>5. QED
      BY <3>4 DEF FreeSlots
  <2> DEFINE F == Free(e)
             G == Free(a)
             f == FreeSlots(e)
             g == FreeSlots(a)
  <2>2. /\ F = [k \in 1 .. e.free_count |-> F[k]] /\ G = [k \in 1 .. e.free_count |-> G[k]]
        /\ f = [k \in 1 .. e.free_count |-> f[k]] /\ g = [k \in 1 .. e.free_count |-> g[k]]
    BY DEF FreeSlots
  <2>3. \A k \in 1 .. e.free_count : F[k] \in Streams /\ G[k] \in Streams /\ Tells(F[k], G[k], f[k], g[k])
    BY <2>1
  <2> HIDE DEF F, G, f, g
  <2>4. /\ FlattenSeq(F) \in Streams /\ FlattenSeq(G) \in Streams
        /\ Tells(FlattenSeq(F), FlattenSeq(G), f, g)
    BY <1>3, <1>4, <2>2, <2>3, ListTells
  <2>5. QED
    BY <2>4 DEF F, G, f, g
<1>8. /\ FlattenSeq(Units(e)) \in Streams /\ FlattenSeq(Units(a)) \in Streams
      /\ Tells(FlattenSeq(Units(e)), FlattenSeq(Units(a)), UnitList(e), UnitList(a))
  <2>1. ASSUME NEW k \in 1 .. MaxUnits
        PROVE  /\ Units(e)[k] \in Streams /\ Units(a)[k] \in Streams
               /\ Tells(Units(e)[k], Units(a)[k], UnitList(e)[k], UnitList(a)[k])
    <3>1. k - 1 \in UnitSlots /\ k - 1 \in Int
      BY <1>3 DEF UnitSlots
    <3>2. e.unit_entities[k - 1] \in Handles \union {Null} /\ a.unit_entities[k - 1] \in Handles \union {Null}
      BY <1>1, <3>1
    <3>3. e.unit_entities[k - 1] \in Words /\ a.unit_entities[k - 1] \in Words
      BY <3>2, HandlesAreWords
    <3>4. /\ U32("unit_entity", k - 1, e.unit_entities[k - 1]) \in Streams
          /\ U32("unit_entity", k - 1, a.unit_entities[k - 1]) \in Streams
          /\ Tells(U32("unit_entity", k - 1, e.unit_entities[k - 1]),
                   U32("unit_entity", k - 1, a.unit_entities[k - 1]), e.unit_entities[k - 1], a.unit_entities[k - 1])
      BY <1>2, <3>1, <3>3, U32Tells, Zenon DEF Words
    <3>5. QED
      BY <3>4 DEF UnitList
  <2> DEFINE F == Units(e)
             G == Units(a)
             f == UnitList(e)
             g == UnitList(a)
  <2>2. /\ F = [k \in 1 .. MaxUnits |-> F[k]] /\ G = [k \in 1 .. MaxUnits |-> G[k]]
        /\ f = [k \in 1 .. MaxUnits |-> f[k]] /\ g = [k \in 1 .. MaxUnits |-> g[k]]
    BY DEF UnitList
  <2>3. \A k \in 1 .. MaxUnits : F[k] \in Streams /\ G[k] \in Streams /\ Tells(F[k], G[k], f[k], g[k])
    BY <2>1
  <2> HIDE DEF F, G, f, g
  <2>4. /\ FlattenSeq(F) \in Streams /\ FlattenSeq(G) \in Streams
        /\ Tells(FlattenSeq(F), FlattenSeq(G), f, g)
    BY <1>3, <1>4, <2>2, <2>3, ListTells
  <2>5. QED
    BY <2>4 DEF F, G, f, g
<1>9. /\ Count(e) \in Streams /\ Count(a) \in Streams
      /\ Tells(Count(e), Count(a), Len(e.pending_destroy), Len(a.pending_destroy))
  <2>1. Len(e.pending_destroy) \in 0 .. Limit32 - 1 /\ Len(a.pending_destroy) \in 0 .. Limit32 - 1
    BY <1>1 DEF Words
  <2>2. QED
    BY <1>2, <1>3, <2>1, U32Tells, Zenon
<1>10. ASSUME NEW w, IsWorld(w, n), CanonicalWorld(w)
       PROVE  FlattenSeq(Pending(w)) \in Streams
  <2>1. w.pending_destroy \in Seq(Handles) /\ Len(w.pending_destroy) \in Nat
    BY <1>1, <1>10, LenProperties
  <2>2. ASSUME NEW k \in 1 .. Len(w.pending_destroy)
        PROVE  U32("pending_destroy_entity", k - 1, w.pending_destroy[k]) \in Streams
    <3>1. k - 1 \in Int /\ w.pending_destroy[k] \in Handles
      BY <2>1
    <3>2. w.pending_destroy[k] \in 0 .. Limit32 - 1
      BY <3>1, HandlesAreWords DEF Words
    <3>3. QED
      BY <1>2, <3>1, <3>2, U32Tells, Zenon
  <2>3. Pending(w) \in [1 .. Len(w.pending_destroy) -> Streams]
    BY <2>1, <2>2
  <2> HIDE DEF Pending
  <2>4. Pending(w) \in Seq(Streams)
    BY <2>1, <2>3
  <2>5. QED
    BY <2>4, FlattenIsStream
<1>11. ASSUME Len(e.pending_destroy) = Len(a.pending_destroy)
       PROVE  Tells(FlattenSeq(Pending(e)), FlattenSeq(Pending(a)), e.pending_destroy, a.pending_destroy)
  <2> DEFINE m == Len(e.pending_destroy)
             F == Pending(e)
             G == Pending(a)
             f == e.pending_destroy
             g == a.pending_destroy
  <2>1. /\ f \in Seq(Handles) /\ g \in Seq(Handles) /\ m \in Nat /\ Len(f) = m /\ Len(g) = m
        /\ DOMAIN f = 1 .. m /\ DOMAIN g = 1 .. m
    BY <1>1, <1>11, LenProperties
  <2>2. ASSUME NEW k \in 1 .. m
        PROVE  F[k] \in Streams /\ G[k] \in Streams /\ Tells(F[k], G[k], f[k], g[k])
    <3>1. k - 1 \in Int /\ f[k] \in Handles /\ g[k] \in Handles
      BY <2>1
    <3>2. f[k] \in 0 .. Limit32 - 1 /\ g[k] \in 0 .. Limit32 - 1
      BY <3>1, HandlesAreWords DEF Words
    <3>3. /\ U32("pending_destroy_entity", k - 1, f[k]) \in Streams
          /\ U32("pending_destroy_entity", k - 1, g[k]) \in Streams
          /\ Tells(U32("pending_destroy_entity", k - 1, f[k]),
                   U32("pending_destroy_entity", k - 1, g[k]), f[k], g[k])
      BY <1>2, <3>1, <3>2, U32Tells, Zenon
    <3>4. QED
      BY <2>1, <3>3
  <2>3. F = [k \in 1 .. m |-> F[k]] /\ G = [k \in 1 .. m |-> G[k]]
    BY <2>1
  <2>4. f = [k \in 1 .. m |-> f[k]] /\ g = [k \in 1 .. m |-> g[k]]
    BY <2>1
  <2> HIDE DEF m, F, G, f, g
  <2>5. Tells(FlattenSeq(F), FlattenSeq(G), f, g)
    BY <2>1, <2>2, <2>3, <2>4, ListTells
  <2>6. QED
    BY <2>5 DEF F, G, f, g
<1> DEFINE h1(w) == FlattenSeq(Gens(w))
           h2(w) == FlattenSeq(Live(w))
           h3(w) == FlattenSeq(Free(w))
           h4(w) == FlattenSeq(Units(w))
           h5(w) == Count(w)
           h6(w) == FlattenSeq(Pending(w))
<1>12. \A w : HashEntities(w) = ((((h1(w) \o h2(w)) \o h3(w)) \o h4(w)) \o h5(w)) \o h6(w)
  BY DEF HashEntities
<1>13. /\ h1(e) \in Streams /\ h1(a) \in Streams /\ h2(e) \in Streams /\ h2(a) \in Streams
       /\ h3(e) \in Streams /\ h3(a) \in Streams /\ h4(e) \in Streams /\ h4(a) \in Streams
       /\ h5(e) \in Streams /\ h5(a) \in Streams /\ h6(e) \in Streams /\ h6(a) \in Streams
       /\ Tells(h1(e), h1(a), Generations(e), Generations(a))
       /\ Tells(h2(e), h2(a), Livenesses(e), Livenesses(a))
       /\ Tells(h3(e), h3(a), FreeSlots(e), FreeSlots(a))
       /\ Tells(h4(e), h4(a), UnitList(e), UnitList(a))
       /\ Tells(h5(e), h5(a), Len(e.pending_destroy), Len(a.pending_destroy))
       /\ (Len(e.pending_destroy) = Len(a.pending_destroy) =>
                Tells(h6(e), h6(a), e.pending_destroy, a.pending_destroy))
  BY <1>5, <1>6, <1>7, <1>8, <1>9, <1>10, <1>11
<1> HIDE DEF h1, h2, h3, h4, h5, h6
<1>14. /\ h1(e) \o h2(e) \in Streams /\ h1(a) \o h2(a) \in Streams
       /\ Tells(h1(e) \o h2(e), h1(a) \o h2(a),
                <<Generations(e), Livenesses(e)>>, <<Generations(a), Livenesses(a)>>)
  BY <1>13, TellsBoth
<1> DEFINE i2(w) == h1(w) \o h2(w)
           j2(w) == <<Generations(w), Livenesses(w)>>
           i3(w) == i2(w) \o h3(w)
           j3(w) == <<j2(w), FreeSlots(w)>>
           i4(w) == i3(w) \o h4(w)
           j4(w) == <<j3(w), UnitList(w)>>
           i5(w) == i4(w) \o h5(w)
           j5(w) == <<j4(w), Len(w.pending_destroy)>>
           i6(w) == i5(w) \o h6(w)
           j6(w) == <<j5(w), w.pending_destroy>>
<1>15. i2(e) \in Streams /\ i2(a) \in Streams /\ Tells(i2(e), i2(a), j2(e), j2(a))
  BY <1>14
<1> HIDE DEF i2, j2
<1>16. i3(e) \in Streams /\ i3(a) \in Streams /\ Tells(i3(e), i3(a), j3(e), j3(a))
  BY <1>13, <1>15, TellsBoth
<1> HIDE DEF i3, j3
<1>17. i4(e) \in Streams /\ i4(a) \in Streams /\ Tells(i4(e), i4(a), j4(e), j4(a))
  BY <1>13, <1>16, TellsBoth
<1> HIDE DEF i4, j4
<1>18. i5(e) \in Streams /\ i5(a) \in Streams /\ Tells(i5(e), i5(a), j5(e), j5(a))
  BY <1>13, <1>17, TellsBoth
<1>19. j5(e) = j5(a) => Len(e.pending_destroy) = Len(a.pending_destroy)
  OBVIOUS
<1> HIDE DEF i5, j5
<1>20. i6(e) \in Streams /\ i6(a) \in Streams /\ Tells(i6(e), i6(a), j6(e), j6(a))
  BY <1>13, <1>18, <1>19, TellsBoth
<1>21. /\ HashEntities(e) = i6(e) /\ HashEntities(a) = i6(a)
       /\ EntitiesOf(e) = j6(e) /\ EntitiesOf(a) = j6(a)
  BY <1>12 DEF i2, i3, i4, i5, j2, j3, j4, j5, EntitiesOf
<1> HIDE DEF i6, j6
<1>22. QED
  BY <1>20, <1>21

(* The hash of a damage event tells its three numbers apart. *)
LEMMA EventTells ==
  ASSUME NEW phase \in {ReadPhase, WritePhase}, NEW k \in Nat \ {0},
         NEW x \in DamageEvents, NEW y \in DamageEvents
  PROVE  /\ HashEvent(phase, k, x) \in Streams /\ HashEvent(phase, k, y) \in Streams
         /\ Tells(HashEvent(phase, k, x), HashEvent(phase, k, y), x, y)
<1>1. phase.source \in Names /\ phase.target \in Names /\ phase.amount \in Names
  BY DEF ReadPhase, WritePhase, Names
<1>2. /\ x.source \in Words /\ x.target \in Words /\ x.amount \in Words
      /\ y.source \in Words /\ y.target \in Words /\ y.amount \in Words
  <2>1. /\ x.source \in Handles \union {Null} /\ x.target \in Handles /\ x.amount \in Words
        /\ y.source \in Handles \union {Null} /\ y.target \in Handles /\ y.amount \in Words
    BY DEF DamageEvents, Words
  <2>2. QED
    BY <2>1, HandlesAreWords
<1>3. k - 1 \in Int
  OBVIOUS
<1> DEFINE s1 == U32(phase.source, k - 1, x.source)
           t1 == U32(phase.source, k - 1, y.source)
           s2 == U32(phase.target, k - 1, x.target)
           t2 == U32(phase.target, k - 1, y.target)
           s3 == U32(phase.amount, k - 1, x.amount)
           t3 == U32(phase.amount, k - 1, y.amount)
<1>4. s1 \in Streams /\ t1 \in Streams /\ Tells(s1, t1, x.source, y.source)
  BY <1>1, <1>2, <1>3, U32Tells, Zenon DEF Words
<1>5. s2 \in Streams /\ t2 \in Streams /\ Tells(s2, t2, x.target, y.target)
  BY <1>1, <1>2, <1>3, U32Tells, Zenon DEF Words
<1>6. s3 \in Streams /\ t3 \in Streams /\ Tells(s3, t3, x.amount, y.amount)
  BY <1>1, <1>2, <1>3, U32Tells, Zenon DEF Words
<1>7. HashEvent(phase, k, x) = (s1 \o s2) \o s3 /\ HashEvent(phase, k, y) = (t1 \o t2) \o t3
  BY DEF HashEvent
<1> HIDE DEF s1, s2, s3, t1, t2, t3
<1> DEFINE u == <<x.source, x.target>>
           v == <<y.source, y.target>>
<1>8. s1 \o s2 \in Streams /\ t1 \o t2 \in Streams /\ Tells(s1 \o s2, t1 \o t2, u, v)
  BY <1>4, <1>5, TellsBoth
<1>9. <<u, x.amount>> = <<v, y.amount>> => x = y
  BY DEF DamageEvents
<1> HIDE DEF u, v
<1>10. /\ (s1 \o s2) \o s3 \in Streams /\ (t1 \o t2) \o t3 \in Streams
       /\ Tells((s1 \o s2) \o s3, (t1 \o t2) \o t3, <<u, x.amount>>, <<v, y.amount>>)
  BY <1>6, <1>8, TellsBoth
<1> DEFINE s == (s1 \o s2) \o s3
           t == (t1 \o t2) \o t3
           ua == <<u, x.amount>>
           va == <<v, y.amount>>
<1>11. s \in Streams /\ t \in Streams /\ Tells(s, t, ua, va) /\ (ua = va => x = y)
  BY <1>9, <1>10
<1>12. HashEvent(phase, k, x) = s /\ HashEvent(phase, k, y) = t
  BY <1>7
<1> HIDE DEF s, t, ua, va
<1>13. QED
  BY <1>11, <1>12, TellsAlso

(* The hash of a phase, its count first, tells lists of events of any two  *)
(* lengths apart.                                                          *)
LEMMA PhaseTells ==
  ASSUME NEW phase \in {ReadPhase, WritePhase},
         NEW x \in Seq(DamageEvents), NEW y \in Seq(DamageEvents),
         Len(x) \in Words, Len(y) \in Words
  PROVE  /\ HashPhase(phase, x) \in Streams /\ HashPhase(phase, y) \in Streams
         /\ Tells(HashPhase(phase, x), HashPhase(phase, y), x, y)
<1> DEFINE Events(z) == [k \in DOMAIN z |-> HashEvent(phase, k, z[k])]
           Count(z) == U32(phase.count, NoIndex, Len(z))
<1>1. phase.count \in Names /\ NoIndex \in Int
  BY DEF ReadPhase, WritePhase, Names, NoIndex
<1>2. /\ Count(x) \in Streams /\ Count(y) \in Streams
      /\ Tells(Count(x), Count(y), Len(x), Len(y))
  BY <1>1, U32Tells, Zenon DEF Words
<1>3. ASSUME NEW z \in Seq(DamageEvents)
      PROVE  FlattenSeq(Events(z)) \in Streams
  <2>1. \A k \in 1 .. Len(z) : k \in Nat \ {0} /\ z[k] \in DamageEvents
    BY LenProperties
  <2>2. \A k \in 1 .. Len(z) : HashEvent(phase, k, z[k]) \in Streams
    BY <2>1, EventTells, Zenon
  <2>3. Events(z) \in [1 .. Len(z) -> Streams] /\ Len(z) \in Nat
    BY <2>2, LenProperties
  <2> HIDE DEF Events
  <2>4. Events(z) \in Seq(Streams)
    BY <2>3
  <2>5. QED
    BY <2>4, FlattenIsStream
<1>4. ASSUME Len(x) = Len(y)
      PROVE  Tells(FlattenSeq(Events(x)), FlattenSeq(Events(y)), x, y)
  <2> DEFINE m == Len(x)
             F == Events(x)
             G == Events(y)
  <2>1. m \in Nat /\ DOMAIN x = 1 .. m /\ DOMAIN y = 1 .. m
    BY <1>4, LenProperties
  <2>2. ASSUME NEW k \in 1 .. m
        PROVE  F[k] \in Streams /\ G[k] \in Streams /\ Tells(F[k], G[k], x[k], y[k])
    <3>1. k \in Nat \ {0} /\ x[k] \in DamageEvents /\ y[k] \in DamageEvents
      BY <2>1, <1>4
    <3>2. /\ HashEvent(phase, k, x[k]) \in Streams /\ HashEvent(phase, k, y[k]) \in Streams
          /\ Tells(HashEvent(phase, k, x[k]), HashEvent(phase, k, y[k]), x[k], y[k])
      BY <3>1, EventTells
    <3>3. F[k] = HashEvent(phase, k, x[k]) /\ G[k] = HashEvent(phase, k, y[k])
      BY <2>1
    <3>4. QED
      BY <3>2, <3>3
  <2>3. F = [k \in 1 .. m |-> F[k]] /\ G = [k \in 1 .. m |-> G[k]]
    BY <2>1
  <2>4. x = [k \in 1 .. m |-> x[k]] /\ y = [k \in 1 .. m |-> y[k]]
    BY <2>1
  <2> HIDE DEF m, F, G
  <2>5. Tells(FlattenSeq(F), FlattenSeq(G), x, y)
    BY <2>1, <2>2, <2>3, <2>4, ListTells
  <2>6. QED
    BY <2>5 DEF F, G
<1> DEFINE s2 == FlattenSeq(Events(x))
           t2 == FlattenSeq(Events(y))
           s1 == Count(x)
           t1 == Count(y)
<1>5. s2 \in Streams /\ t2 \in Streams
  BY <1>3
<1>6. HashPhase(phase, x) = s1 \o s2 /\ HashPhase(phase, y) = t1 \o t2
  BY DEF HashPhase
<1>7. /\ s1 \in Streams /\ t1 \in Streams /\ Tells(s1, t1, Len(x), Len(y))
      /\ (Len(x) = Len(y) => Tells(s2, t2, x, y))
  BY <1>2, <1>4
<1> HIDE DEF s1, s2, t1, t2
<1>8. /\ s1 \o s2 \in Streams /\ t1 \o t2 \in Streams
      /\ Tells(s1 \o s2, t1 \o t2, <<Len(x), x>>, <<Len(y), y>>)
  BY <1>5, <1>7, TellsBoth
<1>9. QED
  BY <1>6, <1>8, TellsAlso

(* Read phase before write phase: the hash tells the two lists of events   *)
(* apart.                                                                  *)
LEMMA EventsTell ==
  ASSUME NEW n \in 0 .. Limit64 - 1, NEW e, NEW a,
         IsWorld(e, n), CanonicalWorld(e), IsWorld(a, n), CanonicalWorld(a)
  PROVE  /\ HashEvents(e) \in Streams /\ HashEvents(a) \in Streams
         /\ Tells(HashEvents(e), HashEvents(a),
                  <<ReadEvents(e), WriteEvents(e)>>, <<ReadEvents(a), WriteEvents(a)>>)
<1>1. ASSUME NEW w, IsWorld(w, n), CanonicalWorld(w)
      PROVE  /\ ReadEvents(w) \in Seq(DamageEvents) /\ Len(ReadEvents(w)) \in Words
             /\ WriteEvents(w) \in Seq(DamageEvents) /\ Len(WriteEvents(w)) \in Words
  <2>1. w.buffers \in [1 .. 2 -> Seq(DamageEvents)] /\ w.read_index \in {1, 2}
    BY <1>1 DEF IsWorld, World
  <2>2. w.read_index \in 1 .. 2 /\ WriteIndex(w) \in 1 .. 2
    BY <2>1 DEF WriteIndex
  <2>3. \A b \in 1 .. 2 : Len(w.buffers[b]) \in Words
    BY <1>1, Counts
  <2>4. QED
    BY <2>1, <2>2, <2>3 DEF ReadEvents, WriteEvents
<1> DEFINE s1 == HashPhase(ReadPhase, ReadEvents(e))
           t1 == HashPhase(ReadPhase, ReadEvents(a))
           s2 == HashPhase(WritePhase, WriteEvents(e))
           t2 == HashPhase(WritePhase, WriteEvents(a))
<1>2. s1 \in Streams /\ t1 \in Streams /\ Tells(s1, t1, ReadEvents(e), ReadEvents(a))
  BY <1>1, PhaseTells
<1>3. s2 \in Streams /\ t2 \in Streams /\ Tells(s2, t2, WriteEvents(e), WriteEvents(a))
  BY <1>1, PhaseTells
<1>4. HashEvents(e) = s1 \o s2 /\ HashEvents(a) = t1 \o t2
  BY DEF HashEvents
<1> HIDE DEF s1, s2, t1, t2
<1>5. QED
  BY <1>2, <1>3, <1>4, TellsBoth

----------------------------------------------------------------------------
(* The pools. *)

LEMMA PoolNames ==
  ASSUME NEW p \in Pools
  PROVE  /\ CountField[p] \in Names /\ EntityField[p] \in Names
         /\ Len(Columns[p]) \in 1 .. 3 /\ DOMAIN Columns[p] = 1 .. Len(Columns[p])
         /\ \A c \in 1 .. Len(Columns[p]) : Columns[p][c] \in Names
<1>1. CASE p = "transform"
  BY <1>1 DEF CountField, EntityField, Columns, Names
<1>2. CASE p = "velocity"
  BY <1>2 DEF CountField, EntityField, Columns, Names
<1>3. CASE p = "health"
  BY <1>3 DEF CountField, EntityField, Columns, Names
<1>4. QED
  BY <1>1, <1>2, <1>3 DEF Pools

(* A member has a row, one for each column. *)
LEMMA MemberRow ==
  ASSUME NEW n, NEW w, IsWorld(w, n), NEW p \in Pools, NEW h, Has(w, p, h)
  PROVE  /\ h \in Handles
         /\ DenseIndex(w, p, h) \in 1 .. Len(w.pools[p].dense)
         /\ w.pools[p].dense[DenseIndex(w, p, h)] = h
         /\ Row(w, p, h) \in Seq(Values) /\ Len(Row(w, p, h)) = Len(Columns[p])
<1>1. /\ w.pools[p].dense \in Seq(Handles) /\ w.pools[p].rows \in Seq(Seq(Values))
      /\ IsPool(w.pools[p], p)
  BY DEF IsWorld, World
<1>2. \E d \in 1 .. Len(w.pools[p].dense) : w.pools[p].dense[d] = h
  BY DEF Has, Contains
<1> DEFINE d == DenseIndex(w, p, h)
<1>3. d \in 1 .. Len(w.pools[p].dense) /\ w.pools[p].dense[d] = h
  BY <1>2 DEF DenseIndex
<1> HIDE DEF d
<1>4. h \in Handles
  BY <1>1, <1>3, ElementOfSeq
<1>5. d \in 1 .. Len(w.pools[p].rows)
  BY <1>1, <1>3 DEF IsPool
<1>6. w.pools[p].rows[d] \in Seq(Values) /\ Len(w.pools[p].rows[d]) = Len(Columns[p])
  BY <1>1, <1>5, ElementOfSeq DEF IsPool
<1>7. QED
  BY <1>3, <1>4, <1>6 DEF Row, d

(* The hash of a member tells who it is and what its columns hold. *)
LEMMA MemberTells ==
  ASSUME NEW n, NEW e, NEW a, IsWorld(e, n), IsWorld(a, n),
         NEW p \in Pools, NEW h, Has(e, p, h), NEW m, Has(a, p, m)
  PROVE  /\ HashMember(e, p, h) \in Streams /\ HashMember(a, p, m) \in Streams
         /\ Tells(HashMember(e, p, h), HashMember(a, p, m),
                  <<h, Row(e, p, h)>>, <<m, Row(a, p, m)>>)
<1> DEFINE r == Row(e, p, h)
           q == Row(a, p, m)
           l == Len(Columns[p])
<1>1. /\ h \in Handles /\ r \in Seq(Values) /\ Len(r) = l
      /\ m \in Handles /\ q \in Seq(Values) /\ Len(q) = l
  BY MemberRow
<1>2. /\ EntityField[p] \in Names /\ l \in 1 .. 3 /\ DOMAIN Columns[p] = 1 .. l
      /\ \A c \in 1 .. l : Columns[p][c] \in Names
  BY PoolNames
<1>3. h \in 0 .. Limit32 - 1 /\ m \in 0 .. Limit32 - 1 /\ Index(h) \in Int /\ Index(m) \in Int
  <2>1. h \in Words /\ m \in Words /\ h \in Nat /\ m \in Nat
    BY <1>1, HandlesAreWords
  <2>2. Index(h) \in Slots /\ Index(m) \in Slots
    BY <2>1, PartsHandle
  <2>3. QED
    BY <2>1, <2>2 DEF Words, Slots
<1> DEFINE s1 == U32(EntityField[p], Index(h), h)
           t1 == U32(EntityField[p], Index(m), m)
           F == [c \in DOMAIN Columns[p] |-> U32(Columns[p][c], Index(h), r[c])]
           G == [c \in DOMAIN Columns[p] |-> U32(Columns[p][c], Index(m), q[c])]
<1>4. s1 \in Streams /\ t1 \in Streams /\ Tells(s1, t1, h, m)
  BY <1>2, <1>3, U32Tells, Zenon
<1>5. ASSUME NEW c \in 1 .. l
      PROVE  F[c] \in Streams /\ G[c] \in Streams /\ Tells(F[c], G[c], r[c], q[c])
  <2>1. r[c] \in Values /\ q[c] \in Values
    BY <1>1, ElementOfSeq
  <2>2. r[c] \in 0 .. Limit32 - 1 /\ q[c] \in 0 .. Limit32 - 1
    BY <2>1, Sizes DEF Values
  <2>3. /\ U32(Columns[p][c], Index(h), r[c]) \in Streams
        /\ U32(Columns[p][c], Index(m), q[c]) \in Streams
        /\ Tells(U32(Columns[p][c], Index(h), r[c]), U32(Columns[p][c], Index(m), q[c]), r[c], q[c])
    BY <1>2, <1>3, <2>2, U32Tells, Zenon
  <2>4. c \in DOMAIN Columns[p]
    BY <1>2
  <2>5. QED
    BY <2>3, <2>4
<1>6. F = [c \in 1 .. l |-> F[c]] /\ G = [c \in 1 .. l |-> G[c]]
  BY <1>2
<1>7. r = [c \in 1 .. l |-> r[c]] /\ q = [c \in 1 .. l |-> q[c]] /\ l \in Nat
  <2>1. DOMAIN r = 1 .. l /\ DOMAIN q = 1 .. l
    BY <1>1, LenProperties
  <2>2. r = [c \in DOMAIN r |-> r[c]] /\ q = [c \in DOMAIN q |-> q[c]]
    BY <1>1
  <2>3. QED
    BY <1>2, <2>1, <2>2
<1>8. HashMember(e, p, h) = s1 \o FlattenSeq(F) /\ HashMember(a, p, m) = t1 \o FlattenSeq(G)
  BY DEF HashMember
<1> HIDE DEF F, G, r, q, l, s1, t1
<1>9. /\ FlattenSeq(F) \in Streams /\ FlattenSeq(G) \in Streams
      /\ Tells(FlattenSeq(F), FlattenSeq(G), r, q)
  BY <1>5, <1>6, <1>7, ListTells
<1>10. /\ s1 \o FlattenSeq(F) \in Streams /\ t1 \o FlattenSeq(G) \in Streams
       /\ Tells(s1 \o FlattenSeq(F), t1 \o FlattenSeq(G), <<h, r>>, <<m, q>>)
  BY <1>4, <1>9, TellsBoth
<1>11. QED
  BY <1>8, <1>10 DEF r, q

(* Who is in a slot, with its row. *)
Member(w, p, i) ==
    IF Has(w, p, EntityAt(w, i))
      THEN <<1, <<EntityAt(w, i), Row(w, p, EntityAt(w, i))>>>>
      ELSE <<0, << >>>>

(* The hash of a slot tells whether anyone is in it, and who, with which   *)
(* row.                                                                    *)
LEMMA SlotTells ==
  ASSUME NEW n, NEW e, NEW a, IsWorld(e, n), IsWorld(a, n),
         NEW p \in Pools, NEW i \in Int
  PROVE  /\ HashSlot(e, p, i) \in Streams /\ HashSlot(a, p, i) \in Streams
         /\ Tells(HashSlot(e, p, i), HashSlot(a, p, i), Member(e, p, i), Member(a, p, i))
<1> DEFINE Bit(w) == IF Has(w, p, EntityAt(w, i)) THEN 1 ELSE 0
           Head1(w) == U8(EntityField[p], i, Bit(w))
           Rest(w) == IF Has(w, p, EntityAt(w, i)) THEN HashMember(w, p, EntityAt(w, i)) ELSE << >>
           Value(w) == IF Has(w, p, EntityAt(w, i))
                         THEN <<EntityAt(w, i), Row(w, p, EntityAt(w, i))>> ELSE << >>
<1>1. \A w : Bit(w) \in 0 .. Limit8 - 1
  BY Sizes, Limits
<1>2. EntityField[p] \in Names
  BY PoolNames
<1>3. /\ Head1(e) \in Streams /\ Head1(a) \in Streams
      /\ Tells(Head1(e), Head1(a), Bit(e), Bit(a))
  <2> HIDE DEF Bit
  <2>1. QED
    BY <1>1, <1>2, U8Tells
<1>4. << >> \in Streams /\ \A x \in Streams : x \o << >> = x /\ << >> \o x = x
  BY ConcatEmptySeq, EmptySeq DEF Streams
<1>5. Rest(e) \in Streams /\ Rest(a) \in Streams
  BY <1>4, MemberTells
<1>6. Bit(e) = Bit(a) => Tells(Rest(e), Rest(a), Value(e), Value(a))
  <2>1. CASE Has(e, p, EntityAt(e, i)) /\ Has(a, p, EntityAt(a, i))
    BY <2>1, MemberTells
  <2>2. CASE ~Has(e, p, EntityAt(e, i)) /\ ~Has(a, p, EntityAt(a, i))
    BY <2>2, <1>4 DEF Tells
  <2>3. QED
    BY <2>1, <2>2
<1>7. /\ HashSlot(e, p, i) = Head1(e) \o Rest(e) /\ HashSlot(a, p, i) = Head1(a) \o Rest(a)
  <2>1. ASSUME NEW w, Head1(w) \in Streams PROVE HashSlot(w, p, i) = Head1(w) \o Rest(w)
    <3>1. CASE Has(w, p, EntityAt(w, i))
      BY <3>1 DEF HashSlot
    <3>2. CASE ~Has(w, p, EntityAt(w, i))
      <4>1. Rest(w) = << >> /\ HashSlot(w, p, i) = Head1(w)
        BY <3>2 DEF HashSlot
      <4>2. QED
        BY <1>4, <2>1, <4>1
    <3>3. QED
      BY <3>1, <3>2
  <2>2. QED
    BY <1>3, <2>1
<1>8. Member(e, p, i) = <<Bit(e), Value(e)>> /\ Member(a, p, i) = <<Bit(a), Value(a)>>
  BY DEF Member
<1> HIDE DEF Bit, Head1, Rest, Value
<1>9. /\ Head1(e) \o Rest(e) \in Streams /\ Head1(a) \o Rest(a) \in Streams
      /\ Tells(Head1(e) \o Rest(e), Head1(a) \o Rest(a), <<Bit(e), Value(e)>>, <<Bit(a), Value(a)>>)
  BY <1>3, <1>5, <1>6, TellsBoth
<1>10. QED
  BY <1>7, <1>8, <1>9

(* Who is in each of the slots in use. *)
Members(w, p) == [k \in 1 .. w.next_fresh |-> Member(w, p, k - 1)]

(* The hash of a pool, walked by slots, tells its count and its members    *)
(* apart.                                                                  *)
LEMMA PoolTells ==
  ASSUME NEW n \in 0 .. Limit64 - 1, NEW e, NEW a,
         IsWorld(e, n), CanonicalWorld(e), IsWorld(a, n), CanonicalWorld(a),
         e.next_fresh = a.next_fresh, NEW p \in Pools
  PROVE  /\ HashPool(e, p) \in Streams /\ HashPool(a, p) \in Streams
         /\ Tells(HashPool(e, p), HashPool(a, p),
                  <<Len(e.pools[p].dense), Members(e, p)>>, <<Len(a.pools[p].dense), Members(a, p)>>)
<1> DEFINE Count(w) == U32(CountField[p], NoIndex, Len(w.pools[p].dense))
           F == [k \in 1 .. e.next_fresh |-> HashSlot(e, p, k - 1)]
           G == [k \in 1 .. a.next_fresh |-> HashSlot(a, p, k - 1)]
<1>1. /\ CountField[p] \in Names /\ NoIndex \in Int /\ e.next_fresh \in Nat
      /\ Len(e.pools[p].dense) \in 0 .. Limit32 - 1 /\ Len(a.pools[p].dense) \in 0 .. Limit32 - 1
  BY PoolNames, Counts, Sizes DEF NoIndex, Words
<1>2. /\ Count(e) \in Streams /\ Count(a) \in Streams
      /\ Tells(Count(e), Count(a), Len(e.pools[p].dense), Len(a.pools[p].dense))
  BY <1>1, U32Tells, Zenon
<1>3. ASSUME NEW k \in 1 .. e.next_fresh
      PROVE  F[k] \in Streams /\ G[k] \in Streams /\ Tells(F[k], G[k], Members(e, p)[k], Members(a, p)[k])
  <2>1. k - 1 \in Int
    OBVIOUS
  <2>2. /\ HashSlot(e, p, k - 1) \in Streams /\ HashSlot(a, p, k - 1) \in Streams
        /\ Tells(HashSlot(e, p, k - 1), HashSlot(a, p, k - 1), Member(e, p, k - 1), Member(a, p, k - 1))
    BY <2>1, SlotTells
  <2>3. QED
    BY <2>2 DEF Members
<1> DEFINE f == Members(e, p)
           g == Members(a, p)
<1>4. /\ F = [k \in 1 .. e.next_fresh |-> F[k]] /\ G = [k \in 1 .. e.next_fresh |-> G[k]]
      /\ f = [k \in 1 .. e.next_fresh |-> f[k]] /\ g = [k \in 1 .. e.next_fresh |-> g[k]]
  BY DEF Members
<1>5. HashPool(e, p) = Count(e) \o FlattenSeq(F) /\ HashPool(a, p) = Count(a) \o FlattenSeq(G)
  BY DEF HashPool
<1>6. \A k \in 1 .. e.next_fresh : F[k] \in Streams /\ G[k] \in Streams /\ Tells(F[k], G[k], f[k], g[k])
  BY <1>3
<1> HIDE DEF Count, F, G, f, g
<1>7. /\ FlattenSeq(F) \in Streams /\ FlattenSeq(G) \in Streams
      /\ Tells(FlattenSeq(F), FlattenSeq(G), f, g)
  BY <1>1, <1>4, <1>6, ListTells
<1>8. /\ Count(e) \o FlattenSeq(F) \in Streams /\ Count(a) \o FlattenSeq(G) \in Streams
      /\ Tells(Count(e) \o FlattenSeq(F), Count(a) \o FlattenSeq(G),
               <<Len(e.pools[p].dense), f>>, <<Len(a.pools[p].dense), g>>)
  BY <1>2, <1>7, TellsBoth
<1>9. QED
  BY <1>5, <1>8 DEF f, g

----------------------------------------------------------------------------
(* A member of a pool is found in the slot of its index. *)
LEMMA MemberAtSlot ==
  ASSUME NEW n, NEW w, IsWorld(w, n), CanonicalWorld(w), NEW p \in Pools, NEW h, Has(w, p, h)
  PROVE  Index(h) \in 0 .. w.next_fresh - 1 /\ EntityAt(w, Index(h)) = h
<1>1. /\ h \in Handles /\ DenseIndex(w, p, h) \in 1 .. Len(w.pools[p].dense)
      /\ w.pools[p].dense[DenseIndex(w, p, h)] = h
  BY MemberRow
<1>2. w.pools[p].dense \in Seq(Handles) /\ w.next_fresh \in 0 .. MaxEntities
  BY DEF IsWorld, World
<1>3. IsAlive(w, h)
  <2>1. \A d \in DOMAIN w.pools[p].dense : IsAlive(w, w.pools[p].dense[d])
    BY DEF CanonicalWorld, MembershipValid
  <2>2. DenseIndex(w, p, h) \in DOMAIN w.pools[p].dense
    BY <1>1, <1>2, LenProperties
  <2>3. QED
    BY <1>1, <2>1, <2>2
<1>4. h \in Nat
  BY <1>1, HandlesAreWords
<1>5. Index(h) \in Slots /\ h = Handle(Index(h), Gen(h))
  BY <1>4, PartsHandle
<1>6. EntityAt(w, Index(h)) = h
  BY <1>3, <1>5 DEF IsAlive, EntityAt
<1>7. Index(h) < w.next_fresh /\ Index(h) \in Nat
  BY <1>3, <1>5, Sizes DEF IsAlive, Slots
<1>8. QED
  BY <1>2, <1>6, <1>7, Sizes

(* What a pool holds, in no order. *)
Held(w, p) == [h \in ToSet(w.pools[p].dense) |-> Row(w, p, h)]

(* What is in the dense array of a pool is what component_pool_has. *)
LEMMA HeldIsHas ==
  ASSUME NEW n, NEW w, IsWorld(w, n), NEW p \in Pools, NEW h
  PROVE  h \in ToSet(w.pools[p].dense) <=> Has(w, p, h)
<1>1. w.pools[p].dense \in Seq(Handles)
  BY DEF IsWorld, World
<1>2. DOMAIN w.pools[p].dense = 1 .. Len(w.pools[p].dense)
  BY <1>1, LenProperties
<1>3. QED
  BY <1>2 DEF ToSet, Has, Contains

(* A pool counts each of its members once. *)
LEMMA HeldCount ==
  ASSUME NEW n, NEW w, IsWorld(w, n), NEW p \in Pools
  PROVE  Cardinality(ToSet(w.pools[p].dense)) = Len(w.pools[p].dense)
<1> DEFINE s == w.pools[p].dense
<1>1. s \in Seq(Handles) /\ \A c, d \in 1 .. Len(s) : s[c] = s[d] => c = d
  BY DEF IsWorld, World, IsPool
<1> HIDE DEF s
<1>2. Len(s) \in Nat /\ DOMAIN s = 1 .. Len(s) /\ s \in [1 .. Len(s) -> Handles]
  BY <1>1, LenProperties
<1>3. s \in Bijection(1 .. Len(s), ToSet(s))
  BY <1>1, <1>2 DEF Bijection, Injection, IsInjective, Surjection, ToSet
<1>4. Cardinality(ToSet(s)) = Len(s)
  BY <1>2, <1>3, FS_CountingElements DEF ExistsBijection
<1>5. QED
  BY <1>4 DEF s

(* What its slots say of a pool is what it holds. *)
LEMMA SlotsTellHeld ==
  ASSUME NEW n, NEW e, NEW a, NEW p \in Pools,
         IsWorld(e, n), CanonicalWorld(e), IsWorld(a, n), CanonicalWorld(a),
         e.next_fresh = a.next_fresh, Members(e, p) = Members(a, p)
  PROVE  Held(e, p) = Held(a, p)
<1>1. ASSUME NEW x, NEW y, IsWorld(x, n), CanonicalWorld(x), IsWorld(y, n), CanonicalWorld(y),
             Members(x, p) = Members(y, p), x.next_fresh = y.next_fresh, NEW h, Has(x, p, h)
      PROVE  Has(y, p, h) /\ Row(x, p, h) = Row(y, p, h)
  <2>1. Index(h) \in 0 .. x.next_fresh - 1 /\ EntityAt(x, Index(h)) = h
    BY <1>1, MemberAtSlot
  <2>2. x.next_fresh \in Nat
    BY <1>1, Sizes DEF IsWorld, World
  <2> DEFINE i == Index(h)
  <2>3. i + 1 \in 1 .. x.next_fresh /\ (i + 1) - 1 = i
    BY <2>1, <2>2
  <2>4. Member(x, p, i) = Member(y, p, i)
    <3>1. Members(x, p)[i + 1] = Member(x, p, (i + 1) - 1)
      BY <2>3 DEF Members
    <3>2. Members(y, p)[i + 1] = Member(y, p, (i + 1) - 1)
      BY <1>1, <2>3 DEF Members
    <3>3. QED
      BY <1>1, <2>3, <3>1, <3>2
  <2>5. Member(x, p, i) = <<1, <<h, Row(x, p, h)>>>>
    BY <1>1, <2>1 DEF Member
  <2>6. Has(y, p, EntityAt(y, i)) /\ Member(y, p, i) = <<1, <<EntityAt(y, i), Row(y, p, EntityAt(y, i))>>>>
    BY <2>4, <2>5 DEF Member
  <2> DEFINE m == EntityAt(y, i)
             q == Row(x, p, h)
             r == Row(y, p, m)
  <2>7. <<1, <<h, q>>>> = <<1, <<m, r>>>>
    BY <2>4, <2>5, <2>6
  <2> HIDE DEF m, q, r
  <2>8. h = m /\ q = r
    BY <2>7
  <2>9. QED
    BY <2>6, <2>8 DEF m, q, r
<1>2. \A h : Has(e, p, h) <=> Has(a, p, h)
  BY <1>1
<1>3. ToSet(e.pools[p].dense) = ToSet(a.pools[p].dense)
  BY <1>2, HeldIsHas
<1>4. \A h \in ToSet(e.pools[p].dense) : Row(e, p, h) = Row(a, p, h)
  BY <1>1, HeldIsHas
<1>5. QED
  BY <1>3, <1>4 DEF Held

(* Pools that hold the same hash alike, whatever the order of their dense  *)
(* arrays.                                                                 *)
LEMMA HeldTellsSlots ==
  ASSUME NEW n, NEW e, NEW a, NEW p \in Pools,
         IsWorld(e, n), CanonicalWorld(e), IsWorld(a, n), CanonicalWorld(a),
         e.next_fresh = a.next_fresh,
         \A i \in 0 .. e.next_fresh - 1 : e.generations[i] = a.generations[i],
         Held(e, p) = Held(a, p)
  PROVE  HashPool(e, p) = HashPool(a, p)
<1>1. ToSet(e.pools[p].dense) = ToSet(a.pools[p].dense)
  BY DEF Held
<1>2. \A h : Has(e, p, h) <=> Has(a, p, h)
  BY <1>1, HeldIsHas
<1>3. \A h : Has(e, p, h) => Row(e, p, h) = Row(a, p, h)
  <2>1. ASSUME NEW h, Has(e, p, h) PROVE Row(e, p, h) = Row(a, p, h)
    <3>1. h \in ToSet(e.pools[p].dense)
      BY <2>1, HeldIsHas
    <3>2. Held(e, p)[h] = Row(e, p, h) /\ Held(a, p)[h] = Row(a, p, h)
      BY <1>1, <3>1 DEF Held
    <3>3. QED
      BY <3>2
  <2>2. QED
    BY <2>1
<1>4. Len(e.pools[p].dense) = Len(a.pools[p].dense)
  BY <1>1, HeldCount
<1>5. e.next_fresh \in Nat
  BY Sizes DEF IsWorld, World
<1>6. ASSUME NEW k \in 1 .. e.next_fresh PROVE HashSlot(e, p, k - 1) = HashSlot(a, p, k - 1)
  <2>1. k - 1 \in 0 .. e.next_fresh - 1
    BY <1>5
  <2>2. EntityAt(e, k - 1) = EntityAt(a, k - 1)
    BY <2>1 DEF EntityAt
  <2>3. \A h : Has(e, p, h) => HashMember(e, p, h) = HashMember(a, p, h)
    BY <1>3 DEF HashMember
  <2>4. QED
    BY <1>2, <2>2, <2>3 DEF HashSlot
<1>7. [k \in 1 .. e.next_fresh |-> HashSlot(e, p, k - 1)] = [k \in 1 .. a.next_fresh |-> HashSlot(a, p, k - 1)]
  BY <1>6
<1>8. QED
  BY <1>4, <1>7 DEF HashPool

----------------------------------------------------------------------------
(* A world. *)
PoolOf(w, p) == <<Len(w.pools[p].dense), Members(w, p)>>
(* The events of a world by phase, whichever buffers they are in. *)
EventsOf(w)  == <<ReadEvents(w), WriteEvents(w)>>

(* All that sim_hash_state reads of a world, nested in the order it reads  *)
(* it.                                                                     *)
WorldOf(w) ==
    <<<<<<<<<<ScalarsOf(w), EntitiesOf(w)>>, EventsOf(w)>>,
       PoolOf(w, "transform")>>, PoolOf(w, "velocity")>>, PoolOf(w, "health")>>

(* The whole stream tells all that is read of a world apart. *)
LEMMA HashedTells ==
  ASSUME NEW n \in 0 .. Limit64 - 1, NEW e, NEW a,
         IsWorld(e, n), CanonicalWorld(e), IsWorld(a, n), CanonicalWorld(a)
  PROVE  /\ Hashed(e) \in Streams /\ Hashed(a) \in Streams
         /\ Tells(Hashed(e), Hashed(a), WorldOf(e), WorldOf(a))
<1>1. ASSUME NEW w, IsWorld(w, n), CanonicalWorld(w)
      PROVE  /\ HashScalars(w) \in Streams /\ HashEntities(w) \in Streams /\ HashEvents(w) \in Streams
             /\ \A p \in Pools : HashPool(w, p) \in Streams
  BY <1>1, ScalarsTell, EntitiesTell, EventsTell, PoolTells
<1>2. Tells(HashScalars(e), HashScalars(a), ScalarsOf(e), ScalarsOf(a))
  BY ScalarsTell
<1>3. ScalarsOf(e) = ScalarsOf(a) => e.next_fresh = a.next_fresh /\ e.free_count = a.free_count
  BY DEF ScalarsOf
<1>4. ScalarsOf(e) = ScalarsOf(a) => Tells(HashEntities(e), HashEntities(a), EntitiesOf(e), EntitiesOf(a))
  BY <1>3, EntitiesTell
<1>5. Tells(HashEvents(e), HashEvents(a), EventsOf(e), EventsOf(a))
  BY EventsTell DEF EventsOf
<1>6. ASSUME NEW p \in Pools, ScalarsOf(e) = ScalarsOf(a)
      PROVE  Tells(HashPool(e, p), HashPool(a, p), PoolOf(e, p), PoolOf(a, p))
  BY <1>3, <1>6, PoolTells DEF PoolOf
<1> DEFINE h1(w) == HashScalars(w)
           h2(w) == HashEntities(w)
           h3(w) == HashEvents(w)
           h4(w) == HashPool(w, "transform")
           h5(w) == HashPool(w, "velocity")
           h6(w) == HashPool(w, "health")
           u4(w) == PoolOf(w, "transform")
           u5(w) == PoolOf(w, "velocity")
           u6(w) == PoolOf(w, "health")
<1>7. \A w : Hashed(w) = ((((h1(w) \o h2(w)) \o h3(w)) \o h4(w)) \o h5(w)) \o h6(w)
  BY DEF Hashed, HashTransform, HashVelocity, HashHealth
<1>8. /\ h1(e) \in Streams /\ h1(a) \in Streams /\ h2(e) \in Streams /\ h2(a) \in Streams
      /\ h3(e) \in Streams /\ h3(a) \in Streams /\ h4(e) \in Streams /\ h4(a) \in Streams
      /\ h5(e) \in Streams /\ h5(a) \in Streams /\ h6(e) \in Streams /\ h6(a) \in Streams
  BY <1>1 DEF Pools
<1>9. /\ Tells(h1(e), h1(a), ScalarsOf(e), ScalarsOf(a))
      /\ (ScalarsOf(e) = ScalarsOf(a) => Tells(h2(e), h2(a), EntitiesOf(e), EntitiesOf(a)))
      /\ Tells(h3(e), h3(a), EventsOf(e), EventsOf(a))
      /\ (ScalarsOf(e) = ScalarsOf(a) => Tells(h4(e), h4(a), u4(e), u4(a)))
      /\ (ScalarsOf(e) = ScalarsOf(a) => Tells(h5(e), h5(a), u5(e), u5(a)))
      /\ (ScalarsOf(e) = ScalarsOf(a) => Tells(h6(e), h6(a), u6(e), u6(a)))
  BY <1>2, <1>4, <1>5, <1>6 DEF Pools
<1> HIDE DEF h1, h2, h3, h4, h5, h6
<1> DEFINE i2(w) == h1(w) \o h2(w)
           j2(w) == <<ScalarsOf(w), EntitiesOf(w)>>
           i3(w) == i2(w) \o h3(w)
           j3(w) == <<j2(w), EventsOf(w)>>
           i4(w) == i3(w) \o h4(w)
           j4(w) == <<j3(w), u4(w)>>
           i5(w) == i4(w) \o h5(w)
           j5(w) == <<j4(w), u5(w)>>
           i6(w) == i5(w) \o h6(w)
           j6(w) == <<j5(w), u6(w)>>
<1> HIDE DEF u4, u5, u6
<1>10. i2(e) \in Streams /\ i2(a) \in Streams /\ Tells(i2(e), i2(a), j2(e), j2(a))
  BY <1>8, <1>9, TellsBoth
<1>11. j2(e) = j2(a) => ScalarsOf(e) = ScalarsOf(a)
  OBVIOUS
<1> HIDE DEF i2, j2
<1>12. i3(e) \in Streams /\ i3(a) \in Streams /\ Tells(i3(e), i3(a), j3(e), j3(a))
  BY <1>8, <1>9, <1>10, TellsBoth
<1>13. j3(e) = j3(a) => ScalarsOf(e) = ScalarsOf(a)
  BY <1>11
<1> HIDE DEF i3, j3
<1>14. i4(e) \in Streams /\ i4(a) \in Streams /\ Tells(i4(e), i4(a), j4(e), j4(a))
  BY <1>8, <1>9, <1>12, <1>13, TellsBoth
<1>15. j4(e) = j4(a) => ScalarsOf(e) = ScalarsOf(a)
  BY <1>13
<1> HIDE DEF i4, j4
<1>16. i5(e) \in Streams /\ i5(a) \in Streams /\ Tells(i5(e), i5(a), j5(e), j5(a))
  BY <1>8, <1>9, <1>14, <1>15, TellsBoth
<1>17. j5(e) = j5(a) => ScalarsOf(e) = ScalarsOf(a)
  BY <1>15
<1> HIDE DEF i5, j5
<1>18. i6(e) \in Streams /\ i6(a) \in Streams /\ Tells(i6(e), i6(a), j6(e), j6(a))
  BY <1>8, <1>9, <1>16, <1>17, TellsBoth
<1>19. Hashed(e) = i6(e) /\ Hashed(a) = i6(a) /\ WorldOf(e) = j6(e) /\ WorldOf(a) = j6(a)
  BY <1>7 DEF i2, i3, i4, i5, j2, j3, j4, j5, u4, u5, u6, WorldOf
<1> HIDE DEF i6, j6
<1>20. QED
  BY <1>18, <1>19

(* Worlds that hash alike: read from the bytes. *)
LEMMA SameTells ==
  ASSUME NEW n \in 0 .. Limit64 - 1, NEW e, NEW a,
         IsWorld(e, n), CanonicalWorld(e), IsWorld(a, n), CanonicalWorld(a), Same(e, a)
  PROVE  WorldOf(e) = WorldOf(a)
<1>1. /\ Hashed(e) \in Streams /\ Hashed(a) \in Streams
      /\ Tells(Hashed(e), Hashed(a), WorldOf(e), WorldOf(a))
  BY HashedTells
<1> DEFINE s == Hashed(e)
           t == Hashed(a)
<1>2. [k \in 1 .. Len(s) |-> s[k].byte] = [k \in 1 .. Len(t) |-> t[k].byte]
  BY DEF Same, SimHashState
<1>3. s \in Streams /\ t \in Streams /\ Tells(s, t, WorldOf(e), WorldOf(a))
  BY <1>1
<1> HIDE DEF s, t
<1>4. Len(s) \in Nat /\ Len(t) \in Nat
  BY <1>3, LenProperties DEF Streams
<1>5. 1 .. Len(s) = 1 .. Len(t)
  <2>1. DOMAIN [k \in 1 .. Len(s) |-> s[k].byte] = DOMAIN [k \in 1 .. Len(t) |-> t[k].byte]
    BY <1>2
  <2>2. QED
    BY <2>1
<1>6. Len(s) = Len(t)
  <2> DEFINE m == Len(s)
             q == Len(t)
  <2>1. m \in Nat /\ q \in Nat /\ \A k \in Int : (1 <= k /\ k <= m) <=> (1 <= k /\ k <= q)
    <3>1. \A k : k \in 1 .. m <=> k \in 1 .. q
      BY <1>5
    <3>2. QED
      BY <1>4, <3>1
  <2> HIDE DEF m, q
  <2>2. m <= q
    BY <2>1
  <2>3. q <= m
    BY <2>1
  <2>4. m = q
    BY <2>1, <2>2, <2>3
  <2>5. QED
    BY <2>4 DEF m, q
<1>7. \A k \in 1 .. Len(s) : s[k].byte = t[k].byte
  <2>1. ASSUME NEW k \in 1 .. Len(s) PROVE s[k].byte = t[k].byte
    <3>1. k \in 1 .. Len(t)
      BY <1>5, <2>1
    <3>2. /\ [j \in 1 .. Len(s) |-> s[j].byte][k] = s[k].byte
          /\ [j \in 1 .. Len(t) |-> t[j].byte][k] = t[k].byte
      BY <3>1
    <3>3. QED
      BY <1>2, <3>2
  <2>2. QED
    BY <2>1
<1>8. << >> \in Streams /\ s \o << >> = s /\ t \o << >> = t
  BY <1>3, ConcatEmptySeq, EmptySeq DEF Streams
<1>9. Alike(s \o << >>, t \o << >>)
  BY <1>6, <1>7, <1>8 DEF Alike
<1>10. QED
  BY <1>3, <1>8, <1>9 DEF Tells

----------------------------------------------------------------------------
(* The contents of a world are what its bytes say. *)
EntitySlots(w) == [i \in 0 .. w.next_fresh - 1 |-> <<w.generations[i], w.liveness[i]>>]

(* The contents of a canonical world by the counts that bound them. *)
LEMMA ContentsParts ==
  ASSUME NEW n, NEW w, IsWorld(w, n), CanonicalWorld(w)
  PROVE  Contents(w) =
            [scalars |-> <<w.tick, w.rng, w.event_capacity>>, entities |-> EntitySlots(w),
             free |-> FreeSlots(w), units |-> w.unit_entities, pending |-> w.pending_destroy,
             events |-> EventsOf(w), pools |-> [p \in Pools |-> Held(w, p)]]
<1>1. SubSeq(w.free_stack, 1, w.free_count) = FreeSlots(w)
  <2> DEFINE s == w.free_stack
             m == w.free_count
  <2>1. s \in [1 .. MaxEntities -> Slots] /\ m \in 0 .. MaxEntities /\ MaxEntities \in Nat
    BY Sizes DEF IsWorld, World, CanonicalWorld, ManagerValid
  <2> HIDE DEF s, m
  <2>2. m \in Int /\ m - 1 + 1 = m /\ \A i \in 1 .. m : s[i] \in Slots
    BY <2>1
  <2>3. /\ SubSeq(s, 1, m) \in Seq(Slots)
        /\ Len(SubSeq(s, 1, m)) = (IF 1 <= m THEN m - 1 + 1 ELSE 0)
        /\ \A i \in 1 .. m - 1 + 1 : SubSeq(s, 1, m)[i] = s[1 + i - 1]
    BY <2>2, SubSeqProperties
  <2>4. Len(SubSeq(s, 1, m)) = m /\ \A i \in 1 .. m : SubSeq(s, 1, m)[i] = s[i]
    BY <2>1, <2>2, <2>3
  <2> DEFINE f == [k \in 1 .. m |-> s[k]]
  <2>5. f \in Seq(Slots) /\ Len(f) = m /\ \A i \in 1 .. m : f[i] = s[i]
    BY <2>1, <2>2
  <2> HIDE DEF f
  <2>6. SubSeq(s, 1, m) = f
    BY <2>3, <2>4, <2>5, SeqEqual
  <2>7. QED
    BY <2>6 DEF f, s, m, FreeSlots
<1>2. QED
  BY <1>1 DEF Contents, EntitySlots, EventsOf, Held

(* Who knows what is read of a world knows its contents. *)
LEMMA WorldIsContents ==
  ASSUME NEW n \in 0 .. Limit64 - 1, NEW e, NEW a,
         IsWorld(e, n), CanonicalWorld(e), IsWorld(a, n), CanonicalWorld(a),
         WorldOf(e) = WorldOf(a)
  PROVE  Contents(e) = Contents(a)
<1>1. /\ ScalarsOf(e) = ScalarsOf(a) /\ EntitiesOf(e) = EntitiesOf(a) /\ EventsOf(e) = EventsOf(a)
      /\ \A p \in Pools : PoolOf(e, p) = PoolOf(a, p)
  BY Zenon DEF WorldOf, Pools
<1>2. /\ e.tick = a.tick /\ e.rng = a.rng /\ e.event_capacity = a.event_capacity
      /\ e.next_fresh = a.next_fresh
  BY <1>1 DEF ScalarsOf
<1>3. /\ Generations(e) = Generations(a) /\ Livenesses(e) = Livenesses(a)
      /\ FreeSlots(e) = FreeSlots(a) /\ UnitList(e) = UnitList(a)
      /\ e.pending_destroy = a.pending_destroy
  BY <1>1 DEF EntitiesOf
<1>4. \A p \in Pools : Members(e, p) = Members(a, p)
  BY <1>1 DEF PoolOf
<1>5. \A p \in Pools : Held(e, p) = Held(a, p)
  BY <1>2, <1>4, SlotsTellHeld
<1>6. EntitySlots(e) = EntitySlots(a)
  <2>1. e.next_fresh \in Nat
    BY Sizes DEF IsWorld, World
  <2>2. ASSUME NEW i \in 0 .. e.next_fresh - 1
        PROVE  e.generations[i] = a.generations[i] /\ e.liveness[i] = a.liveness[i]
    <3>1. i + 1 \in 1 .. e.next_fresh /\ (i + 1) - 1 = i
      BY <2>1
    <3>2. Generations(e)[i + 1] = e.generations[i] /\ Generations(a)[i + 1] = a.generations[i]
      BY <1>2, <3>1 DEF Generations
    <3>3. Livenesses(e)[i + 1] = e.liveness[i] /\ Livenesses(a)[i + 1] = a.liveness[i]
      BY <1>2, <3>1 DEF Livenesses
    <3>4. QED
      BY <1>3, <3>2, <3>3
  <2>3. QED
    BY <1>2, <2>2 DEF EntitySlots
<1>7. e.unit_entities = a.unit_entities
  <2>1. /\ e.unit_entities \in [UnitSlots -> Handles \union {Null}]
        /\ a.unit_entities \in [UnitSlots -> Handles \union {Null}]
    BY DEF IsWorld, World
  <2>2. ASSUME NEW u \in UnitSlots PROVE e.unit_entities[u] = a.unit_entities[u]
    <3>1. u + 1 \in 1 .. MaxUnits /\ (u + 1) - 1 = u
      BY Sizes DEF UnitSlots
    <3>2. UnitList(e)[u + 1] = e.unit_entities[u] /\ UnitList(a)[u + 1] = a.unit_entities[u]
      BY <3>1 DEF UnitList
    <3>3. QED
      BY <1>3, <3>2
  <2>3. QED
    BY <2>1, <2>2
<1>8. QED
  <2>1. [p \in Pools |-> Held(e, p)] = [p \in Pools |-> Held(a, p)]
    BY <1>5
  <2>2. QED
    BY <1>1, <1>2, <1>3, <1>6, <1>7, <2>1, ContentsParts, Zenon

(* What worlds of the same contents have in common. *)
LEMMA ContentsFields ==
  ASSUME NEW n, NEW e, NEW a,
         IsWorld(e, n), CanonicalWorld(e), IsWorld(a, n), CanonicalWorld(a),
         Contents(e) = Contents(a)
  PROVE  /\ e.tick = a.tick /\ e.rng = a.rng /\ e.event_capacity = a.event_capacity
         /\ e.next_fresh = a.next_fresh /\ e.free_count = a.free_count /\ e.live_count = a.live_count
         /\ \A i \in 0 .. e.next_fresh - 1 :
                e.generations[i] = a.generations[i] /\ e.liveness[i] = a.liveness[i]
         /\ \A k \in 1 .. e.free_count : e.free_stack[k] = a.free_stack[k]
         /\ e.unit_entities = a.unit_entities /\ e.pending_destroy = a.pending_destroy
         /\ ReadEvents(e) = ReadEvents(a) /\ WriteEvents(e) = WriteEvents(a)
         /\ \A p \in Pools : Held(e, p) = Held(a, p)
<1>1. /\ Contents(e).scalars = Contents(a).scalars /\ Contents(e).entities = Contents(a).entities
      /\ Contents(e).free = Contents(a).free /\ Contents(e).units = Contents(a).units
      /\ Contents(e).pending = Contents(a).pending /\ Contents(e).events = Contents(a).events
      /\ Contents(e).pools = Contents(a).pools
  BY Zenon
<1>2. \A w \in {e, a} :
        /\ Contents(w).scalars = <<w.tick, w.rng, w.event_capacity>>
        /\ Contents(w).entities = EntitySlots(w) /\ Contents(w).free = FreeSlots(w)
        /\ Contents(w).units = w.unit_entities /\ Contents(w).pending = w.pending_destroy
        /\ Contents(w).events = EventsOf(w) /\ Contents(w).pools = [p \in Pools |-> Held(w, p)]
  BY ContentsParts
<1>3. /\ <<e.tick, e.rng, e.event_capacity>> = <<a.tick, a.rng, a.event_capacity>>
      /\ EntitySlots(e) = EntitySlots(a) /\ FreeSlots(e) = FreeSlots(a)
      /\ e.unit_entities = a.unit_entities /\ e.pending_destroy = a.pending_destroy
      /\ EventsOf(e) = EventsOf(a)
      /\ [p \in Pools |-> Held(e, p)] = [p \in Pools |-> Held(a, p)]
  BY <1>1, <1>2, Zenon
<1>4. e.tick = a.tick /\ e.rng = a.rng /\ e.event_capacity = a.event_capacity
  BY <1>3
<1>5. /\ e.next_fresh \in Nat /\ a.next_fresh \in Nat /\ e.free_count \in Nat /\ a.free_count \in Nat
      /\ e.live_count \in Int /\ a.live_count \in Int
  BY Sizes DEF IsWorld, World
<1>6. e.next_fresh = a.next_fresh
  <2>1. 0 .. e.next_fresh - 1 = 0 .. a.next_fresh - 1
    <3>1. DOMAIN EntitySlots(e) = DOMAIN EntitySlots(a)
      BY <1>3
    <3>2. QED
      BY <3>1 DEF EntitySlots
  <2> DEFINE m == e.next_fresh
             q == a.next_fresh
  <2>2. m \in Nat /\ q \in Nat /\ \A k \in Int : k \in 0 .. m - 1 <=> k \in 0 .. q - 1
    BY <1>5, <2>1
  <2> HIDE DEF m, q
  <2>3. m = q
    BY <2>2
  <2>4. QED
    BY <2>3 DEF m, q
<1>7. e.free_count = a.free_count
  <2>1. 1 .. e.free_count = 1 .. a.free_count
    <3>1. DOMAIN FreeSlots(e) = DOMAIN FreeSlots(a)
      BY <1>3
    <3>2. QED
      BY <3>1 DEF FreeSlots
  <2> DEFINE m == e.free_count
             q == a.free_count
  <2>2. m \in Nat /\ q \in Nat /\ \A k \in Int : k \in 1 .. m <=> k \in 1 .. q
    BY <1>5, <2>1
  <2> HIDE DEF m, q
  <2>3. m = q
    BY <2>2
  <2>4. QED
    BY <2>3 DEF m, q
<1>8. e.live_count = a.live_count
  <2>1. /\ e.live_count + e.free_count = e.next_fresh
        /\ a.live_count + a.free_count = a.next_fresh
    BY DEF CanonicalWorld, ManagerValid
  <2>2. QED
    BY <1>5, <1>6, <1>7, <2>1
<1>9. \A i \in 0 .. e.next_fresh - 1 : e.generations[i] = a.generations[i] /\ e.liveness[i] = a.liveness[i]
  <2>1. ASSUME NEW i \in 0 .. e.next_fresh - 1
        PROVE  e.generations[i] = a.generations[i] /\ e.liveness[i] = a.liveness[i]
    <3>1. /\ EntitySlots(e)[i] = <<e.generations[i], e.liveness[i]>>
          /\ EntitySlots(a)[i] = <<a.generations[i], a.liveness[i]>>
      BY <1>6 DEF EntitySlots
    <3>2. <<e.generations[i], e.liveness[i]>> = <<a.generations[i], a.liveness[i]>>
      BY <1>3, <3>1
    <3>3. QED
      BY <3>2
  <2>2. QED
    BY <2>1
<1>10. \A k \in 1 .. e.free_count : e.free_stack[k] = a.free_stack[k]
  <2>1. ASSUME NEW k \in 1 .. e.free_count PROVE e.free_stack[k] = a.free_stack[k]
    <3>1. FreeSlots(e)[k] = e.free_stack[k] /\ FreeSlots(a)[k] = a.free_stack[k]
      BY <1>7 DEF FreeSlots
    <3>2. QED
      BY <1>3, <3>1
  <2>2. QED
    BY <2>1
<1>11. ReadEvents(e) = ReadEvents(a) /\ WriteEvents(e) = WriteEvents(a)
  BY <1>3 DEF EventsOf
<1>12. ASSUME NEW p \in Pools PROVE Held(e, p) = Held(a, p)
  <2>1. [q \in Pools |-> Held(e, q)][p] = [q \in Pools |-> Held(a, q)][p]
    BY <1>3
  <2>2. QED
    BY <2>1
<1>13. QED
  BY <1>3, <1>4, <1>6, <1>7, <1>8, <1>9, <1>10, <1>11, <1>12

(* The bytes are those of the contents. *)
LEMMA ContentsTell ==
  ASSUME NEW n, NEW e, NEW a,
         IsWorld(e, n), CanonicalWorld(e), IsWorld(a, n), CanonicalWorld(a),
         Contents(e) = Contents(a)
  PROVE  Hashed(e) = Hashed(a)
<1>1. /\ e.tick = a.tick /\ e.rng = a.rng /\ e.event_capacity = a.event_capacity
      /\ e.next_fresh = a.next_fresh /\ e.free_count = a.free_count /\ e.live_count = a.live_count
      /\ \A i \in 0 .. e.next_fresh - 1 :
             e.generations[i] = a.generations[i] /\ e.liveness[i] = a.liveness[i]
      /\ \A k \in 1 .. e.free_count : e.free_stack[k] = a.free_stack[k]
      /\ e.unit_entities = a.unit_entities /\ e.pending_destroy = a.pending_destroy
      /\ ReadEvents(e) = ReadEvents(a) /\ WriteEvents(e) = WriteEvents(a)
      /\ \A p \in Pools : Held(e, p) = Held(a, p)
  BY ContentsFields
<1>2. e.next_fresh \in Nat
  BY Sizes DEF IsWorld, World
<1>3. HashScalars(e) = HashScalars(a)
  BY <1>1 DEF HashScalars
<1>4. HashEntities(e) = HashEntities(a)
  <2>1. \A m \in 1 .. e.next_fresh : m - 1 \in 0 .. e.next_fresh - 1
    BY <1>2
  <2>2. \A m \in 1 .. e.next_fresh :
            e.generations[m - 1] = a.generations[m - 1] /\ e.liveness[m - 1] = a.liveness[m - 1]
    BY <1>1, <2>1
  <2>3. [m \in 1 .. e.next_fresh |-> U16("entity_generation", m - 1, e.generations[m - 1])]
            = [m \in 1 .. a.next_fresh |-> U16("entity_generation", m - 1, a.generations[m - 1])]
    BY <1>1, <2>2
  <2>4. [m \in 1 .. e.next_fresh |-> U8("entity_liveness", m - 1, e.liveness[m - 1])]
            = [m \in 1 .. a.next_fresh |-> U8("entity_liveness", m - 1, a.liveness[m - 1])]
    BY <1>1, <2>2
  <2>5. [k \in 1 .. e.free_count |-> U32("entity_free_stack", k - 1, e.free_stack[k])]
            = [k \in 1 .. a.free_count |-> U32("entity_free_stack", k - 1, a.free_stack[k])]
    BY <1>1
  <2>6. QED
    BY <1>1, <2>3, <2>4, <2>5, Zenon DEF HashEntities
<1>5. HashEvents(e) = HashEvents(a)
  BY <1>1 DEF HashEvents
<1>6. ASSUME NEW p \in Pools PROVE HashPool(e, p) = HashPool(a, p)
  BY <1>1, HeldTellsSlots
<1>7. QED
  BY <1>3, <1>4, <1>5, <1>6 DEF Hashed, HashTransform, HashVelocity, HashHealth, Pools

(* The two together. *)
LEMMA HashTellsContents ==
  ASSUME NEW n \in 0 .. Limit64 - 1, NEW e, NEW a,
         IsWorld(e, n), CanonicalWorld(e), IsWorld(a, n), CanonicalWorld(a)
  PROVE  Same(e, a) <=> Contents(e) = Contents(a)
<1>1. Same(e, a) => Contents(e) = Contents(a)
  BY SameTells, WorldIsContents
<1>2. Contents(e) = Contents(a) => Same(e, a)
  BY ContentsTell DEF Same, SimHashState
<1>3. QED
  BY <1>1, <1>2

----------------------------------------------------------------------------
(* The operations keep a world one. *)
LEMMA CreatedStays ==
  ASSUME NEW n \in Nat, NEW w, IsWorld(w, n)
  PROVE  IsWorld(Created(w), n)
<1>1. /\ w \in World /\ MaxEntities \in Nat \ {0} /\ GenMax \in Nat \ {0}
  BY Sizes DEF IsWorld
<1>2. CASE CreateRefused(w)
  BY <1>2 DEF Created
<1>3. CASE ~CreateRefused(w)
  <2> DEFINE i == CreateSlot(w)
             v == Created(w)
  <2>1. v = [w EXCEPT !.free_count = IF @ > 0 THEN @ - 1 ELSE 0,
                      !.next_fresh = IF w.free_count > 0 THEN @ ELSE @ + 1,
                      !.generations[i] = IF @ = 0 THEN 1 ELSE @,
                      !.liveness[i] = 1,
                      !.live_count = @ + 1]
    BY <1>3 DEF Created
  <2>2. /\ w.generations \in [Slots -> 0 .. GenMax] /\ w.liveness \in [Slots -> {0, 1}]
        /\ w.next_fresh \in 0 .. MaxEntities /\ w.live_count \in Int /\ w.free_count \in Nat
    BY <1>1 DEF World
  <2> HIDE DEF i, v
  <2>3. v.generations \in [Slots -> 0 .. GenMax] /\ v.liveness \in [Slots -> {0, 1}]
    <3>1. /\ v.generations = [w.generations EXCEPT ![i] = IF @ = 0 THEN 1 ELSE @]
          /\ v.liveness = [w.liveness EXCEPT ![i] = 1]
      BY <1>1, <2>1 DEF World
    <3>2. ASSUME NEW g \in [Slots -> 0 .. GenMax]
          PROVE  [g EXCEPT ![i] = IF @ = 0 THEN 1 ELSE @] \in [Slots -> 0 .. GenMax]
      <4> DEFINE x == IF g[i] = 0 THEN 1 ELSE g[i]
      <4>1. i \in Slots => x \in 0 .. GenMax
        BY <1>1
      <4> HIDE DEF x
      <4>2. [g EXCEPT ![i] = x] \in [Slots -> 0 .. GenMax]
        BY <4>1
      <4>3. QED
        BY <4>2 DEF x
    <3>3. QED
      BY <2>2, <3>1, <3>2
  <2>4. v.next_fresh \in 0 .. MaxEntities /\ v.live_count \in Int /\ v.free_count \in Nat
    BY <1>1, <1>3, <2>1, <2>2 DEF World, CreateRefused
  <2>5. v \in World
    BY <1>1, <2>1, <2>3, <2>4, ZenonT(30) DEF World
  <2>6. /\ v.tick = w.tick /\ v.rng = w.rng /\ v.buffers = w.buffers
        /\ v.event_capacity = w.event_capacity /\ v.pools = w.pools
    BY <1>1, <2>1 DEF World
  <2>7. QED
    BY <2>5, <2>6 DEF IsWorld, v
<1>4. QED
  BY <1>2, <1>3

(* entity_manager_release keeps a world one. *)
LEMMA ReleasedStays ==
  ASSUME NEW n \in Nat, NEW w, IsWorld(w, n), NEW h \in Handles
  PROVE  IsWorld(Released(w, h), n)
<1>1. w \in World /\ MaxEntities \in Nat \ {0} /\ GenMax \in Nat \ {0} /\ h \in Nat
  BY Sizes, HandlesAreWords DEF IsWorld
<1>2. CASE ~IsAlive(w, h)
  BY <1>2 DEF Released
<1>3. CASE IsAlive(w, h)
  <2> DEFINE i == Index(h)
             v == Released(w, h)
  <2>1. v = [w EXCEPT !.liveness[i] = 0,
                      !.generations[i] = IF @ = GenMax THEN 1 ELSE @ + 1,
                      !.free_count = @ + 1,
                      !.free_stack[w.free_count + 1] = i,
                      !.live_count = @ - 1]
    BY <1>3 DEF Released
  <2>2. /\ w.generations \in [Slots -> 0 .. GenMax] /\ w.liveness \in [Slots -> {0, 1}]
        /\ w.free_stack \in [1 .. MaxEntities -> Slots]
        /\ w.live_count \in Int /\ w.free_count \in Nat
    BY <1>1 DEF World
  <2>3. i \in Slots
    BY <1>1, PartsHandle
  <2> HIDE DEF i, v
  <2>4. v.generations \in [Slots -> 0 .. GenMax]
    <3> DEFINE x == IF w.generations[i] = GenMax THEN 1 ELSE w.generations[i] + 1
    <3>1. v.generations = [w.generations EXCEPT ![i] = x]
      BY <1>1, <2>1 DEF World
    <3>2. x \in 0 .. GenMax
      BY <1>1, <2>2, <2>3
    <3> HIDE DEF x
    <3>3. QED
      BY <2>2, <3>1, <3>2
  <2>5. v.liveness \in [Slots -> {0, 1}]
    <3>1. v.liveness = [w.liveness EXCEPT ![i] = 0]
      BY <1>1, <2>1 DEF World
    <3>2. QED
      BY <2>2, <3>1
  <2>6. v.free_stack \in [1 .. MaxEntities -> Slots]
    <3>1. v.free_stack = [w.free_stack EXCEPT ![w.free_count + 1] = i]
      BY <1>1, <2>1 DEF World
    <3>2. QED
      BY <2>2, <2>3, <3>1
  <2>7. v.live_count \in Int /\ v.free_count \in Nat
    BY <1>1, <2>1, <2>2 DEF World
  <2>8. v \in World
    BY <1>1, <2>1, <2>4, <2>5, <2>6, <2>7, ZenonT(30) DEF World
  <2>9. /\ v.tick = w.tick /\ v.rng = w.rng /\ v.buffers = w.buffers
        /\ v.event_capacity = w.event_capacity /\ v.pools = w.pools
    BY <1>1, <2>1 DEF World
  <2>10. QED
    BY <2>8, <2>9 DEF IsWorld, v
<1>4. QED
  BY <1>2, <1>3

(* A pool is exchanged for another. *)
PoolRecords == [dense : Seq(Handles), rows : Seq(Seq(Values))]

(* With one pool exchanged for a proper one a world stays one. *)
LEMMA PoolStays ==
  ASSUME NEW n \in Nat, NEW w, IsWorld(w, n), NEW p \in Pools, NEW q \in PoolRecords, IsPool(q, p)
  PROVE  IsWorld([w EXCEPT !.pools[p] = q], n)
<1> DEFINE v == [w EXCEPT !.pools[p] = q]
<1>1. w \in World /\ w.pools \in [Pools -> PoolRecords]
  BY DEF IsWorld, World, PoolRecords
<1>2. v.pools = [w.pools EXCEPT ![p] = q]
  BY <1>1 DEF World
<1>3. v.pools \in [Pools -> PoolRecords]
  BY <1>1, <1>2
<1>4. v \in World
  BY <1>1, <1>3 DEF World, PoolRecords
<1>5. v.tick = w.tick /\ v.rng = w.rng /\ v.buffers = w.buffers /\ v.event_capacity = w.event_capacity
  BY <1>1 DEF World
<1>6. \A r \in Pools : IsPool(v.pools[r], r)
  BY <1>1, <1>2 DEF IsWorld
<1> HIDE DEF v
<1>7. IsWorld(v, n)
  BY <1>4, <1>5, <1>6 DEF IsWorld
<1>8. QED
  BY <1>7 DEF v

(* component_pool_add keeps a world one. *)
LEMMA AddedStays ==
  ASSUME NEW n \in Nat, NEW w, IsWorld(w, n), NEW p \in Pools, NEW h \in Handles,
         NEW row \in Seq(Values), Len(row) = Len(Columns[p])
  PROVE  IsWorld(Added(w, p, h, row), n)
<1> DEFINE q == w.pools[p]
           r == [dense |-> Append(q.dense, h), rows |-> Append(q.rows, row)]
<1>1. w \in World /\ q \in PoolRecords /\ IsPool(q, p)
  BY DEF IsWorld, World, PoolRecords
<1>2. CASE \E d \in 1 .. Len(w.pools[p].dense) : Index(w.pools[p].dense[d]) = Index(h)
  BY <1>2 DEF Added
<1>3. CASE ~\E d \in 1 .. Len(w.pools[p].dense) : Index(w.pools[p].dense[d]) = Index(h)
  <2>1. Added(w, p, h, row) = [w EXCEPT !.pools[p] = r]
    BY <1>1, <1>3 DEF Added, World
  <2>2. \A d \in 1 .. Len(q.dense) : q.dense[d] # h
    BY <1>3
  <2> HIDE DEF q
  <2> DEFINE s == q.dense
             t == q.rows
  <2>3. s \in Seq(Handles) /\ t \in Seq(Seq(Values)) /\ Len(t) = Len(s)
    BY <1>1 DEF PoolRecords, IsPool
  <2>4. /\ \A d \in 1 .. Len(t) : Len(t[d]) = Len(Columns[p])
        /\ \A c, d \in 1 .. Len(s) : s[c] = s[d] => c = d
        /\ \A d \in 1 .. Len(s) : s[d] # h
    BY <1>1, <2>2 DEF IsPool
  <2> HIDE DEF s, t
  <2> DEFINE s1 == Append(s, h)
             t1 == Append(t, row)
  <2>5. /\ s1 \in Seq(Handles) /\ Len(s1) = Len(s) + 1 /\ Len(s) \in Nat
        /\ \A d \in 1 .. Len(s) : s1[d] = s[d]
        /\ s1[Len(s) + 1] = h
    BY <2>3, AppendProperties, LenProperties
  <2>6. /\ t1 \in Seq(Seq(Values)) /\ Len(t1) = Len(t) + 1 /\ Len(t) \in Nat
        /\ \A d \in 1 .. Len(t) : t1[d] = t[d]
        /\ t1[Len(t) + 1] = row
    BY <2>3, AppendProperties, LenProperties
  <2> HIDE DEF s1, t1
  <2>7. r = [dense |-> s1, rows |-> t1]
    BY DEF s, t, s1, t1
  <2> HIDE DEF r
  <2>8. r \in PoolRecords
    BY <2>5, <2>6, <2>7 DEF PoolRecords
  <2>9. r.dense = s1 /\ r.rows = t1
    BY <2>7
  <2>10. \A d \in 1 .. Len(t1) : Len(t1[d]) = Len(Columns[p])
    <3>1. ASSUME NEW d \in 1 .. Len(t1) PROVE Len(t1[d]) = Len(Columns[p])
      <4>1. d \in 1 .. Len(t) \/ d = Len(t) + 1
        BY <2>6
      <4>2. d \in 1 .. Len(t) => t1[d] = t[d]
        BY <2>6
      <4>3. d = Len(t) + 1 => t1[d] = row
        BY <2>6
      <4>4. QED
        BY <2>4, <4>1, <4>2, <4>3
    <3>2. QED
      BY <3>1
  <2>11. \A c, d \in 1 .. Len(s1) : s1[c] = s1[d] => c = d
    <3>1. ASSUME NEW c \in 1 .. Len(s1), NEW d \in 1 .. Len(s1), s1[c] = s1[d] PROVE c = d
      <4>1. \A k \in 1 .. Len(s1) : k \in 1 .. Len(s) \/ k = Len(s) + 1
        BY <2>5
      <4>2. CASE c = Len(s) + 1 /\ d = Len(s) + 1
        BY <4>2
      <4>3. CASE c = Len(s) + 1 /\ d \in 1 .. Len(s)
        BY <2>4, <2>5, <3>1, <4>3
      <4>4. CASE c \in 1 .. Len(s) /\ d = Len(s) + 1
        BY <2>4, <2>5, <3>1, <4>4
      <4>5. CASE c \in 1 .. Len(s) /\ d \in 1 .. Len(s)
        BY <2>4, <2>5, <3>1, <4>5
      <4>6. QED
        BY <4>1, <4>2, <4>3, <4>4, <4>5
    <3>2. QED
      BY <3>1
  <2>12. IsPool(r, p)
    BY <2>3, <2>5, <2>6, <2>9, <2>10, <2>11 DEF IsPool
  <2>13. QED
    BY <2>1, <2>8, <2>12, PoolStays
<1>4. QED
  BY <1>2, <1>3

(* The last takes the place of the one that goes. *)
LEMMA SwapRemoves ==
  ASSUME NEW S, NEW s \in Seq(S), NEW d \in 1 .. Len(s)
  PROVE  /\ SwapRemoved(s, d) \in Seq(S) /\ Len(SwapRemoved(s, d)) = Len(s) - 1
         /\ \A c \in 1 .. Len(s) - 1 : SwapRemoved(s, d)[c] = IF c = d THEN s[Len(s)] ELSE s[c]
<1>1. Len(s) \in Nat /\ Len(s) \in 1 .. Len(s)
  BY LenProperties
<1>2. s[Len(s)] \in S
  BY <1>1, ElementOfSeq
<1> DEFINE t == [s EXCEPT ![d] = s[Len(s)]]
<1>3. /\ t \in Seq(S) /\ Len(t) = Len(s)
      /\ \A c \in 1 .. Len(s) : t[c] = IF c = d THEN s[Len(s)] ELSE s[c]
  BY <1>2, ExceptSeq
<1>4. SwapRemoved(s, d) = SubSeq(t, 1, Len(t) - 1)
  BY DEF SwapRemoved, Front, Last
<1> HIDE DEF t
<1> DEFINE m == Len(s) - 1
<1>5. m \in Nat /\ m - 1 + 1 = m /\ 1 \in Int /\ Len(t) - 1 = m /\ \A c \in 1 .. m : t[c] \in S
  <2>1. \A c \in 1 .. m : c \in 1 .. Len(t)
    BY <1>1, <1>3
  <2>2. \A c \in 1 .. m : t[c] \in S
    BY <1>3, <2>1, ElementOfSeq
  <2>3. QED
    BY <1>1, <1>3, <2>2
<1>6. \A c \in 1 .. m : t[c] = IF c = d THEN s[Len(s)] ELSE s[c]
  BY <1>1, <1>3
<1> HIDE DEF m
<1>7. /\ SubSeq(t, 1, m) \in Seq(S) /\ Len(SubSeq(t, 1, m)) = (IF 1 <= m THEN m - 1 + 1 ELSE 0)
      /\ \A c \in 1 .. m - 1 + 1 : SubSeq(t, 1, m)[c] = t[1 + c - 1]
  BY <1>5, SubSeqProperties
<1>8. Len(SubSeq(t, 1, m)) = m /\ \A c \in 1 .. m : SubSeq(t, 1, m)[c] = t[c]
  BY <1>5, <1>7
<1>9. QED
  BY <1>4, <1>5, <1>6, <1>7, <1>8 DEF m

(* The removal that puts the last row in the place of the removed one      *)
(* keeps a world one.                                                      *)
LEMMA RemovedStays ==
  ASSUME NEW n \in Nat, NEW w, IsWorld(w, n), NEW p \in Pools, NEW h
  PROVE  IsWorld(Removed(w, p, h), n)
<1>1. CASE ~Has(w, p, h)
  BY <1>1 DEF Removed
<1>2. CASE Has(w, p, h)
  <2> DEFINE q == w.pools[p]
             d == DenseIndex(w, p, h)
             s == q.dense
             t == q.rows
             s1 == SwapRemoved(s, d)
             t1 == SwapRemoved(t, d)
             r == [dense |-> s1, rows |-> t1]
  <2>1. w \in World /\ q \in PoolRecords /\ IsPool(q, p)
    BY DEF IsWorld, World, PoolRecords
  <2>2. d \in 1 .. Len(s)
    BY <1>2, MemberRow
  <2>3. Removed(w, p, h) = [w EXCEPT !.pools[p] = r]
    BY <1>2, <2>1 DEF Removed, World
  <2> HIDE DEF d, q
  <2>4. s \in Seq(Handles) /\ t \in Seq(Seq(Values)) /\ Len(t) = Len(s)
    BY <2>1 DEF PoolRecords, IsPool
  <2>5. /\ \A c \in 1 .. Len(t) : Len(t[c]) = Len(Columns[p])
        /\ \A b, c \in 1 .. Len(s) : s[b] = s[c] => b = c
    BY <2>1 DEF IsPool
  <2> HIDE DEF s, t
  <2>6. d \in 1 .. Len(t)
    BY <2>2, <2>4
  <2>7. /\ s1 \in Seq(Handles) /\ Len(s1) = Len(s) - 1
        /\ \A c \in 1 .. Len(s) - 1 : s1[c] = IF c = d THEN s[Len(s)] ELSE s[c]
    BY <2>2, <2>4, SwapRemoves
  <2>8. /\ t1 \in Seq(Seq(Values)) /\ Len(t1) = Len(t) - 1
        /\ \A c \in 1 .. Len(t) - 1 : t1[c] = IF c = d THEN t[Len(t)] ELSE t[c]
    BY <2>4, <2>6, SwapRemoves
  <2> HIDE DEF s1, t1
  <2>9. r \in PoolRecords /\ r.dense = s1 /\ r.rows = t1
    BY <2>7, <2>8 DEF PoolRecords
  <2> HIDE DEF r
  <2>10. Len(s) \in Nat
    BY <2>4, LenProperties
  <2>11. \A c \in 1 .. Len(t1) : Len(t1[c]) = Len(Columns[p])
    <3>1. ASSUME NEW c \in 1 .. Len(t1) PROVE Len(t1[c]) = Len(Columns[p])
      <4>1. c \in 1 .. Len(t) - 1 /\ c \in 1 .. Len(t) /\ Len(t) \in 1 .. Len(t)
        BY <2>4, <2>8, <2>10, <3>1
      <4>2. t1[c] = t[Len(t)] \/ t1[c] = t[c]
        BY <2>8, <4>1
      <4>3. QED
        BY <2>5, <4>1, <4>2
    <3>2. QED
      BY <3>1
  <2>12. \A b, c \in 1 .. Len(s1) : s1[b] = s1[c] => b = c
    <3>1. ASSUME NEW b \in 1 .. Len(s1), NEW c \in 1 .. Len(s1), s1[b] = s1[c] PROVE b = c
      <4>1. \A k \in 1 .. Len(s1) : k \in 1 .. Len(s) - 1 /\ k \in 1 .. Len(s) /\ k # Len(s)
        BY <2>7, <2>10
      <4>2. Len(s) \in 1 .. Len(s)
        BY <2>2, <2>10
      <4>3. /\ s1[b] = IF b = d THEN s[Len(s)] ELSE s[b]
            /\ s1[c] = IF c = d THEN s[Len(s)] ELSE s[c]
        BY <2>7, <4>1
      <4>4. QED
        BY <2>5, <3>1, <4>1, <4>2, <4>3
    <3>2. QED
      BY <3>1
  <2>13. IsPool(r, p)
    BY <2>4, <2>7, <2>8, <2>9, <2>11, <2>12 DEF IsPool
  <2>14. QED
    BY <2>3, <2>9, <2>13, PoolStays
<1>3. QED
  BY <1>1, <1>2

(* A value written to a column keeps a world one. *)
LEMMA WrittenStays ==
  ASSUME NEW n \in Nat, NEW w, IsWorld(w, n), NEW p \in Pools, NEW h,
         NEW c \in DOMAIN Columns[p], NEW v \in Values
  PROVE  IsWorld(Written(w, p, h, c, v), n)
<1>1. CASE ~Has(w, p, h)
  BY <1>1 DEF Written
<1>2. CASE Has(w, p, h)
  <2> DEFINE q == w.pools[p]
             d == DenseIndex(w, p, h)
             t == q.rows
             t1 == [t EXCEPT ![d] = [@ EXCEPT ![c] = v]]
             r == [dense |-> q.dense, rows |-> t1]
  <2>1. w \in World /\ q \in PoolRecords /\ IsPool(q, p)
    BY DEF IsWorld, World, PoolRecords
  <2>2. d \in 1 .. Len(q.dense) /\ Len(t) = Len(q.dense)
    BY <1>2, <2>1, MemberRow DEF IsPool
  <2>3. Written(w, p, h, c, v) = [w EXCEPT !.pools[p] = r]
    <3>1. Written(w, p, h, c, v) = [w EXCEPT !.pools[p].rows[d][c] = v]
      BY <1>2 DEF Written
    <3>2. [w EXCEPT !.pools[p].rows[d][c] = v] = [w EXCEPT !.pools[p] = [q EXCEPT !.rows = t1]]
      BY Zenon
    <3>3. [q EXCEPT !.rows = t1] = r
      <4> HIDE DEF q
      <4>1. \A z : [q EXCEPT !.rows = z] = [dense |-> q.dense, rows |-> z]
        BY <2>1 DEF PoolRecords
      <4>2. QED
        BY <4>1
    <3>4. QED
      BY <3>1, <3>2, <3>3
  <2>4. t \in Seq(Seq(Values)) /\ \A k \in 1 .. Len(t) : Len(t[k]) = Len(Columns[p])
    BY <2>1 DEF PoolRecords, IsPool
  <2> HIDE DEF d, q
  <2>5. q.dense \in Seq(Handles) /\ \A b, k \in 1 .. Len(q.dense) : q.dense[b] = q.dense[k] => b = k
    BY <2>1 DEF PoolRecords, IsPool
  <2> HIDE DEF t
  <2>6. t[d] \in Seq(Values) /\ Len(t[d]) = Len(Columns[p])
    BY <2>2, <2>4, ElementOfSeq
  <2>7. c \in 1 .. Len(t[d])
    BY <2>6, PoolNames
  <2>8. [t[d] EXCEPT ![c] = v] \in Seq(Values) /\ Len([t[d] EXCEPT ![c] = v]) = Len(t[d])
    BY <2>6, <2>7, ExceptSeq
  <2> DEFINE x == [t[d] EXCEPT ![c] = v]
  <2>9. t1 = [t EXCEPT ![d] = x]
    OBVIOUS
  <2>10. x \in Seq(Values) /\ Len(x) = Len(Columns[p]) /\ d \in 1 .. Len(t)
    BY <2>2, <2>6, <2>8
  <2> HIDE DEF x, t1
  <2>11. /\ t1 \in Seq(Seq(Values)) /\ Len(t1) = Len(t)
         /\ \A k \in 1 .. Len(t) : t1[k] = IF k = d THEN x ELSE t[k]
    BY <2>4, <2>9, <2>10, ExceptSeq
  <2>12. r \in PoolRecords /\ r.dense = q.dense /\ r.rows = t1
    BY <2>5, <2>11 DEF PoolRecords
  <2> HIDE DEF r
  <2>13. IsPool(r, p)
    BY <2>2, <2>4, <2>5, <2>10, <2>11, <2>12 DEF IsPool
  <2>14. QED
    BY <2>3, <2>12, <2>13, PoolStays
<1>3. QED
  BY <1>1, <1>2

(* sim_destroy_deferred keeps a world one. *)
LEMMA RequestedStays ==
  ASSUME NEW n \in Nat, NEW w, IsWorld(w, n), NEW h \in Handles
  PROVE  IsWorld(Requested(w, h), n)
<1> DEFINE v == [w EXCEPT !.pending_destroy = Append(@, h)]
<1>1. w \in World /\ w.pending_destroy \in Seq(Handles)
  BY DEF IsWorld, World
<1>2. Append(w.pending_destroy, h) \in Seq(Handles)
  BY <1>1, AppendProperties
<1>3. v \in World
  BY <1>1, <1>2 DEF World
<1>4. /\ v.tick = w.tick /\ v.rng = w.rng /\ v.buffers = w.buffers
      /\ v.event_capacity = w.event_capacity /\ v.pools = w.pools
  BY <1>1 DEF World
<1> HIDE DEF v
<1>5. IsWorld(v, n)
  BY <1>3, <1>4 DEF IsWorld
<1>6. QED
  BY <1>5 DEF Requested, v

(* A buffer is exchanged for another. *)
LEMMA BufferStays ==
  ASSUME NEW n \in Nat, NEW w, IsWorld(w, n), NEW b \in 1 .. 2, NEW s \in Seq(DamageEvents),
         Len(s) <= w.event_capacity
  PROVE  IsWorld([w EXCEPT !.buffers[b] = s], n)
<1> DEFINE v == [w EXCEPT !.buffers[b] = s]
<1>1. w \in World /\ w.buffers \in [1 .. 2 -> Seq(DamageEvents)]
  BY DEF IsWorld, World
<1>2. v.buffers = [w.buffers EXCEPT ![b] = s]
  BY <1>1 DEF World
<1>3. v.buffers \in [1 .. 2 -> Seq(DamageEvents)]
  BY <1>1, <1>2
<1>4. v \in World
  BY <1>1, <1>3 DEF World
<1>5. v.tick = w.tick /\ v.rng = w.rng /\ v.pools = w.pools /\ v.event_capacity = w.event_capacity
  BY <1>1 DEF World
<1>6. \A c \in 1 .. 2 : Len(v.buffers[c]) <= w.event_capacity
  BY <1>1, <1>2 DEF IsWorld
<1> HIDE DEF v
<1>7. IsWorld(v, n)
  BY <1>4, <1>5, <1>6 DEF IsWorld
<1>8. QED
  BY <1>7 DEF v

(* Append, publish and consume keep a world one. *)
LEMMA EventCallsStay ==
  ASSUME NEW n \in Nat, NEW w, IsWorld(w, n)
  PROVE  /\ IsWorld(EventsPublished(w), n) /\ IsWorld(Consumed(w), n)
         /\ \A ev \in DamageEvents : IsWorld(Appended(w, ev), n)
<1>1. /\ w \in World /\ w.buffers \in [1 .. 2 -> Seq(DamageEvents)] /\ w.read_index \in {1, 2}
      /\ w.event_capacity \in Nat /\ \A b \in 1 .. 2 : Len(w.buffers[b]) <= w.event_capacity
  BY HandlesAreWords DEF IsWorld, World
<1>2. w.read_index \in 1 .. 2 /\ WriteIndex(w) \in 1 .. 2 /\ WriteIndex(w) \in {1, 2}
  BY <1>1 DEF WriteIndex
<1>3. IsWorld(EventsPublished(w), n)
  <2> DEFINE v == [w EXCEPT !.read_index = WriteIndex(w)]
  <2>1. v \in World
    BY <1>1, <1>2 DEF World
  <2>2. /\ v.tick = w.tick /\ v.rng = w.rng /\ v.buffers = w.buffers
        /\ v.event_capacity = w.event_capacity /\ v.pools = w.pools
    BY <1>1 DEF World
  <2> HIDE DEF v
  <2>3. IsWorld(v, n)
    BY <2>1, <2>2 DEF IsWorld
  <2>4. QED
    BY <2>3 DEF EventsPublished, v
<1>4. IsWorld(Consumed(w), n)
  <2>1. << >> \in Seq(DamageEvents) /\ Len(<< >>) <= w.event_capacity
    BY <1>1, EmptySeq
  <2>2. IsWorld([w EXCEPT !.buffers[w.read_index] = << >>], n)
    BY <1>2, <2>1, BufferStays
  <2>3. QED
    BY <2>2 DEF Consumed
<1>5. ASSUME NEW ev \in DamageEvents PROVE IsWorld(Appended(w, ev), n)
  <2>1. CASE Len(WriteEvents(w)) = w.event_capacity
    BY <2>1 DEF Appended
  <2>2. CASE Len(WriteEvents(w)) # w.event_capacity
    <3> DEFINE s == Append(w.buffers[WriteIndex(w)], ev)
    <3>1. w.buffers[WriteIndex(w)] \in Seq(DamageEvents)
      BY <1>1, <1>2
    <3>2. /\ s \in Seq(DamageEvents) /\ Len(s) = Len(w.buffers[WriteIndex(w)]) + 1
          /\ Len(w.buffers[WriteIndex(w)]) \in Nat
      BY <3>1, AppendProperties, LenProperties
    <3>3. Len(s) <= w.event_capacity
      BY <1>1, <1>2, <2>2, <3>2 DEF WriteEvents
    <3>4. Appended(w, ev) = [w EXCEPT !.buffers[WriteIndex(w)] = s]
      BY <1>1, <2>2 DEF Appended, World
    <3> HIDE DEF s
    <3>5. IsWorld([w EXCEPT !.buffers[WriteIndex(w)] = s], n)
      BY <1>2, <3>2, <3>3, BufferStays
    <3>6. QED
      BY <3>4, <3>5
  <2>3. QED
    BY <2>1, <2>2
<1>6. QED
  BY <1>3, <1>4, <1>5

----------------------------------------------------------------------------
(* The systems change the rows of a pool. *)
LEMMA RowsStay ==
  ASSUME NEW n \in Nat, NEW w, IsWorld(w, n), NEW p \in Pools,
         NEW t \in Seq(Seq(Values)), Len(t) = Len(w.pools[p].rows),
         \A d \in 1 .. Len(t) : Len(t[d]) = Len(Columns[p])
  PROVE  IsWorld([w EXCEPT !.pools[p].rows = t], n)
<1> DEFINE q == w.pools[p]
           r == [dense |-> q.dense, rows |-> t]
<1>1. w \in World /\ q \in PoolRecords /\ IsPool(q, p)
  BY DEF IsWorld, World, PoolRecords
<1>2. [w EXCEPT !.pools[p].rows = t] = [w EXCEPT !.pools[p] = [q EXCEPT !.rows = t]]
  BY Zenon
<1>3. [q EXCEPT !.rows = t] = r
  <2> HIDE DEF q
  <2>1. QED
    BY <1>1 DEF PoolRecords
<1> HIDE DEF q
<1>4. r \in PoolRecords /\ r.dense = q.dense /\ r.rows = t
  BY <1>1 DEF PoolRecords
<1>5. Len(t) = Len(q.dense) /\ \A c, d \in 1 .. Len(q.dense) : q.dense[c] = q.dense[d] => c = d
  BY <1>1 DEF IsPool, q
<1> HIDE DEF r
<1>6. IsPool(r, p)
  BY <1>4, <1>5 DEF IsPool
<1>7. QED
  BY <1>2, <1>3, <1>4, <1>6, PoolStays

(* A row of a pool holds a value for each column. *)
LEMMA RowFacts ==
  ASSUME NEW n \in Nat, NEW w, IsWorld(w, n), NEW p \in Pools, NEW d \in DOMAIN w.pools[p].rows
  PROVE  /\ d \in 1 .. Len(w.pools[p].rows)
         /\ w.pools[p].rows[d] \in Seq(Values) /\ Len(w.pools[p].rows[d]) = Len(Columns[p])
<1>1. w.pools[p].rows \in Seq(Seq(Values)) /\ IsPool(w.pools[p], p)
  BY DEF IsWorld, World
<1>2. d \in 1 .. Len(w.pools[p].rows)
  BY <1>1, LenProperties
<1>3. QED
  BY <1>1, <1>2, ElementOfSeq DEF IsPool

(* sys_movement keeps a world one. *)
LEMMA MovedStays ==
  ASSUME NEW n \in Nat, NEW w, IsWorld(w, n)
  PROVE  IsWorld(Moved(w), n)
<1> DEFINE p == "transform"
           rows == w.pools[p].rows
           dense == w.pools[p].dense
           New(h, row) ==
              IF Has(w, "velocity", h)
                THEN LET v == Row(w, "velocity", h) IN
                     <<(row[1] + v[1]) % ValueMod, (row[2] + v[2]) % ValueMod, row[3]>>
                ELSE row
           t == [d \in DOMAIN rows |-> New(dense[d], rows[d])]
<1>1. Moved(w) = [w EXCEPT !.pools[p].rows = t]
  BY DEF Moved, MapRows
<1>2. p \in Pools /\ "velocity" \in Pools /\ Len(Columns[p]) = 3 /\ Len(Columns["velocity"]) = 2
  BY DEF Pools, Columns
<1>3. rows \in Seq(Seq(Values)) /\ DOMAIN rows = 1 .. Len(rows) /\ Len(rows) \in Nat
  <2>1. rows \in Seq(Seq(Values))
    BY <1>2 DEF IsWorld, World
  <2>2. QED
    BY <2>1, LenProperties
<1>4. \A x, y \in Values : (x + y) % ValueMod \in Values
  BY Sizes DEF Values
<1>5. ASSUME NEW h, NEW row \in Seq(Values), Len(row) = 3
      PROVE  New(h, row) \in Seq(Values) /\ Len(New(h, row)) = 3
  <2>1. row[1] \in Values /\ row[2] \in Values /\ row[3] \in Values
    <3>1. 1 \in 1 .. Len(row) /\ 2 \in 1 .. Len(row) /\ 3 \in 1 .. Len(row)
      BY <1>5
    <3>2. QED
      BY <1>5, <3>1, ElementOfSeq, Zenon
  <2>2. CASE Has(w, "velocity", h)
    <3> DEFINE v == Row(w, "velocity", h)
    <3>1. v \in Seq(Values) /\ Len(v) = 2
      BY <1>2, <2>2, MemberRow
    <3> HIDE DEF v
    <3>2. v[1] \in Values /\ v[2] \in Values
      <4>1. 1 \in 1 .. Len(v) /\ 2 \in 1 .. Len(v)
        BY <3>1
      <4>2. QED
        BY <3>1, <4>1, ElementOfSeq, Zenon
    <3> DEFINE x == (row[1] + v[1]) % ValueMod
               y == (row[2] + v[2]) % ValueMod
               z == row[3]
    <3>3. x \in Values /\ y \in Values /\ z \in Values
      BY <1>4, <2>1, <3>2
    <3>4. New(h, row) = <<x, y, z>>
      BY <2>2 DEF v
    <3> HIDE DEF x, y, z
    <3>5. <<x, y, z>> \in Seq(Values) /\ Len(<<x, y, z>>) = 3
      BY <3>3
    <3> HIDE DEF New
    <3>6. QED
      BY <3>4, <3>5
  <2>3. CASE ~Has(w, "velocity", h)
    BY <1>5, <2>3
  <2>4. QED
    BY <2>2, <2>3
<1>6. ASSUME NEW d \in 1 .. Len(rows) PROVE t[d] \in Seq(Values) /\ Len(t[d]) = 3
  <2>1. rows[d] \in Seq(Values) /\ Len(rows[d]) = 3
    BY <1>2, <1>3, RowFacts
  <2>2. t[d] = New(dense[d], rows[d])
    BY <1>3
  <2> HIDE DEF New, rows, dense, t
  <2>3. QED
    BY <1>5, <2>1, <2>2
<1>7. t \in [1 .. Len(rows) -> Seq(Values)]
  <2>1. DOMAIN t = 1 .. Len(rows) /\ t = [d \in DOMAIN t |-> t[d]]
    BY <1>3
  <2> HIDE DEF t, rows
  <2>2. QED
    BY <1>6, <2>1
<1> HIDE DEF t, rows
<1>8. t \in Seq(Seq(Values)) /\ Len(t) = Len(rows)
  BY <1>3, <1>7
<1>9. QED
  BY <1>1, <1>2, <1>6, <1>8, RowsStay DEF rows

(* sys_cooldown_tick keeps a world one. *)
LEMMA CooledStays ==
  ASSUME NEW n \in Nat, NEW w, IsWorld(w, n)
  PROVE  IsWorld(Cooled(w), n)
<1> DEFINE p == "health"
           rows == w.pools[p].rows
           t == [d \in DOMAIN rows |-> [rows[d] EXCEPT ![3] = IF @ > 0 THEN @ - 1 ELSE 0]]
<1>1. Cooled(w) = [w EXCEPT !.pools[p].rows = t]
  BY DEF Cooled, MapRows
<1>2. p \in Pools /\ Len(Columns[p]) = 3
  BY DEF Pools, Columns
<1>3. rows \in Seq(Seq(Values)) /\ DOMAIN rows = 1 .. Len(rows) /\ Len(rows) \in Nat
  <2>1. rows \in Seq(Seq(Values))
    BY <1>2 DEF IsWorld, World
  <2>2. QED
    BY <2>1, LenProperties
<1>4. ASSUME NEW row \in Seq(Values), Len(row) = 3
      PROVE  /\ [row EXCEPT ![3] = IF @ > 0 THEN @ - 1 ELSE 0] \in Seq(Values)
             /\ Len([row EXCEPT ![3] = IF @ > 0 THEN @ - 1 ELSE 0]) = 3
  <2> DEFINE x == IF row[3] > 0 THEN row[3] - 1 ELSE 0
  <2>1. row[3] \in Values
    BY <1>4, ElementOfSeq
  <2>2. x \in Values
    BY <2>1, Sizes DEF Values
  <2> HIDE DEF x
  <2>3. [row EXCEPT ![3] = x] \in Seq(Values) /\ Len([row EXCEPT ![3] = x]) = 3
    <3>1. 3 \in 1 .. Len(row)
      BY <1>4
    <3>2. QED
      <4>1. row \in Seq(Values) /\ x \in Values
        BY <1>4, <2>2
      <4>2. [row EXCEPT ![3] = x] \in Seq(Values) /\ Len([row EXCEPT ![3] = x]) = Len(row)
        BY <3>1, <4>1, ExceptSeq
      <4>3. QED
        BY <1>4, <4>2
  <2>4. QED
    BY <2>3 DEF x
<1>5. ASSUME NEW d \in 1 .. Len(rows) PROVE t[d] \in Seq(Values) /\ Len(t[d]) = 3
  <2>1. rows[d] \in Seq(Values) /\ Len(rows[d]) = 3
    BY <1>2, <1>3, RowFacts
  <2>2. t[d] = [rows[d] EXCEPT ![3] = IF @ > 0 THEN @ - 1 ELSE 0]
    BY <1>3
  <2> HIDE DEF rows, t
  <2>3. QED
    BY <1>4, <2>1, <2>2
<1>6. t \in [1 .. Len(rows) -> Seq(Values)]
  <2>1. DOMAIN t = 1 .. Len(rows) /\ t = [d \in DOMAIN t |-> t[d]]
    BY <1>3
  <2> HIDE DEF t, rows
  <2>2. QED
    BY <1>5, <2>1
<1> HIDE DEF t, rows
<1>7. t \in Seq(Seq(Values)) /\ Len(t) = Len(rows)
  BY <1>3, <1>6
<1>8. QED
  BY <1>1, <1>2, <1>5, <1>7, RowsStay DEF rows

(* A unit that is destroyed leaves its slot. *)
UnitsWithout(w, h) ==
    [w EXCEPT !.unit_entities = [u \in UnitSlots |-> IF @[u] = h THEN Null ELSE @[u]]]

(* Clearing a unit's slot leaves a world. *)
LEMMA UnitsWithoutStays ==
  ASSUME NEW n \in Nat, NEW w, IsWorld(w, n), NEW h
  PROVE  IsWorld(UnitsWithout(w, h), n)
<1> DEFINE f == [k \in UnitSlots |-> IF w.unit_entities[k] = h THEN Null ELSE w.unit_entities[k]]
           u == UnitsWithout(w, h)
<1>1. w \in World /\ w.unit_entities \in [UnitSlots -> Handles \union {Null}]
  BY DEF IsWorld, World
<1>2. f \in [UnitSlots -> Handles \union {Null}]
  BY <1>1
<1>3. u = [w EXCEPT !.unit_entities = f]
  BY <1>1 DEF UnitsWithout
<1> HIDE DEF f, u
<1>4. u \in World
  BY <1>1, <1>2, <1>3 DEF World
<1>5. /\ u.tick = w.tick /\ u.rng = w.rng /\ u.buffers = w.buffers
      /\ u.event_capacity = w.event_capacity /\ u.pools = w.pools
  BY <1>1, <1>3 DEF World
<1>6. IsWorld(u, n)
  BY <1>4, <1>5 DEF IsWorld
<1>7. QED
  BY <1>6 DEF u

(* Destroying one entity, its units and its components keeps a world one. *)
LEMMA DestroyedStays ==
  ASSUME NEW n \in Nat, NEW w, IsWorld(w, n), NEW h \in Handles
  PROVE  IsWorld(Destroyed(w, h), n)
<1> DEFINE v == Removed(Removed(Removed(w, "health", h), "velocity", h), "transform", h)
<1>1. IsWorld(v, n)
  <2>1. "health" \in Pools /\ "velocity" \in Pools /\ "transform" \in Pools
    BY DEF Pools
  <2>2. IsWorld(Removed(w, "health", h), n)
    BY <2>1, RemovedStays
  <2>3. IsWorld(Removed(Removed(w, "health", h), "velocity", h), n)
    BY <2>1, <2>2, RemovedStays
  <2>4. QED
    BY <2>1, <2>3, RemovedStays
<1>2. Destroyed(w, h) = Released(UnitsWithout(v, h), h)
  BY DEF Destroyed, UnitsWithout
<1> HIDE DEF v
<1>3. IsWorld(UnitsWithout(v, h), n)
  BY <1>1, UnitsWithoutStays
<1>4. QED
  BY <1>2, <1>3, ReleasedStays

----------------------------------------------------------------------------
(* The loop of the flush. *)
LEMMA DestroyedKeepsTick ==
  ASSUME NEW n \in Nat, NEW w, IsWorld(w, n), NEW h \in Handles
  PROVE  Destroyed(w, h).tick = w.tick
<1>1. ASSUME NEW v, IsWorld(v, n), NEW p \in Pools
      PROVE  IsWorld(Removed(v, p, h), n) /\ Removed(v, p, h).tick = v.tick
  <2>1. v \in World
    BY <1>1 DEF IsWorld
  <2>2. \A q : [v EXCEPT !.pools[p] = q].tick = v.tick
    BY <2>1 DEF World
  <2>3. Removed(v, p, h).tick = v.tick
    BY <2>2 DEF Removed
  <2>4. QED
    BY <1>1, <2>3, RemovedStays
<1> DEFINE v == Removed(Removed(Removed(w, "health", h), "velocity", h), "transform", h)
           u == [v EXCEPT !.unit_entities = [k \in UnitSlots |-> IF @[k] = h THEN Null ELSE @[k]]]
<1>2. IsWorld(v, n) /\ v.tick = w.tick
  BY <1>1, Zenon DEF Pools
<1>3. Destroyed(w, h) = Released(u, h)
  BY DEF Destroyed
<1> HIDE DEF v
<1>4. v \in World
  BY <1>2 DEF IsWorld
<1>5. u.tick = v.tick /\ u = [v EXCEPT !.unit_entities = u.unit_entities]
  BY <1>4 DEF World
<1> HIDE DEF u
<1>6. Released(u, h).tick = u.tick
  <2>1. DOMAIN u = DOMAIN v /\ "tick" \in DOMAIN v
    BY <1>4, <1>5 DEF World
  <2>2. QED
    BY <2>1 DEF Released
<1>7. QED
  BY <1>2, <1>3, <1>5, <1>6

(* The steps of the flush, one for each pending entity.                    *)
LEMMA FlushSteps ==
  ASSUME NEW n \in Nat, NEW w, IsWorld(w, n)
  PROVE  \E gone : /\ gone[0] = w
                   /\ \A k \in 1 .. Len(w.pending_destroy) :
                          gone[k] = Destroyed(gone[k - 1], w.pending_destroy[k])
                   /\ Flushed(w) = [gone[Len(w.pending_destroy)] EXCEPT !.pending_destroy = << >>]
<1> DEFINE p == w.pending_destroy
           m == Len(p)
           step == [z \in World \X (1 .. m) |-> Destroyed(z[1], p[z[2]])]
           gone == CHOOSE g : g = [k \in 0 .. m |-> IF k = 0 THEN w ELSE Destroyed(g[k - 1], p[k])]
<1>1. Flushed(w) = [gone[m] EXCEPT !.pending_destroy = << >>]
  BY DEF Flushed
<1>2. w \in World /\ p \in Seq(Handles) /\ m \in Nat
  <2>1. w \in World /\ p \in Seq(Handles)
    BY DEF IsWorld, World
  <2>2. QED
    BY <2>1, LenProperties
<1>3. \A k \in 1 .. m : p[k] \in Handles
  BY <1>2, ElementOfSeq
<1> HIDE DEF p, m
<1>4. PICK f : IsChain(f, w, step, m)
  <2> HIDE DEF step
  <2>1. QED
    BY <1>2, ChainExists
<1>5. \A k \in 0 .. m : f[k] = IF k = 0 THEN w ELSE step[<<f[k - 1], k>>]
  BY <1>4 DEF IsChain
<1>6. \A k \in 0 .. m : IsWorld(f[k], n)
  <2> DEFINE T == {k \in 0 .. m : IsWorld(f[k], n)}
  <2>1. 0 \in T
    <3>1. 0 \in 0 .. m
      BY <1>2
    <3>2. f[0] = w
      BY <1>5, <3>1
    <3> HIDE DEF step
    <3>3. QED
      BY <3>1, <3>2
  <2>2. ASSUME NEW k \in 1 .. m, k - 1 \in T PROVE k \in T
    <3>1. k \in 0 .. m /\ k # 0 /\ IsWorld(f[k - 1], n)
      BY <1>2, <2>2
    <3>2. f[k - 1] \in World
      BY <3>1 DEF IsWorld
    <3>3. f[k] = Destroyed(f[k - 1], p[k])
      BY <1>5, <3>1, <3>2
    <3>4. IsWorld(f[k], n)
      BY <1>3, <3>1, <3>3, DestroyedStays
    <3>5. QED
      BY <3>1, <3>4
  <2> HIDE DEF T
  <2>3. \A k \in 0 .. m : k \in T
    BY <1>2, <2>1, <2>2, UpTo
  <2>4. QED
    BY <2>3 DEF T
<1>7. \A k \in 1 .. m : f[k] = Destroyed(f[k - 1], p[k])
  <2>1. ASSUME NEW k \in 1 .. m PROVE f[k] = Destroyed(f[k - 1], p[k])
    <3>1. k \in 0 .. m /\ k # 0 /\ k - 1 \in 0 .. m
      BY <1>2
    <3>2. f[k - 1] \in World
      BY <1>6, <3>1 DEF IsWorld
    <3>3. QED
      BY <1>5, <3>1, <3>2
  <2>2. QED
    BY <2>1
<1>8. f = [k \in 0 .. m |-> IF k = 0 THEN w ELSE Destroyed(f[k - 1], p[k])]
  <2>1. f = [k \in 0 .. m |-> f[k]]
    BY <1>4, Zenon DEF IsChain
  <2>2. \A k \in 0 .. m : f[k] = IF k = 0 THEN w ELSE Destroyed(f[k - 1], p[k])
    <3>1. \A k \in 0 .. m : k # 0 => k \in 1 .. m
      BY <1>2
    <3>2. \A k \in 0 .. m : k = 0 => f[k] = w
      BY <1>5
    <3> HIDE DEF step
    <3>3. QED
      BY <1>7, <3>1, <3>2
  <2> HIDE DEF step
  <2>3. QED
    BY <2>1, <2>2, Zenon
<1>9. gone = [k \in 0 .. m |-> IF k = 0 THEN w ELSE Destroyed(gone[k - 1], p[k])]
  BY <1>8, Zenon
<1> HIDE DEF gone, step
<1>10. gone[0] = w /\ \A k \in 1 .. m : gone[k] = Destroyed(gone[k - 1], p[k])
  <2>0. \A k \in 0 .. m : gone[k] = IF k = 0 THEN w ELSE Destroyed(gone[k - 1], p[k])
    BY <1>9, Zenon
  <2>1. 0 \in 0 .. m /\ \A k \in 1 .. m : k \in 0 .. m /\ k # 0
    BY <1>2
  <2>2. QED
    BY <2>0, <2>1
<1>11. QED
  BY <1>1, <1>10 DEF m, p

(* The flush of all pending entities keeps a world one and does not touch  *)
(* its tick.                                                               *)
LEMMA FlushedStays ==
  ASSUME NEW n \in Nat, NEW w, IsWorld(w, n)
  PROVE  IsWorld(Flushed(w), n) /\ Flushed(w).tick = w.tick
<1> DEFINE p == w.pending_destroy
           m == Len(p)
<1>1. PICK gone : /\ gone[0] = w
                  /\ \A k \in 1 .. m : gone[k] = Destroyed(gone[k - 1], p[k])
                  /\ Flushed(w) = [gone[m] EXCEPT !.pending_destroy = << >>]
  BY FlushSteps
<1>2. w \in World /\ p \in Seq(Handles) /\ m \in Nat
  <2>1. w \in World /\ p \in Seq(Handles)
    BY DEF IsWorld, World
  <2>2. QED
    BY <2>1, LenProperties
<1>3. \A k \in 1 .. m : p[k] \in Handles
  BY <1>2, ElementOfSeq
<1> HIDE DEF p, m
<1>4. \A k \in 0 .. m : IsWorld(gone[k], n) /\ gone[k].tick = w.tick
  <2> DEFINE T == {k \in 0 .. m : IsWorld(gone[k], n) /\ gone[k].tick = w.tick}
  <2>1. 0 \in T
    BY <1>1, <1>2
  <2>2. ASSUME NEW k \in 1 .. m, k - 1 \in T PROVE k \in T
    <3>1. k \in 0 .. m /\ k # 0 /\ IsWorld(gone[k - 1], n) /\ gone[k - 1].tick = w.tick
      BY <1>2, <2>2
    <3>2. gone[k] = Destroyed(gone[k - 1], p[k])
      BY <1>1, <3>1
    <3>3. IsWorld(gone[k], n) /\ gone[k].tick = w.tick
      BY <1>3, <3>1, <3>2, DestroyedStays, DestroyedKeepsTick
    <3>4. QED
      BY <3>1, <3>3
  <2> HIDE DEF T
  <2>3. \A k \in 0 .. m : k \in T
    BY <1>2, <2>1, <2>2, UpTo
  <2>4. QED
    BY <2>3 DEF T
<1> DEFINE x == gone[m]
           v == [x EXCEPT !.pending_destroy = << >>]
<1>5. IsWorld(x, n) /\ x.tick = w.tick
  BY <1>2, <1>4
<1> HIDE DEF x
<1>6. x \in World /\ << >> \in Seq(Handles)
  BY <1>5, EmptySeq DEF IsWorld
<1>7. v \in World
  BY <1>6 DEF World
<1>8. /\ v.tick = x.tick /\ v.rng = x.rng /\ v.buffers = x.buffers
       /\ v.event_capacity = x.event_capacity /\ v.pools = x.pools
  BY <1>6 DEF World
<1>9. Flushed(w) = v
  BY <1>1 DEF x
<1> HIDE DEF v
<1>10. QED
  BY <1>5, <1>7, <1>8, <1>9 DEF IsWorld

(* sim_tick keeps a world one, one tick on. *)
LEMMA TickedStays ==
  ASSUME NEW n \in Nat, NEW w, IsWorld(w, n)
  PROVE  IsWorld(WorldTicked(w), n + 1)
<1>0. IsWorld(w, n + 1)
  <2>1. w.tick \in Nat /\ w.tick <= n /\ w.rng \in Nat /\ w.rng <= n
    BY DEF IsWorld, World
  <2>2. w.tick <= n + 1 /\ w.rng <= n + 1
    BY <2>1
  <2>3. QED
    BY <2>2 DEF IsWorld
<1>1. CASE ~TickAccepted(w)
  BY <1>0, <1>1 DEF WorldTicked
<1>2. CASE TickAccepted(w)
  <2> DEFINE u == Cooled(EventsPublished(Moved(w)))
             v == [u EXCEPT !.rng = @ + 1]
             done == Flushed(v)
             t == [done EXCEPT !.tick = @ + 1]
  <2>1. WorldTicked(w) = t
    BY <1>2 DEF WorldTicked
  <2>2. IsWorld(u, n)
    BY MovedStays, EventCallsStay, CooledStays
  <2> HIDE DEF u
  <2>3. u \in World /\ u.tick \in Nat /\ u.tick <= n /\ u.rng \in Nat /\ u.rng <= n
    BY <2>2 DEF IsWorld, World
  <2>4. v \in World /\ v.tick = u.tick /\ v.rng = u.rng + 1
    <3>1. u.rng + 1 \in Nat
      BY <2>3
    <3>2. \A z \in Nat : LET y == [u EXCEPT !.rng = z] IN y \in World /\ y.tick = u.tick /\ y.rng = z
      BY <2>3 DEF World
    <3>3. QED
      BY <3>1, <3>2
  <2>5. v.buffers = u.buffers /\ v.event_capacity = u.event_capacity /\ v.pools = u.pools
    BY <2>3 DEF World
  <2> HIDE DEF v
  <2>6. IsWorld(v, n + 1)
    BY <2>2, <2>3, <2>4, <2>5 DEF IsWorld
  <2>7. IsWorld(done, n + 1) /\ done.tick = v.tick
    BY <2>6, FlushedStays
  <2> HIDE DEF done
  <2>8. done \in World /\ done.tick \in Nat /\ done.tick <= n
    BY <2>3, <2>4, <2>7 DEF IsWorld
  <2>9. t \in World /\ t.tick = done.tick + 1
    <3>1. done.tick + 1 \in Nat
      BY <2>8
    <3>2. \A z \in Nat : LET y == [done EXCEPT !.tick = z] IN y \in World /\ y.tick = z
      BY <2>8 DEF World
    <3>3. QED
      BY <3>1, <3>2
  <2>10. /\ t.rng = done.rng /\ t.buffers = done.buffers
         /\ t.event_capacity = done.event_capacity /\ t.pools = done.pools
    BY <2>8 DEF World
  <2> HIDE DEF t
  <2>11. IsWorld(t, n + 1)
    BY <2>7, <2>8, <2>9, <2>10 DEF IsWorld
  <2>12. QED
    BY <2>1, <2>11
<1>3. QED
  BY <1>1, <1>2

----------------------------------------------------------------------------
(* The initial worlds. *)

(* A slot that was never issued is as it was at the start. *)
UnissuedClear(w) ==
    \A i \in Slots : w.next_fresh <= i => w.generations[i] = 0 /\ w.liveness[i] = 0

(* The world before its units are made. *)
LEMMA EmptyIsWorld ==
  ASSUME NEW capacity \in EventCapacities
  PROVE  /\ IsWorld(EmptyWorld(capacity), 0) /\ UnissuedClear(EmptyWorld(capacity))
         /\ EmptyWorld(capacity).free_count = 0 /\ EmptyWorld(capacity).next_fresh = 0
<1> DEFINE w == EmptyWorld(capacity)
<1>1. /\ capacity \in Words /\ capacity \in Nat
      /\ MaxEntities \in Nat \ {0} /\ GenMax \in Nat \ {0}
  BY StateDiffAssumption, WordLimits, Sizes DEF Words
<1>2. /\ [i \in Slots |-> 0] \in [Slots -> 0 .. GenMax] /\ [i \in Slots |-> 0] \in [Slots -> {0, 1}]
      /\ [k \in 1 .. MaxEntities |-> 0] \in [1 .. MaxEntities -> Slots]
      /\ [u \in UnitSlots |-> Null] \in [UnitSlots -> Handles \union {Null}]
  BY <1>1 DEF Slots
<1>3. << >> \in Seq(Handles) /\ << >> \in Seq(Seq(Values)) /\ << >> \in Seq(DamageEvents) /\ Len(<< >>) = 0
  BY EmptySeq
<1>4. /\ << << >>, << >> >> \in [1 .. 2 -> Seq(DamageEvents)]
      /\ \A b \in 1 .. 2 : << << >>, << >> >>[b] = << >>
  <2> DEFINE x == << >>
  <2>1. x \in Seq(DamageEvents)
    BY <1>3
  <2> HIDE DEF x
  <2>2. <<x, x>> \in [1 .. 2 -> Seq(DamageEvents)] /\ \A b \in 1 .. 2 : <<x, x>>[b] = x
    BY <2>1
  <2>3. QED
    BY <2>2 DEF x
<1> DEFINE q == [dense |-> << >>, rows |-> << >>]
<1>5. q \in PoolRecords /\ \A p \in Pools : IsPool(q, p)
  BY <1>3 DEF PoolRecords, IsPool
<1>6. [p \in Pools |-> q] \in [Pools -> PoolRecords]
  BY <1>5
<1>7. w \in World
  <2>1. World = [event_capacity : Words, tick : Nat, rng : Nat,
             generations : [Slots -> 0 .. GenMax], liveness : [Slots -> {0, 1}],
             free_stack : [1 .. MaxEntities -> Slots], next_fresh : 0 .. MaxEntities,
             live_count : Int, free_count : Nat,
             unit_entities : [UnitSlots -> Handles \union {Null}], pending_destroy : Seq(Handles),
             buffers : [1 .. 2 -> Seq(DamageEvents)], read_index : {1, 2},
             pools : [Pools -> PoolRecords]]
    BY DEF World, PoolRecords
  <2>2. 0 \in 0 .. MaxEntities
    BY <1>1
  <2> DEFINE buffers == << << >>, << >> >>
             pools == [p \in Pools |-> q]
  <2>3. buffers \in [1 .. 2 -> Seq(DamageEvents)] /\ pools \in [Pools -> PoolRecords]
    BY <1>4, <1>6
  <2>4. w = [event_capacity |-> capacity, tick |-> 0, rng |-> 0,
             generations |-> [i \in Slots |-> 0], liveness |-> [i \in Slots |-> 0],
             free_stack |-> [k \in 1 .. MaxEntities |-> 0], next_fresh |-> 0,
             live_count |-> 0, free_count |-> 0,
             unit_entities |-> [u \in UnitSlots |-> Null], pending_destroy |-> << >>,
             buffers |-> buffers, read_index |-> 1, pools |-> pools]
    BY DEF EmptyWorld
  <2> HIDE DEF buffers, pools, w
  <2>5. QED
    BY <1>1, <1>2, <1>3, <2>1, <2>2, <2>3, <2>4
<1>8. /\ w.tick = 0 /\ w.rng = 0 /\ w.free_count = 0 /\ w.next_fresh = 0
      /\ w.event_capacity = capacity
      /\ \A b \in 1 .. 2 : w.buffers[b] = << >>
      /\ \A p \in Pools : w.pools[p] = q
  <2>1. w.buffers = << << >>, << >> >> /\ w.pools = [p \in Pools |-> q]
    BY DEF EmptyWorld
  <2>2. QED
    BY <1>4, <2>1 DEF EmptyWorld
<1>9. (\A b \in 1 .. 2 : Len(w.buffers[b]) <= w.event_capacity) /\ \A p \in Pools : IsPool(w.pools[p], p)
  BY <1>1, <1>3, <1>5, <1>8
<1>10. UnissuedClear(w)
  BY DEF EmptyWorld, UnissuedClear
<1> HIDE DEF w
<1>11. QED
  BY <1>7, <1>8, <1>9, <1>10 DEF IsWorld, w

(* Adding a component leaves the entities alone. *)
LEMMA AddedKeeps ==
  ASSUME NEW n \in Nat, NEW w, IsWorld(w, n), NEW p \in Pools, NEW h, NEW row
  PROVE  LET v == Added(w, p, h, row) IN
         /\ v.free_count = w.free_count /\ v.next_fresh = w.next_fresh
         /\ v.generations = w.generations /\ v.liveness = w.liveness
<1>1. w \in World
  BY DEF IsWorld
<1>2. \A q : LET v == [w EXCEPT !.pools[p] = q] IN
             /\ v.free_count = w.free_count /\ v.next_fresh = w.next_fresh
             /\ v.generations = w.generations /\ v.liveness = w.liveness
  BY <1>1 DEF World
<1> DEFINE v == [w EXCEPT !.pools[p] = [dense |-> Append(@.dense, h), rows |-> Append(@.rows, row)]]
<1>3. /\ v.free_count = w.free_count /\ v.next_fresh = w.next_fresh
      /\ v.generations = w.generations /\ v.liveness = w.liveness
  BY <1>2
<1>4. Added(w, p, h, row) = w \/ Added(w, p, h, row) = v
  BY DEF Added
<1> HIDE DEF v
<1>5. QED
  BY <1>3, <1>4

(* A unit spawned by sim_init keeps a world one, takes the next fresh slot *)
(* and frees none.                                                         *)
LEMMA WithUnitStays ==
  ASSUME NEW n \in Nat, NEW w, IsWorld(w, n), w.free_count = 0, w.next_fresh < MaxEntities, NEW u \in UnitSlots
  PROVE  /\ IsWorld(WithUnit(w, u), n) /\ (UnissuedClear(w) => UnissuedClear(WithUnit(w, u)))
         /\ WithUnit(w, u).free_count = 0 /\ WithUnit(w, u).next_fresh = w.next_fresh + 1
<1> DEFINE made == Created(w)
           i == CreateSlot(w)
           h == EntityAt(made, i)
           w1 == Added(made, "transform", h, <<0, 0, 0>>)
           w2 == Added(w1, "velocity", h, <<0, 0>>)
           w3 == Added(w2, "health", h, <<ValueMod - 1, ValueMod - 1, 0>>)
           v == [w3 EXCEPT !.unit_entities[u] = h]
<1>1. WithUnit(w, u) = v
  BY DEF WithUnit
<1>2. /\ w \in World /\ w.next_fresh \in 0 .. MaxEntities /\ w.generations \in [Slots -> 0 .. GenMax]
      /\ MaxEntities \in Nat \ {0} /\ GenMax \in Nat \ {0} /\ ValueMod \in Nat \ {0}
  BY Sizes DEF IsWorld, World
<1>3. i = w.next_fresh /\ i \in Slots
  BY <1>2 DEF CreateSlot, Slots
<1>4. /\ made.generations[i] \in 1 .. GenMax
      /\ made.free_count = 0 /\ made.next_fresh = w.next_fresh + 1
      /\ UnissuedClear(w) => UnissuedClear(made)
  <2>1. ~CreateRefused(w)
    BY <1>2 DEF CreateRefused
  <2> DEFINE x == IF w.generations[i] = 0 THEN 1 ELSE w.generations[i]
  <2>2. made = [w EXCEPT !.free_count = IF @ > 0 THEN @ - 1 ELSE 0,
                         !.next_fresh = IF w.free_count > 0 THEN @ ELSE @ + 1,
                         !.generations[i] = x,
                         !.liveness[i] = 1,
                         !.live_count = @ + 1]
    BY <2>1 DEF Created
  <2>3. x \in 1 .. GenMax
    BY <1>2, <1>3
  <2> HIDE DEF x, made, i
  <2>4. /\ made.generations = [w.generations EXCEPT ![i] = x]
        /\ made.liveness = [w.liveness EXCEPT ![i] = 1]
        /\ made.free_count = (IF w.free_count > 0 THEN w.free_count - 1 ELSE 0)
        /\ made.next_fresh = (IF w.free_count > 0 THEN w.next_fresh ELSE w.next_fresh + 1)
    BY <1>2, <2>2 DEF World
  <2>5. made.next_fresh = w.next_fresh + 1
    BY <1>2, <2>4
  <2>6. UnissuedClear(w) => UnissuedClear(made)
    <3> SUFFICES ASSUME UnissuedClear(w), NEW s \in Slots, made.next_fresh <= s
                 PROVE  made.generations[s] = 0 /\ made.liveness[s] = 0
      BY DEF UnissuedClear
    <3>1. s # i /\ w.next_fresh <= s /\ s \in Int
      BY <1>2, <1>3, <2>5 DEF Slots
    <3>2. w.generations[s] = 0 /\ w.liveness[s] = 0
      BY <3>1 DEF UnissuedClear
    <3>3. w.generations \in [Slots -> 0 .. GenMax] /\ w.liveness \in [Slots -> {0, 1}]
      BY DEF IsWorld, World
    <3>4. QED
      BY <2>4, <3>1, <3>2, <3>3
  <2>7. QED
    BY <1>2, <1>3, <2>3, <2>4, <2>6
<1>5. IsWorld(made, n)
  BY CreatedStays
<1> HIDE DEF made, i
<1>6. h \in Handles
  BY <1>3, <1>4 DEF EntityAt, Handles
<1> HIDE DEF h
<1>7. /\ "transform" \in Pools /\ "velocity" \in Pools /\ "health" \in Pools
      /\ Len(Columns["transform"]) = 3 /\ Len(Columns["velocity"]) = 2 /\ Len(Columns["health"]) = 3
  BY DEF Pools, Columns
<1>8. 0 \in Values /\ ValueMod - 1 \in Values
  BY <1>2 DEF Values
<1>9. /\ <<0, 0, 0>> \in Seq(Values) /\ Len(<<0, 0, 0>>) = 3
      /\ <<0, 0>> \in Seq(Values) /\ Len(<<0, 0>>) = 2
      /\ <<ValueMod - 1, ValueMod - 1, 0>> \in Seq(Values) /\ Len(<<ValueMod - 1, ValueMod - 1, 0>>) = 3
  <2> DEFINE z == ValueMod - 1
  <2>1. z \in Values
    BY <1>8
  <2> HIDE DEF z
  <2>2. /\ <<0, 0, 0>> \in Seq(Values) /\ Len(<<0, 0, 0>>) = 3
        /\ <<0, 0>> \in Seq(Values) /\ Len(<<0, 0>>) = 2
        /\ <<z, z, 0>> \in Seq(Values) /\ Len(<<z, z, 0>>) = 3
    BY <1>8, <2>1
  <2>3. QED
    BY <2>2 DEF z
<1>10. /\ IsWorld(w1, n) /\ w1.free_count = made.free_count /\ w1.next_fresh = made.next_fresh
       /\ w1.generations = made.generations /\ w1.liveness = made.liveness
  <2> DEFINE row == <<0, 0, 0>>
             p == "transform"
  <2>1. row \in Seq(Values) /\ Len(row) = Len(Columns[p]) /\ p \in Pools
    BY <1>7, <1>9
  <2>2. w1 = Added(made, p, h, row)
    OBVIOUS
  <2> HIDE DEF row, p, w1
  <2>3. IsWorld(w1, n)
    BY <1>5, <1>6, <1>7, <1>9, <2>1, <2>2, AddedStays
  <2>4. /\ w1.free_count = made.free_count /\ w1.next_fresh = made.next_fresh
        /\ w1.generations = made.generations /\ w1.liveness = made.liveness
    BY <1>5, <1>6, <1>7, <1>9, <2>1, <2>2, AddedKeeps
  <2>5. QED
    BY <1>5, <1>6, <1>7, <1>9, <2>3, <2>4
<1> HIDE DEF w1
<1>11. /\ IsWorld(w2, n) /\ w2.free_count = made.free_count /\ w2.next_fresh = made.next_fresh
       /\ w2.generations = made.generations /\ w2.liveness = made.liveness
  <2> DEFINE row == <<0, 0>>
             p == "velocity"
  <2>1. row \in Seq(Values) /\ Len(row) = Len(Columns[p]) /\ p \in Pools
    BY <1>7, <1>9
  <2>2. w2 = Added(w1, p, h, row)
    OBVIOUS
  <2> HIDE DEF row, p, w2
  <2>3. IsWorld(w2, n)
    BY <1>6, <1>7, <1>9, <1>10, <2>1, <2>2, AddedStays
  <2>4. /\ w2.free_count = w1.free_count /\ w2.next_fresh = w1.next_fresh
        /\ w2.generations = w1.generations /\ w2.liveness = w1.liveness
    BY <1>6, <1>7, <1>9, <1>10, <2>1, <2>2, AddedKeeps
  <2>5. QED
    BY <1>6, <1>7, <1>9, <1>10, <2>3, <2>4
<1> HIDE DEF w2
<1>12. /\ IsWorld(w3, n) /\ w3.free_count = made.free_count /\ w3.next_fresh = made.next_fresh
       /\ w3.generations = made.generations /\ w3.liveness = made.liveness
  <2> DEFINE row == <<ValueMod - 1, ValueMod - 1, 0>>
             p == "health"
  <2>1. row \in Seq(Values) /\ Len(row) = Len(Columns[p]) /\ p \in Pools
    BY <1>7, <1>9
  <2>2. w3 = Added(w2, p, h, row)
    OBVIOUS
  <2> HIDE DEF row, p, w3
  <2>3. IsWorld(w3, n)
    BY <1>6, <1>7, <1>9, <1>11, <2>1, <2>2, AddedStays
  <2>4. /\ w3.free_count = w2.free_count /\ w3.next_fresh = w2.next_fresh
        /\ w3.generations = w2.generations /\ w3.liveness = w2.liveness
    BY <1>6, <1>7, <1>9, <1>11, <2>1, <2>2, AddedKeeps
  <2>5. QED
    BY <1>6, <1>7, <1>9, <1>11, <2>3, <2>4
<1> HIDE DEF w3
<1>13. w3 \in World /\ w3.unit_entities \in [UnitSlots -> Handles \union {Null}]
  BY <1>12 DEF IsWorld, World
<1>14. v.unit_entities = [w3.unit_entities EXCEPT ![u] = h]
  BY <1>13 DEF World
<1>15. v.unit_entities \in [UnitSlots -> Handles \union {Null}]
  BY <1>6, <1>13, <1>14
<1>16. v \in World
  BY <1>13, <1>15, ZenonT(30) DEF World
<1>17. /\ v.tick = w3.tick /\ v.rng = w3.rng /\ v.buffers = w3.buffers
       /\ v.event_capacity = w3.event_capacity /\ v.pools = w3.pools
       /\ v.free_count = w3.free_count /\ v.next_fresh = w3.next_fresh
       /\ v.generations = w3.generations /\ v.liveness = w3.liveness
  BY <1>13 DEF World
<1> HIDE DEF v
<1>18. IsWorld(v, n)
  BY <1>12, <1>16, <1>17 DEF IsWorld
<1>19. UnissuedClear(made) => UnissuedClear(v)
  BY <1>12, <1>17 DEF UnissuedClear
<1>20. QED
  BY <1>1, <1>4, <1>12, <1>17, <1>18, <1>19

(* sim_init leaves a world. *)
LEMMA InitialisedIsWorld ==
  ASSUME NEW capacity \in EventCapacities
  PROVE  /\ IsWorld(Initialised(capacity), 0)
         /\ Initialised(capacity).free_count = 0 /\ UnissuedClear(Initialised(capacity))
<1> DEFINE m == UnitCount
           bare == EmptyWorld(capacity)
           step == [z \in World \X (1 .. m) |-> WithUnit(z[1], z[2] - 1)]
           with == CHOOSE g : g = [k \in 0 .. m |-> IF k = 0 THEN bare ELSE WithUnit(g[k - 1], k - 1)]
           Good(x, k) == IsWorld(x, 0) /\ x.free_count = 0 /\ x.next_fresh = k /\ UnissuedClear(x)
<1>1. Initialised(capacity) = with[m]
  BY DEF Initialised
<1>2. m \in Nat /\ m <= MaxEntities /\ MaxEntities \in Nat /\ \A k \in 1 .. m : k - 1 \in UnitSlots
  BY StateDiffAssumption DEF UnitSlots
<1>3. Good(bare, 0)
  BY EmptyIsWorld
<1>4. ASSUME NEW k \in 1 .. m, NEW x, Good(x, k - 1)
      PROVE  Good(WithUnit(x, k - 1), k)
  <2>1. k - 1 \in UnitSlots /\ k - 1 < MaxEntities /\ (k - 1) + 1 = k
    BY <1>2
  <2>2. QED
    BY <1>4, <2>1, WithUnitStays
<1>5. \A x, k : Good(x, k) => x \in World
  BY DEF IsWorld
<1> HIDE DEF bare, m, Good
<1>6. PICK f : IsChain(f, bare, step, m)
  <2> HIDE DEF step
  <2>1. QED
    BY <1>2, ChainExists
<1>7. \A k \in 0 .. m : f[k] = IF k = 0 THEN bare ELSE step[<<f[k - 1], k>>]
  BY <1>6 DEF IsChain
<1>8. \A k \in 0 .. m : Good(f[k], k)
  <2> DEFINE T == {k \in 0 .. m : Good(f[k], k)}
  <2>1. 0 \in T
    <3>1. 0 \in 0 .. m
      BY <1>2
    <3>2. f[0] = bare
      BY <1>7, <3>1
    <3> HIDE DEF step
    <3>3. QED
      BY <1>3, <3>1, <3>2
  <2>2. ASSUME NEW k \in 1 .. m, k - 1 \in T PROVE k \in T
    <3>1. k \in 0 .. m /\ k # 0 /\ Good(f[k - 1], k - 1)
      BY <1>2, <2>2
    <3>2. f[k - 1] \in World
      BY <1>5, <3>1
    <3>3. f[k] = WithUnit(f[k - 1], k - 1)
      BY <1>7, <3>1, <3>2
    <3>4. Good(f[k], k)
      BY <1>4, <3>1, <3>3
    <3>5. QED
      BY <3>1, <3>4
  <2> HIDE DEF T
  <2>3. \A k \in 0 .. m : k \in T
    BY <1>2, <2>1, <2>2, UpTo
  <2>4. QED
    BY <2>3 DEF T
<1>9. \A k \in 1 .. m : f[k] = WithUnit(f[k - 1], k - 1)
  <2>1. ASSUME NEW k \in 1 .. m PROVE f[k] = WithUnit(f[k - 1], k - 1)
    <3>1. k \in 0 .. m /\ k # 0 /\ k - 1 \in 0 .. m
      BY <1>2
    <3>2. f[k - 1] \in World
      BY <1>5, <1>8, <3>1
    <3>3. QED
      BY <1>7, <3>1, <3>2
  <2>2. QED
    BY <2>1
<1>10. f = [k \in 0 .. m |-> IF k = 0 THEN bare ELSE WithUnit(f[k - 1], k - 1)]
  <2>1. f = [k \in 0 .. m |-> f[k]]
    BY <1>6, Zenon DEF IsChain
  <2>2. \A k \in 0 .. m : f[k] = IF k = 0 THEN bare ELSE WithUnit(f[k - 1], k - 1)
    <3>1. \A k \in 0 .. m : k # 0 => k \in 1 .. m
      BY <1>2
    <3>2. \A k \in 0 .. m : k = 0 => f[k] = bare
      BY <1>7
    <3> HIDE DEF step
    <3>3. QED
      BY <1>9, <3>1, <3>2
  <2> HIDE DEF step
  <2>3. QED
    BY <2>1, <2>2, Zenon
<1>11. with = [k \in 0 .. m |-> IF k = 0 THEN bare ELSE WithUnit(with[k - 1], k - 1)]
  BY <1>10, Zenon
<1> HIDE DEF with, step
<1>12. \A k \in 0 .. m : Good(with[k], k)
  <2> DEFINE T == {k \in 0 .. m : Good(with[k], k)}
  <2>0. \A k \in 0 .. m : with[k] = IF k = 0 THEN bare ELSE WithUnit(with[k - 1], k - 1)
    BY <1>11, Zenon
  <2>1. 0 \in T
    BY <1>2, <1>3, <2>0
  <2>2. ASSUME NEW k \in 1 .. m, k - 1 \in T PROVE k \in T
    <3>1. k \in 0 .. m /\ k # 0 /\ Good(with[k - 1], k - 1)
      BY <1>2, <2>2
    <3>2. with[k] = WithUnit(with[k - 1], k - 1)
      BY <2>0, <3>1
    <3>3. QED
      BY <1>4, <3>1, <3>2
  <2> HIDE DEF T
  <2>3. \A k \in 0 .. m : k \in T
    BY <1>2, <2>1, <2>2, UpTo
  <2>4. QED
    BY <2>3 DEF T
<1>13. Good(with[m], m)
  BY <1>2, <1>12
<1>14. QED
  BY <1>1, <1>13 DEF Good

(* The largest event capacity is one of those there are. *)
LEMMA MostEventsThere ==
  ASSUME EventCapacities # {}
  PROVE  MostEvents \in EventCapacities
<1>1. EventCapacities \subseteq 1 .. Limit32 - 1 /\ Limit32 \in Nat
  BY StateDiffAssumption, WordLimits
<1> DEFINE T == {k \in Nat : \E c \in EventCapacities : c + k = Limit32}
<1>2. \A c \in EventCapacities : c \in Nat /\ Limit32 - c \in T
  BY <1>1
<1>3. PICK k \in T : \A l \in T : k <= l
  <2>1. T \in SUBSET Nat /\ T # {}
    BY <1>2
  <2> HIDE DEF T
  <2>2. QED
    BY <2>1, LeastElement
<1>4. PICK c \in EventCapacities : c + k = Limit32 /\ k \in Nat
  BY <1>3
<1>5. \A d \in EventCapacities : d <= c
  <2>1. ASSUME NEW d \in EventCapacities PROVE d <= c
    <3>1. k <= Limit32 - d /\ d \in Nat /\ c \in Nat
      BY <1>2, <1>3
    <3> HIDE DEF T
    <3>2. QED
      BY <1>1, <1>4, <3>1
  <2>2. QED
    BY <2>1
<1> HIDE DEF T
<1>6. \E x \in EventCapacities : \A d \in EventCapacities : d <= x
  BY <1>5
<1>7. QED
  BY <1>6 DEF MostEvents

(* Every call keeps a world one. *)
LEMMA OutcomeStays ==
  ASSUME NEW n \in Nat, NEW w, IsWorld(w, n), NEW call \in Calls
  PROVE  IsWorld(Outcome(w, call), n + 1)
<1>1. \A v : IsWorld(v, n) => IsWorld(v, n + 1)
  <2>1. ASSUME NEW v, IsWorld(v, n) PROVE IsWorld(v, n + 1)
    <3>1. v.tick \in Nat /\ v.tick <= n /\ v.rng \in Nat /\ v.rng <= n
      BY <2>1 DEF IsWorld, World
    <3>2. v.tick <= n + 1 /\ v.rng <= n + 1
      BY <3>1
    <3>3. QED
      BY <2>1, <3>2 DEF IsWorld
  <2>2. QED
    BY <2>1
<1>2. \/ call \in [op : {"create", "publish", "consume", "tick"}]
      \/ call \in [op : {"release", "destroy"}, entity : Handles]
      \/ call \in [op : {"add", "remove"}, pool : Pools, entity : Handles]
      \/ \E p \in Pools : call \in [op : {"write"}, pool : {p}, entity : Handles,
                                    column : DOMAIN Columns[p], value : 0 .. ValueMod - 1]
      \/ call \in [op : {"append"}, event : DamageEvents]
  BY Zenon DEF Calls
<1>3. CASE call \in [op : {"create", "publish", "consume", "tick"}]
  <2>1. call.op \in {"create", "publish", "consume", "tick"}
    BY <1>3
  <2>2. CASE call.op = "create"
    BY <1>1, <2>2, CreatedStays DEF Outcome
  <2>3. CASE call.op = "publish"
    BY <1>1, <2>3, EventCallsStay DEF Outcome
  <2>4. CASE call.op = "consume"
    BY <1>1, <2>4, EventCallsStay DEF Outcome
  <2>5. CASE call.op = "tick"
    BY <2>5, TickedStays DEF Outcome
  <2>6. QED
    BY <2>1, <2>2, <2>3, <2>4, <2>5
<1>4. CASE call \in [op : {"release", "destroy"}, entity : Handles]
  <2>1. call.op \in {"release", "destroy"} /\ call.entity \in Handles
    BY <1>4
  <2>2. CASE call.op = "release"
    BY <1>1, <2>1, <2>2, ReleasedStays DEF Outcome
  <2>3. CASE call.op = "destroy"
    BY <1>1, <2>1, <2>3, RequestedStays DEF Outcome
  <2>4. QED
    BY <2>1, <2>2, <2>3
<1>5. CASE call \in [op : {"add", "remove"}, pool : Pools, entity : Handles]
  <2>1. call.op \in {"add", "remove"} /\ call.pool \in Pools /\ call.entity \in Handles
    BY <1>5
  <2>2. CASE call.op = "add"
    <3> DEFINE m == Len(Columns[call.pool])
               row == [c \in 1 .. m |-> 0]
    <3>1. m \in Nat
      BY <2>1, PoolNames
    <3>2. 0 \in Values
      BY Sizes DEF Values
    <3> HIDE DEF m
    <3>3. row \in Seq(Values) /\ Len(row) = m
      BY <3>1, <3>2
    <3> HIDE DEF row
    <3>4. IsWorld(Added(w, call.pool, call.entity, row), n)
      BY <2>1, <3>3, AddedStays DEF m
    <3>5. Outcome(w, call) = Added(w, call.pool, call.entity, row)
      BY <2>2 DEF Outcome, row, m
    <3>6. QED
      BY <1>1, <3>4, <3>5
  <2>3. CASE call.op = "remove"
    BY <1>1, <2>1, <2>3, RemovedStays DEF Outcome
  <2>4. QED
    BY <2>1, <2>2, <2>3
<1>6. ASSUME NEW p \in Pools, call \in [op : {"write"}, pool : {p}, entity : Handles,
                                        column : DOMAIN Columns[p], value : 0 .. ValueMod - 1]
      PROVE  IsWorld(Outcome(w, call), n + 1)
  <2>1. /\ call.op = "write" /\ call.pool = p /\ call.entity \in Handles
        /\ call.column \in DOMAIN Columns[p] /\ call.value \in Values
    BY <1>6 DEF Values
  <2>2. Outcome(w, call) = Written(w, p, call.entity, call.column, call.value)
    BY <2>1 DEF Outcome
  <2>3. IsWorld(Written(w, p, call.entity, call.column, call.value), n)
    BY <2>1, WrittenStays
  <2>4. QED
    BY <1>1, <2>2, <2>3
<1>7. CASE call \in [op : {"append"}, event : DamageEvents]
  <2>1. call.op = "append" /\ call.event \in DamageEvents
    BY <1>7
  <2>2. QED
    BY <1>1, <2>1, EventCallsStay DEF Outcome
<1>8. QED
  BY <1>2, <1>3, <1>4, <1>5, <1>6, <1>7

----------------------------------------------------------------------------
(* Every reachable pair of worlds: each has the shape the code gives it,   *)
(* with a tick no later than the calls made.                               *)
WorldsInvariant ==
    /\ mix \in Mixes /\ calls \in Nat /\ calls <= mix.length
    /\ IsWorld(expected, calls) /\ IsWorld(actual, calls)

(* Type correctness: after any calls both worlds have their shape, every   *)
(* handle, generation, count and value in the width it is hashed in, each  *)
(* pool without a member twice and with as many rows as members.           *)
THEOREM WorldsStay == WorldsSpec => []WorldsInvariant
<1>1. WorldsInit => WorldsInvariant
  <2> SUFFICES ASSUME WorldsInit PROVE WorldsInvariant
    OBVIOUS
  <2>1. mix \in Mixes /\ calls = 0 /\ mix.length \in Nat
    BY StateDiffAssumption, WordLimits DEF WorldsInit
  <2>2. PICK capacity \in EventCapacities : actual = Initialised(capacity)
    BY DEF WorldsInit
  <2>3. MostEvents \in EventCapacities /\ expected = Initialised(MostEvents)
    BY <2>2, MostEventsThere DEF WorldsInit
  <2>4. QED
    BY <2>1, <2>2, <2>3, InitialisedIsWorld DEF WorldsInvariant
<1>2. WorldsInvariant /\ [WorldsNext]_worlds => WorldsInvariant'
  <2> SUFFICES ASSUME WorldsInvariant, [WorldsNext]_worlds PROVE WorldsInvariant'
    OBVIOUS
  <2>1. CASE WorldsNext
    <3>1. /\ calls < mix.length /\ calls' = calls + 1 /\ mix' = mix
          /\ calls \in Nat /\ mix \in Mixes /\ mix.length \in Nat
      BY <2>1, StateDiffAssumption, WordLimits DEF WorldsNext, WorldsInvariant
    <3>2. PICK call \in mix.calls : Replay(call) \/ Diverge(call)
      BY <2>1 DEF WorldsNext
    <3>3. call \in Calls
      BY <3>1, <3>2, StateDiffAssumption
    <3>4. IsWorld(expected, calls) /\ IsWorld(actual, calls)
      BY DEF WorldsInvariant
    <3>5. /\ IsWorld(Outcome(expected, call), calls + 1) /\ IsWorld(Outcome(actual, call), calls + 1)
          /\ IsWorld(expected, calls + 1) /\ IsWorld(actual, calls + 1)
      <4>1. \A v : IsWorld(v, calls) => IsWorld(v, calls + 1)
        <5>1. ASSUME NEW v, IsWorld(v, calls) PROVE IsWorld(v, calls + 1)
          <6>1. v.tick \in Nat /\ v.tick <= calls /\ v.rng \in Nat /\ v.rng <= calls
            BY <5>1 DEF IsWorld, World
          <6>2. v.tick <= calls + 1 /\ v.rng <= calls + 1
            BY <3>1, <6>1
          <6>3. QED
            BY <5>1, <6>2 DEF IsWorld
        <5>2. QED
          BY <5>1
      <4>2. QED
        BY <3>1, <3>3, <3>4, <4>1, OutcomeStays
    <3>6. IsWorld(expected', calls + 1) /\ IsWorld(actual', calls + 1)
      BY <3>2, <3>5 DEF Replay, Diverge
    <3>7. QED
      BY <3>1, <3>6 DEF WorldsInvariant
  <2>2. CASE UNCHANGED worlds
    BY <2>2 DEF worlds, WorldsInvariant
  <2>3. QED
    BY <2>1, <2>2
<1>3. QED
  BY <1>1, <1>2, PTL DEF WorldsSpec

(* Two reachable worlds that validate and that sim_hash_state hashes       *)
(* alike, byte for byte, have the same contents: every scalar, entity,     *)
(* free slot, event and component is hashed, and no two contents run       *)
(* together in the stream.                                                 *)
THEOREM HashesTellApart == WorldsSpec => []HashTellsContentsApart
<1>1. WorldsInvariant => HashTellsContentsApart
  <2> SUFFICES ASSUME WorldsInvariant, CanonicalWorld(expected), CanonicalWorld(actual)
               PROVE  Same(expected, actual) <=> Contents(expected) = Contents(actual)
    BY DEF HashTellsContentsApart
  <2>1. calls \in 0 .. Limit64 - 1
    BY StateDiffAssumption, WordLimits DEF WorldsInvariant
  <2>2. QED
    BY <2>1, HashTellsContents DEF WorldsInvariant
<1>2. QED
  BY <1>1, WorldsStay, PTL

----------------------------------------------------------------------------
(* The first difference. *)

(* The first place where the one stream holds another cell than the other. *)
ApartAt(s, t, k) ==
    /\ k \in 1 .. Len(s) /\ k \in 1 .. Len(t)
    /\ s[k] # t[k] /\ \A j \in 1 .. k - 1 : s[j] = t[j]

(* The report is right about two streams. *)
Locates(s, t, d) ==
    IF d = NoDiff THEN s = t
    ELSE /\ d.expected # d.actual
         /\ \E k \in 1 .. Len(s) :
                ApartAt(s, t, k) /\ s[k].field = d.field /\ s[k].index = d.index

(* A stream differs nowhere from itself. *)
LEMMA LocatesSame ==
  ASSUME NEW s
  PROVE  Locates(s, s, NoDiff)
BY DEF Locates

(* One after the other: the second counts only where the first is alike. *)
LEMMA LocatesBoth ==
  ASSUME NEW s1 \in Streams, NEW t1 \in Streams, NEW d1,
         NEW s2 \in Streams, NEW t2 \in Streams, NEW d2,
         Locates(s1, t1, d1), d1 = NoDiff => Locates(s2, t2, d2)
  PROVE  /\ s1 \o s2 \in Streams /\ t1 \o t2 \in Streams
         /\ Locates(s1 \o s2, t1 \o t2, d1 ?? d2)
<1>0. s1 \o s2 \in Streams /\ t1 \o t2 \in Streams
  BY ConcatProperties DEF Streams
<1>1. /\ Len(s1) \in Nat /\ Len(t1) \in Nat /\ Len(s2) \in Nat /\ Len(t2) \in Nat
  BY LenProperties DEF Streams
<1>2. \A x, y \in Streams :
        /\ Len(x \o y) = Len(x) + Len(y)
        /\ \A i \in 1 .. Len(x) + Len(y) : (x \o y)[i] = IF i <= Len(x) THEN x[i] ELSE y[i - Len(x)]
  BY ConcatProperties DEF Streams
<1>3. ASSUME d1 # NoDiff PROVE Locates(s1 \o s2, t1 \o t2, d1 ?? d2)
  <2>1. d1 ?? d2 = d1
    BY <1>3 DEF ??
  <2>2. /\ d1.expected # d1.actual
        /\ \E k \in 1 .. Len(s1) :
              ApartAt(s1, t1, k) /\ s1[k].field = d1.field /\ s1[k].index = d1.index
    BY <1>3 DEF Locates
  <2>3. PICK k \in 1 .. Len(s1) :
              ApartAt(s1, t1, k) /\ s1[k].field = d1.field /\ s1[k].index = d1.index
    BY <2>2
  <2> DEFINE s == s1 \o s2
             t == t1 \o t2
  <2>4. Len(s) = Len(s1) + Len(s2) /\ Len(t) = Len(t1) + Len(t2)
    BY <1>2
  <2>5. /\ \A i \in 1 .. Len(s1) : s[i] = s1[i]
        /\ \A i \in 1 .. Len(t1) : t[i] = t1[i]
    <3>1. /\ \A i \in 1 .. Len(s1) : i \in 1 .. Len(s1) + Len(s2) /\ i <= Len(s1)
          /\ \A i \in 1 .. Len(t1) : i \in 1 .. Len(t1) + Len(t2) /\ i <= Len(t1)
      BY <1>1
    <3>2. QED
      BY <1>2, <3>1
  <2> HIDE DEF s, t
  <2>6. /\ k \in 1 .. Len(s1) /\ k \in 1 .. Len(t1) /\ s1[k] # t1[k]
        /\ \A j \in 1 .. k - 1 : s1[j] = t1[j]
    BY <2>3 DEF ApartAt
  <2>7. /\ k \in 1 .. Len(s) /\ k \in 1 .. Len(t)
        /\ \A j \in 1 .. k - 1 : j \in 1 .. Len(s1) /\ j \in 1 .. Len(t1)
    BY <1>1, <2>4, <2>6
  <2>8. ApartAt(s, t, k) /\ s[k] = s1[k]
    BY <2>5, <2>6, <2>7 DEF ApartAt
  <2>9. Locates(s, t, d1)
    BY <1>3, <2>2, <2>3, <2>7, <2>8 DEF Locates
  <2>10. QED
    BY <2>1, <2>9 DEF s, t
<1>4. ASSUME d1 = NoDiff PROVE Locates(s1 \o s2, t1 \o t2, d1 ?? d2)
  <2>1. d1 ?? d2 = d2 /\ s1 = t1 /\ Locates(s2, t2, d2)
    BY <1>4 DEF ??, Locates
  <2>2. CASE d2 = NoDiff
    BY <2>1, <2>2 DEF Locates
  <2>3. CASE d2 # NoDiff
    <3>1. /\ d2.expected # d2.actual
          /\ \E k \in 1 .. Len(s2) :
                ApartAt(s2, t2, k) /\ s2[k].field = d2.field /\ s2[k].index = d2.index
      BY <2>1, <2>3 DEF Locates
    <3>2. PICK k \in 1 .. Len(s2) :
                ApartAt(s2, t2, k) /\ s2[k].field = d2.field /\ s2[k].index = d2.index
      BY <3>1
    <3> DEFINE s == s1 \o s2
               t == s1 \o t2
               n == Len(s1)
               c == n + k
    <3>3. Len(s) = n + Len(s2) /\ Len(t) = n + Len(t2)
      BY <1>2
    <3>4. /\ \A i \in 1 .. n : s[i] = s1[i] /\ t[i] = s1[i]
          /\ \A i \in 1 .. Len(s2) : s[n + i] = s2[i]
          /\ \A i \in 1 .. Len(t2) : t[n + i] = t2[i]
      <4>1. \A i \in 1 .. n : i \in 1 .. n + Len(s2) /\ i \in 1 .. n + Len(t2) /\ i <= n
        BY <1>1
      <4>2. \A i \in 1 .. Len(s2) : n + i \in 1 .. n + Len(s2) /\ ~(n + i <= n) /\ (n + i) - n = i
        BY <1>1
      <4>3. \A i \in 1 .. Len(t2) : n + i \in 1 .. n + Len(t2) /\ ~(n + i <= n) /\ (n + i) - n = i
        BY <1>1
      <4>4. QED
        BY <1>2, <4>1, <4>2, <4>3
    <3> HIDE DEF s, t
    <3>5. /\ k \in 1 .. Len(s2) /\ k \in 1 .. Len(t2) /\ s2[k] # t2[k]
          /\ \A j \in 1 .. k - 1 : s2[j] = t2[j]
      BY <3>2 DEF ApartAt
    <3>6. c \in 1 .. Len(s) /\ c \in 1 .. Len(t) /\ s[c] = s2[k] /\ t[c] = t2[k]
      BY <1>1, <3>3, <3>4, <3>5
    <3>7. ASSUME NEW j \in 1 .. c - 1 PROVE s[j] = t[j]
      <4>1. CASE j \in 1 .. n
        BY <3>4, <4>1
      <4>2. CASE j \notin 1 .. n
        <5> DEFINE i == j - n
        <5>1. i \in 1 .. k - 1 /\ i \in 1 .. Len(s2) /\ i \in 1 .. Len(t2) /\ j = n + i
          BY <1>1, <3>5, <4>2
        <5> HIDE DEF i
        <5>2. s[j] = s2[i] /\ t[j] = t2[i]
          BY <3>4, <5>1
        <5>3. QED
          BY <3>5, <5>1, <5>2
      <4>3. QED
        BY <4>1, <4>2
    <3> HIDE DEF c
    <3>8. ApartAt(s, t, c)
      BY <3>5, <3>6, <3>7 DEF ApartAt
    <3>9. Locates(s, t, d2)
      BY <2>3, <3>1, <3>2, <3>6, <3>8 DEF Locates
    <3>10. QED
      BY <2>1, <3>9 DEF s, t
  <2>4. QED
    BY <2>2, <2>3
<1>5. Locates(s1 \o s2, t1 \o t2, d1 ?? d2)
  BY <1>3, <1>4
<1>6. QED
  BY <1>0, <1>5

(* The cells of one value. *)
LEMMA ValueLocates ==
  ASSUME NEW s \in Streams, NEW t \in Streams, Len(s) = Len(t), NEW f, NEW i, NEW v, NEW w,
         \A k \in 1 .. Len(s) : s[k].field = f /\ s[k].index = i,
         v = w => s = t, Tells(s, t, v, w)
  PROVE  Locates(s, t, DiffAt(f, i, v, w))
<1>1. CASE v = w
  BY <1>1 DEF Locates, DiffAt
<1>2. CASE v # w
  <2> DEFINE d == Diff(f, i, v, w)
             T == {k \in 1 .. Len(s) : s[k] # t[k]}
  <2>1. DiffAt(f, i, v, w) = d /\ d.field = f /\ d.index = i /\ d.expected = v /\ d.actual = w
    BY <1>2 DEF DiffAt, Diff
  <2>2. NoDiff.expected = NoDiff.actual
    BY DEF NoDiff, Diff
  <2>3. d # NoDiff
    BY <1>2, <2>1, <2>2
  <2> HIDE DEF d
  <2>4. s # t
    <3> SUFFICES ASSUME s = t PROVE FALSE
      OBVIOUS
    <3>1. << >> \in Streams
      BY EmptySeq DEF Streams
    <3>2. Alike(s \o << >>, t \o << >>)
      BY DEF Alike
    <3>3. QED
      BY <1>2, <3>1, <3>2 DEF Tells
  <2>5. Len(s) \in Nat
    BY LenProperties DEF Streams
  <2>6. T # {}
    BY <2>4, SeqEqual DEF Streams
  <2>7. T \in SUBSET Nat
    BY <2>5
  <2> HIDE DEF T
  <2>8. PICK k \in T : \A j \in T : k <= j
    BY <2>6, <2>7, LeastElement
  <2>9. k \in 1 .. Len(s) /\ s[k] # t[k]
    BY <2>8 DEF T
  <2>10. \A j \in 1 .. k - 1 : j \in 1 .. Len(s) /\ ~(k <= j)
    BY <2>5, <2>9
  <2>11. \A j \in 1 .. k - 1 : s[j] = t[j]
    BY <2>8, <2>10 DEF T
  <2>12. ApartAt(s, t, k)
    BY <2>9, <2>11 DEF ApartAt
  <2>13. QED
    BY <1>2, <2>1, <2>3, <2>9, <2>12 DEF Locates
<1>3. QED
  BY <1>1, <1>2

(* A value of one byte is compared where it is hashed. *)
LEMMA U8Locates ==
  ASSUME NEW f \in Names, NEW i \in Int, NEW v \in 0 .. Limit8 - 1, NEW w \in 0 .. Limit8 - 1
  PROVE  Locates(U8(f, i, v), U8(f, i, w), DiffAt(f, i, v, w))
<1> DEFINE s == U8(f, i, v)
           t == U8(f, i, w)
<1>1. s \in Streams /\ t \in Streams /\ Tells(s, t, v, w)
  BY U8Tells
<1>2. Len(s) = 1 /\ Len(t) = 1 /\ \A k \in 1 .. 1 : s[k].field = f /\ s[k].index = i
  BY DEF U8, Byte
<1>3. v = w => s = t
  OBVIOUS
<1> HIDE DEF s, t
<1>4. Locates(s, t, DiffAt(f, i, v, w))
  BY <1>1, <1>2, <1>3, ValueLocates
<1>5. QED
  BY <1>4 DEF s, t

(* A value of two bytes is compared where it is hashed. *)
LEMMA U16Locates ==
  ASSUME NEW f \in Names, NEW i \in Int, NEW v \in 0 .. Limit16 - 1, NEW w \in 0 .. Limit16 - 1
  PROVE  Locates(U16(f, i, v), U16(f, i, w), DiffAt(f, i, v, w))
<1> DEFINE s == U16(f, i, v)
           t == U16(f, i, w)
<1>1. s \in Streams /\ t \in Streams /\ Tells(s, t, v, w)
  BY U16Tells
<1>2. Len(s) = 2 /\ Len(t) = 2 /\ \A k \in 1 .. 2 : s[k].field = f /\ s[k].index = i
  BY DEF U16, Byte
<1>3. v = w => s = t
  OBVIOUS
<1> HIDE DEF s, t
<1>4. Locates(s, t, DiffAt(f, i, v, w))
  BY <1>1, <1>2, <1>3, ValueLocates
<1>5. QED
  BY <1>4 DEF s, t

(* The four bytes of a value all name its field and its index. *)
LEMMA U32Cells ==
  ASSUME NEW f, NEW i, NEW v
  PROVE  /\ Len(U32(f, i, v)) = 4
         /\ \A k \in 1 .. 4 : U32(f, i, v)[k].field = f /\ U32(f, i, v)[k].index = i
BY DEF U32, Byte

(* A value of four bytes is compared where it is hashed. *)
LEMMA U32Locates ==
  ASSUME NEW f \in Names, NEW i \in Int, NEW v \in 0 .. Limit32 - 1, NEW w \in 0 .. Limit32 - 1
  PROVE  Locates(U32(f, i, v), U32(f, i, w), DiffAt(f, i, v, w))
<1> DEFINE s == U32(f, i, v)
           t == U32(f, i, w)
<1>1. s \in Streams /\ t \in Streams /\ Tells(s, t, v, w)
  BY U32Tells
<1>2. Len(s) = 4 /\ Len(t) = 4 /\ \A k \in 1 .. 4 : s[k].field = f /\ s[k].index = i
  BY U32Cells
<1>3. v = w => s = t
  OBVIOUS
<1> HIDE DEF s, t
<1>4. Locates(s, t, DiffAt(f, i, v, w))
  BY <1>1, <1>2, <1>3, ValueLocates
<1>5. QED
  BY <1>4 DEF s, t

(* A value of eight bytes is compared where it is hashed. *)
LEMMA U64Locates ==
  ASSUME NEW f \in Names, NEW v \in 0 .. Limit64 - 1, NEW w \in 0 .. Limit64 - 1
  PROVE  Locates(U64(f, v), U64(f, w), DiffScalar(f, v, w))
<1> DEFINE s == U64(f, v)
           t == U64(f, w)
<1>1. s \in Streams /\ t \in Streams /\ Tells(s, t, v, w)
  BY U64Tells
<1>2. ASSUME NEW u \in 0 .. Limit64 - 1
      PROVE  /\ Len(U64(f, u)) = 8
             /\ \A k \in 1 .. 8 : U64(f, u)[k].field = f /\ U64(f, u)[k].index = NoIndex
  <2> DEFINE x == U32(f, NoIndex, u)
             y == U32(f, NoIndex, Shifted(Shifted(Shifted(Shifted(u)))))
  <2>1. /\ Len(x) = 4 /\ \A k \in 1 .. 4 : x[k].field = f /\ x[k].index = NoIndex
        /\ Len(y) = 4 /\ \A k \in 1 .. 4 : y[k].field = f /\ y[k].index = NoIndex
    BY U32Cells
  <2>2. x \in Streams /\ y \in Streams
    <3>1. u \in Nat
      BY Limits
    <3>2. Shifted(Shifted(Shifted(Shifted(u)))) \in Nat /\ NoIndex \in Int
      BY <3>1, ByteAndRest DEF NoIndex
    <3>3. QED
      BY <3>1, <3>2, FourTell
  <2>3. U64(f, u) = x \o y
    BY DEF U64
  <2> HIDE DEF x, y
  <2>4. /\ Len(x \o y) = 4 + 4
        /\ \A k \in 1 .. 4 + 4 : (x \o y)[k] = IF k <= 4 THEN x[k] ELSE y[k - 4]
    <3>1. /\ Len(x \o y) = Len(x) + Len(y)
          /\ \A k \in 1 .. Len(x) + Len(y) : (x \o y)[k] = IF k <= Len(x) THEN x[k] ELSE y[k - Len(x)]
      BY <2>2, ConcatProperties DEF Streams
    <3>2. Len(x) = 4 /\ Len(y) = 4
      BY <2>1
    <3>3. QED
      BY <3>1, <3>2, Zenon
  <2>5. /\ \A k \in 1 .. 8 : k <= 4 => k \in 1 .. 4
        /\ \A k \in 1 .. 8 : ~(k <= 4) => k - 4 \in 1 .. 4
        /\ 4 + 4 = 8
    OBVIOUS
  <2>6. QED
    BY <2>1, <2>3, <2>4, <2>5
<1>3. Len(s) = 8 /\ Len(t) = 8 /\ \A k \in 1 .. 8 : s[k].field = f /\ s[k].index = NoIndex
  BY <1>2
<1>4. v = w => s = t
  OBVIOUS
<1> HIDE DEF s, t
<1>5. Locates(s, t, DiffAt(f, NoIndex, v, w))
  BY <1>1, <1>3, <1>4, ValueLocates
<1>6. QED
  BY <1>5 DEF s, t, DiffAt, DiffScalar

(* The first of several. *)
LEMMA FirstDiffIs ==
  ASSUME NEW n \in Nat, NEW D, DOMAIN D = 1 .. n
  PROVE  /\ (\A k \in 1 .. n : D[k] = NoDiff) => FirstDiff(D) = NoDiff
         /\ \A c \in 1 .. n : D[c] # NoDiff /\ (\A j \in 1 .. c - 1 : D[j] = NoDiff) => FirstDiff(D) = D[c]
<1> DEFINE at == {k \in DOMAIN D : D[k] # NoDiff}
<1>1. FirstDiff(D) = IF at = {} THEN NoDiff ELSE D[CHOOSE k \in at : \A j \in at : k <= j]
  BY DEF FirstDiff
<1>2. (\A k \in 1 .. n : D[k] = NoDiff) => at = {}
  OBVIOUS
<1>3. ASSUME NEW c \in 1 .. n, D[c] # NoDiff, \A j \in 1 .. c - 1 : D[j] = NoDiff
      PROVE  FirstDiff(D) = D[c]
  <2>1. c \in at
    BY <1>3
  <2>2. \A j \in at : c <= j
    <3>1. ASSUME NEW j \in at PROVE c <= j
      <4>1. j \in 1 .. n /\ D[j] # NoDiff
        OBVIOUS
      <4>2. j \notin 1 .. c - 1
        BY <1>3, <4>1
      <4>3. QED
        BY <4>1, <4>2
    <3>2. QED
      BY <3>1
  <2>3. \A k \in at : (\A j \in at : k <= j) => k = c
    <3>1. ASSUME NEW k \in at, \A j \in at : k <= j PROVE k = c
      <4>1. k <= c /\ c <= k /\ k \in 1 .. n
        BY <2>1, <2>2, <3>1
      <4>2. QED
        BY <4>1
    <3>2. QED
      BY <3>1
  <2> HIDE DEF at
  <2>4. (CHOOSE k \in at : \A j \in at : k <= j) = c
    BY <2>1, <2>2, <2>3
  <2>5. QED
    BY <1>1, <2>1, <2>4
<1>4. QED
  BY <1>1, <1>2, <1>3

(* With one more comparison the first difference is that of the ones       *)
(* before, or else the new one.                                            *)
LEMMA FirstDiffSteps ==
  ASSUME NEW n \in Nat, NEW D
  PROVE  FirstDiff([j \in 1 .. n + 1 |-> D[j]]) = FirstDiff([j \in 1 .. n |-> D[j]]) ?? D[n + 1]
<1> DEFINE A == [j \in 1 .. n |-> D[j]]
           B == [j \in 1 .. n + 1 |-> D[j]]
           T == {j \in 1 .. n : D[j] # NoDiff}
<1>1. /\ n + 1 \in Nat /\ n + 1 \in 1 .. n + 1 /\ \A j \in 1 .. n : j \in 1 .. n + 1
      /\ \A j \in 1 .. n + 1 : j \in 1 .. n \/ j = n + 1
  OBVIOUS
<1>2. /\ DOMAIN A = 1 .. n /\ \A j \in 1 .. n : A[j] = D[j]
      /\ DOMAIN B = 1 .. n + 1 /\ \A j \in 1 .. n + 1 : B[j] = D[j]
  OBVIOUS
<1> HIDE DEF A, B
<1>3. CASE T = {}
  <2>1. \A j \in 1 .. n : D[j] = NoDiff
    BY <1>3
  <2>2. FirstDiff(A) = NoDiff
    BY <1>2, <2>1, FirstDiffIs
  <2>3. FirstDiff(B) = D[n + 1]
    <3>1. CASE D[n + 1] = NoDiff
      BY <1>1, <1>2, <2>1, <3>1, FirstDiffIs
    <3>2. CASE D[n + 1] # NoDiff
      <4>1. \A j \in 1 .. (n + 1) - 1 : j \in 1 .. n
        OBVIOUS
      <4>2. B[n + 1] # NoDiff /\ \A j \in 1 .. (n + 1) - 1 : B[j] = NoDiff
        BY <1>1, <1>2, <2>1, <3>2, <4>1
      <4>3. FirstDiff(B) = B[n + 1]
        BY <1>1, <1>2, <4>2, FirstDiffIs
      <4>4. QED
        BY <1>1, <1>2, <4>3
    <3>3. QED
      BY <3>1, <3>2
  <2>4. QED
    BY <2>2, <2>3 DEF A, B, ??
<1>4. CASE T # {}
  <2>1. T \in SUBSET Nat
    OBVIOUS
  <2> HIDE DEF T
  <2>2. PICK c \in T : \A j \in T : c <= j
    BY <1>4, <2>1, LeastElement
  <2>3. c \in 1 .. n /\ D[c] # NoDiff
    BY <2>2 DEF T
  <2>4. \A j \in 1 .. c - 1 : j \in 1 .. n /\ ~(c <= j)
    BY <2>3
  <2>5. \A j \in 1 .. c - 1 : D[j] = NoDiff
    BY <2>2, <2>4 DEF T
  <2>6. FirstDiff(A) = D[c]
    <3>1. A[c] # NoDiff /\ \A j \in 1 .. c - 1 : A[j] = NoDiff
      BY <1>2, <2>3, <2>4, <2>5
    <3>2. FirstDiff(A) = A[c]
      BY <1>2, <2>3, <3>1, FirstDiffIs
    <3>3. QED
      BY <1>2, <2>3, <3>2
  <2>7. FirstDiff(B) = D[c]
    <3>1. B[c] # NoDiff /\ (\A j \in 1 .. c - 1 : B[j] = NoDiff) /\ c \in 1 .. n + 1
      BY <1>1, <1>2, <2>3, <2>4, <2>5
    <3>2. FirstDiff(B) = B[c]
      BY <1>1, <1>2, <3>1, FirstDiffIs
    <3>3. QED
      BY <1>2, <3>1, <3>2
  <2>8. QED
    BY <2>3, <2>6, <2>7 DEF A, B, ??
<1>5. QED
  BY <1>3, <1>4

----------------------------------------------------------------------------
(* Streams in a row, each located by a comparison of its own: the first    *)
(* difference locates them all.                                            *)
LEMMA FlattenLocates ==
  ASSUME NEW n \in Nat, NEW F \in Seq(Streams), NEW G \in Seq(Streams),
         Len(F) = n, Len(G) = n, NEW D, D = [k \in 1 .. n |-> D[k]],
         \A k \in 1 .. n : Locates(F[k], G[k], D[k])
  PROVE  Locates(FlattenSeq(F), FlattenSeq(G), FirstDiff(D))
<1>1. CASE n = 0
  <2>1. FlattenSeq(F) = << >> /\ FlattenSeq(G) = << >>
    BY <1>1, EmptySeq DEF FlattenSeq
  <2>2. DOMAIN D = 1 .. n /\ \A k \in 1 .. n : D[k] = NoDiff
    BY <1>1
  <2>3. FirstDiff(D) = NoDiff
    BY <2>2, FirstDiffIs
  <2>4. QED
    BY <2>1, <2>3, LocatesSame
<1>2. CASE n # 0
  <2>1. PICK a \in [1 .. n -> Streams] :
            /\ FlattenSeq(F) = a[n] /\ a[1] = F[1]
            /\ \A k \in 2 .. n : a[k] = a[k - 1] \o F[k]
    <3>1. Len(F) # 0
      BY <1>2
    <3>2. \E a \in [1 .. Len(F) -> Streams] :
            /\ FlattenSeq(F) = a[Len(F)] /\ a[1] = F[1]
            /\ \A k \in 2 .. Len(F) : a[k] = a[k - 1] \o F[k]
      BY <3>1, FlattenSteps, Zenon
    <3>3. QED
      BY <3>2, Zenon
  <2>2. PICK b \in [1 .. n -> Streams] :
            /\ FlattenSeq(G) = b[n] /\ b[1] = G[1]
            /\ \A k \in 2 .. n : b[k] = b[k - 1] \o G[k]
    <3>1. Len(G) # 0
      BY <1>2
    <3>2. \E b \in [1 .. Len(G) -> Streams] :
            /\ FlattenSeq(G) = b[Len(G)] /\ b[1] = G[1]
            /\ \A k \in 2 .. Len(G) : b[k] = b[k - 1] \o G[k]
      BY <3>1, FlattenSteps, Zenon
    <3>3. QED
      BY <3>2, Zenon
  <2>0. ASSUME NEW d \in 1 .. n - 1
        PROVE  /\ d \in 0 .. n - 1 /\ (d - 1) + 1 = d /\ (d + 1) - 1 = d
               /\ d \in 1 .. n /\ d + 1 \in 1 .. n /\ d + 1 \in 2 .. n /\ d \in Nat
    OBVIOUS
  <2> DEFINE Firsts(k) == [i \in 1 .. k |-> D[i]]
             T == {d \in 0 .. n - 1 : Locates(a[d + 1], b[d + 1], FirstDiff(Firsts(d + 1)))}
  <2>3. n - 1 \in Nat
    BY <1>2
  <2>4. 0 \in T
    <3>1. Locates(a[1], b[1], D[1])
      <4>1. 1 \in 1 .. n
        BY <2>3
      <4>2. Locates(F[1], G[1], D[1])
        BY <4>1, Zenon
      <4>3. QED
        BY <2>1, <2>2, <4>2, Zenon
    <3>2. FirstDiff(Firsts(1)) = D[1]
      <4> DEFINE A == Firsts(1)
      <4>1. DOMAIN A = 1 .. 1 /\ A[1] = D[1] /\ 1 \in Nat /\ 1 \in 1 .. 1
        OBVIOUS
      <4> HIDE DEF A
      <4>2. CASE D[1] = NoDiff
        <5>1. \A k \in 1 .. 1 : A[k] = NoDiff
          BY <4>1, <4>2
        <5>2. FirstDiff(A) = NoDiff
          BY <4>1, <5>1, FirstDiffIs
        <5>3. QED
          BY <4>2, <5>2 DEF A
      <4>3. CASE D[1] # NoDiff
        <5>1. A[1] # NoDiff /\ \A j \in 1 .. 1 - 1 : A[j] = NoDiff
          BY <4>1, <4>3
        <5>2. FirstDiff(A) = A[1]
          BY <4>1, <5>1, FirstDiffIs
        <5>3. QED
          BY <4>1, <5>2 DEF A
      <4>4. QED
        BY <4>2, <4>3
    <3> HIDE DEF Firsts
    <3>3. 0 \in 0 .. n - 1 /\ 0 + 1 = 1
      BY <2>3
    <3>4. QED
      BY <3>1, <3>2, <3>3
  <2>5. ASSUME NEW d \in 1 .. n - 1, d - 1 \in T PROVE d \in T
    <3>1. /\ d \in 0 .. n - 1 /\ (d - 1) + 1 = d /\ (d + 1) - 1 = d
          /\ d \in 1 .. n /\ d + 1 \in 1 .. n /\ d + 1 \in 2 .. n /\ d \in Nat
      BY <2>0
    <3>2. Locates(a[d], b[d], FirstDiff(Firsts(d)))
      BY <2>5, <3>1
    <3>3. a[d + 1] = a[d] \o F[d + 1] /\ b[d + 1] = b[d] \o G[d + 1]
      BY <2>1, <2>2, <3>1
    <3>4. /\ a[d] \in Streams /\ b[d] \in Streams
          /\ F[d + 1] \in Streams /\ G[d + 1] \in Streams
      BY <2>1, <2>2, <3>1, ElementOfSeq
    <3>5. Locates(F[d + 1], G[d + 1], D[d + 1])
      BY <3>1
    <3>6. FirstDiff(Firsts(d + 1)) = FirstDiff(Firsts(d)) ?? D[d + 1]
      BY <3>1, FirstDiffSteps
    <3> HIDE DEF Firsts
    <3>7. Locates(a[d] \o F[d + 1], b[d] \o G[d + 1], FirstDiff(Firsts(d)) ?? D[d + 1])
      BY <3>2, <3>4, <3>5, LocatesBoth
    <3>8. Locates(a[d + 1], b[d + 1], FirstDiff(Firsts(d + 1)))
      BY <3>3, <3>6, <3>7, Zenon
    <3>9. QED
      BY <3>1, <3>8
  <2>6. Firsts(n) = D
    BY Zenon
  <2> HIDE DEF T, Firsts
  <2>7. \A d \in 0 .. n - 1 : d \in T
    BY <2>3, <2>4, <2>5, UpTo
  <2>8. n - 1 \in 0 .. n - 1 /\ (n - 1) + 1 = n
    BY <2>3
  <2>9. Locates(a[n], b[n], FirstDiff(Firsts(n)))
    BY <2>7, <2>8 DEF T
  <2>10. QED
    BY <2>1, <2>2, <2>6, <2>9
<1>3. QED
  BY <1>1, <1>2

(* The same for lists given entry by entry. *)
LEMMA ListLocates ==
  ASSUME NEW n \in Nat, NEW F, NEW G, NEW D,
         F = [k \in 1 .. n |-> F[k]], G = [k \in 1 .. n |-> G[k]], D = [k \in 1 .. n |-> D[k]],
         \A k \in 1 .. n : F[k] \in Streams /\ G[k] \in Streams /\ Locates(F[k], G[k], D[k])
  PROVE  /\ FlattenSeq(F) \in Streams /\ FlattenSeq(G) \in Streams
         /\ Locates(FlattenSeq(F), FlattenSeq(G), FirstDiff(D))
<1>1. F \in Seq(Streams) /\ Len(F) = n
  <2>1. F \in [1 .. n -> Streams]
    BY Zenon
  <2>2. QED
    BY <2>1
<1>2. G \in Seq(Streams) /\ Len(G) = n
  <2>1. G \in [1 .. n -> Streams]
    BY Zenon
  <2>2. QED
    BY <2>1
<1>3. QED
  BY <1>1, <1>2, FlattenIsStream, FlattenLocates

(* A scalar of four bytes is compared where it is hashed. *)
LEMMA ScalarLocates ==
  ASSUME NEW f \in Names, NEW v \in 0 .. Limit32 - 1, NEW w \in 0 .. Limit32 - 1
  PROVE  Locates(U32(f, NoIndex, v), U32(f, NoIndex, w), DiffScalar(f, v, w))
<1>1. NoIndex \in Int
  BY DEF NoIndex
<1>2. Locates(U32(f, NoIndex, v), U32(f, NoIndex, w), DiffAt(f, NoIndex, v, w))
  BY <1>1, U32Locates
<1>3. QED
  BY <1>2 DEF DiffAt, DiffScalar

(* sim_diff_state compares the ten scalars in the order sim_hash_state     *)
(* hashes them.                                                            *)
LEMMA ScalarsLocate ==
  ASSUME NEW n \in 0 .. Limit64 - 1, NEW e, NEW a,
         IsWorld(e, n), CanonicalWorld(e), IsWorld(a, n), CanonicalWorld(a)
  PROVE  Locates(HashScalars(e), HashScalars(a), DiffScalars(e, a))
<1> DEFINE h1(w) == U64("tick", w.tick)
           h2(w) == U32("config_max_entities", NoIndex, MaxEntities)
           h3(w) == U32("config_initial_unit_count", NoIndex, UnitCount)
           h4(w) == U32("config_damage_event_capacity", NoIndex, w.event_capacity)
           h5(w) == U64("rng_state", w.rng)
           h6(w) == U64("rng_inc", 1)
           h7(w) == U32("entity_capacity", NoIndex, MaxEntities)
           h8(w) == U32("entity_live_count", NoIndex, w.live_count)
           h9(w) == U32("entity_next_fresh", NoIndex, w.next_fresh)
           h10(w) == U32("entity_free_count", NoIndex, w.free_count)
           d1 == DiffScalar("tick", e.tick, a.tick)
           d4 == DiffScalar("config_damage_event_capacity", e.event_capacity, a.event_capacity)
           d5 == DiffScalar("rng_state", e.rng, a.rng)
           d8 == DiffScalar("entity_live_count", e.live_count, a.live_count)
           d9 == DiffScalar("entity_next_fresh", e.next_fresh, a.next_fresh)
           d10 == DiffScalar("entity_free_count", e.free_count, a.free_count)
<1>1. /\ "tick" \in Names /\ "config_max_entities" \in Names /\ "config_initial_unit_count" \in Names
      /\ "config_damage_event_capacity" \in Names /\ "rng_state" \in Names /\ "rng_inc" \in Names
      /\ "entity_capacity" \in Names /\ "entity_live_count" \in Names
      /\ "entity_next_fresh" \in Names /\ "entity_free_count" \in Names
  BY DEF Names
<1>2. /\ MaxEntities \in 0 .. Limit32 - 1 /\ UnitCount \in 0 .. Limit32 - 1
      /\ 1 \in 0 .. Limit64 - 1 /\ NoIndex \in Int
  BY Sizes, Limits DEF NoIndex
<1>3. ASSUME NEW w, IsWorld(w, n), CanonicalWorld(w)
      PROVE  /\ w.tick \in 0 .. Limit64 - 1 /\ w.rng \in 0 .. Limit64 - 1
             /\ w.event_capacity \in 0 .. Limit32 - 1 /\ w.live_count \in 0 .. Limit32 - 1
             /\ w.next_fresh \in 0 .. Limit32 - 1 /\ w.free_count \in 0 .. Limit32 - 1
  BY <1>3, Counts DEF Words
<1>4. /\ Locates(h1(e), h1(a), d1) /\ Locates(h4(e), h4(a), d4) /\ Locates(h5(e), h5(a), d5)
      /\ Locates(h8(e), h8(a), d8) /\ Locates(h9(e), h9(a), d9) /\ Locates(h10(e), h10(a), d10)
  <2>1. Locates(h1(e), h1(a), d1)
    BY <1>1, <1>3, U64Locates
  <2>2. Locates(h4(e), h4(a), d4)
    BY <1>1, <1>3, ScalarLocates
  <2>3. Locates(h5(e), h5(a), d5)
    BY <1>1, <1>3, U64Locates
  <2>4. Locates(h8(e), h8(a), d8)
    BY <1>1, <1>3, ScalarLocates
  <2>5. Locates(h9(e), h9(a), d9)
    BY <1>1, <1>3, ScalarLocates
  <2>6. Locates(h10(e), h10(a), d10)
    BY <1>1, <1>3, ScalarLocates
  <2>7. QED
    BY <2>1, <2>2, <2>3, <2>4, <2>5, <2>6
<1>5. /\ Locates(h2(e), h2(a), NoDiff) /\ Locates(h3(e), h3(a), NoDiff)
      /\ Locates(h6(e), h6(a), NoDiff) /\ Locates(h7(e), h7(a), NoDiff)
  BY LocatesSame
<1>6. ASSUME NEW w, IsWorld(w, n), CanonicalWorld(w)
      PROVE  /\ h1(w) \in Streams /\ h2(w) \in Streams /\ h3(w) \in Streams /\ h4(w) \in Streams
             /\ h5(w) \in Streams /\ h6(w) \in Streams /\ h7(w) \in Streams /\ h8(w) \in Streams
             /\ h9(w) \in Streams /\ h10(w) \in Streams
  <2>0. /\ \A f \in Names : \A v \in 0 .. Limit32 - 1 : U32(f, NoIndex, v) \in Streams
        /\ \A f \in Names : \A v \in 0 .. Limit64 - 1 : U64(f, v) \in Streams
    BY <1>2, U32Tells, U64Tells
  <2>1. QED
    BY <1>1, <1>2, <1>3, <1>6, <2>0
<1>7. ASSUME NEW w, IsWorld(w, n), CanonicalWorld(w)
      PROVE  HashScalars(w) = (((((((((h1(w) \o h2(w)) \o h3(w)) \o h4(w)) \o h5(w)) \o h6(w)) \o h7(w))
                                    \o h8(w)) \o h9(w)) \o h10(w))
  <2> DEFINE F == <<h1(w), h2(w), h3(w), h4(w), h5(w), h6(w), h7(w), h8(w), h9(w), h10(w)>>
  <2>1. HashScalars(w) = FlattenSeq(F)
    BY DEF HashScalars
  <2>2. /\ h1(w) \in Streams /\ h2(w) \in Streams /\ h3(w) \in Streams /\ h4(w) \in Streams
        /\ h5(w) \in Streams /\ h6(w) \in Streams /\ h7(w) \in Streams /\ h8(w) \in Streams
        /\ h9(w) \in Streams /\ h10(w) \in Streams
    BY <1>6, <1>7
  <2> HIDE DEF h1, h2, h3, h4, h5, h6, h7, h8, h9, h10
  <2>3. F \in Seq(Streams) /\ Len(F) = 10
    BY <2>2
  <2>4. /\ F[1] = h1(w) /\ F[2] = h2(w) /\ F[3] = h3(w) /\ F[4] = h4(w) /\ F[5] = h5(w)
        /\ F[6] = h6(w) /\ F[7] = h7(w) /\ F[8] = h8(w) /\ F[9] = h9(w) /\ F[10] = h10(w)
    OBVIOUS
  <2> HIDE DEF F
  <2>5. FlattenSeq(F) = (((((((((F[1] \o F[2]) \o F[3]) \o F[4]) \o F[5]) \o F[6]) \o F[7])
                              \o F[8]) \o F[9]) \o F[10])
    BY <2>3, StreamsClosed, TenInARow
  <2>6. QED
    BY <2>1, <2>4, <2>5, Zenon
<1>8. DiffScalars(e, a) = (((((d1 ?? d4) ?? d5) ?? d8) ?? d9) ?? d10)
  BY DEF DiffScalars
<1>9. /\ h1(e) \in Streams /\ h2(e) \in Streams /\ h3(e) \in Streams /\ h4(e) \in Streams
      /\ h5(e) \in Streams /\ h6(e) \in Streams /\ h7(e) \in Streams /\ h8(e) \in Streams
      /\ h9(e) \in Streams /\ h10(e) \in Streams
      /\ h1(a) \in Streams /\ h2(a) \in Streams /\ h3(a) \in Streams /\ h4(a) \in Streams
      /\ h5(a) \in Streams /\ h6(a) \in Streams /\ h7(a) \in Streams /\ h8(a) \in Streams
      /\ h9(a) \in Streams /\ h10(a) \in Streams
  BY <1>6
<1>10. \A d : d ?? NoDiff = d
  BY DEF ??
<1>11. \A s, t, d, s2, t2, d2 :
          /\ s \in Streams /\ t \in Streams /\ Locates(s, t, d)
          /\ s2 \in Streams /\ t2 \in Streams /\ Locates(s2, t2, d2)
          => s \o s2 \in Streams /\ t \o t2 \in Streams /\ Locates(s \o s2, t \o t2, d ?? d2)
  <2>1. ASSUME NEW s \in Streams, NEW t \in Streams, NEW d, Locates(s, t, d),
               NEW s2 \in Streams, NEW t2 \in Streams, NEW d2, Locates(s2, t2, d2)
        PROVE  s \o s2 \in Streams /\ t \o t2 \in Streams /\ Locates(s \o s2, t \o t2, d ?? d2)
    <3>1. s \o s2 \in Streams /\ t \o t2 \in Streams
      BY ConcatProperties DEF Streams
    <3>2. QED
      BY <2>1, <3>1, LocatesBoth
  <2>2. QED
    BY <2>1
<1> HIDE DEF h1, h2, h3, h4, h5, h6, h7, h8, h9, h10, d1, d4, d5, d8, d9, d10
<1> DEFINE i2(w) == h1(w) \o h2(w)
           i3(w) == i2(w) \o h3(w)
           i4(w) == i3(w) \o h4(w)
           i5(w) == i4(w) \o h5(w)
           i6(w) == i5(w) \o h6(w)
           i7(w) == i6(w) \o h7(w)
           i8(w) == i7(w) \o h8(w)
           i9(w) == i8(w) \o h9(w)
           i10(w) == i9(w) \o h10(w)
           c4 == d1 ?? d4
           c5 == c4 ?? d5
           c8 == c5 ?? d8
           c9 == c8 ?? d9
           c10 == c9 ?? d10
<1>12. i2(e) \in Streams /\ i2(a) \in Streams /\ Locates(i2(e), i2(a), d1 ?? NoDiff)
  BY <1>4, <1>5, <1>9, <1>11
<1> HIDE DEF i2
<1>13. i3(e) \in Streams /\ i3(a) \in Streams /\ Locates(i3(e), i3(a), d1 ?? NoDiff)
  BY <1>5, <1>9, <1>10, <1>11, <1>12
<1> HIDE DEF i3
<1>14. i4(e) \in Streams /\ i4(a) \in Streams /\ Locates(i4(e), i4(a), c4)
  BY <1>4, <1>9, <1>10, <1>11, <1>13
<1> HIDE DEF i4, c4
<1>15. i5(e) \in Streams /\ i5(a) \in Streams /\ Locates(i5(e), i5(a), c5)
  BY <1>4, <1>9, <1>11, <1>14
<1> HIDE DEF i5, c5
<1>16. i6(e) \in Streams /\ i6(a) \in Streams /\ Locates(i6(e), i6(a), c5)
  BY <1>5, <1>9, <1>10, <1>11, <1>15, ZenonT(30)
<1> HIDE DEF i6
<1>17. i7(e) \in Streams /\ i7(a) \in Streams /\ Locates(i7(e), i7(a), c5)
  BY <1>5, <1>9, <1>10, <1>11, <1>16
<1> HIDE DEF i7
<1>18. i8(e) \in Streams /\ i8(a) \in Streams /\ Locates(i8(e), i8(a), c8)
  BY <1>4, <1>9, <1>11, <1>17
<1> HIDE DEF i8, c8
<1>19. i9(e) \in Streams /\ i9(a) \in Streams /\ Locates(i9(e), i9(a), c9)
  BY <1>4, <1>9, <1>11, <1>18
<1> HIDE DEF i9, c9
<1>20. Locates(i10(e), i10(a), c10)
  BY <1>4, <1>9, <1>11, <1>19
<1>21. HashScalars(e) = i10(e) /\ HashScalars(a) = i10(a) /\ DiffScalars(e, a) = c10
  BY <1>7, <1>8 DEF i2, i3, i4, i5, i6, i7, i8, i9, c4, c5, c8, c9
<1> HIDE DEF i10, c10
<1>22. QED
  BY <1>20, <1>21

(* The lists of the entities, where the scalars are alike. *)
LEMMA EntitiesLocate ==
  ASSUME NEW n \in 0 .. Limit64 - 1, NEW e, NEW a,
         IsWorld(e, n), CanonicalWorld(e), IsWorld(a, n), CanonicalWorld(a),
         e.next_fresh = a.next_fresh, e.free_count = a.free_count
  PROVE  Locates(HashEntities(e), HashEntities(a), DiffEntities(e, a))
<1> DEFINE Gens(w) == [m \in 1 .. w.next_fresh |-> U16("entity_generation", m - 1, w.generations[m - 1])]
           Live(w) == [m \in 1 .. w.next_fresh |-> U8("entity_liveness", m - 1, w.liveness[m - 1])]
           Free(w) == [k \in 1 .. w.free_count |-> U32("entity_free_stack", k - 1, w.free_stack[k])]
           Units(w) == [m \in 1 .. MaxUnits |-> U32("unit_entity", m - 1, w.unit_entities[m - 1])]
           Count(w) == U32("pending_destroy_count", NoIndex, Len(w.pending_destroy))
           Pending(w) == [k \in DOMAIN w.pending_destroy |->
                            U32("pending_destroy_entity", k - 1, w.pending_destroy[k])]
           DGens == [m \in 1 .. e.next_fresh |->
                        DiffAt("entity_generation", m - 1, e.generations[m - 1], a.generations[m - 1])]
           DLive == [m \in 1 .. e.next_fresh |->
                        DiffAt("entity_liveness", m - 1, e.liveness[m - 1], a.liveness[m - 1])]
           DFree == [k \in 1 .. e.free_count |->
                        DiffAt("entity_free_stack", k - 1, e.free_stack[k], a.free_stack[k])]
           DUnits == [m \in 1 .. MaxUnits |->
                        DiffAt("unit_entity", m - 1, e.unit_entities[m - 1], a.unit_entities[m - 1])]
           DCount == DiffScalar("pending_destroy_count", Len(e.pending_destroy), Len(a.pending_destroy))
           DPending == [k \in DOMAIN e.pending_destroy |->
                        DiffAt("pending_destroy_entity", k - 1, e.pending_destroy[k], a.pending_destroy[k])]
<1>1. ASSUME NEW w, IsWorld(w, n), CanonicalWorld(w)
      PROVE  /\ w.generations \in [Slots -> 0 .. GenMax] /\ w.liveness \in [Slots -> {0, 1}]
             /\ w.free_stack \in [1 .. MaxEntities -> Slots]
             /\ w.unit_entities \in [UnitSlots -> Handles \union {Null}]
             /\ w.pending_destroy \in Seq(Handles) /\ Len(w.pending_destroy) \in Words
             /\ w.next_fresh \in 0 .. MaxEntities /\ w.free_count \in 0 .. MaxEntities
  BY <1>1, Counts DEF IsWorld, World
<1>2. /\ "entity_generation" \in Names /\ "entity_liveness" \in Names
      /\ "entity_free_stack" \in Names /\ "unit_entity" \in Names
      /\ "pending_destroy_count" \in Names /\ "pending_destroy_entity" \in Names
  BY DEF Names
<1>3. /\ MaxEntities \in Nat \ {0} /\ GenMax \in Nat /\ GenMax < Limit16 /\ MaxUnits \in Nat
      /\ MaxEntities < Limit32 /\ 1 < Limit8 /\ NoIndex \in Int
  BY Sizes DEF NoIndex
<1>4. e.next_fresh \in Nat /\ e.free_count \in Nat
  BY <1>1, <1>3
<1>5. /\ FlattenSeq(Gens(e)) \in Streams /\ FlattenSeq(Gens(a)) \in Streams
      /\ Locates(FlattenSeq(Gens(e)), FlattenSeq(Gens(a)), FirstDiff(DGens))
  <2>1. ASSUME NEW k \in 1 .. e.next_fresh
        PROVE  /\ Gens(e)[k] \in Streams /\ Gens(a)[k] \in Streams
               /\ Locates(Gens(e)[k], Gens(a)[k], DGens[k])
    <3>1. k - 1 \in Slots /\ k - 1 \in Int
      BY <1>1, <1>3 DEF Slots
    <3>2. e.generations[k - 1] \in 0 .. GenMax /\ a.generations[k - 1] \in 0 .. GenMax
      BY <1>1, <3>1
    <3>3. e.generations[k - 1] \in 0 .. Limit16 - 1 /\ a.generations[k - 1] \in 0 .. Limit16 - 1
      BY <1>3, <3>2, Limits
    <3>4. /\ U16("entity_generation", k - 1, e.generations[k - 1]) \in Streams
          /\ U16("entity_generation", k - 1, a.generations[k - 1]) \in Streams
          /\ Locates(U16("entity_generation", k - 1, e.generations[k - 1]),
                     U16("entity_generation", k - 1, a.generations[k - 1]),
                     DiffAt("entity_generation", k - 1, e.generations[k - 1], a.generations[k - 1]))
      BY <1>2, <3>1, <3>3, U16Tells, U16Locates, Zenon
    <3>5. QED
      BY <3>4
  <2> DEFINE F == Gens(e)
             G == Gens(a)
             D == DGens
  <2>2. /\ F = [k \in 1 .. e.next_fresh |-> F[k]] /\ G = [k \in 1 .. e.next_fresh |-> G[k]]
        /\ D = [k \in 1 .. e.next_fresh |-> D[k]]
    OBVIOUS
  <2>3. \A k \in 1 .. e.next_fresh : F[k] \in Streams /\ G[k] \in Streams /\ Locates(F[k], G[k], D[k])
    BY <2>1
  <2> HIDE DEF F, G, D
  <2>4. /\ FlattenSeq(F) \in Streams /\ FlattenSeq(G) \in Streams
        /\ Locates(FlattenSeq(F), FlattenSeq(G), FirstDiff(D))
    BY <1>3, <1>4, <2>2, <2>3, ListLocates
  <2>5. QED
    BY <2>4 DEF F, G, D
<1>6. /\ FlattenSeq(Live(e)) \in Streams /\ FlattenSeq(Live(a)) \in Streams
      /\ Locates(FlattenSeq(Live(e)), FlattenSeq(Live(a)), FirstDiff(DLive))
  <2>1. ASSUME NEW k \in 1 .. e.next_fresh
        PROVE  /\ Live(e)[k] \in Streams /\ Live(a)[k] \in Streams
               /\ Locates(Live(e)[k], Live(a)[k], DLive[k])
    <3>1. k - 1 \in Slots /\ k - 1 \in Int
      BY <1>1, <1>3 DEF Slots
    <3>2. e.liveness[k - 1] \in {0, 1} /\ a.liveness[k - 1] \in {0, 1}
      BY <1>1, <3>1
    <3>3. e.liveness[k - 1] \in 0 .. Limit8 - 1 /\ a.liveness[k - 1] \in 0 .. Limit8 - 1
      BY <1>3, <3>2, Limits
    <3>4. /\ U8("entity_liveness", k - 1, e.liveness[k - 1]) \in Streams
          /\ U8("entity_liveness", k - 1, a.liveness[k - 1]) \in Streams
          /\ Locates(U8("entity_liveness", k - 1, e.liveness[k - 1]),
                     U8("entity_liveness", k - 1, a.liveness[k - 1]),
                     DiffAt("entity_liveness", k - 1, e.liveness[k - 1], a.liveness[k - 1]))
      BY <1>2, <3>1, <3>3, U8Tells, U8Locates, Zenon
    <3>5. QED
      BY <3>4
  <2> DEFINE F == Live(e)
             G == Live(a)
             D == DLive
  <2>2. /\ F = [k \in 1 .. e.next_fresh |-> F[k]] /\ G = [k \in 1 .. e.next_fresh |-> G[k]]
        /\ D = [k \in 1 .. e.next_fresh |-> D[k]]
    OBVIOUS
  <2>3. \A k \in 1 .. e.next_fresh : F[k] \in Streams /\ G[k] \in Streams /\ Locates(F[k], G[k], D[k])
    BY <2>1
  <2> HIDE DEF F, G, D
  <2>4. /\ FlattenSeq(F) \in Streams /\ FlattenSeq(G) \in Streams
        /\ Locates(FlattenSeq(F), FlattenSeq(G), FirstDiff(D))
    BY <1>3, <1>4, <2>2, <2>3, ListLocates
  <2>5. QED
    BY <2>4 DEF F, G, D
<1>7. /\ FlattenSeq(Free(e)) \in Streams /\ FlattenSeq(Free(a)) \in Streams
      /\ Locates(FlattenSeq(Free(e)), FlattenSeq(Free(a)), FirstDiff(DFree))
  <2>1. ASSUME NEW k \in 1 .. e.free_count
        PROVE  /\ Free(e)[k] \in Streams /\ Free(a)[k] \in Streams
               /\ Locates(Free(e)[k], Free(a)[k], DFree[k])
    <3>1. k \in 1 .. MaxEntities /\ k - 1 \in Int
      BY <1>1, <1>3
    <3>2. e.free_stack[k] \in Slots /\ a.free_stack[k] \in Slots
      BY <1>1, <3>1
    <3>3. e.free_stack[k] \in 0 .. Limit32 - 1 /\ a.free_stack[k] \in 0 .. Limit32 - 1
      BY <1>3, <3>2, WordLimits DEF Slots
    <3>4. /\ U32("entity_free_stack", k - 1, e.free_stack[k]) \in Streams
          /\ U32("entity_free_stack", k - 1, a.free_stack[k]) \in Streams
          /\ Locates(U32("entity_free_stack", k - 1, e.free_stack[k]),
                     U32("entity_free_stack", k - 1, a.free_stack[k]),
                     DiffAt("entity_free_stack", k - 1, e.free_stack[k], a.free_stack[k]))
      BY <1>2, <3>1, <3>3, U32Tells, U32Locates, Zenon
    <3>5. QED
      BY <3>4
  <2> DEFINE F == Free(e)
             G == Free(a)
             D == DFree
  <2>2. /\ F = [k \in 1 .. e.free_count |-> F[k]] /\ G = [k \in 1 .. e.free_count |-> G[k]]
        /\ D = [k \in 1 .. e.free_count |-> D[k]]
    OBVIOUS
  <2>3. \A k \in 1 .. e.free_count : F[k] \in Streams /\ G[k] \in Streams /\ Locates(F[k], G[k], D[k])
    BY <2>1
  <2> HIDE DEF F, G, D
  <2>4. /\ FlattenSeq(F) \in Streams /\ FlattenSeq(G) \in Streams
        /\ Locates(FlattenSeq(F), FlattenSeq(G), FirstDiff(D))
    BY <1>3, <1>4, <2>2, <2>3, ListLocates
  <2>5. QED
    BY <2>4 DEF F, G, D
<1>8. /\ FlattenSeq(Units(e)) \in Streams /\ FlattenSeq(Units(a)) \in Streams
      /\ Locates(FlattenSeq(Units(e)), FlattenSeq(Units(a)), FirstDiff(DUnits))
  <2>1. ASSUME NEW k \in 1 .. MaxUnits
        PROVE  /\ Units(e)[k] \in Streams /\ Units(a)[k] \in Streams
               /\ Locates(Units(e)[k], Units(a)[k], DUnits[k])
    <3>1. k - 1 \in UnitSlots /\ k - 1 \in Int
      BY <1>3 DEF UnitSlots
    <3>2. /\ e.unit_entities[k - 1] \in Handles \union {Null}
          /\ a.unit_entities[k - 1] \in Handles \union {Null}
      BY <1>1, <3>1
    <3>3. e.unit_entities[k - 1] \in 0 .. Limit32 - 1 /\ a.unit_entities[k - 1] \in 0 .. Limit32 - 1
      BY <3>2, HandlesAreWords DEF Words
    <3>4. /\ U32("unit_entity", k - 1, e.unit_entities[k - 1]) \in Streams
          /\ U32("unit_entity", k - 1, a.unit_entities[k - 1]) \in Streams
          /\ Locates(U32("unit_entity", k - 1, e.unit_entities[k - 1]),
                     U32("unit_entity", k - 1, a.unit_entities[k - 1]),
                     DiffAt("unit_entity", k - 1, e.unit_entities[k - 1], a.unit_entities[k - 1]))
      BY <1>2, <3>1, <3>3, U32Tells, U32Locates, Zenon
    <3>5. QED
      BY <3>4
  <2> DEFINE F == Units(e)
             G == Units(a)
             D == DUnits
  <2>2. /\ F = [k \in 1 .. MaxUnits |-> F[k]] /\ G = [k \in 1 .. MaxUnits |-> G[k]]
        /\ D = [k \in 1 .. MaxUnits |-> D[k]]
    OBVIOUS
  <2>3. \A k \in 1 .. MaxUnits : F[k] \in Streams /\ G[k] \in Streams /\ Locates(F[k], G[k], D[k])
    BY <2>1
  <2> HIDE DEF F, G, D
  <2>4. /\ FlattenSeq(F) \in Streams /\ FlattenSeq(G) \in Streams
        /\ Locates(FlattenSeq(F), FlattenSeq(G), FirstDiff(D))
    BY <1>3, <1>4, <2>2, <2>3, ListLocates
  <2>5. QED
    BY <2>4 DEF F, G, D
<1>9. /\ Count(e) \in Streams /\ Count(a) \in Streams /\ Locates(Count(e), Count(a), DCount)
  <2>1. Len(e.pending_destroy) \in 0 .. Limit32 - 1 /\ Len(a.pending_destroy) \in 0 .. Limit32 - 1
    BY <1>1 DEF Words
  <2>2. /\ Count(e) \in Streams /\ Count(a) \in Streams
    BY <1>2, <1>3, <2>1, U32Tells, Zenon
  <2>3. QED
    BY <1>2, <2>1, <2>2, ScalarLocates, Zenon
<1>10. ASSUME NEW w, IsWorld(w, n), CanonicalWorld(w)
       PROVE  FlattenSeq(Pending(w)) \in Streams
  <2>1. w.pending_destroy \in Seq(Handles) /\ Len(w.pending_destroy) \in Nat
    BY <1>1, <1>10, LenProperties
  <2>2. ASSUME NEW k \in 1 .. Len(w.pending_destroy)
        PROVE  U32("pending_destroy_entity", k - 1, w.pending_destroy[k]) \in Streams
    <3>1. k - 1 \in Int /\ w.pending_destroy[k] \in Handles
      BY <2>1
    <3>2. w.pending_destroy[k] \in 0 .. Limit32 - 1
      BY <3>1, HandlesAreWords DEF Words
    <3>3. QED
      BY <1>2, <3>1, <3>2, U32Tells, Zenon
  <2>3. Pending(w) \in [1 .. Len(w.pending_destroy) -> Streams]
    BY <2>1, <2>2
  <2> HIDE DEF Pending
  <2>4. Pending(w) \in Seq(Streams)
    BY <2>1, <2>3
  <2>5. QED
    BY <2>4, FlattenIsStream
<1>11. ASSUME Len(e.pending_destroy) = Len(a.pending_destroy)
       PROVE  Locates(FlattenSeq(Pending(e)), FlattenSeq(Pending(a)), FirstDiff(DPending))
  <2> DEFINE m == Len(e.pending_destroy)
             F == Pending(e)
             G == Pending(a)
             D == DPending
             f == e.pending_destroy
             g == a.pending_destroy
  <2>1. /\ f \in Seq(Handles) /\ g \in Seq(Handles) /\ m \in Nat /\ Len(f) = m /\ Len(g) = m
        /\ DOMAIN f = 1 .. m /\ DOMAIN g = 1 .. m
    BY <1>1, <1>11, LenProperties
  <2>2. ASSUME NEW k \in 1 .. m
        PROVE  F[k] \in Streams /\ G[k] \in Streams /\ Locates(F[k], G[k], D[k])
    <3>1. k - 1 \in Int /\ f[k] \in Handles /\ g[k] \in Handles
      BY <2>1
    <3>2. f[k] \in 0 .. Limit32 - 1 /\ g[k] \in 0 .. Limit32 - 1
      BY <3>1, HandlesAreWords DEF Words
    <3>3. /\ U32("pending_destroy_entity", k - 1, f[k]) \in Streams
          /\ U32("pending_destroy_entity", k - 1, g[k]) \in Streams
          /\ Locates(U32("pending_destroy_entity", k - 1, f[k]),
                     U32("pending_destroy_entity", k - 1, g[k]),
                     DiffAt("pending_destroy_entity", k - 1, f[k], g[k]))
      BY <1>2, <3>1, <3>2, U32Tells, U32Locates, Zenon
    <3>4. QED
      BY <2>1, <3>3
  <2>3. F = [k \in 1 .. m |-> F[k]] /\ G = [k \in 1 .. m |-> G[k]] /\ D = [k \in 1 .. m |-> D[k]]
    BY <2>1
  <2> HIDE DEF m, F, G, D, f, g
  <2>4. Locates(FlattenSeq(F), FlattenSeq(G), FirstDiff(D))
    BY <2>1, <2>2, <2>3, ListLocates
  <2>5. QED
    BY <2>4 DEF F, G, D
<1> DEFINE h1(w) == FlattenSeq(Gens(w))
           h2(w) == FlattenSeq(Live(w))
           h3(w) == FlattenSeq(Free(w))
           h4(w) == FlattenSeq(Units(w))
           h5(w) == Count(w)
           h6(w) == FlattenSeq(Pending(w))
           d1 == FirstDiff(DGens)
           d2 == FirstDiff(DLive)
           d3 == FirstDiff(DFree)
           d4 == FirstDiff(DUnits)
           d5 == DCount
           d6 == FirstDiff(DPending)
<1>12. \A w : HashEntities(w) = ((((h1(w) \o h2(w)) \o h3(w)) \o h4(w)) \o h5(w)) \o h6(w)
  BY DEF HashEntities
<1>13. DiffEntities(e, a) = (((((d1 ?? d2) ?? d3) ?? d4) ?? d5) ?? d6)
  BY DEF DiffEntities
<1>14. d5 = NoDiff => Len(e.pending_destroy) = Len(a.pending_destroy)
  BY DEF DiffScalar, NoDiff, Diff
<1>15. /\ h1(e) \in Streams /\ h1(a) \in Streams /\ h2(e) \in Streams /\ h2(a) \in Streams
       /\ h3(e) \in Streams /\ h3(a) \in Streams /\ h4(e) \in Streams /\ h4(a) \in Streams
       /\ h5(e) \in Streams /\ h5(a) \in Streams /\ h6(e) \in Streams /\ h6(a) \in Streams
       /\ Locates(h1(e), h1(a), d1) /\ Locates(h2(e), h2(a), d2) /\ Locates(h3(e), h3(a), d3)
       /\ Locates(h4(e), h4(a), d4) /\ Locates(h5(e), h5(a), d5)
       /\ (d5 = NoDiff => Locates(h6(e), h6(a), d6))
  BY <1>5, <1>6, <1>7, <1>8, <1>9, <1>10, <1>11, <1>14
<1> HIDE DEF h1, h2, h3, h4, h5, h6, d1, d2, d3, d4, d5, d6
<1> DEFINE i2(w) == h1(w) \o h2(w)
           i3(w) == i2(w) \o h3(w)
           i4(w) == i3(w) \o h4(w)
           i5(w) == i4(w) \o h5(w)
           i6(w) == i5(w) \o h6(w)
           c2 == d1 ?? d2
           c3 == c2 ?? d3
           c4 == c3 ?? d4
           c5 == c4 ?? d5
           c6 == c5 ?? d6
<1>16. i2(e) \in Streams /\ i2(a) \in Streams /\ Locates(i2(e), i2(a), c2)
  BY <1>15, LocatesBoth
<1> HIDE DEF i2, c2
<1>17. i3(e) \in Streams /\ i3(a) \in Streams /\ Locates(i3(e), i3(a), c3)
  BY <1>15, <1>16, LocatesBoth
<1> HIDE DEF i3, c3
<1>18. i4(e) \in Streams /\ i4(a) \in Streams /\ Locates(i4(e), i4(a), c4)
  BY <1>15, <1>17, LocatesBoth
<1> HIDE DEF i4, c4
<1>19. i5(e) \in Streams /\ i5(a) \in Streams /\ Locates(i5(e), i5(a), c5)
  BY <1>15, <1>18, LocatesBoth
<1>20. c5 = NoDiff => d5 = NoDiff
  BY DEF ??
<1> HIDE DEF i5, c5
<1>21. Locates(i6(e), i6(a), c6)
  BY <1>15, <1>19, <1>20, LocatesBoth
<1>22. HashEntities(e) = i6(e) /\ HashEntities(a) = i6(a) /\ DiffEntities(e, a) = c6
  BY <1>12, <1>13 DEF i2, i3, i4, i5, c2, c3, c4, c5
<1> HIDE DEF i6, c6
<1>23. QED
  BY <1>21, <1>22

(* An event: its three numbers. *)
LEMMA EventLocates ==
  ASSUME NEW phase \in {ReadPhase, WritePhase}, NEW k \in Nat \ {0},
         NEW x \in DamageEvents, NEW y \in DamageEvents
  PROVE  Locates(HashEvent(phase, k, x), HashEvent(phase, k, y), DiffEvent(phase, k - 1, x, y))
<1>1. phase.source \in Names /\ phase.target \in Names /\ phase.amount \in Names
  BY DEF ReadPhase, WritePhase, Names
<1>2. /\ x.source \in Words /\ x.target \in Words /\ x.amount \in Words
      /\ y.source \in Words /\ y.target \in Words /\ y.amount \in Words
  <2>1. /\ x.source \in Handles \union {Null} /\ x.target \in Handles /\ x.amount \in Words
        /\ y.source \in Handles \union {Null} /\ y.target \in Handles /\ y.amount \in Words
    BY DEF DamageEvents, Words
  <2>2. QED
    BY <2>1, HandlesAreWords
<1>3. k - 1 \in Int
  OBVIOUS
<1>4. ASSUME NEW f \in Names, NEW v \in Words, NEW w \in Words
      PROVE  /\ U32(f, k - 1, v) \in Streams /\ U32(f, k - 1, w) \in Streams
             /\ Locates(U32(f, k - 1, v), U32(f, k - 1, w), DiffAt(f, k - 1, v, w))
  <2>1. v \in 0 .. Limit32 - 1 /\ w \in 0 .. Limit32 - 1
    BY DEF Words
  <2>2. QED
    BY <1>3, <2>1, U32Tells, U32Locates, Zenon
<1> DEFINE s1 == U32(phase.source, k - 1, x.source)
           t1 == U32(phase.source, k - 1, y.source)
           d1 == DiffAt(phase.source, k - 1, x.source, y.source)
           s2 == U32(phase.target, k - 1, x.target)
           t2 == U32(phase.target, k - 1, y.target)
           d2 == DiffAt(phase.target, k - 1, x.target, y.target)
           s3 == U32(phase.amount, k - 1, x.amount)
           t3 == U32(phase.amount, k - 1, y.amount)
           d3 == DiffAt(phase.amount, k - 1, x.amount, y.amount)
<1>5. /\ s1 \in Streams /\ t1 \in Streams /\ Locates(s1, t1, d1)
      /\ s2 \in Streams /\ t2 \in Streams /\ Locates(s2, t2, d2)
      /\ s3 \in Streams /\ t3 \in Streams /\ Locates(s3, t3, d3)
  BY <1>1, <1>2, <1>4, Zenon
<1>6. /\ HashEvent(phase, k, x) = (s1 \o s2) \o s3 /\ HashEvent(phase, k, y) = (t1 \o t2) \o t3
      /\ DiffEvent(phase, k - 1, x, y) = ((d1 ?? d2) ?? d3)
  BY DEF HashEvent, DiffEvent
<1> HIDE DEF s1, s2, s3, t1, t2, t3, d1, d2, d3
<1>7. s1 \o s2 \in Streams /\ t1 \o t2 \in Streams /\ Locates(s1 \o s2, t1 \o t2, d1 ?? d2)
  BY <1>5, LocatesBoth
<1> DEFINE s == s1 \o s2
           t == t1 \o t2
           d == d1 ?? d2
<1>8. s \in Streams /\ t \in Streams /\ Locates(s, t, d)
  BY <1>7
<1> HIDE DEF s, t, d
<1>9. Locates(s \o s3, t \o t3, d ?? d3)
  BY <1>5, <1>8, LocatesBoth
<1>10. QED
  BY <1>6, <1>9 DEF s, t, d

(* diff_damage_events compares a phase as it is hashed: the counts, then   *)
(* the events both have.                                                   *)
LEMMA PhaseLocates ==
  ASSUME NEW phase \in {ReadPhase, WritePhase},
         NEW x \in Seq(DamageEvents), NEW y \in Seq(DamageEvents),
         Len(x) \in Words, Len(y) \in Words
  PROVE  Locates(HashPhase(phase, x), HashPhase(phase, y), DiffPhase(phase, x, y))
<1> DEFINE Events(z) == [k \in DOMAIN z |-> HashEvent(phase, k, z[k])]
           Count(z) == U32(phase.count, NoIndex, Len(z))
           DEvents == [k \in DOMAIN x |-> DiffEvent(phase, k - 1, x[k], y[k])]
           DCount == DiffScalar(phase.count, Len(x), Len(y))
<1>1. phase.count \in Names /\ NoIndex \in Int
  BY DEF ReadPhase, WritePhase, Names, NoIndex
<1>2. /\ Count(x) \in Streams /\ Count(y) \in Streams /\ Locates(Count(x), Count(y), DCount)
  <2>1. Len(x) \in 0 .. Limit32 - 1 /\ Len(y) \in 0 .. Limit32 - 1
    BY DEF Words
  <2>2. QED
    BY <1>1, <2>1, U32Tells, ScalarLocates, Zenon
<1>3. ASSUME NEW z \in Seq(DamageEvents)
      PROVE  FlattenSeq(Events(z)) \in Streams
  <2>1. \A k \in 1 .. Len(z) : k \in Nat \ {0} /\ z[k] \in DamageEvents
    BY LenProperties
  <2>2. \A k \in 1 .. Len(z) : HashEvent(phase, k, z[k]) \in Streams
    BY <2>1, EventTells, Zenon
  <2>3. Events(z) \in [1 .. Len(z) -> Streams] /\ Len(z) \in Nat
    BY <2>2, LenProperties
  <2> HIDE DEF Events
  <2>4. Events(z) \in Seq(Streams)
    BY <2>3
  <2>5. QED
    BY <2>4, FlattenIsStream
<1>4. ASSUME Len(x) = Len(y)
      PROVE  Locates(FlattenSeq(Events(x)), FlattenSeq(Events(y)), FirstDiff(DEvents))
  <2> DEFINE m == Len(x)
             F == Events(x)
             G == Events(y)
             D == DEvents
  <2>1. m \in Nat /\ DOMAIN x = 1 .. m /\ DOMAIN y = 1 .. m
    BY <1>4, LenProperties
  <2>2. ASSUME NEW k \in 1 .. m
        PROVE  F[k] \in Streams /\ G[k] \in Streams /\ Locates(F[k], G[k], D[k])
    <3>1. k \in Nat \ {0} /\ x[k] \in DamageEvents /\ y[k] \in DamageEvents
      BY <2>1, <1>4
    <3>2. /\ HashEvent(phase, k, x[k]) \in Streams /\ HashEvent(phase, k, y[k]) \in Streams
          /\ Locates(HashEvent(phase, k, x[k]), HashEvent(phase, k, y[k]),
                     DiffEvent(phase, k - 1, x[k], y[k]))
      BY <3>1, EventTells, EventLocates
    <3>3. /\ F[k] = HashEvent(phase, k, x[k]) /\ G[k] = HashEvent(phase, k, y[k])
          /\ D[k] = DiffEvent(phase, k - 1, x[k], y[k])
      BY <2>1
    <3>4. QED
      BY <3>2, <3>3
  <2>3. F = [k \in 1 .. m |-> F[k]] /\ G = [k \in 1 .. m |-> G[k]] /\ D = [k \in 1 .. m |-> D[k]]
    BY <2>1
  <2> HIDE DEF m, F, G, D
  <2>4. Locates(FlattenSeq(F), FlattenSeq(G), FirstDiff(D))
    BY <2>1, <2>2, <2>3, ListLocates
  <2>5. QED
    BY <2>4 DEF F, G, D
<1> DEFINE s1 == Count(x)
           t1 == Count(y)
           d1 == DCount
           s2 == FlattenSeq(Events(x))
           t2 == FlattenSeq(Events(y))
           d2 == FirstDiff(DEvents)
<1>5. s2 \in Streams /\ t2 \in Streams
  BY <1>3
<1>6. /\ HashPhase(phase, x) = s1 \o s2 /\ HashPhase(phase, y) = t1 \o t2
      /\ DiffPhase(phase, x, y) = (d1 ?? d2)
  BY DEF HashPhase, DiffPhase
<1>7. d1 = NoDiff => Len(x) = Len(y)
  BY DEF DiffScalar, NoDiff, Diff
<1>8. /\ s1 \in Streams /\ t1 \in Streams /\ Locates(s1, t1, d1)
      /\ (d1 = NoDiff => Locates(s2, t2, d2))
  BY <1>2, <1>4, <1>7
<1> HIDE DEF s1, s2, t1, t2, d1, d2
<1>9. Locates(s1 \o s2, t1 \o t2, d1 ?? d2)
  BY <1>5, <1>8, LocatesBoth
<1>10. QED
  BY <1>6, <1>9

(* The read phase is compared before the write phase, as both are hashed. *)
LEMMA EventsLocate ==
  ASSUME NEW n \in 0 .. Limit64 - 1, NEW e, NEW a,
         IsWorld(e, n), CanonicalWorld(e), IsWorld(a, n), CanonicalWorld(a)
  PROVE  Locates(HashEvents(e), HashEvents(a), DiffEvents(e, a))
<1>1. ASSUME NEW w, IsWorld(w, n), CanonicalWorld(w)
      PROVE  /\ ReadEvents(w) \in Seq(DamageEvents) /\ Len(ReadEvents(w)) \in Words
             /\ WriteEvents(w) \in Seq(DamageEvents) /\ Len(WriteEvents(w)) \in Words
  <2>1. w.buffers \in [1 .. 2 -> Seq(DamageEvents)] /\ w.read_index \in {1, 2}
    BY <1>1 DEF IsWorld, World
  <2>2. w.read_index \in 1 .. 2 /\ WriteIndex(w) \in 1 .. 2
    BY <2>1 DEF WriteIndex
  <2>3. \A b \in 1 .. 2 : Len(w.buffers[b]) \in Words
    BY <1>1, Counts
  <2>4. QED
    BY <2>1, <2>2, <2>3 DEF ReadEvents, WriteEvents
<1> DEFINE s1 == HashPhase(ReadPhase, ReadEvents(e))
           t1 == HashPhase(ReadPhase, ReadEvents(a))
           d1 == DiffPhase(ReadPhase, ReadEvents(e), ReadEvents(a))
           s2 == HashPhase(WritePhase, WriteEvents(e))
           t2 == HashPhase(WritePhase, WriteEvents(a))
           d2 == DiffPhase(WritePhase, WriteEvents(e), WriteEvents(a))
<1>2. s1 \in Streams /\ t1 \in Streams /\ Locates(s1, t1, d1)
  BY <1>1, PhaseTells, PhaseLocates
<1>3. s2 \in Streams /\ t2 \in Streams /\ Locates(s2, t2, d2)
  BY <1>1, PhaseTells, PhaseLocates
<1>4. HashEvents(e) = s1 \o s2 /\ HashEvents(a) = t1 \o t2 /\ DiffEvents(e, a) = (d1 ?? d2)
  BY DEF HashEvents, DiffEvents
<1> HIDE DEF s1, s2, t1, t2, d1, d2
<1>5. QED
  BY <1>2, <1>3, <1>4, LocatesBoth

(* The index of a handle is the slot it was made for. *)
LEMMA HandleIndex ==
  ASSUME NEW i \in Slots, NEW g \in Nat
  PROVE  Index(Handle(i, g)) = i
<1> DEFINE h == Handle(i, g)
           q == h \div MaxEntities
           r == h % MaxEntities
           d == g - q
<1>1. MaxEntities \in Nat \ {0} /\ i \in 0 .. MaxEntities - 1
  BY Sizes DEF Slots
<1>2. h = g * MaxEntities + i /\ h \in Nat
  BY <1>1 DEF Handle
<1> HIDE DEF h
<1>3. q \in Nat /\ r \in 0 .. MaxEntities - 1 /\ h = MaxEntities * q + r
  BY <1>1, <1>2, Division
<1> HIDE DEF q, r
<1>4. d \in Int /\ d * MaxEntities = r - i
  BY <1>1, <1>2, <1>3
<1> HIDE DEF d
<1>5. d >= 1 => d * MaxEntities >= MaxEntities
  BY <1>1, <1>4
<1>6. d <= -1 => d * MaxEntities <= -MaxEntities
  BY <1>1, <1>4
<1>7. d = 0
  <2> DEFINE m == d * MaxEntities
  <2>1. m = r - i /\ (d >= 1 => m >= MaxEntities) /\ (d <= -1 => m <= -MaxEntities)
    BY <1>4, <1>5, <1>6
  <2> HIDE DEF m
  <2>2. QED
    BY <1>1, <1>3, <1>4, <2>1
<1>8. r = i
  BY <1>1, <1>3, <1>4, <1>7
<1>9. QED
  BY <1>8 DEF Index, h, r

(* A handle that was made is not the null handle. *)
LEMMA HandleIsSome ==
  ASSUME NEW h \in Handles
  PROVE  h # Null
<1>1. PICK i \in Slots, g \in 1 .. GenMax : h = Handle(i, g)
  BY DEF Handles
<1>2. MaxEntities \in Nat \ {0} /\ i \in Nat /\ g \in Nat \ {0}
  BY <1>1, Sizes DEF Slots
<1>3. g * MaxEntities \in Nat \ {0}
  BY <1>2
<1> DEFINE m == g * MaxEntities
<1>4. h = m + i /\ m \in Nat \ {0}
  BY <1>1, <1>3 DEF Handle
<1> HIDE DEF m
<1>5. QED
  BY <1>2, <1>4 DEF Null

(* A member: who it is, then its columns. *)
LEMMA MemberLocates ==
  ASSUME NEW n, NEW e, NEW a, IsWorld(e, n), IsWorld(a, n), NEW p \in Pools,
         NEW i \in Slots, NEW h, Has(e, p, h), Index(h) = i, NEW m, Has(a, p, m), Index(m) = i
  PROVE  Locates(HashMember(e, p, h), HashMember(a, p, m),
                 DiffAt(EntityField[p], i, h, m)
                    ?? FirstDiff([c \in DOMAIN Columns[p] |->
                            DiffAt(Columns[p][c], i, Row(e, p, h)[c], Row(a, p, m)[c])]))
<1> DEFINE r == Row(e, p, h)
           q == Row(a, p, m)
           l == Len(Columns[p])
<1>1. /\ h \in Handles /\ r \in Seq(Values) /\ Len(r) = l
      /\ m \in Handles /\ q \in Seq(Values) /\ Len(q) = l
  BY MemberRow
<1>2. /\ EntityField[p] \in Names /\ l \in 1 .. 3 /\ DOMAIN Columns[p] = 1 .. l
      /\ \A c \in 1 .. l : Columns[p][c] \in Names
  BY PoolNames
<1>3. h \in 0 .. Limit32 - 1 /\ m \in 0 .. Limit32 - 1 /\ i \in Int
  <2>1. h \in Words /\ m \in Words
    BY <1>1, HandlesAreWords
  <2>2. i \in Int
    BY DEF Slots
  <2>3. QED
    BY <2>1, <2>2 DEF Words
<1> DEFINE s1 == U32(EntityField[p], i, h)
           t1 == U32(EntityField[p], i, m)
           d1 == DiffAt(EntityField[p], i, h, m)
           F == [c \in DOMAIN Columns[p] |-> U32(Columns[p][c], i, r[c])]
           G == [c \in DOMAIN Columns[p] |-> U32(Columns[p][c], i, q[c])]
           D == [c \in DOMAIN Columns[p] |-> DiffAt(Columns[p][c], i, r[c], q[c])]
<1>4. s1 \in Streams /\ t1 \in Streams /\ Locates(s1, t1, d1)
  BY <1>2, <1>3, U32Tells, U32Locates, Zenon
<1>5. ASSUME NEW c \in 1 .. l
      PROVE  F[c] \in Streams /\ G[c] \in Streams /\ Locates(F[c], G[c], D[c])
  <2>1. r[c] \in Values /\ q[c] \in Values
    BY <1>1, ElementOfSeq
  <2>2. r[c] \in 0 .. Limit32 - 1 /\ q[c] \in 0 .. Limit32 - 1
    BY <2>1, Sizes DEF Values
  <2>3. /\ U32(Columns[p][c], i, r[c]) \in Streams
        /\ U32(Columns[p][c], i, q[c]) \in Streams
        /\ Locates(U32(Columns[p][c], i, r[c]), U32(Columns[p][c], i, q[c]),
                   DiffAt(Columns[p][c], i, r[c], q[c]))
    BY <1>2, <1>3, <2>2, U32Tells, U32Locates, Zenon
  <2>4. c \in DOMAIN Columns[p]
    BY <1>2
  <2>5. QED
    BY <2>3, <2>4
<1>6. F = [c \in 1 .. l |-> F[c]] /\ G = [c \in 1 .. l |-> G[c]] /\ D = [c \in 1 .. l |-> D[c]]
  BY <1>2
<1>7. /\ HashMember(e, p, h) = s1 \o FlattenSeq(F) /\ HashMember(a, p, m) = t1 \o FlattenSeq(G)
  BY DEF HashMember
<1>8. l \in Nat
  BY <1>2
<1>9. /\ [c \in DOMAIN Columns[p] |->
             DiffAt(Columns[p][c], i, Row(e, p, h)[c], Row(a, p, m)[c])] = D
      /\ DiffAt(EntityField[p], i, h, m) = d1
  OBVIOUS
<1> HIDE DEF F, G, D, r, q, l, s1, t1, d1
<1>10. /\ FlattenSeq(F) \in Streams /\ FlattenSeq(G) \in Streams
       /\ Locates(FlattenSeq(F), FlattenSeq(G), FirstDiff(D))
  BY <1>5, <1>6, <1>8, ListLocates
<1>11. Locates(s1 \o FlattenSeq(F), t1 \o FlattenSeq(G), d1 ?? FirstDiff(D))
  BY <1>4, <1>10, LocatesBoth
<1>12. QED
  BY <1>7, <1>9, <1>11, Zenon

(* The report may name the two values of a place as it likes. *)
LEMMA LocatesAs ==
  ASSUME NEW s, NEW t, NEW d, NEW d2, Locates(s, t, d), d # NoDiff,
         d2.field = d.field, d2.index = d.index, d2.expected # d2.actual
  PROVE  Locates(s, t, d2)
<1>1. NoDiff.expected = NoDiff.actual
  BY DEF NoDiff, Diff
<1>2. d2 # NoDiff
  BY <1>1
<1>3. QED
  BY <1>2 DEF Locates

(* A slot of a pool is compared as it is hashed: who is in it, then its    *)
(* columns.                                                                *)
LEMMA SlotLocates ==
  ASSUME NEW n, NEW e, NEW a, IsWorld(e, n), IsWorld(a, n), NEW p \in Pools, NEW i \in Slots
  PROVE  Locates(HashSlot(e, p, i), HashSlot(a, p, i), DiffMember(e, a, p, i))
<1> DEFINE he == EntityAt(e, i)
           ha == EntityAt(a, i)
           Bit(w) == IF Has(w, p, EntityAt(w, i)) THEN 1 ELSE 0
           Head1(w) == U8(EntityField[p], i, Bit(w))
           Rest(w) == IF Has(w, p, EntityAt(w, i)) THEN HashMember(w, p, EntityAt(w, i)) ELSE << >>
           d1 == DiffAt(EntityField[p], i, Bit(e), Bit(a))
           dm == DiffAt(EntityField[p], i, he, ha)
                   ?? FirstDiff([c \in DOMAIN Columns[p] |->
                          DiffAt(Columns[p][c], i, Row(e, p, he)[c], Row(a, p, ha)[c])])
           d2 == IF Has(e, p, he) THEN dm ELSE NoDiff
<1>1. \A w : Bit(w) \in 0 .. Limit8 - 1
  BY Sizes, Limits
<1>2. EntityField[p] \in Names /\ i \in Int
  BY PoolNames DEF Slots
<1>3. Head1(e) \in Streams /\ Head1(a) \in Streams /\ Locates(Head1(e), Head1(a), d1)
  <2> HIDE DEF Bit
  <2>1. QED
    BY <1>1, <1>2, U8Tells, U8Locates
<1>4. << >> \in Streams /\ \A x \in Streams : x \o << >> = x
  BY ConcatEmptySeq, EmptySeq DEF Streams
<1>5. Rest(e) \in Streams /\ Rest(a) \in Streams
  BY <1>4, MemberTells
<1>6. Index(he) = i /\ Index(ha) = i
  <2>1. ASSUME NEW w, IsWorld(w, n) PROVE Index(EntityAt(w, i)) = i
    <3>1. w.generations[i] \in Nat
      BY <2>1, Sizes DEF IsWorld, World
    <3>2. QED
      BY <3>1, HandleIndex DEF EntityAt
  <2>2. QED
    BY <2>1
<1>7. d1 = NoDiff => Bit(e) = Bit(a)
  BY DEF DiffAt, NoDiff, Diff
<1>8. Bit(e) = Bit(a) => Locates(Rest(e), Rest(a), d2)
  <2>1. CASE Has(e, p, he) /\ Has(a, p, ha)
    <3>1. Locates(HashMember(e, p, he), HashMember(a, p, ha), dm)
      BY <1>6, <2>1, MemberLocates
    <3>2. Rest(e) = HashMember(e, p, he) /\ Rest(a) = HashMember(a, p, ha) /\ d2 = dm
      BY <2>1
    <3> HIDE DEF Rest, d2, dm, he, ha, Bit
    <3>3. QED
      BY <3>1, <3>2
  <2>2. CASE ~Has(e, p, he) /\ ~Has(a, p, ha)
    BY <2>2, LocatesSame
  <2>3. QED
    BY <2>1, <2>2
<1>9. HashSlot(e, p, i) = Head1(e) \o Rest(e) /\ HashSlot(a, p, i) = Head1(a) \o Rest(a)
  <2>1. ASSUME NEW w, Head1(w) \in Streams PROVE HashSlot(w, p, i) = Head1(w) \o Rest(w)
    <3>1. CASE Has(w, p, EntityAt(w, i))
      BY <3>1 DEF HashSlot
    <3>2. CASE ~Has(w, p, EntityAt(w, i))
      <4>1. Rest(w) = << >> /\ HashSlot(w, p, i) = Head1(w)
        BY <3>2 DEF HashSlot
      <4>2. QED
        BY <1>4, <2>1, <4>1
    <3>3. QED
      BY <3>1, <3>2
  <2>2. QED
    BY <1>3, <2>1
<1>10. Locates(HashSlot(e, p, i), HashSlot(a, p, i), d1 ?? d2)
  <2>1. d1 = NoDiff => Locates(Rest(e), Rest(a), d2)
    BY <1>7, <1>8
  <2> HIDE DEF Head1, Rest, d1, d2
  <2>2. Locates(Head1(e) \o Rest(e), Head1(a) \o Rest(a), d1 ?? d2)
    BY <1>3, <1>5, <2>1, LocatesBoth
  <2>3. QED
    BY <1>9, <2>2
<1>11. CASE Has(e, p, he) # Has(a, p, ha)
  <2> DEFINE d == Diff(EntityField[p], i, IF Has(e, p, he) THEN he ELSE Null,
                                          IF Has(a, p, ha) THEN ha ELSE Null)
  <2>1. DiffMember(e, a, p, i) = d
    BY <1>11 DEF DiffMember
  <2>0. \/ Has(e, p, he) /\ ~Has(a, p, ha)
        \/ ~Has(e, p, he) /\ Has(a, p, ha)
    <3>1. Has(e, p, he) \in BOOLEAN /\ Has(a, p, ha) \in BOOLEAN
      BY DEF Has, Contains
    <3>2. QED
      BY <1>11, <3>1
  <2>2. d1 # NoDiff /\ d1.field = EntityField[p] /\ d1.index = i
    <3>1. Bit(e) # Bit(a)
      BY <2>0
    <3>2. d1 = Diff(EntityField[p], i, Bit(e), Bit(a))
      BY <3>1 DEF DiffAt
    <3> HIDE DEF d1, Bit
    <3>3. d1.field = EntityField[p] /\ d1.index = i
      BY <3>2 DEF Diff
    <3>4. QED
      BY <1>7, <3>1, <3>3
  <2>3. (Has(e, p, he) => he # Null) /\ (Has(a, p, ha) => ha # Null)
    BY MemberRow, HandleIsSome
  <2>4. d.field = EntityField[p] /\ d.index = i /\ d.expected # d.actual
    <3>1. (IF Has(e, p, he) THEN he ELSE Null) # (IF Has(a, p, ha) THEN ha ELSE Null)
      BY <2>0, <2>3
    <3>2. QED
      BY <3>1 DEF Diff
  <2>5. d1 ?? d2 = d1
    BY <2>2 DEF ??
  <2> HIDE DEF d, d1, d2
  <2>6. QED
    BY <1>10, <2>1, <2>2, <2>4, <2>5, LocatesAs
<1>12. CASE Has(e, p, he) = Has(a, p, ha)
  <2>1. d1 = NoDiff
    BY <1>12 DEF DiffAt
  <2>2. DiffMember(e, a, p, i) = d2
    BY <1>12 DEF DiffMember
  <2>3. d1 ?? d2 = d2
    BY <2>1 DEF ??
  <2> HIDE DEF d1, d2
  <2>4. QED
    BY <1>10, <2>2, <2>3
<1>13. QED
  BY <1>11, <1>12

(* A pool is compared slot by slot, as it is hashed. *)
LEMMA PoolLocates ==
  ASSUME NEW n \in 0 .. Limit64 - 1, NEW e, NEW a,
         IsWorld(e, n), CanonicalWorld(e), IsWorld(a, n), CanonicalWorld(a),
         e.next_fresh = a.next_fresh, NEW p \in Pools
  PROVE  Locates(HashPool(e, p), HashPool(a, p), DiffPool(e, a, p))
<1> DEFINE Count(w) == U32(CountField[p], NoIndex, Len(w.pools[p].dense))
           F == [k \in 1 .. e.next_fresh |-> HashSlot(e, p, k - 1)]
           G == [k \in 1 .. a.next_fresh |-> HashSlot(a, p, k - 1)]
           D == [k \in 1 .. e.next_fresh |-> DiffMember(e, a, p, k - 1)]
           d1 == DiffScalar(CountField[p], Len(e.pools[p].dense), Len(a.pools[p].dense))
<1>1. /\ CountField[p] \in Names /\ NoIndex \in Int /\ e.next_fresh \in Nat
      /\ Len(e.pools[p].dense) \in 0 .. Limit32 - 1 /\ Len(a.pools[p].dense) \in 0 .. Limit32 - 1
  BY PoolNames, Counts, Sizes DEF NoIndex, Words
<1>2. /\ Count(e) \in Streams /\ Count(a) \in Streams /\ Locates(Count(e), Count(a), d1)
  BY <1>1, U32Tells, ScalarLocates, Zenon
<1>3. ASSUME NEW k \in 1 .. e.next_fresh
      PROVE  F[k] \in Streams /\ G[k] \in Streams /\ Locates(F[k], G[k], D[k])
  <2>1. k - 1 \in Int /\ k - 1 \in Slots
    BY Counts, Sizes DEF Slots
  <2>2. /\ HashSlot(e, p, k - 1) \in Streams /\ HashSlot(a, p, k - 1) \in Streams
    BY <2>1, SlotTells
  <2>3. Locates(HashSlot(e, p, k - 1), HashSlot(a, p, k - 1), DiffMember(e, a, p, k - 1))
    BY <2>1, SlotLocates
  <2>4. QED
    BY <2>2, <2>3
<1>4. /\ F = [k \in 1 .. e.next_fresh |-> F[k]] /\ G = [k \in 1 .. e.next_fresh |-> G[k]]
      /\ D = [k \in 1 .. e.next_fresh |-> D[k]]
  OBVIOUS
<1>5. /\ HashPool(e, p) = Count(e) \o FlattenSeq(F) /\ HashPool(a, p) = Count(a) \o FlattenSeq(G)
      /\ DiffPool(e, a, p) = (d1 ?? FirstDiff(D))
  BY DEF HashPool, DiffPool
<1>6. \A k \in 1 .. e.next_fresh : F[k] \in Streams /\ G[k] \in Streams /\ Locates(F[k], G[k], D[k])
  BY <1>3
<1> HIDE DEF Count, F, G, D, d1
<1>7. /\ FlattenSeq(F) \in Streams /\ FlattenSeq(G) \in Streams
      /\ Locates(FlattenSeq(F), FlattenSeq(G), FirstDiff(D))
  BY <1>1, <1>4, <1>6, ListLocates
<1>8. Locates(Count(e) \o FlattenSeq(F), Count(a) \o FlattenSeq(G), d1 ?? FirstDiff(D))
  BY <1>2, <1>7, LocatesBoth
<1>9. QED
  BY <1>5, <1>8

(* The whole stream. *)
LEMMA HashedLocates ==
  ASSUME NEW n \in 0 .. Limit64 - 1, NEW e, NEW a,
         IsWorld(e, n), CanonicalWorld(e), IsWorld(a, n), CanonicalWorld(a)
  PROVE  /\ Hashed(e) \in Streams /\ Hashed(a) \in Streams
         /\ Locates(Hashed(e), Hashed(a), SimDiffState(e, a))
<1> DEFINE h1(w) == HashScalars(w)
           h2(w) == HashEntities(w)
           h3(w) == HashEvents(w)
           h4(w) == HashPool(w, "transform")
           h5(w) == HashPool(w, "velocity")
           h6(w) == HashPool(w, "health")
           d1 == DiffScalars(e, a)
           d2 == DiffEntities(e, a)
           d3 == DiffEvents(e, a)
           d4 == DiffPool(e, a, "transform")
           d5 == DiffPool(e, a, "velocity")
           d6 == DiffPool(e, a, "health")
           i2(w) == h1(w) \o h2(w)
           i3(w) == i2(w) \o h3(w)
           i4(w) == i3(w) \o h4(w)
           i5(w) == i4(w) \o h5(w)
           i6(w) == i5(w) \o h6(w)
           c2 == d1 ?? d2
           c3 == c2 ?? d3
           c4 == c3 ?? d4
           c5 == c4 ?? d5
           c6 == c5 ?? d6
<1>1. ASSUME NEW w, IsWorld(w, n), CanonicalWorld(w)
      PROVE  /\ h1(w) \in Streams /\ h2(w) \in Streams /\ h3(w) \in Streams
             /\ \A p \in Pools : HashPool(w, p) \in Streams
  BY <1>1, ScalarsTell, EntitiesTell, EventsTell, PoolTells
<1>2. "transform" \in Pools /\ "velocity" \in Pools /\ "health" \in Pools
  BY DEF Pools
<1>3. /\ h1(e) \in Streams /\ h1(a) \in Streams /\ h2(e) \in Streams /\ h2(a) \in Streams
      /\ h3(e) \in Streams /\ h3(a) \in Streams /\ h4(e) \in Streams /\ h4(a) \in Streams
      /\ h5(e) \in Streams /\ h5(a) \in Streams /\ h6(e) \in Streams /\ h6(a) \in Streams
  BY <1>1, <1>2
<1>4. Locates(h1(e), h1(a), d1)
  BY ScalarsLocate
(* Where the scalars are alike, so are the counts that bound the lists. *)
<1>5. d1 = NoDiff => e.next_fresh = a.next_fresh /\ e.free_count = a.free_count
  <2> DEFINE x1 == DiffScalar("tick", e.tick, a.tick)
             x2 == DiffScalar("config_damage_event_capacity", e.event_capacity, a.event_capacity)
             x3 == DiffScalar("rng_state", e.rng, a.rng)
             x4 == DiffScalar("entity_live_count", e.live_count, a.live_count)
             x5 == DiffScalar("entity_next_fresh", e.next_fresh, a.next_fresh)
             x6 == DiffScalar("entity_free_count", e.free_count, a.free_count)
  <2>1. d1 = (((((x1 ?? x2) ?? x3) ?? x4) ?? x5) ?? x6)
    BY DEF DiffScalars
  <2>2. /\ x5 = NoDiff => e.next_fresh = a.next_fresh
        /\ x6 = NoDiff => e.free_count = a.free_count
    BY DEF DiffScalar, NoDiff, Diff
  <2>3. \A x, y : x ?? y = NoDiff => x = NoDiff /\ y = NoDiff
    BY DEF ??
  <2> HIDE DEF d1, x1, x2, x3, x4, x5, x6
  <2> DEFINE y4 == (((x1 ?? x2) ?? x3) ?? x4)
             y5 == y4 ?? x5
  <2>4. d1 = (y5 ?? x6)
    BY <2>1
  <2> HIDE DEF y4
  <2>5. y5 = NoDiff => x5 = NoDiff
    BY <2>3
  <2> HIDE DEF y5
  <2>6. d1 = NoDiff => y5 = NoDiff /\ x6 = NoDiff
    BY <2>3, <2>4
  <2>7. QED
    BY <2>2, <2>5, <2>6
<1>6. /\ d1 = NoDiff => Locates(h2(e), h2(a), d2)
      /\ Locates(h3(e), h3(a), d3)
      /\ d1 = NoDiff => Locates(h4(e), h4(a), d4)
      /\ d1 = NoDiff => Locates(h5(e), h5(a), d5)
      /\ d1 = NoDiff => Locates(h6(e), h6(a), d6)
  BY <1>2, <1>5, EntitiesLocate, EventsLocate, PoolLocates
<1>7. /\ Hashed(e) = i6(e) /\ Hashed(a) = i6(a) /\ SimDiffState(e, a) = c6
  <2>1. \A w : Hashed(w) = i6(w)
    BY DEF Hashed, HashTransform, HashVelocity, HashHealth
  <2>2. SimDiffState(e, a) = c6
    BY DEF SimDiffState, DiffTransform, DiffVelocity, DiffHealth
  <2>3. QED
    BY <2>1, <2>2
<1>8. \A x, y : x ?? y = NoDiff => x = NoDiff
  BY DEF ??
<1>9. /\ c2 = NoDiff => d1 = NoDiff
      /\ c3 = NoDiff => c2 = NoDiff
      /\ c4 = NoDiff => c3 = NoDiff
      /\ c5 = NoDiff => c4 = NoDiff
  BY <1>8
<1> HIDE DEF h1, h2, h3, h4, h5, h6, d1, d2, d3, d4, d5, d6
<1>10. i2(e) \in Streams /\ i2(a) \in Streams /\ Locates(i2(e), i2(a), c2)
  BY <1>3, <1>4, <1>6, LocatesBoth
<1> HIDE DEF i2, c2
<1>11. i3(e) \in Streams /\ i3(a) \in Streams /\ Locates(i3(e), i3(a), c3)
  BY <1>3, <1>6, <1>10, LocatesBoth
<1> HIDE DEF i3, c3
<1>12. i4(e) \in Streams /\ i4(a) \in Streams /\ Locates(i4(e), i4(a), c4)
  BY <1>3, <1>6, <1>9, <1>11, LocatesBoth
<1> HIDE DEF i4, c4
<1>13. i5(e) \in Streams /\ i5(a) \in Streams /\ Locates(i5(e), i5(a), c5)
  BY <1>3, <1>6, <1>9, <1>12, LocatesBoth
<1> HIDE DEF i5, c5
<1>14. i6(e) \in Streams /\ i6(a) \in Streams /\ Locates(i6(e), i6(a), c6)
  BY <1>3, <1>6, <1>9, <1>13, LocatesBoth
<1>15. QED
  BY <1>7, <1>14

(* Of any two reachable worlds that validate, sim_diff_state reports a     *)
(* difference exactly when sim_hash_state hashes them differently, and     *)
(* what it names is the field, the index and the values of the first byte  *)
(* that differs.                                                           *)
THEOREM ReportLocates == WorldsSpec => []FirstDivergence
<1>1. WorldsInvariant => FirstDivergence
  <2> SUFFICES ASSUME WorldsInvariant PROVE FirstDivergence
    OBVIOUS
  <2> DEFINE he == Hashed(expected)
             ha == Hashed(actual)
             at == {k \in 1 .. Min({Len(he), Len(ha)}) : he[k] # ha[k]}
             d  == SimDiffState(expected, actual)
  <2>1. calls \in 0 .. Limit64 - 1
    BY StateDiffAssumption, WordLimits DEF WorldsInvariant
  <2>2. CASE ~(CanonicalWorld(expected) /\ CanonicalWorld(actual))
    <3>1. d.field = "invalid"
      BY <2>2 DEF SimDiffState, Diff
    <3>2. QED
      BY <2>2, <3>1 DEF FirstDivergence
  <2>3. CASE CanonicalWorld(expected) /\ CanonicalWorld(actual)
    <3>1. he \in Streams /\ ha \in Streams /\ Locates(he, ha, d)
      BY <2>1, <2>3, HashedLocates DEF WorldsInvariant
    <3> HIDE DEF he, ha, d
    <3>2. /\ Len(he) \in Nat /\ Len(ha) \in Nat
          /\ he \in Seq(Cells) /\ ha \in Seq(Cells)
      BY <3>1, LenProperties DEF Streams
    <3> DEFINE m == Min({Len(he), Len(ha)})
    <3>3. m \in Nat /\ m <= Len(he) /\ m <= Len(ha) /\ (m = Len(he) \/ m = Len(ha))
      <4> DEFINE S == {Len(he), Len(ha)}
      <4>1. S \subseteq Nat /\ S # {}
        BY <3>2
      <4>2. PICK l \in S : \A y \in S : l =< y
        BY <3>2
      <4>3. m \in S /\ \A y \in S : m =< y
        BY <4>2 DEF Min
      <4> HIDE DEF m
      <4>4. QED
        BY <4>1, <4>3
    <3>4. at = {k \in 1 .. m : he[k] # ha[k]}
      OBVIOUS
    <3> HIDE DEF m, at
    <3>5. CASE d = NoDiff
      <4>1. he = ha
        BY <3>1, <3>5 DEF Locates
      <4>2. at = {}
        BY <3>4, <4>1
      <4>3. d.field # "invalid"
        BY <3>5 DEF NoDiff, Diff
      <4>4. QED
        BY <2>3, <3>5, <4>1, <4>2, <4>3 DEF FirstDivergence, he, ha, at, d
    <3>6. CASE d # NoDiff
      <4>1. PICK k \in 1 .. Len(he) :
                ApartAt(he, ha, k) /\ he[k].field = d.field /\ he[k].index = d.index
        BY <3>1, <3>6 DEF Locates
      <4>2. d.expected # d.actual
        BY <3>1, <3>6 DEF Locates
      <4>3. /\ k \in 1 .. Len(ha) /\ he[k] # ha[k]
            /\ \A j \in 1 .. k - 1 : he[j] = ha[j]
        BY <4>1 DEF ApartAt
      <4>4. k \in at /\ \A j \in at : k <= j
        <5>1. k \in 1 .. m
          BY <3>2, <3>3, <4>3
        <5>2. ASSUME NEW j \in at PROVE k <= j
          <6>1. j \in 1 .. m /\ he[j] # ha[j]
            BY <3>4
          <6>2. j \notin 1 .. k - 1
            BY <4>3, <6>1
          <6>3. QED
            BY <3>3, <5>1, <6>1, <6>2
        <5>3. QED
          BY <3>4, <4>3, <5>1, <5>2
      <4>5. Min(at) = k
        <5>1. at \subseteq Nat
          BY <3>4
        <5>2. \A i \in at : (\A j \in at : i <= j) => i = k
          <6>1. ASSUME NEW i \in at, \A j \in at : i <= j PROVE i = k
            <7>1. i <= k /\ k <= i /\ i \in Nat /\ k \in Nat
              BY <4>4, <5>1, <6>1
            <7>2. QED
              BY <7>1
          <6>2. QED
            BY <6>1
        <5>3. QED
          BY <4>4, <5>2 DEF Min
      <4>6. d.field # "invalid"
        <5>1. he[k] \in Cells
          BY <3>2, <4>1, ElementOfSeq
        <5>2. he[k].field \in Names
          BY <5>1 DEF Cells
        <5>3. \A f \in Names : f # "invalid"
          BY DEF Names
        <5>4. QED
          BY <4>1, <5>2, <5>3
      <4>7. at # {}
        BY <4>4
      <4>8. QED
        BY <2>3, <4>1, <4>2, <4>5, <4>6, <4>7 DEF FirstDivergence, he, ha, at, d
    <3>7. QED
      BY <3>5, <3>6
  <2>4. QED
    BY <2>2, <2>3
<1>2. QED
  BY <1>1, WorldsStay, PTL

----------------------------------------------------------------------------
(* Two worlds that agree on all that is hashed. *)

(* What is behind the counts of the manager: the free stack holds the dead *)
(* slots, each once, and a slot never issued is as it was at the start.    *)
Stacked(w) ==
    /\ w.free_count <= w.next_fresh
    /\ \A k \in 1 .. w.free_count :
            w.free_stack[k] < w.next_fresh /\ w.liveness[w.free_stack[k]] = 0
    /\ \A j, k \in 1 .. w.free_count : w.free_stack[j] = w.free_stack[k] => j = k
    /\ UnissuedClear(w)

(* The one world is the other but for its pools. *)
SameRest(v, w) ==
    /\ v.event_capacity = w.event_capacity /\ v.tick = w.tick /\ v.rng = w.rng
    /\ v.generations = w.generations /\ v.liveness = w.liveness
    /\ v.free_stack = w.free_stack /\ v.next_fresh = w.next_fresh
    /\ v.live_count = w.live_count /\ v.free_count = w.free_count
    /\ v.unit_entities = w.unit_entities /\ v.pending_destroy = w.pending_destroy
    /\ v.buffers = w.buffers /\ v.read_index = w.read_index

(* Apart from their pools, the worlds agree on all that is hashed; a free  *)
(* stack counts up to its height.                                          *)
RestAgrees(e, a) ==
    /\ e.event_capacity = a.event_capacity /\ e.tick = a.tick /\ e.rng = a.rng
    /\ e.generations = a.generations /\ e.liveness = a.liveness
    /\ e.next_fresh = a.next_fresh /\ e.live_count = a.live_count /\ e.free_count = a.free_count
    /\ \A k \in 1 .. e.free_count : e.free_stack[k] = a.free_stack[k]
    /\ e.unit_entities = a.unit_entities /\ e.pending_destroy = a.pending_destroy
    /\ ReadEvents(e) = ReadEvents(a) /\ WriteEvents(e) = WriteEvents(a)

(* A pool of both has the same members with the same rows, in whatever     *)
(* order.                                                                  *)
PoolAgrees(e, a, p) ==
    \A h : /\ Has(e, p, h) <=> Has(a, p, h)
           /\ Has(e, p, h) => Row(e, p, h) = Row(a, p, h)

(* Two worlds after at most n calls that agree on everything the           *)
(* operations ask of them.                                                 *)
Twins(e, a, n) ==
    /\ IsWorld(e, n) /\ Stacked(e) /\ IsWorld(a, n) /\ Stacked(a)
    /\ RestAgrees(e, a) /\ \A p \in Pools : PoolAgrees(e, a, p)

(* A call that only changes a pool leaves the rest in agreement. *)
LEMMA SameRestAgrees ==
  ASSUME NEW e, NEW a, NEW e2, NEW a2,
         RestAgrees(e, a), Stacked(e), Stacked(a), SameRest(e2, e), SameRest(a2, a)
  PROVE  RestAgrees(e2, a2) /\ Stacked(e2) /\ Stacked(a2)
<1>1. Stacked(e2) /\ Stacked(a2)
  BY DEF SameRest, Stacked, UnissuedClear
<1>2. /\ ReadEvents(e2) = ReadEvents(e) /\ ReadEvents(a2) = ReadEvents(a)
      /\ WriteEvents(e2) = WriteEvents(e) /\ WriteEvents(a2) = WriteEvents(a)
  BY DEF SameRest, ReadEvents, WriteEvents, WriteIndex
<1>3. RestAgrees(e2, a2)
  BY <1>2 DEF SameRest, RestAgrees
<1>4. QED
  BY <1>1, <1>3

(* A pool that neither world changes stays in agreement. *)
LEMMA SamePools ==
  ASSUME NEW e, NEW a, NEW e2, NEW a2, NEW p, PoolAgrees(e, a, p),
         e2.pools[p] = e.pools[p], a2.pools[p] = a.pools[p]
  PROVE  PoolAgrees(e2, a2, p)
<1>1. ASSUME NEW v, NEW w, v.pools[p] = w.pools[p], NEW h
      PROVE  /\ Has(v, p, h) <=> Has(w, p, h)
             /\ Row(v, p, h) = Row(w, p, h)
  BY <1>1 DEF Has, Row, DenseIndex
<1>2. QED
  BY <1>1 DEF PoolAgrees

(* A member and its row are found wherever they are. *)
LEMMA RowAt ==
  ASSUME NEW n, NEW w, IsWorld(w, n), NEW p \in Pools, NEW d \in 1 .. Len(w.pools[p].dense)
  PROVE  /\ Has(w, p, w.pools[p].dense[d])
         /\ DenseIndex(w, p, w.pools[p].dense[d]) = d
         /\ Row(w, p, w.pools[p].dense[d]) = w.pools[p].rows[d]
<1>1. \A c, b \in 1 .. Len(w.pools[p].dense) : w.pools[p].dense[c] = w.pools[p].dense[b] => c = b
  BY DEF IsWorld, IsPool
<1>2. Has(w, p, w.pools[p].dense[d])
  BY DEF Has, Contains
<1>3. DenseIndex(w, p, w.pools[p].dense[d]) = d
  BY <1>1 DEF DenseIndex
<1>4. QED
  BY <1>2, <1>3 DEF Row

(* Where a member is, and which row is its own. *)
LEMMA MemberAt ==
  ASSUME NEW n, NEW w, IsWorld(w, n), NEW p \in Pools, NEW h, Has(w, p, h)
  PROVE  /\ DenseIndex(w, p, h) \in 1 .. Len(w.pools[p].dense)
         /\ w.pools[p].dense[DenseIndex(w, p, h)] = h
         /\ Row(w, p, h) = w.pools[p].rows[DenseIndex(w, p, h)]
BY MemberRow DEF Row

(* Exchanging a pool leaves the rest and the other pools. *)
LEMMA PoolOnly ==
  ASSUME NEW n, NEW w, IsWorld(w, n), NEW p \in Pools, NEW q
  PROVE  /\ SameRest([w EXCEPT !.pools[p] = q], w)
         /\ [w EXCEPT !.pools[p] = q].pools[p] = q
         /\ \A o \in Pools : o # p => [w EXCEPT !.pools[p] = q].pools[o] = w.pools[o]
<1> DEFINE v == [w EXCEPT !.pools[p] = q]
<1>1. w \in World /\ DOMAIN w.pools = Pools
  BY DEF IsWorld, World
<1>2. v.pools = [w.pools EXCEPT ![p] = q]
  BY <1>1 DEF World
<1>3. SameRest(v, w)
  BY <1>1 DEF World, SameRest
<1>4. QED
  BY <1>1, <1>2, <1>3

(* component_pool_add: the new member with its row, all others as before;  *)
(* nothing when the index is taken.                                        *)
LEMMA AddedRows ==
  ASSUME NEW n \in Nat, NEW w, IsWorld(w, n), NEW p \in Pools, NEW h \in Handles,
         NEW row \in Seq(Values), Len(row) = Len(Columns[p])
  PROVE  LET v == Added(w, p, h, row) IN
         /\ SameRest(v, w) /\ \A o \in Pools : o # p => v.pools[o] = w.pools[o]
         /\ (\E m : Has(w, p, m) /\ Index(m) = Index(h)) =>
                \A m : /\ Has(v, p, m) <=> Has(w, p, m)
                       /\ Has(v, p, m) => Row(v, p, m) = Row(w, p, m)
         /\ ~(\E m : Has(w, p, m) /\ Index(m) = Index(h)) =>
                \A m : /\ Has(v, p, m) <=> Has(w, p, m) \/ m = h
                       /\ Has(v, p, m) => Row(v, p, m) = IF m = h THEN row ELSE Row(w, p, m)
<1>0. ASSUME NEW x
      PROVE  /\ SameRest([w EXCEPT !.pools[p] = x], w)
             /\ [w EXCEPT !.pools[p] = x].pools[p] = x
             /\ \A o \in Pools : o # p => [w EXCEPT !.pools[p] = x].pools[o] = w.pools[o]
  <2>1. SameRest([w EXCEPT !.pools[p] = x], w)
    BY PoolOnly
  <2>2. [w EXCEPT !.pools[p] = x].pools[p] = x
    <3>1. w \in World /\ DOMAIN w.pools = Pools
      BY DEF IsWorld, World
    <3>2. [w EXCEPT !.pools[p] = x].pools = [w.pools EXCEPT ![p] = x]
      BY <3>1 DEF World
    <3>3. QED
      BY <3>1, <3>2
  <2>3. \A o \in Pools : o # p => [w EXCEPT !.pools[p] = x].pools[o] = w.pools[o]
    BY PoolOnly
  <2>4. QED
    BY <2>1, <2>2, <2>3
<1> DEFINE v == Added(w, p, h, row)
           q == w.pools[p]
           s == q.dense
           t == q.rows
           s1 == Append(s, h)
           t1 == Append(t, row)
           r == [dense |-> s1, rows |-> t1]
           Taken == \E d \in 1 .. Len(w.pools[p].dense) : Index(w.pools[p].dense[d]) = Index(h)
<1>1. (\E m : Has(w, p, m) /\ Index(m) = Index(h)) <=> Taken
  BY DEF Has, Contains
<1>2. CASE Taken
  <2>1. v = w
    BY <1>2 DEF Added
  <2>2. SameRest(w, w)
    BY DEF SameRest
  <2> HIDE DEF Taken
  <2>3. QED
    BY <1>1, <1>2, <2>1, <2>2
<1>3. CASE ~Taken
  <2>1. w \in World /\ q \in PoolRecords /\ IsPool(q, p)
    BY DEF IsWorld, World, PoolRecords
  <2>2. v = [w EXCEPT !.pools[p] = r]
    BY <1>3, <2>1 DEF Added, World
  <2>3. /\ SameRest(v, w) /\ v.pools[p] = r
        /\ \A o \in Pools : o # p => v.pools[o] = w.pools[o]
    <3> HIDE DEF v, r
    <3>1. QED
      BY <1>0, <2>2, Zenon
  <2>4. IsWorld(v, n)
    BY AddedStays
  <2>5. \A d \in 1 .. Len(s) : s[d] # h
    BY <1>3
  <2> HIDE DEF v, Taken
  <2>6. s \in Seq(Handles) /\ t \in Seq(Seq(Values)) /\ Len(t) = Len(s)
    BY <2>1 DEF PoolRecords, IsPool
  <2>7. w.pools[p].dense = s /\ w.pools[p].rows = t /\ v.pools[p].dense = s1 /\ v.pools[p].rows = t1
    <3>1. v.pools[p] = r
      BY <2>3
    <3>2. r.dense = s1 /\ r.rows = t1
      OBVIOUS
    <3> HIDE DEF v, r, s1, t1
    <3>3. QED
      BY <3>1, <3>2
  <2> HIDE DEF s, t
  <2>8. /\ s1 \in Seq(Handles) /\ Len(s1) = Len(s) + 1 /\ Len(s) \in Nat
        /\ \A d \in 1 .. Len(s) : s1[d] = s[d]
        /\ s1[Len(s) + 1] = h
    BY <2>6, AppendProperties, LenProperties
  <2>9. /\ Len(t1) = Len(t) + 1 /\ Len(t) \in Nat
        /\ \A d \in 1 .. Len(t) : t1[d] = t[d]
        /\ t1[Len(t) + 1] = row
    BY <2>6, AppendProperties, LenProperties
  <2> HIDE DEF s1, t1
  <2>10. \A d \in 1 .. Len(s) : d \in 1 .. Len(s1)
    BY <2>8
  <2>11. Len(s) + 1 \in 1 .. Len(s1) /\ \A d \in 1 .. Len(s1) : d \in 1 .. Len(s) \/ d = Len(s) + 1
    BY <2>8
  <2>12. Has(v, p, h) /\ Row(v, p, h) = row
    BY <2>4, <2>6, <2>7, <2>8, <2>9, <2>11, RowAt
  <2>13. ASSUME NEW m, Has(w, p, m) PROVE Has(v, p, m) /\ Row(v, p, m) = Row(w, p, m) /\ m # h
    <3> DEFINE d == DenseIndex(w, p, m)
    <3>1. d \in 1 .. Len(s) /\ s[d] = m /\ Row(w, p, m) = t[d]
      BY <2>7, <2>13, MemberAt
    <3> HIDE DEF d
    <3>2. d \in 1 .. Len(s1) /\ s1[d] = m /\ t1[d] = t[d] /\ m # h
      BY <2>5, <2>6, <2>7, <2>8, <2>9, <2>10, <3>1
    <3>3. Has(v, p, m) /\ Row(v, p, m) = t1[d]
      BY <2>4, <2>7, <3>2, RowAt
    <3>4. QED
      BY <3>1, <3>2, <3>3
  <2>14. ASSUME NEW m, Has(v, p, m) PROVE Has(w, p, m) \/ m = h
    <3> DEFINE d == DenseIndex(v, p, m)
    <3>1. d \in 1 .. Len(s1) /\ s1[d] = m
      BY <2>4, <2>7, <2>14, MemberAt
    <3> HIDE DEF d
    <3>2. CASE d \in 1 .. Len(s)
      <4>1. s[d] = m
        BY <2>8, <3>1, <3>2
      <4>2. QED
        BY <2>7, <3>2, <4>1, RowAt
    <3>3. CASE d = Len(s) + 1
      BY <2>8, <3>1, <3>3
    <3>4. QED
      BY <2>11, <3>1, <3>2, <3>3
  <2>15. \A m : /\ Has(v, p, m) <=> Has(w, p, m) \/ m = h
                /\ Has(v, p, m) => Row(v, p, m) = IF m = h THEN row ELSE Row(w, p, m)
    BY <2>12, <2>13, <2>14
  <2>16. QED
    BY <1>1, <1>3, <2>3, <2>15 DEF v
<1>4. QED
  BY <1>2, <1>3

(* component_pool_remove: the member is gone, all others keep their rows,  *)
(* wherever they are moved.                                                *)
LEMMA RemovedRows ==
  ASSUME NEW n \in Nat, NEW w, IsWorld(w, n), NEW p \in Pools, NEW h
  PROVE  LET v == Removed(w, p, h) IN
         /\ SameRest(v, w) /\ \A o \in Pools : o # p => v.pools[o] = w.pools[o]
         /\ \A m : /\ Has(v, p, m) <=> Has(w, p, m) /\ m # h
                   /\ Has(v, p, m) => Row(v, p, m) = Row(w, p, m)
<1> DEFINE v == Removed(w, p, h)
           q == w.pools[p]
           d == DenseIndex(w, p, h)
           s == q.dense
           t == q.rows
           s1 == SwapRemoved(s, d)
           t1 == SwapRemoved(t, d)
           r == [dense |-> s1, rows |-> t1]
<1>1. CASE ~Has(w, p, h)
  <2>1. v = w
    BY <1>1 DEF Removed
  <2>2. SameRest(w, w)
    BY DEF SameRest
  <2>3. QED
    BY <1>1, <2>1, <2>2
<1>2. CASE Has(w, p, h)
  <2>1. w \in World /\ q \in PoolRecords /\ IsPool(q, p)
    BY DEF IsWorld, World, PoolRecords
  <2>2. d \in 1 .. Len(s) /\ s[d] = h
    BY <1>2, MemberRow
  <2>3. v = [w EXCEPT !.pools[p] = r]
    BY <1>2, <2>1 DEF Removed, World
  <2>4. /\ SameRest(v, w) /\ v.pools[p] = r
        /\ \A o \in Pools : o # p => v.pools[o] = w.pools[o]
    BY <2>3, PoolOnly
  <2>5. IsWorld(v, n)
    BY RemovedStays
  <2>6. s \in Seq(Handles) /\ t \in Seq(Seq(Values)) /\ Len(t) = Len(s)
    BY <2>1 DEF PoolRecords, IsPool
  <2>7. \A b, c \in 1 .. Len(s) : s[b] = s[c] => b = c
    BY <2>1 DEF IsPool
  <2>8. w.pools[p].dense = s /\ w.pools[p].rows = t /\ v.pools[p].dense = s1 /\ v.pools[p].rows = t1
    BY <2>4
  <2> HIDE DEF v, s, t, d
  <2>9. d \in 1 .. Len(t)
    BY <2>2, <2>6
  <2>10. /\ Len(s1) = Len(s) - 1
         /\ \A c \in 1 .. Len(s) - 1 : s1[c] = IF c = d THEN s[Len(s)] ELSE s[c]
    BY <2>2, <2>6, SwapRemoves
  <2>11. \A c \in 1 .. Len(t) - 1 : t1[c] = IF c = d THEN t[Len(t)] ELSE t[c]
    BY <2>6, <2>9, SwapRemoves
  <2> HIDE DEF s1, t1
  <2>12. Len(s) \in Nat /\ Len(s) \in 1 .. Len(s)
    BY <2>2, <2>6, LenProperties
  <2>13. ASSUME NEW m, Has(w, p, m), m # h
         PROVE  Has(v, p, m) /\ Row(v, p, m) = Row(w, p, m)
    <3> DEFINE c == DenseIndex(w, p, m)
               b == IF c = Len(s) THEN d ELSE c
    <3>1. c \in 1 .. Len(s) /\ s[c] = m /\ Row(w, p, m) = t[c]
      BY <2>8, <2>13, MemberAt
    <3> HIDE DEF c
    <3>2. c # d
      BY <2>2, <2>13, <3>1
    <3>3. b \in 1 .. Len(s) - 1 /\ (b = d <=> c = Len(s)) /\ (b # d => b = c)
      BY <2>2, <2>12, <3>1, <3>2
    <3> HIDE DEF b
    <3>4. s1[b] = m /\ t1[b] = t[c]
      BY <2>6, <2>10, <2>11, <3>1, <3>3
    <3>5. Has(v, p, m) /\ Row(v, p, m) = t1[b]
      BY <2>5, <2>8, <2>10, <3>3, <3>4, RowAt
    <3>6. QED
      BY <3>1, <3>4, <3>5
  <2>14. ASSUME NEW m, Has(v, p, m) PROVE Has(w, p, m) /\ m # h
    <3> DEFINE b == DenseIndex(v, p, m)
               c == IF b = d THEN Len(s) ELSE b
    <3>1. b \in 1 .. Len(s) - 1 /\ s1[b] = m
      BY <2>5, <2>8, <2>10, <2>14, MemberAt
    <3> HIDE DEF b
    <3>2. c \in 1 .. Len(s) /\ c # d /\ s[c] = m
      BY <2>2, <2>10, <2>12, <3>1
    <3> HIDE DEF c
    <3>3. Has(w, p, m)
      BY <2>8, <3>2, RowAt
    <3>4. m # h
      BY <2>2, <2>7, <3>2
    <3>5. QED
      BY <3>3, <3>4
  <2>15. \A m : /\ Has(v, p, m) <=> Has(w, p, m) /\ m # h
                /\ Has(v, p, m) => Row(v, p, m) = Row(w, p, m)
    BY <2>13, <2>14
  <2>16. QED
    BY <2>4, <2>15 DEF v
<1>3. QED
  BY <1>1, <1>2

(* The rows are exchanged, the members stay. *)
LEMMA RowsChanged ==
  ASSUME NEW n, NEW w, IsWorld(w, n), NEW p \in Pools, NEW t, IsWorld([w EXCEPT !.pools[p].rows = t], n)
  PROVE  LET v == [w EXCEPT !.pools[p].rows = t] IN
         /\ SameRest(v, w) /\ \A o \in Pools : o # p => v.pools[o] = w.pools[o]
         /\ \A m : /\ Has(v, p, m) <=> Has(w, p, m)
                   /\ Has(v, p, m) => Row(v, p, m) = t[DenseIndex(w, p, m)]
<1> DEFINE q == w.pools[p]
           v == [w EXCEPT !.pools[p].rows = t]
           r == [dense |-> q.dense, rows |-> t]
<1>1. v = [w EXCEPT !.pools[p] = [q EXCEPT !.rows = t]]
  BY Zenon
<1>2. q \in PoolRecords
  BY DEF IsWorld, World, PoolRecords
<1>3. [q EXCEPT !.rows = t] = r
  <2> HIDE DEF q
  <2>1. QED
    BY <1>2 DEF PoolRecords
<1>4. v = [w EXCEPT !.pools[p] = r]
  BY <1>1, <1>3
<1>5. IsWorld(v, n)
  OBVIOUS
<1> HIDE DEF v
<1>6. /\ SameRest(v, w) /\ v.pools[p] = r
      /\ \A o \in Pools : o # p => v.pools[o] = w.pools[o]
  BY <1>4, PoolOnly
<1>7. v.pools[p].dense = w.pools[p].dense /\ v.pools[p].rows = t
  BY <1>6
<1>8. \A m : /\ Has(v, p, m) <=> Has(w, p, m)
             /\ Row(v, p, m) = t[DenseIndex(w, p, m)]
  BY <1>7 DEF Has, Row, DenseIndex
<1>9. QED
  BY <1>6, <1>8 DEF v

----------------------------------------------------------------------------
(* Twins stay twins under a call that both get. *)

(* One pool changes in both, and in the same way. *)
LEMMA TwinPools ==
  ASSUME NEW n, NEW e, NEW a, Twins(e, a, n), NEW p \in Pools,
         NEW m, NEW e2, NEW a2, IsWorld(e2, m), IsWorld(a2, m),
         SameRest(e2, e), SameRest(a2, a),
         \A o \in Pools : o # p => e2.pools[o] = e.pools[o],
         \A o \in Pools : o # p => a2.pools[o] = a.pools[o],
         PoolAgrees(e2, a2, p)
  PROVE  Twins(e2, a2, m)
<1>1. RestAgrees(e2, a2) /\ Stacked(e2) /\ Stacked(a2)
  BY SameRestAgrees DEF Twins
<1>2. ASSUME NEW o \in Pools PROVE PoolAgrees(e2, a2, o)
  <2>1. CASE o = p
    BY <2>1
  <2>2. CASE o # p
    <3>1. e2.pools[o] = e.pools[o] /\ a2.pools[o] = a.pools[o] /\ PoolAgrees(e, a, o)
      BY <2>2 DEF Twins
    <3>2. QED
      BY <3>1, SamePools
  <2>3. QED
    BY <2>1, <2>2
<1>3. QED
  BY <1>1, <1>2 DEF Twins

(* The rest changes in both, and in the same way. *)
LEMMA TwinRests ==
  ASSUME NEW n, NEW e, NEW a, Twins(e, a, n),
         NEW m, NEW e2, NEW a2, IsWorld(e2, m), IsWorld(a2, m),
         e2.pools = e.pools, a2.pools = a.pools,
         RestAgrees(e2, a2), Stacked(e2), Stacked(a2)
  PROVE  Twins(e2, a2, m)
<1>1. ASSUME NEW o \in Pools PROVE PoolAgrees(e2, a2, o)
  <2>1. PoolAgrees(e, a, o)
    BY DEF Twins
  <2>2. QED
    BY <2>1, SamePools
<1>2. QED
  BY <1>1 DEF Twins

(* component_pool_add keeps worlds in agreement. *)
LEMMA TwinsAdd ==
  ASSUME NEW n \in Nat, NEW e, NEW a, Twins(e, a, n), NEW p \in Pools, NEW h \in Handles,
         NEW row \in Seq(Values), Len(row) = Len(Columns[p])
  PROVE  Twins(Added(e, p, h, row), Added(a, p, h, row), n)
<1> DEFINE Taken(w) == \E m : Has(w, p, m) /\ Index(m) = Index(h)
<1>1. IsWorld(e, n) /\ IsWorld(a, n) /\ PoolAgrees(e, a, p)
  BY DEF Twins
<1>2. \A w \in {e, a} : LET v == Added(w, p, h, row) IN
         /\ IsWorld(v, n)
         /\ SameRest(v, w) /\ \A o \in Pools : o # p => v.pools[o] = w.pools[o]
         /\ Taken(w) => \A m : /\ Has(v, p, m) <=> Has(w, p, m)
                               /\ Has(v, p, m) => Row(v, p, m) = Row(w, p, m)
         /\ ~Taken(w) => \A m : /\ Has(v, p, m) <=> Has(w, p, m) \/ m = h
                                /\ Has(v, p, m) => Row(v, p, m) = IF m = h THEN row ELSE Row(w, p, m)
  <2>1. ASSUME NEW w, IsWorld(w, n)
        PROVE  LET v == Added(w, p, h, row) IN
         /\ IsWorld(v, n)
         /\ SameRest(v, w) /\ \A o \in Pools : o # p => v.pools[o] = w.pools[o]
         /\ Taken(w) => \A m : /\ Has(v, p, m) <=> Has(w, p, m)
                               /\ Has(v, p, m) => Row(v, p, m) = Row(w, p, m)
         /\ ~Taken(w) => \A m : /\ Has(v, p, m) <=> Has(w, p, m) \/ m = h
                                /\ Has(v, p, m) => Row(v, p, m) = IF m = h THEN row ELSE Row(w, p, m)
    BY <2>1, AddedRows, AddedStays
  <2>2. QED
    BY <1>1, <2>1
<1> DEFINE e2 == Added(e, p, h, row)
           a2 == Added(a, p, h, row)
<1>3. Taken(e) <=> Taken(a)
  BY <1>1 DEF PoolAgrees
<1> HIDE DEF Taken
<1>4. /\ IsWorld(e2, n) /\ IsWorld(a2, n) /\ SameRest(e2, e) /\ SameRest(a2, a)
      /\ \A o \in Pools : o # p => e2.pools[o] = e.pools[o] /\ a2.pools[o] = a.pools[o]
  BY <1>2
<1>5. PoolAgrees(e2, a2, p)
  <2>1. CASE Taken(e)
    <3>1. \A m : /\ Has(e2, p, m) <=> Has(e, p, m)
                 /\ Has(e2, p, m) => Row(e2, p, m) = Row(e, p, m)
                 /\ Has(a2, p, m) <=> Has(a, p, m)
                 /\ Has(a2, p, m) => Row(a2, p, m) = Row(a, p, m)
      BY <1>2, <1>3, <2>1
    <3> HIDE DEF e2, a2
    <3>2. QED
      BY <1>1, <3>1 DEF PoolAgrees
  <2>2. CASE ~Taken(e)
    <3>1. \A m : /\ Has(e2, p, m) <=> Has(e, p, m) \/ m = h
                 /\ Has(e2, p, m) => Row(e2, p, m) = IF m = h THEN row ELSE Row(e, p, m)
                 /\ Has(a2, p, m) <=> Has(a, p, m) \/ m = h
                 /\ Has(a2, p, m) => Row(a2, p, m) = IF m = h THEN row ELSE Row(a, p, m)
      BY <1>2, <1>3, <2>2
    <3> HIDE DEF e2, a2
    <3>2. QED
      BY <1>1, <3>1 DEF PoolAgrees
  <2>3. QED
    BY <2>1, <2>2
<1> HIDE DEF e2, a2
<1>6. Twins(e2, a2, n)
  BY <1>4, <1>5, TwinPools
<1>7. QED
  BY <1>6 DEF e2, a2

(* component_pool_remove keeps worlds in agreement, though it reorders     *)
(* their pools differently.                                                *)
LEMMA TwinsRemove ==
  ASSUME NEW n \in Nat, NEW e, NEW a, Twins(e, a, n), NEW p \in Pools, NEW h
  PROVE  Twins(Removed(e, p, h), Removed(a, p, h), n)
<1> DEFINE e2 == Removed(e, p, h)
           a2 == Removed(a, p, h)
<1>1. IsWorld(e, n) /\ IsWorld(a, n) /\ PoolAgrees(e, a, p)
  BY DEF Twins
<1>2. /\ IsWorld(e2, n) /\ SameRest(e2, e)
      /\ \A o \in Pools : o # p => e2.pools[o] = e.pools[o]
      /\ \A m : /\ Has(e2, p, m) <=> Has(e, p, m) /\ m # h
                /\ Has(e2, p, m) => Row(e2, p, m) = Row(e, p, m)
  BY <1>1, RemovedRows, RemovedStays
<1>3. /\ IsWorld(a2, n) /\ SameRest(a2, a)
      /\ \A o \in Pools : o # p => a2.pools[o] = a.pools[o]
      /\ \A m : /\ Has(a2, p, m) <=> Has(a, p, m) /\ m # h
                /\ Has(a2, p, m) => Row(a2, p, m) = Row(a, p, m)
  BY <1>1, RemovedRows, RemovedStays
<1> HIDE DEF e2, a2
<1>4. PoolAgrees(e2, a2, p)
  BY <1>1, <1>2, <1>3 DEF PoolAgrees
<1>5. Twins(e2, a2, n)
  BY <1>2, <1>3, <1>4, TwinPools
<1>6. QED
  BY <1>5 DEF e2, a2

(* A write changes the row of one member. *)
LEMMA WrittenRows ==
  ASSUME NEW n \in Nat, NEW w, IsWorld(w, n), NEW p \in Pools, NEW h, Has(w, p, h),
         NEW c \in DOMAIN Columns[p], NEW x \in Values
  PROVE  LET v == Written(w, p, h, c, x) IN
         /\ SameRest(v, w) /\ \A o \in Pools : o # p => v.pools[o] = w.pools[o]
         /\ \A m : /\ Has(v, p, m) <=> Has(w, p, m)
                   /\ Has(v, p, m) => Row(v, p, m) = IF m = h THEN [Row(w, p, h) EXCEPT ![c] = x]
                                                              ELSE Row(w, p, m)
<1> DEFINE d == DenseIndex(w, p, h)
           rows == w.pools[p].rows
           t == [rows EXCEPT ![d][c] = x]
           v == Written(w, p, h, c, x)
<1>1. v = [w EXCEPT !.pools[p].rows = t]
  <2>1. v = [w EXCEPT !.pools[p].rows[d][c] = x]
    BY DEF Written
  <2>2. [w EXCEPT !.pools[p].rows[d][c] = x] = [w EXCEPT !.pools[p].rows = t]
    BY Zenon
  <2>3. QED
    BY <2>1, <2>2
<1>2. IsWorld(v, n)
  BY WrittenStays
<1>3. rows \in Seq(Seq(Values)) /\ Len(rows) = Len(w.pools[p].dense)
  BY DEF IsWorld, World, IsPool
<1>4. ASSUME NEW m, Has(w, p, m)
      PROVE  t[DenseIndex(w, p, m)] = IF m = h THEN [Row(w, p, h) EXCEPT ![c] = x] ELSE Row(w, p, m)
  <2> DEFINE b == DenseIndex(w, p, m)
  <2>1. /\ b \in 1 .. Len(rows) /\ d \in 1 .. Len(rows)
        /\ w.pools[p].dense[b] = m /\ w.pools[p].dense[d] = h
        /\ Row(w, p, m) = rows[b] /\ Row(w, p, h) = rows[d]
    BY <1>3, <1>4, MemberAt
  <2>2. m = h <=> b = d
    BY <2>1
  <2> HIDE DEF b, d, rows
  <2>3. DOMAIN rows = 1 .. Len(rows)
    BY <1>3, LenProperties
  <2>4. t[b] = IF b = d THEN [rows[d] EXCEPT ![c] = x] ELSE rows[b]
    BY <2>1, <2>3
  <2>5. QED
    BY <2>1, <2>2, <2>4 DEF b
<1> HIDE DEF t, v
<1>5. /\ SameRest(v, w) /\ \A o \in Pools : o # p => v.pools[o] = w.pools[o]
      /\ \A m : /\ Has(v, p, m) <=> Has(w, p, m)
                /\ Has(v, p, m) => Row(v, p, m) = t[DenseIndex(w, p, m)]
  BY <1>1, <1>2, RowsChanged
<1>6. QED
  BY <1>4, <1>5 DEF v

(* A write through a view keeps worlds in agreement. *)
LEMMA TwinsWrite ==
  ASSUME NEW n \in Nat, NEW e, NEW a, Twins(e, a, n), NEW p \in Pools, NEW h,
         NEW c \in DOMAIN Columns[p], NEW x \in Values
  PROVE  Twins(Written(e, p, h, c, x), Written(a, p, h, c, x), n)
<1> DEFINE e2 == Written(e, p, h, c, x)
           a2 == Written(a, p, h, c, x)
<1>1. IsWorld(e, n) /\ IsWorld(a, n) /\ PoolAgrees(e, a, p)
  BY DEF Twins
<1>2. CASE ~Has(e, p, h)
  <2>1. ~Has(a, p, h)
    BY <1>1, <1>2 DEF PoolAgrees
  <2>2. e2 = e /\ a2 = a
    BY <1>2, <2>1 DEF Written
  <2>3. QED
    BY <2>2
<1>3. CASE Has(e, p, h)
  <2>1. Has(a, p, h) /\ Row(e, p, h) = Row(a, p, h)
    BY <1>1, <1>3 DEF PoolAgrees
  <2>2. /\ IsWorld(e2, n) /\ SameRest(e2, e)
        /\ \A o \in Pools : o # p => e2.pools[o] = e.pools[o]
        /\ \A m : /\ Has(e2, p, m) <=> Has(e, p, m)
                  /\ Has(e2, p, m) => Row(e2, p, m) = IF m = h THEN [Row(e, p, h) EXCEPT ![c] = x]
                                                              ELSE Row(e, p, m)
    BY <1>1, <1>3, WrittenRows, WrittenStays
  <2>3. /\ IsWorld(a2, n) /\ SameRest(a2, a)
        /\ \A o \in Pools : o # p => a2.pools[o] = a.pools[o]
        /\ \A m : /\ Has(a2, p, m) <=> Has(a, p, m)
                  /\ Has(a2, p, m) => Row(a2, p, m) = IF m = h THEN [Row(a, p, h) EXCEPT ![c] = x]
                                                              ELSE Row(a, p, m)
    BY <1>1, <2>1, WrittenRows, WrittenStays
  <2> HIDE DEF e2, a2
  <2>4. PoolAgrees(e2, a2, p)
    BY <1>1, <2>1, <2>2, <2>3 DEF PoolAgrees
  <2>5. Twins(e2, a2, n)
    BY <2>2, <2>3, <2>4, TwinPools
  <2>6. QED
    BY <2>5 DEF e2, a2
<1>4. QED
  BY <1>2, <1>3

(* A pass over the rows of a pool gives each member its new row. *)
LEMMA MovedRows ==
  ASSUME NEW n \in Nat, NEW w, IsWorld(w, n)
  PROVE  LET v == Moved(w) IN
         /\ SameRest(v, w) /\ \A o \in Pools : o # "transform" => v.pools[o] = w.pools[o]
         /\ \A m : /\ Has(v, "transform", m) <=> Has(w, "transform", m)
                   /\ Has(v, "transform", m) =>
                          Row(v, "transform", m) =
                              LET row == Row(w, "transform", m)
                                  s == Row(w, "velocity", m)
                              IN  IF Has(w, "velocity", m)
                                    THEN <<(row[1] + s[1]) % ValueMod, (row[2] + s[2]) % ValueMod, row[3]>>
                                    ELSE row
<1> DEFINE p == "transform"
           rows == w.pools[p].rows
           dense == w.pools[p].dense
           New(h, row) == IF Has(w, "velocity", h)
                            THEN LET s == Row(w, "velocity", h) IN
                                 <<(row[1] + s[1]) % ValueMod, (row[2] + s[2]) % ValueMod, row[3]>>
                            ELSE row
           t == [d \in DOMAIN rows |-> New(dense[d], rows[d])]
           v == Moved(w)
<1>1. v = [w EXCEPT !.pools[p].rows = t]
  BY DEF Moved, MapRows
<1>2. IsWorld(v, n) /\ p \in Pools
  BY MovedStays DEF Pools
<1>3. rows \in Seq(Seq(Values)) /\ Len(rows) = Len(dense)
  BY <1>2 DEF IsWorld, World, IsPool
<1>4. ASSUME NEW m, Has(w, p, m) PROVE t[DenseIndex(w, p, m)] = New(m, Row(w, p, m))
  <2> DEFINE b == DenseIndex(w, p, m)
  <2>1. b \in 1 .. Len(rows) /\ dense[b] = m /\ Row(w, p, m) = rows[b]
    BY <1>2, <1>3, <1>4, MemberAt
  <2> HIDE DEF b, rows, dense, New, p
  <2>2. DOMAIN rows = 1 .. Len(rows)
    BY <1>3, LenProperties
  <2>3. t[b] = New(dense[b], rows[b])
    BY <2>1, <2>2
  <2>4. QED
    BY <2>1, <2>3 DEF b
<1> HIDE DEF t, v, New
<1>5. /\ SameRest(v, w) /\ \A o \in Pools : o # p => v.pools[o] = w.pools[o]
      /\ \A m : /\ Has(v, p, m) <=> Has(w, p, m)
                /\ Has(v, p, m) => Row(v, p, m) = t[DenseIndex(w, p, m)]
  BY <1>1, <1>2, RowsChanged
<1>6. \A m : Has(v, p, m) => Row(v, p, m) = New(m, Row(w, p, m))
  BY <1>4, <1>5
<1>7. QED
  BY <1>5, <1>6 DEF v, New

(* The cooldown system changes each member's row by itself. *)
LEMMA CooledRows ==
  ASSUME NEW n \in Nat, NEW w, IsWorld(w, n)
  PROVE  LET v == Cooled(w) IN
         /\ SameRest(v, w) /\ \A o \in Pools : o # "health" => v.pools[o] = w.pools[o]
         /\ \A m : /\ Has(v, "health", m) <=> Has(w, "health", m)
                   /\ Has(v, "health", m) =>
                          Row(v, "health", m) = [Row(w, "health", m) EXCEPT ![3] = IF @ > 0 THEN @ - 1 ELSE 0]
<1> DEFINE p == "health"
           rows == w.pools[p].rows
           New(row) == [row EXCEPT ![3] = IF @ > 0 THEN @ - 1 ELSE 0]
           t == [d \in DOMAIN rows |-> New(rows[d])]
           v == Cooled(w)
<1>1. v = [w EXCEPT !.pools[p].rows = t]
  BY DEF Cooled, MapRows
<1>2. IsWorld(v, n) /\ p \in Pools
  BY CooledStays DEF Pools
<1>3. rows \in Seq(Seq(Values)) /\ Len(rows) = Len(w.pools[p].dense)
  BY <1>2 DEF IsWorld, World, IsPool
<1>4. ASSUME NEW m, Has(w, p, m) PROVE t[DenseIndex(w, p, m)] = New(Row(w, p, m))
  <2> DEFINE b == DenseIndex(w, p, m)
  <2>1. b \in 1 .. Len(rows) /\ Row(w, p, m) = rows[b]
    BY <1>2, <1>3, <1>4, MemberAt
  <2> HIDE DEF b, rows, New, p
  <2>2. DOMAIN rows = 1 .. Len(rows)
    BY <1>3, LenProperties
  <2>3. t[b] = New(rows[b])
    BY <2>1, <2>2
  <2>4. QED
    BY <2>1, <2>3 DEF b
<1> HIDE DEF t, v, New
<1>5. /\ SameRest(v, w) /\ \A o \in Pools : o # p => v.pools[o] = w.pools[o]
      /\ \A m : /\ Has(v, p, m) <=> Has(w, p, m)
                /\ Has(v, p, m) => Row(v, p, m) = t[DenseIndex(w, p, m)]
  BY <1>1, <1>2, RowsChanged
<1>6. \A m : Has(v, p, m) => Row(v, p, m) = New(Row(w, p, m))
  BY <1>4, <1>5
<1>7. QED
  BY <1>5, <1>6 DEF v, New

(* The movement and the cooldown system keep worlds in agreement. *)
LEMMA TwinsMoveAndCool ==
  ASSUME NEW n \in Nat, NEW e, NEW a, Twins(e, a, n)
  PROVE  Twins(Moved(e), Moved(a), n) /\ Twins(Cooled(e), Cooled(a), n)
<1>1. /\ IsWorld(e, n) /\ IsWorld(a, n) /\ "transform" \in Pools /\ "health" \in Pools
      /\ PoolAgrees(e, a, "transform") /\ PoolAgrees(e, a, "velocity") /\ PoolAgrees(e, a, "health")
  BY DEF Twins, Pools
<1>2. Twins(Moved(e), Moved(a), n)
  <2> DEFINE p == "transform"
             e2 == Moved(e)
             a2 == Moved(a)
             New(w, m) == LET row == Row(w, p, m)
                              s == Row(w, "velocity", m)
                          IN  IF Has(w, "velocity", m)
                                THEN <<(row[1] + s[1]) % ValueMod, (row[2] + s[2]) % ValueMod, row[3]>>
                                ELSE row
  <2>1. /\ IsWorld(e2, n) /\ SameRest(e2, e)
        /\ \A o \in Pools : o # p => e2.pools[o] = e.pools[o]
        /\ \A m : (Has(e2, p, m) <=> Has(e, p, m)) /\ (Has(e2, p, m) => Row(e2, p, m) = New(e, m))
    BY <1>1, MovedRows, MovedStays
  <2>2. /\ IsWorld(a2, n) /\ SameRest(a2, a)
        /\ \A o \in Pools : o # p => a2.pools[o] = a.pools[o]
        /\ \A m : (Has(a2, p, m) <=> Has(a, p, m)) /\ (Has(a2, p, m) => Row(a2, p, m) = New(a, m))
    BY <1>1, MovedRows, MovedStays
  <2>3. ASSUME NEW m, Has(e, p, m) PROVE New(e, m) = New(a, m)
    <3>1. Row(e, p, m) = Row(a, p, m) /\ (Has(e, "velocity", m) <=> Has(a, "velocity", m))
      BY <1>1, <2>3 DEF PoolAgrees
    <3>2. Has(e, "velocity", m) => Row(e, "velocity", m) = Row(a, "velocity", m)
      BY <1>1 DEF PoolAgrees
    <3>3. CASE Has(e, "velocity", m)
      BY <3>1, <3>2, <3>3
    <3>4. CASE ~Has(e, "velocity", m)
      BY <3>1, <3>4
    <3>5. QED
      BY <3>3, <3>4
  <2> HIDE DEF e2, a2, New
  <2>4. PoolAgrees(e2, a2, p)
    BY <1>1, <2>1, <2>2, <2>3 DEF PoolAgrees
  <2>5. Twins(e2, a2, n)
    BY <1>1, <2>1, <2>2, <2>4, TwinPools
  <2>6. QED
    BY <2>5 DEF e2, a2
<1>3. Twins(Cooled(e), Cooled(a), n)
  <2> DEFINE p == "health"
             e2 == Cooled(e)
             a2 == Cooled(a)
             New(row) == [row EXCEPT ![3] = IF @ > 0 THEN @ - 1 ELSE 0]
  <2>1. /\ IsWorld(e2, n) /\ SameRest(e2, e)
        /\ \A o \in Pools : o # p => e2.pools[o] = e.pools[o]
        /\ \A m : (Has(e2, p, m) <=> Has(e, p, m)) /\ (Has(e2, p, m) => Row(e2, p, m) = New(Row(e, p, m)))
    BY <1>1, CooledRows, CooledStays
  <2>2. /\ IsWorld(a2, n) /\ SameRest(a2, a)
        /\ \A o \in Pools : o # p => a2.pools[o] = a.pools[o]
        /\ \A m : (Has(a2, p, m) <=> Has(a, p, m)) /\ (Has(a2, p, m) => Row(a2, p, m) = New(Row(a, p, m)))
    BY <1>1, CooledRows, CooledStays
  <2> HIDE DEF e2, a2, New
  <2>3. PoolAgrees(e2, a2, p)
    BY <1>1, <2>1, <2>2 DEF PoolAgrees
  <2>4. Twins(e2, a2, n)
    BY <1>1, <2>1, <2>2, <2>3, TwinPools
  <2>5. QED
    BY <2>4 DEF e2, a2
<1>4. QED
  BY <1>2, <1>3

(* Different slots below a bound are no more than the bound. *)
LEMMA StackFits ==
  ASSUME NEW m \in Nat, NEW b \in Nat, NEW f, \A k \in 1 .. m : f[k] \in 0 .. b - 1,
         \A j, k \in 1 .. m : f[j] = f[k] => j = k
  PROVE  m <= b
<1> DEFINE g == [k \in 1 .. m |-> f[k]]
<1>1. g \in Injection(1 .. m, 0 .. b - 1)
  BY DEF Injection, IsInjective
<1>2. IsFiniteSet(0 .. b - 1) /\ Cardinality(0 .. b - 1) = b
  BY FS_Interval
<1>3. IsFiniteSet(1 .. m) /\ Cardinality(1 .. m) = m
  BY FS_Interval
<1>4. Cardinality(1 .. m) <= Cardinality(0 .. b - 1)
  BY <1>1, <1>2, FS_Injection
<1>5. QED
  BY <1>2, <1>3, <1>4

(* What entity_manager_create does to the fields of a world. *)
LEMMA CreatedFields ==
  ASSUME NEW n, NEW w, IsWorld(w, n), ~CreateRefused(w)
  PROVE  LET v == Created(w)
             i == CreateSlot(w)
         IN  /\ v.free_count = IF w.free_count > 0 THEN w.free_count - 1 ELSE 0
             /\ v.next_fresh = IF w.free_count > 0 THEN w.next_fresh ELSE w.next_fresh + 1
             /\ v.generations = [w.generations EXCEPT ![i] = IF @ = 0 THEN 1 ELSE @]
             /\ v.liveness = [w.liveness EXCEPT ![i] = 1]
             /\ v.live_count = w.live_count + 1
             /\ v.event_capacity = w.event_capacity /\ v.tick = w.tick /\ v.rng = w.rng
             /\ v.free_stack = w.free_stack /\ v.unit_entities = w.unit_entities
             /\ v.pending_destroy = w.pending_destroy /\ v.buffers = w.buffers
             /\ v.read_index = w.read_index /\ v.pools = w.pools
<1> DEFINE i == CreateSlot(w)
           v == Created(w)
<1>1. w \in World
  BY DEF IsWorld
<1>2. v = [w EXCEPT !.free_count = IF @ > 0 THEN @ - 1 ELSE 0,
                    !.next_fresh = IF w.free_count > 0 THEN @ ELSE @ + 1,
                    !.generations[i] = IF @ = 0 THEN 1 ELSE @,
                    !.liveness[i] = 1,
                    !.live_count = @ + 1]
  BY DEF Created
<1> HIDE DEF i, v
<1>3. QED
  BY <1>1, <1>2 DEF World, i, v

(* What entity_manager_release does. *)
LEMMA ReleasedFields ==
  ASSUME NEW n, NEW w, IsWorld(w, n), NEW h, IsAlive(w, h)
  PROVE  LET v == Released(w, h)
             i == Index(h)
         IN  /\ v.free_count = w.free_count + 1 /\ v.next_fresh = w.next_fresh
             /\ v.generations = [w.generations EXCEPT ![i] = IF @ = GenMax THEN 1 ELSE @ + 1]
             /\ v.liveness = [w.liveness EXCEPT ![i] = 0]
             /\ v.free_stack = [w.free_stack EXCEPT ![w.free_count + 1] = i]
             /\ v.live_count = w.live_count - 1
             /\ v.event_capacity = w.event_capacity /\ v.tick = w.tick /\ v.rng = w.rng
             /\ v.unit_entities = w.unit_entities
             /\ v.pending_destroy = w.pending_destroy /\ v.buffers = w.buffers
             /\ v.read_index = w.read_index /\ v.pools = w.pools
<1> DEFINE i == Index(h)
           v == Released(w, h)
<1>1. w \in World
  BY DEF IsWorld
<1>2. v = [w EXCEPT !.liveness[i] = 0,
                    !.generations[i] = IF @ = GenMax THEN 1 ELSE @ + 1,
                    !.free_count = @ + 1,
                    !.free_stack[w.free_count + 1] = i,
                    !.live_count = @ - 1]
  BY DEF Released
<1> HIDE DEF i, v
<1>3. QED
  BY <1>1, <1>2 DEF World, i, v

(* A created entity leaves the free stack in order. *)
LEMMA CreatedStacked ==
  ASSUME NEW n, NEW w, IsWorld(w, n), Stacked(w), ~CreateRefused(w)
  PROVE  Stacked(Created(w))
<1> DEFINE v == Created(w)
           i == CreateSlot(w)
           s == w.free_stack
           c == w.free_count
<1>1. /\ w.next_fresh \in 0 .. MaxEntities /\ c \in Nat /\ MaxEntities \in Nat \ {0}
      /\ s \in [1 .. MaxEntities -> Slots] /\ w.liveness \in [Slots -> {0, 1}]
      /\ w.generations \in [Slots -> 0 .. GenMax]
  BY Sizes DEF IsWorld, World
<1>2. /\ v.free_count = IF c > 0 THEN c - 1 ELSE 0
      /\ v.next_fresh = IF c > 0 THEN w.next_fresh ELSE w.next_fresh + 1
      /\ v.generations = [w.generations EXCEPT ![i] = IF @ = 0 THEN 1 ELSE @]
      /\ v.liveness = [w.liveness EXCEPT ![i] = 1]
      /\ v.free_stack = s
  BY CreatedFields
<1>3. /\ c <= w.next_fresh
      /\ \A k \in 1 .. c : s[k] < w.next_fresh /\ w.liveness[s[k]] = 0
      /\ \A j, k \in 1 .. c : s[j] = s[k] => j = k
      /\ \A k \in Slots : w.next_fresh <= k => w.generations[k] = 0 /\ w.liveness[k] = 0
  BY DEF Stacked, UnissuedClear
<1>4. i = IF c > 0 THEN s[c] ELSE w.next_fresh
  BY DEF CreateSlot
<1> HIDE DEF v, i, s, c
<1>5. CASE c > 0
  <2>1. c \in 1 .. c /\ i = s[c] /\ i < w.next_fresh
    BY <1>1, <1>3, <1>4, <1>5
  <2>2. v.free_count = c - 1 /\ v.next_fresh = w.next_fresh
    BY <1>2, <1>5
  <2>3. ASSUME NEW k \in 1 .. c - 1
        PROVE  k \in 1 .. c /\ s[k] < w.next_fresh /\ v.liveness[s[k]] = 0
    <3>1. k \in 1 .. c /\ k # c /\ k \in 1 .. MaxEntities
      BY <1>1, <1>3
    <3>2. s[k] \in Slots /\ s[k] # i /\ w.liveness[s[k]] = 0
      BY <1>1, <1>3, <2>1, <3>1
    <3>3. QED
      BY <1>1, <1>2, <1>3, <3>1, <3>2
  <2>4. ASSUME NEW k \in Slots, w.next_fresh <= k
        PROVE  v.generations[k] = 0 /\ v.liveness[k] = 0
    <3>1. k # i
      BY <1>1, <2>1, <2>4 DEF Slots
    <3>2. QED
      BY <1>1, <1>2, <1>3, <2>4, <3>1
  <2>5. QED
    BY <1>1, <1>2, <1>3, <2>2, <2>3, <2>4 DEF Stacked, UnissuedClear, v
<1>6. CASE ~(c > 0)
  <2>1. c = 0 /\ v.free_count = 0 /\ v.next_fresh = w.next_fresh + 1 /\ i = w.next_fresh
    BY <1>1, <1>2, <1>4, <1>6
  <2>2. ASSUME NEW k \in Slots, w.next_fresh + 1 <= k
        PROVE  v.generations[k] = 0 /\ v.liveness[k] = 0
    <3>1. k \in Nat /\ w.next_fresh \in Nat /\ w.next_fresh + 1 <= k
      BY <1>1, <2>2 DEF Slots
    <3>2. k # i /\ w.next_fresh <= k
      BY <2>1, <3>1
    <3>3. QED
      BY <1>1, <1>2, <1>3, <3>2
  <2>3. QED
    BY <1>1, <2>1, <2>2 DEF Stacked, UnissuedClear, v
<1>7. QED
  BY <1>5, <1>6

(* entity_manager_create keeps worlds in agreement: it issues the same     *)
(* entity in both.                                                         *)
LEMMA TwinsCreate ==
  ASSUME NEW n \in Nat, NEW e, NEW a, Twins(e, a, n)
  PROVE  Twins(Created(e), Created(a), n)
<1>1. IsWorld(e, n) /\ IsWorld(a, n) /\ Stacked(e) /\ Stacked(a) /\ RestAgrees(e, a)
  BY DEF Twins
<1>2. CreateRefused(e) <=> CreateRefused(a)
  BY <1>1 DEF RestAgrees, CreateRefused
<1>3. CASE CreateRefused(e)
  BY <1>2, <1>3 DEF Created
<1>4. CASE ~CreateRefused(e)
  <2> DEFINE e2 == Created(e)
             a2 == Created(a)
             i == CreateSlot(e)
  <2>1. i = CreateSlot(a)
    <3>1. e.free_count \in Nat
      BY <1>1 DEF IsWorld, World
    <3>2. e.free_count > 0 => e.free_count \in 1 .. e.free_count
      BY <3>1
    <3>3. QED
      BY <1>1, <3>2 DEF CreateSlot, RestAgrees
  <2>2. /\ e2.free_count = IF e.free_count > 0 THEN e.free_count - 1 ELSE 0
        /\ e2.next_fresh = IF e.free_count > 0 THEN e.next_fresh ELSE e.next_fresh + 1
        /\ e2.generations = [e.generations EXCEPT ![i] = IF @ = 0 THEN 1 ELSE @]
        /\ e2.liveness = [e.liveness EXCEPT ![i] = 1]
        /\ e2.live_count = e.live_count + 1
        /\ e2.event_capacity = e.event_capacity /\ e2.tick = e.tick /\ e2.rng = e.rng
        /\ e2.free_stack = e.free_stack /\ e2.unit_entities = e.unit_entities
        /\ e2.pending_destroy = e.pending_destroy /\ e2.buffers = e.buffers
        /\ e2.read_index = e.read_index /\ e2.pools = e.pools
    BY <1>1, <1>4, CreatedFields
  <2>3. /\ a2.free_count = IF a.free_count > 0 THEN a.free_count - 1 ELSE 0
        /\ a2.next_fresh = IF a.free_count > 0 THEN a.next_fresh ELSE a.next_fresh + 1
        /\ a2.generations = [a.generations EXCEPT ![i] = IF @ = 0 THEN 1 ELSE @]
        /\ a2.liveness = [a.liveness EXCEPT ![i] = 1]
        /\ a2.live_count = a.live_count + 1
        /\ a2.event_capacity = a.event_capacity /\ a2.tick = a.tick /\ a2.rng = a.rng
        /\ a2.free_stack = a.free_stack /\ a2.unit_entities = a.unit_entities
        /\ a2.pending_destroy = a.pending_destroy /\ a2.buffers = a.buffers
        /\ a2.read_index = a.read_index /\ a2.pools = a.pools
    BY <1>1, <1>2, <1>4, <2>1, CreatedFields
  <2>4. IsWorld(e2, n) /\ IsWorld(a2, n) /\ Stacked(e2) /\ Stacked(a2)
    BY <1>1, <1>2, <1>4, CreatedStays, CreatedStacked
  <2> HIDE DEF e2, a2, i
  <2>5. /\ ReadEvents(e2) = ReadEvents(a2) /\ WriteEvents(e2) = WriteEvents(a2)
    BY <1>1, <2>2, <2>3 DEF RestAgrees, ReadEvents, WriteEvents, WriteIndex
  <2>6. \A k \in 1 .. e2.free_count : e2.free_stack[k] = a2.free_stack[k]
    <3>1. e.free_count \in Nat
      BY <1>1 DEF IsWorld, World
    <3>2. \A k \in 1 .. e2.free_count : k \in 1 .. e.free_count
      BY <2>2, <3>1
    <3>3. QED
      BY <1>1, <2>2, <2>3, <3>2 DEF RestAgrees
  <2>7. /\ e2.event_capacity = a2.event_capacity /\ e2.tick = a2.tick /\ e2.rng = a2.rng
        /\ e2.generations = a2.generations /\ e2.liveness = a2.liveness
        /\ e2.next_fresh = a2.next_fresh /\ e2.live_count = a2.live_count
        /\ e2.free_count = a2.free_count
        /\ e2.unit_entities = a2.unit_entities /\ e2.pending_destroy = a2.pending_destroy
    <3>1. /\ e.event_capacity = a.event_capacity /\ e.tick = a.tick /\ e.rng = a.rng
          /\ e.generations = a.generations /\ e.liveness = a.liveness
          /\ e.next_fresh = a.next_fresh /\ e.live_count = a.live_count
          /\ e.free_count = a.free_count
          /\ e.unit_entities = a.unit_entities /\ e.pending_destroy = a.pending_destroy
      BY <1>1 DEF RestAgrees
    <3>2. e2.generations = a2.generations
      <4> DEFINE G(g) == [g EXCEPT ![i] = IF @ = 0 THEN 1 ELSE @]
      <4>1. e2.generations = G(e.generations) /\ a2.generations = G(a.generations)
        BY <2>2, <2>3
      <4> HIDE DEF G
      <4>2. QED
        BY <3>1, <4>1
    <3>3. e2.liveness = a2.liveness
      <4> DEFINE G(g) == [g EXCEPT ![i] = 1]
      <4>1. e2.liveness = G(e.liveness) /\ a2.liveness = G(a.liveness)
        BY <2>2, <2>3
      <4> HIDE DEF G
      <4>2. QED
        BY <3>1, <4>1
    <3>4. e2.next_fresh = a2.next_fresh /\ e2.free_count = a2.free_count /\ e2.live_count = a2.live_count
      BY <2>2, <2>3, <3>1, SMT
    <3>5. /\ e2.event_capacity = a2.event_capacity /\ e2.tick = a2.tick /\ e2.rng = a2.rng
          /\ e2.unit_entities = a2.unit_entities /\ e2.pending_destroy = a2.pending_destroy
      BY <2>2, <2>3, <3>1, SMT
    <3>6. QED
      BY <3>2, <3>3, <3>4, <3>5
  <2>8. RestAgrees(e2, a2)
    BY <2>5, <2>6, <2>7 DEF RestAgrees
  <2>9. Twins(e2, a2, n)
    BY <2>2, <2>3, <2>4, <2>8, TwinRests
  <2>10. QED
    BY <2>9 DEF e2, a2
<1>5. QED
  BY <1>3, <1>4

(* A released slot goes on the free stack, which has room for it. *)
LEMMA ReleasedStacked ==
  ASSUME NEW n, NEW w, IsWorld(w, n), Stacked(w), NEW h \in Nat, IsAlive(w, h)
  PROVE  /\ Stacked(Released(w, h))
         /\ w.free_count + 1 \in 1 .. MaxEntities
<1> DEFINE v == Released(w, h)
           i == Index(h)
           s == w.free_stack
           c == w.free_count
           f == [k \in 1 .. c + 1 |-> IF k = c + 1 THEN i ELSE s[k]]
<1>1. /\ w.next_fresh \in 0 .. MaxEntities /\ c \in Nat /\ MaxEntities \in Nat \ {0}
      /\ s \in [1 .. MaxEntities -> Slots] /\ w.liveness \in [Slots -> {0, 1}]
      /\ w.generations \in [Slots -> 0 .. GenMax]
  BY Sizes DEF IsWorld, World
<1>2. /\ v.free_count = c + 1 /\ v.next_fresh = w.next_fresh
      /\ v.generations = [w.generations EXCEPT ![i] = IF @ = GenMax THEN 1 ELSE @ + 1]
      /\ v.liveness = [w.liveness EXCEPT ![i] = 0]
      /\ v.free_stack = [s EXCEPT ![c + 1] = i]
  BY ReleasedFields
<1>3. /\ c <= w.next_fresh
      /\ \A k \in 1 .. c : s[k] < w.next_fresh /\ w.liveness[s[k]] = 0
      /\ \A j, k \in 1 .. c : s[j] = s[k] => j = k
      /\ \A k \in Slots : w.next_fresh <= k => w.generations[k] = 0 /\ w.liveness[k] = 0
  BY DEF Stacked, UnissuedClear
<1>4. i \in Slots /\ i < w.next_fresh /\ w.liveness[i] = 1
  BY PartsHandle DEF IsAlive
<1> HIDE DEF v, i, s, c
<1>5. ASSUME NEW k \in 1 .. c
      PROVE  s[k] \in Slots /\ s[k] \in 0 .. w.next_fresh - 1 /\ s[k] # i
  <2>1. k \in 1 .. MaxEntities
    BY <1>1, <1>3
  <2>2. s[k] \in Slots /\ s[k] < w.next_fresh /\ w.liveness[s[k]] = 0
    BY <1>1, <1>3, <2>1
  <2>3. s[k] \in Nat /\ w.next_fresh \in Nat
    BY <1>1, <2>2 DEF Slots
  <2>4. s[k] \in 0 .. w.next_fresh - 1
    BY <2>2, <2>3
  <2>5. s[k] # i
    BY <1>4, <2>2
  <2>6. QED
    BY <2>2, <2>4, <2>5
<1>6. /\ \A k \in 1 .. c + 1 : f[k] \in 0 .. w.next_fresh - 1
      /\ \A j, k \in 1 .. c + 1 : f[j] = f[k] => j = k
  <2>1. \A k \in 1 .. c + 1 : k = c + 1 \/ k \in 1 .. c
    BY <1>1
  <2>2. i \in 0 .. w.next_fresh - 1
    BY <1>1, <1>4 DEF Slots
  <2>3. QED
    BY <1>3, <1>5, <2>1, <2>2
<1> HIDE DEF f
<1>7. c + 1 <= w.next_fresh
  <2>1. c + 1 \in Nat /\ w.next_fresh \in Nat
    BY <1>1
  <2> DEFINE m == c + 1
  <2>2. m \in Nat
    BY <2>1
  <2>3. /\ \A k \in 1 .. m : f[k] \in 0 .. w.next_fresh - 1
        /\ \A j, k \in 1 .. m : f[j] = f[k] => j = k
    BY <1>6
  <2> HIDE DEF m
  <2>4. m <= w.next_fresh
    BY <2>1, <2>2, <2>3, StackFits
  <2>5. QED
    BY <2>4 DEF m
<1>8. c + 1 \in 1 .. MaxEntities
  BY <1>1, <1>7
<1>9. \A k \in 1 .. c + 1 : v.free_stack[k] = IF k = c + 1 THEN i ELSE s[k]
  <2>1. \A k \in 1 .. c + 1 : k \in 1 .. MaxEntities
    BY <1>1, <1>7
  <2>2. QED
    BY <1>1, <1>2, <2>1
<1>10. ASSUME NEW k \in 1 .. c + 1
       PROVE  v.free_stack[k] < w.next_fresh /\ v.liveness[v.free_stack[k]] = 0
  <2>1. CASE k = c + 1
    BY <1>1, <1>2, <1>4, <1>9, <2>1
  <2>2. CASE k # c + 1
    <3>1. k \in 1 .. c
      BY <1>1, <2>2
    <3>2. v.free_stack[k] = s[k] /\ s[k] \in Slots /\ s[k] # i /\ s[k] < w.next_fresh /\ w.liveness[s[k]] = 0
      BY <1>3, <1>5, <1>9, <2>2, <3>1
    <3>3. QED
      BY <1>1, <1>2, <3>2
  <2>3. QED
    BY <2>1, <2>2
<1>11. \A j, k \in 1 .. c + 1 : v.free_stack[j] = v.free_stack[k] => j = k
  BY <1>6, <1>9 DEF f
<1>12. ASSUME NEW k \in Slots, w.next_fresh <= k
       PROVE  v.generations[k] = 0 /\ v.liveness[k] = 0
  <2>1. k # i
    BY <1>1, <1>4, <1>12 DEF Slots
  <2>2. QED
    BY <1>1, <1>2, <1>3, <1>12, <2>1
<1>13. Stacked(v)
  BY <1>2, <1>7, <1>10, <1>11, <1>12 DEF Stacked, UnissuedClear
<1>14. QED
  BY <1>8, <1>13 DEF v, c

(* Worlds in agreement have the same living entities. *)
LEMMA TwinsAlive ==
  ASSUME NEW e, NEW a, RestAgrees(e, a), NEW h
  PROVE  IsAlive(e, h) <=> IsAlive(a, h)
BY DEF RestAgrees, IsAlive

(* entity_manager_release keeps worlds in agreement. *)
LEMMA TwinsRelease ==
  ASSUME NEW n \in Nat, NEW e, NEW a, Twins(e, a, n), NEW h \in Handles
  PROVE  Twins(Released(e, h), Released(a, h), n)
<1>1. /\ IsWorld(e, n) /\ IsWorld(a, n) /\ Stacked(e) /\ Stacked(a) /\ RestAgrees(e, a)
      /\ h \in Nat
  BY HandlesAreWords DEF Twins
<1>2. IsAlive(e, h) <=> IsAlive(a, h)
  BY <1>1, TwinsAlive
<1>3. CASE ~IsAlive(e, h)
  BY <1>2, <1>3 DEF Released
<1>4. CASE IsAlive(e, h)
  <2> DEFINE e2 == Released(e, h)
             a2 == Released(a, h)
             i == Index(h)
  <2>1. /\ e2.free_count = e.free_count + 1 /\ e2.next_fresh = e.next_fresh
        /\ e2.generations = [e.generations EXCEPT ![i] = IF @ = GenMax THEN 1 ELSE @ + 1]
        /\ e2.liveness = [e.liveness EXCEPT ![i] = 0]
        /\ e2.free_stack = [e.free_stack EXCEPT ![e.free_count + 1] = i]
        /\ e2.live_count = e.live_count - 1
        /\ e2.event_capacity = e.event_capacity /\ e2.tick = e.tick /\ e2.rng = e.rng
        /\ e2.unit_entities = e.unit_entities
        /\ e2.pending_destroy = e.pending_destroy /\ e2.buffers = e.buffers
        /\ e2.read_index = e.read_index /\ e2.pools = e.pools
    BY <1>1, <1>4, ReleasedFields
  <2>2. /\ a2.free_count = a.free_count + 1 /\ a2.next_fresh = a.next_fresh
        /\ a2.generations = [a.generations EXCEPT ![i] = IF @ = GenMax THEN 1 ELSE @ + 1]
        /\ a2.liveness = [a.liveness EXCEPT ![i] = 0]
        /\ a2.free_stack = [a.free_stack EXCEPT ![a.free_count + 1] = i]
        /\ a2.live_count = a.live_count - 1
        /\ a2.event_capacity = a.event_capacity /\ a2.tick = a.tick /\ a2.rng = a.rng
        /\ a2.unit_entities = a.unit_entities
        /\ a2.pending_destroy = a.pending_destroy /\ a2.buffers = a.buffers
        /\ a2.read_index = a.read_index /\ a2.pools = a.pools
    BY <1>1, <1>2, <1>4, ReleasedFields
  <2>3. IsWorld(e2, n) /\ IsWorld(a2, n) /\ Stacked(e2) /\ Stacked(a2)
    BY <1>1, <1>2, <1>4, ReleasedStays, ReleasedStacked
  <2> HIDE DEF e2, a2, i
  <2>4. /\ ReadEvents(e2) = ReadEvents(a2) /\ WriteEvents(e2) = WriteEvents(a2)
    BY <1>1, <2>1, <2>2 DEF RestAgrees, ReadEvents, WriteEvents, WriteIndex
  <2>5. ASSUME NEW k \in 1 .. e2.free_count PROVE e2.free_stack[k] = a2.free_stack[k]
    <3>1. /\ e.free_count \in Nat /\ e.free_count = a.free_count
          /\ e.free_count + 1 \in 1 .. MaxEntities /\ MaxEntities \in Nat
          /\ e.free_stack \in [1 .. MaxEntities -> Slots] /\ a.free_stack \in [1 .. MaxEntities -> Slots]
      BY <1>1, <1>4, ReleasedStacked, Sizes DEF IsWorld, World, RestAgrees
    <3>2. k \in 1 .. MaxEntities /\ (k = e.free_count + 1 \/ k \in 1 .. e.free_count)
      BY <2>1, <3>1
    <3>3. CASE k = e.free_count + 1
      BY <2>1, <2>2, <3>1, <3>2, <3>3
    <3>4. CASE k # e.free_count + 1
      <4>1. e.free_stack[k] = a.free_stack[k]
        BY <1>1, <3>2, <3>4 DEF RestAgrees
      <4>2. QED
        BY <2>1, <2>2, <3>1, <3>2, <3>4, <4>1
    <3>5. QED
      BY <3>3, <3>4
  <2>6. /\ e2.event_capacity = a2.event_capacity /\ e2.tick = a2.tick /\ e2.rng = a2.rng
        /\ e2.generations = a2.generations /\ e2.liveness = a2.liveness
        /\ e2.next_fresh = a2.next_fresh /\ e2.live_count = a2.live_count
        /\ e2.free_count = a2.free_count
        /\ e2.unit_entities = a2.unit_entities /\ e2.pending_destroy = a2.pending_destroy
    <3>1. /\ e.event_capacity = a.event_capacity /\ e.tick = a.tick /\ e.rng = a.rng
          /\ e.generations = a.generations /\ e.liveness = a.liveness
          /\ e.next_fresh = a.next_fresh /\ e.live_count = a.live_count
          /\ e.free_count = a.free_count
          /\ e.unit_entities = a.unit_entities /\ e.pending_destroy = a.pending_destroy
      BY <1>1 DEF RestAgrees
    <3>2. e2.generations = a2.generations
      <4> DEFINE G(g) == [g EXCEPT ![i] = IF @ = GenMax THEN 1 ELSE @ + 1]
      <4>1. e2.generations = G(e.generations) /\ a2.generations = G(a.generations)
        BY <2>1, <2>2
      <4> HIDE DEF G
      <4>2. QED
        BY <3>1, <4>1
    <3>3. e2.liveness = a2.liveness
      <4> DEFINE G(g) == [g EXCEPT ![i] = 0]
      <4>1. e2.liveness = G(e.liveness) /\ a2.liveness = G(a.liveness)
        BY <2>1, <2>2
      <4> HIDE DEF G
      <4>2. QED
        BY <3>1, <4>1
    <3>4. e2.next_fresh = a2.next_fresh /\ e2.free_count = a2.free_count /\ e2.live_count = a2.live_count
      BY <2>1, <2>2, <3>1, SMT
    <3>5. /\ e2.event_capacity = a2.event_capacity /\ e2.tick = a2.tick /\ e2.rng = a2.rng
          /\ e2.unit_entities = a2.unit_entities /\ e2.pending_destroy = a2.pending_destroy
      BY <2>1, <2>2, <3>1, SMT
    <3>6. QED
      BY <3>2, <3>3, <3>4, <3>5
  <2>7. RestAgrees(e2, a2)
    BY <2>4, <2>5, <2>6 DEF RestAgrees
  <2>8. Twins(e2, a2, n)
    BY <2>1, <2>2, <2>3, <2>7, TwinRests
  <2>9. QED
    BY <2>8 DEF e2, a2
<1>5. QED
  BY <1>3, <1>4

(* The one world is the other but for its events. *)
EventsOnly(v, w) ==
    /\ v.event_capacity = w.event_capacity /\ v.tick = w.tick /\ v.rng = w.rng
    /\ v.generations = w.generations /\ v.liveness = w.liveness
    /\ v.free_stack = w.free_stack /\ v.next_fresh = w.next_fresh
    /\ v.live_count = w.live_count /\ v.free_count = w.free_count
    /\ v.unit_entities = w.unit_entities /\ v.pending_destroy = w.pending_destroy
    /\ v.pools = w.pools

(* Calls that change the events of both alike keep worlds in agreement. *)
LEMMA TwinEvents ==
  ASSUME NEW n, NEW e, NEW a, Twins(e, a, n),
         NEW e2, NEW a2, IsWorld(e2, n), IsWorld(a2, n), EventsOnly(e2, e), EventsOnly(a2, a),
         ReadEvents(e2) = ReadEvents(a2), WriteEvents(e2) = WriteEvents(a2)
  PROVE  Twins(e2, a2, n)
<1>1. /\ Stacked(e) /\ Stacked(a) /\ RestAgrees(e, a)
  BY DEF Twins
<1>2. Stacked(e2) /\ Stacked(a2)
  BY <1>1 DEF EventsOnly, Stacked, UnissuedClear
<1>3. RestAgrees(e2, a2)
  BY <1>1 DEF EventsOnly, RestAgrees
<1>4. e2.pools = e.pools /\ a2.pools = a.pools
  BY DEF EventsOnly
<1>5. QED
  BY <1>2, <1>3, <1>4, TwinRests

(* What the calls on the events do to what is read and what is written. *)
LEMMA EventCalls ==
  ASSUME NEW n, NEW w, IsWorld(w, n)
  PROVE  /\ LET v == EventsPublished(w) IN
              /\ EventsOnly(v, w)
              /\ ReadEvents(v) = IF ReadEvents(w) # << >> THEN ReadEvents(w) ELSE WriteEvents(w)
              /\ WriteEvents(v) = IF ReadEvents(w) # << >> THEN WriteEvents(w) ELSE ReadEvents(w)
         /\ LET v == Consumed(w) IN
              /\ EventsOnly(v, w) /\ ReadEvents(v) = << >> /\ WriteEvents(v) = WriteEvents(w)
         /\ \A ev : LET v == Appended(w, ev) IN
              /\ EventsOnly(v, w) /\ ReadEvents(v) = ReadEvents(w)
              /\ WriteEvents(v) = IF Len(WriteEvents(w)) = w.event_capacity
                                    THEN WriteEvents(w) ELSE Append(WriteEvents(w), ev)
<1>1. /\ w \in World /\ w.buffers \in [1 .. 2 -> Seq(DamageEvents)]
      /\ w.read_index \in {1, 2}
  BY DEF IsWorld, World
<1>2. /\ w.read_index \in 1 .. 2 /\ 3 - w.read_index \in 1 .. 2
      /\ 3 - w.read_index # w.read_index /\ 3 - (3 - w.read_index) = w.read_index
  BY <1>1
<1>3. EventsOnly(w, w)
  BY DEF EventsOnly
<1>4. LET v == [w EXCEPT !.read_index = WriteIndex(w)] IN
        /\ EventsOnly(v, w) /\ ReadEvents(v) = WriteEvents(w) /\ WriteEvents(v) = ReadEvents(w)
  <2> DEFINE v == [w EXCEPT !.read_index = WriteIndex(w)]
  <2>1. EventsOnly(v, w) /\ v.buffers = w.buffers /\ v.read_index = WriteIndex(w)
    BY <1>1 DEF World, EventsOnly
  <2> HIDE DEF v
  <2>2. ReadEvents(v) = WriteEvents(w) /\ WriteEvents(v) = ReadEvents(w)
    BY <1>2, <2>1 DEF ReadEvents, WriteEvents, WriteIndex
  <2>3. QED
    BY <2>1, <2>2 DEF v
<1>5. ASSUME NEW b \in 1 .. 2, NEW x
      PROVE  LET v == [w EXCEPT !.buffers[b] = x] IN
               /\ EventsOnly(v, w) /\ v.read_index = w.read_index
               /\ v.buffers[b] = x /\ \A c \in 1 .. 2 : c # b => v.buffers[c] = w.buffers[c]
  <2> DEFINE v == [w EXCEPT !.buffers[b] = x]
  <2>1. EventsOnly(v, w) /\ v.read_index = w.read_index /\ v.buffers = [w.buffers EXCEPT ![b] = x]
    BY <1>1 DEF World, EventsOnly
  <2> HIDE DEF v
  <2>2. v.buffers[b] = x /\ \A c \in 1 .. 2 : c # b => v.buffers[c] = w.buffers[c]
    BY <1>1, <2>1
  <2>3. QED
    BY <2>1, <2>2 DEF v
<1>6. LET v == EventsPublished(w) IN
        /\ EventsOnly(v, w)
        /\ ReadEvents(v) = IF ReadEvents(w) # << >> THEN ReadEvents(w) ELSE WriteEvents(w)
        /\ WriteEvents(v) = IF ReadEvents(w) # << >> THEN WriteEvents(w) ELSE ReadEvents(w)
  <2>1. CASE ReadEvents(w) # << >>
    <3>1. EventsPublished(w) = w
      BY <2>1 DEF EventsPublished
    <3>2. QED
      BY <1>3, <2>1, <3>1
  <2>2. CASE ~(ReadEvents(w) # << >>)
    <3>1. EventsPublished(w) = [w EXCEPT !.read_index = WriteIndex(w)]
      BY <2>2 DEF EventsPublished
    <3>2. QED
      BY <1>4, <2>2, <3>1
  <2>3. QED
    BY <2>1, <2>2
<1>7. LET v == Consumed(w) IN
        /\ EventsOnly(v, w) /\ ReadEvents(v) = << >> /\ WriteEvents(v) = WriteEvents(w)
  <2> DEFINE v == Consumed(w)
             b == w.read_index
             x == << >>
  <2>1. v = [w EXCEPT !.buffers[b] = x] /\ b \in 1 .. 2 /\ b = w.read_index
    BY <1>2 DEF Consumed
  <2> HIDE DEF v, b, x
  <2>2. /\ EventsOnly(v, w) /\ v.read_index = w.read_index /\ v.buffers[b] = x
        /\ \A c \in 1 .. 2 : c # b => v.buffers[c] = w.buffers[c]
    BY <1>5, <2>1
  <2>3. ReadEvents(v) = << >> /\ WriteEvents(v) = WriteEvents(w)
    BY <1>2, <2>1, <2>2 DEF ReadEvents, WriteEvents, WriteIndex, x
  <2>4. QED
    BY <2>2, <2>3 DEF v
<1>8. ASSUME NEW ev
      PROVE  LET v == Appended(w, ev) IN
               /\ EventsOnly(v, w) /\ ReadEvents(v) = ReadEvents(w)
               /\ WriteEvents(v) = IF Len(WriteEvents(w)) = w.event_capacity
                                     THEN WriteEvents(w) ELSE Append(WriteEvents(w), ev)
  <2>1. CASE Len(WriteEvents(w)) = w.event_capacity
    <3>1. Appended(w, ev) = w
      BY <2>1 DEF Appended
    <3>2. QED
      BY <1>3, <2>1, <3>1
  <2>2. CASE Len(WriteEvents(w)) # w.event_capacity
    <3> DEFINE v == Appended(w, ev)
               b == WriteIndex(w)
               x == Append(w.buffers[b], ev)
    <3>1. b \in 1 .. 2 /\ b = 3 - w.read_index
      BY <1>2 DEF WriteIndex
    <3>2. v = [w EXCEPT !.buffers[b] = x]
      <4>1. v = [w EXCEPT !.buffers[b] = Append(@, ev)]
        BY <2>2 DEF Appended
      <4> HIDE DEF v, b
      <4>2. QED
        BY <1>1, <3>1, <4>1 DEF World
    <3>3. x = Append(WriteEvents(w), ev)
      BY DEF WriteEvents
    <3> HIDE DEF v, b, x
    <3>4. /\ EventsOnly(v, w) /\ v.read_index = w.read_index /\ v.buffers[b] = x
          /\ \A c \in 1 .. 2 : c # b => v.buffers[c] = w.buffers[c]
      BY <1>5, <3>1, <3>2
    <3>5. ReadEvents(v) = ReadEvents(w) /\ WriteEvents(v) = x
      BY <1>2, <3>1, <3>4 DEF ReadEvents, WriteEvents, WriteIndex
    <3>6. QED
      BY <2>2, <3>3, <3>4, <3>5 DEF v
  <2>3. QED
    BY <2>1, <2>2
<1>9. QED
  BY <1>6, <1>7, <1>8

(* The calls on the damage events keep worlds in agreement, whichever      *)
(* buffer each of them reads.                                              *)
LEMMA TwinsEvents ==
  ASSUME NEW n \in Nat, NEW e, NEW a, Twins(e, a, n)
  PROVE  /\ Twins(EventsPublished(e), EventsPublished(a), n)
         /\ Twins(Consumed(e), Consumed(a), n)
         /\ \A ev \in DamageEvents : Twins(Appended(e, ev), Appended(a, ev), n)
<1>1. IsWorld(e, n) /\ IsWorld(a, n)
  BY DEF Twins
<1>2. /\ ReadEvents(e) = ReadEvents(a) /\ WriteEvents(e) = WriteEvents(a)
      /\ e.event_capacity = a.event_capacity
  BY DEF Twins, RestAgrees
<1>3. Twins(EventsPublished(e), EventsPublished(a), n)
  <2> DEFINE e2 == EventsPublished(e)
             a2 == EventsPublished(a)
  <2>1. IsWorld(e2, n) /\ IsWorld(a2, n)
    BY <1>1, EventCallsStay
  <2>2. /\ EventsOnly(e2, e)
        /\ ReadEvents(e2) = IF ReadEvents(e) # << >> THEN ReadEvents(e) ELSE WriteEvents(e)
        /\ WriteEvents(e2) = IF ReadEvents(e) # << >> THEN WriteEvents(e) ELSE ReadEvents(e)
    BY <1>1, EventCalls
  <2>3. /\ EventsOnly(a2, a)
        /\ ReadEvents(a2) = IF ReadEvents(a) # << >> THEN ReadEvents(a) ELSE WriteEvents(a)
        /\ WriteEvents(a2) = IF ReadEvents(a) # << >> THEN WriteEvents(a) ELSE ReadEvents(a)
    BY <1>1, EventCalls
  <2> HIDE DEF e2, a2
  <2>4. ReadEvents(e2) = ReadEvents(a2) /\ WriteEvents(e2) = WriteEvents(a2)
    BY <1>2, <2>2, <2>3
  <2>5. Twins(e2, a2, n)
    BY <2>1, <2>2, <2>3, <2>4, TwinEvents
  <2>6. QED
    BY <2>5 DEF e2, a2
<1>4. Twins(Consumed(e), Consumed(a), n)
  <2> DEFINE e2 == Consumed(e)
             a2 == Consumed(a)
  <2>1. IsWorld(e2, n) /\ IsWorld(a2, n)
    BY <1>1, EventCallsStay
  <2>2. EventsOnly(e2, e) /\ ReadEvents(e2) = << >> /\ WriteEvents(e2) = WriteEvents(e)
    BY <1>1, EventCalls
  <2>3. EventsOnly(a2, a) /\ ReadEvents(a2) = << >> /\ WriteEvents(a2) = WriteEvents(a)
    BY <1>1, EventCalls
  <2> HIDE DEF e2, a2
  <2>4. ReadEvents(e2) = ReadEvents(a2) /\ WriteEvents(e2) = WriteEvents(a2)
    BY <1>2, <2>2, <2>3
  <2>5. Twins(e2, a2, n)
    BY <2>1, <2>2, <2>3, <2>4, TwinEvents
  <2>6. QED
    BY <2>5 DEF e2, a2
<1>5. ASSUME NEW ev \in DamageEvents PROVE Twins(Appended(e, ev), Appended(a, ev), n)
  <2> DEFINE e2 == Appended(e, ev)
             a2 == Appended(a, ev)
  <2>1. IsWorld(e2, n) /\ IsWorld(a2, n)
    BY <1>1, EventCallsStay
  <2>2. /\ EventsOnly(e2, e) /\ ReadEvents(e2) = ReadEvents(e)
        /\ WriteEvents(e2) = IF Len(WriteEvents(e)) = e.event_capacity
                               THEN WriteEvents(e) ELSE Append(WriteEvents(e), ev)
    BY <1>1, EventCalls
  <2>3. /\ EventsOnly(a2, a) /\ ReadEvents(a2) = ReadEvents(a)
        /\ WriteEvents(a2) = IF Len(WriteEvents(a)) = a.event_capacity
                               THEN WriteEvents(a) ELSE Append(WriteEvents(a), ev)
    BY <1>1, EventCalls
  <2> HIDE DEF e2, a2
  <2>4. ReadEvents(e2) = ReadEvents(a2) /\ WriteEvents(e2) = WriteEvents(a2)
    BY <1>2, <2>2, <2>3
  <2>5. Twins(e2, a2, n)
    BY <2>1, <2>2, <2>3, <2>4, TwinEvents
  <2>6. QED
    BY <2>5 DEF e2, a2
<1>6. QED
  BY <1>3, <1>4, <1>5

(* The same is written to a field that both had alike. *)
LEMMA TwinFields ==
  ASSUME NEW n, NEW e, NEW a, Twins(e, a, n), NEW m, NEW x
  PROVE  /\ LET e2 == [e EXCEPT !.pending_destroy = x]
                a2 == [a EXCEPT !.pending_destroy = x]
            IN  IsWorld(e2, m) /\ IsWorld(a2, m) => Twins(e2, a2, m)
         /\ LET e2 == [e EXCEPT !.unit_entities = x]
                a2 == [a EXCEPT !.unit_entities = x]
            IN  IsWorld(e2, m) /\ IsWorld(a2, m) => Twins(e2, a2, m)
         /\ LET e2 == [e EXCEPT !.rng = x]
                a2 == [a EXCEPT !.rng = x]
            IN  IsWorld(e2, m) /\ IsWorld(a2, m) => Twins(e2, a2, m)
         /\ LET e2 == [e EXCEPT !.tick = x]
                a2 == [a EXCEPT !.tick = x]
            IN  IsWorld(e2, m) /\ IsWorld(a2, m) => Twins(e2, a2, m)
<1> DEFINE Plain(v, w) ==
               /\ v.event_capacity = w.event_capacity
               /\ v.generations = w.generations /\ v.liveness = w.liveness
               /\ v.free_stack = w.free_stack /\ v.next_fresh = w.next_fresh
               /\ v.live_count = w.live_count /\ v.free_count = w.free_count
               /\ v.buffers = w.buffers /\ v.read_index = w.read_index
               /\ v.pools = w.pools
<1>1. /\ e \in World /\ a \in World /\ Stacked(e) /\ Stacked(a) /\ RestAgrees(e, a)
  BY DEF Twins, IsWorld
<1>2. ASSUME NEW e2, NEW a2, Plain(e2, e), Plain(a2, a),
             e2.tick = a2.tick, e2.rng = a2.rng,
             e2.unit_entities = a2.unit_entities, e2.pending_destroy = a2.pending_destroy,
             IsWorld(e2, m), IsWorld(a2, m)
      PROVE  Twins(e2, a2, m)
  <2>1. /\ ReadEvents(e2) = ReadEvents(e) /\ ReadEvents(a2) = ReadEvents(a)
        /\ WriteEvents(e2) = WriteEvents(e) /\ WriteEvents(a2) = WriteEvents(a)
    BY <1>2 DEF ReadEvents, WriteEvents, WriteIndex
  <2>2. RestAgrees(e2, a2)
    BY <1>1, <1>2, <2>1 DEF RestAgrees
  <2>3. Stacked(e2) /\ Stacked(a2)
    BY <1>1, <1>2 DEF Stacked, UnissuedClear
  <2>4. QED
    BY <1>2, <2>2, <2>3, TwinRests
<1>3. LET e2 == [e EXCEPT !.pending_destroy = x]
          a2 == [a EXCEPT !.pending_destroy = x]
      IN  IsWorld(e2, m) /\ IsWorld(a2, m) => Twins(e2, a2, m)
  <2> DEFINE e2 == [e EXCEPT !.pending_destroy = x]
             a2 == [a EXCEPT !.pending_destroy = x]
  <2>1. Plain(e2, e) /\ e2.tick = e.tick /\ e2.rng = e.rng /\ e2.unit_entities = e.unit_entities
    BY <1>1 DEF World
  <2>2. Plain(a2, a) /\ a2.tick = a.tick /\ a2.rng = a.rng /\ a2.unit_entities = a.unit_entities
    BY <1>1 DEF World
  <2>3. e2.pending_destroy = x /\ a2.pending_destroy = x
    BY <1>1 DEF World
  <2> HIDE DEF e2, a2, Plain
  <2>4. /\ e2.tick = a2.tick /\ e2.rng = a2.rng
        /\ e2.unit_entities = a2.unit_entities /\ e2.pending_destroy = a2.pending_destroy
    BY <1>1, <2>1, <2>2, <2>3 DEF RestAgrees
  <2>5. IsWorld(e2, m) /\ IsWorld(a2, m) => Twins(e2, a2, m)
    BY <1>2, <2>1, <2>2, <2>4
  <2>6. QED
    BY <2>5 DEF e2, a2
<1>4. LET e2 == [e EXCEPT !.unit_entities = x]
          a2 == [a EXCEPT !.unit_entities = x]
      IN  IsWorld(e2, m) /\ IsWorld(a2, m) => Twins(e2, a2, m)
  <2> DEFINE e2 == [e EXCEPT !.unit_entities = x]
             a2 == [a EXCEPT !.unit_entities = x]
  <2>1. Plain(e2, e) /\ e2.tick = e.tick /\ e2.rng = e.rng /\ e2.pending_destroy = e.pending_destroy
    BY <1>1 DEF World
  <2>2. Plain(a2, a) /\ a2.tick = a.tick /\ a2.rng = a.rng /\ a2.pending_destroy = a.pending_destroy
    BY <1>1 DEF World
  <2>3. e2.unit_entities = x /\ a2.unit_entities = x
    BY <1>1 DEF World
  <2> HIDE DEF e2, a2, Plain
  <2>4. /\ e2.tick = a2.tick /\ e2.rng = a2.rng
        /\ e2.unit_entities = a2.unit_entities /\ e2.pending_destroy = a2.pending_destroy
    BY <1>1, <2>1, <2>2, <2>3 DEF RestAgrees
  <2>5. IsWorld(e2, m) /\ IsWorld(a2, m) => Twins(e2, a2, m)
    BY <1>2, <2>1, <2>2, <2>4
  <2>6. QED
    BY <2>5 DEF e2, a2
<1>5. LET e2 == [e EXCEPT !.rng = x]
          a2 == [a EXCEPT !.rng = x]
      IN  IsWorld(e2, m) /\ IsWorld(a2, m) => Twins(e2, a2, m)
  <2> DEFINE e2 == [e EXCEPT !.rng = x]
             a2 == [a EXCEPT !.rng = x]
  <2>1. Plain(e2, e) /\ e2.tick = e.tick /\ e2.unit_entities = e.unit_entities
        /\ e2.pending_destroy = e.pending_destroy
    BY <1>1 DEF World
  <2>2. Plain(a2, a) /\ a2.tick = a.tick /\ a2.unit_entities = a.unit_entities
        /\ a2.pending_destroy = a.pending_destroy
    BY <1>1 DEF World
  <2>3. e2.rng = x /\ a2.rng = x
    BY <1>1 DEF World
  <2> HIDE DEF e2, a2, Plain
  <2>4. /\ e2.tick = a2.tick /\ e2.rng = a2.rng
        /\ e2.unit_entities = a2.unit_entities /\ e2.pending_destroy = a2.pending_destroy
    BY <1>1, <2>1, <2>2, <2>3 DEF RestAgrees
  <2>5. IsWorld(e2, m) /\ IsWorld(a2, m) => Twins(e2, a2, m)
    BY <1>2, <2>1, <2>2, <2>4
  <2>6. QED
    BY <2>5 DEF e2, a2
<1>6. LET e2 == [e EXCEPT !.tick = x]
          a2 == [a EXCEPT !.tick = x]
      IN  IsWorld(e2, m) /\ IsWorld(a2, m) => Twins(e2, a2, m)
  <2> DEFINE e2 == [e EXCEPT !.tick = x]
             a2 == [a EXCEPT !.tick = x]
  <2>1. Plain(e2, e) /\ e2.rng = e.rng /\ e2.unit_entities = e.unit_entities
        /\ e2.pending_destroy = e.pending_destroy
    BY <1>1 DEF World
  <2>2. Plain(a2, a) /\ a2.rng = a.rng /\ a2.unit_entities = a.unit_entities
        /\ a2.pending_destroy = a.pending_destroy
    BY <1>1 DEF World
  <2>3. e2.tick = x /\ a2.tick = x
    BY <1>1 DEF World
  <2> HIDE DEF e2, a2, Plain
  <2>4. /\ e2.tick = a2.tick /\ e2.rng = a2.rng
        /\ e2.unit_entities = a2.unit_entities /\ e2.pending_destroy = a2.pending_destroy
    BY <1>1, <2>1, <2>2, <2>3 DEF RestAgrees
  <2>5. IsWorld(e2, m) /\ IsWorld(a2, m) => Twins(e2, a2, m)
    BY <1>2, <2>1, <2>2, <2>4
  <2>6. QED
    BY <2>5 DEF e2, a2
<1> HIDE DEF Plain
<1>7. QED
  BY <1>3, <1>4, <1>5, <1>6

(* sim_destroy_deferred keeps worlds in agreement. *)
LEMMA TwinsRequest ==
  ASSUME NEW n \in Nat, NEW e, NEW a, Twins(e, a, n), NEW h \in Handles
  PROVE  Twins(Requested(e, h), Requested(a, h), n)
<1>1. /\ IsWorld(e, n) /\ IsWorld(a, n) /\ RestAgrees(e, a)
      /\ e.pending_destroy = a.pending_destroy
  BY DEF Twins, RestAgrees
<1>2. /\ IsAlive(e, h) <=> IsAlive(a, h)
      /\ Contains(e.pending_destroy, h) <=> Contains(a.pending_destroy, h)
  BY <1>1, TwinsAlive
<1>3. CASE ~IsAlive(e, h) \/ Contains(e.pending_destroy, h)
  <2>1. Requested(e, h) = e /\ Requested(a, h) = a
    BY <1>2, <1>3 DEF Requested
  <2>2. QED
    BY <2>1
<1>4. CASE ~(~IsAlive(e, h) \/ Contains(e.pending_destroy, h))
  <2> DEFINE x == Append(e.pending_destroy, h)
             e2 == [e EXCEPT !.pending_destroy = x]
             a2 == [a EXCEPT !.pending_destroy = x]
  <2>1. Requested(e, h) = e2
    BY <1>4 DEF Requested
  <2>2. Requested(a, h) = a2
    <3>1. Requested(a, h) = [a EXCEPT !.pending_destroy = Append(@, h)]
      BY <1>2, <1>4 DEF Requested
    <3>2. Append(a.pending_destroy, h) = x
      BY <1>1
    <3>3. QED
      BY <3>1, <3>2
  <2>3. IsWorld(e2, n) /\ IsWorld(a2, n)
    BY <1>1, <2>1, <2>2, RequestedStays
  <2> HIDE DEF x
  <2>4. Twins(e2, a2, n)
    BY <2>3, TwinFields
  <2>5. QED
    BY <2>1, <2>2, <2>4
<1>5. QED
  BY <1>3, <1>4

(* The destruction of one entity keeps worlds in agreement. *)
LEMMA TwinsDestroy ==
  ASSUME NEW n \in Nat, NEW e, NEW a, Twins(e, a, n), NEW h \in Handles
  PROVE  Twins(Destroyed(e, h), Destroyed(a, h), n)
<1> DEFINE Bare(w) == Removed(Removed(Removed(w, "health", h), "velocity", h), "transform", h)
           e2 == Bare(e)
           a2 == Bare(a)
           e3 == UnitsWithout(e2, h)
           a3 == UnitsWithout(a2, h)
<1>1. Twins(e2, a2, n)
  <2>1. "health" \in Pools /\ "velocity" \in Pools /\ "transform" \in Pools
    BY DEF Pools
  <2>2. Twins(Removed(e, "health", h), Removed(a, "health", h), n)
    BY <2>1, TwinsRemove
  <2>3. Twins(Removed(Removed(e, "health", h), "velocity", h), Removed(Removed(a, "health", h), "velocity", h), n)
    BY <2>1, <2>2, TwinsRemove
  <2>4. QED
    BY <2>1, <2>3, TwinsRemove
<1>2. Destroyed(e, h) = Released(e3, h) /\ Destroyed(a, h) = Released(a3, h)
  BY DEF Destroyed, UnitsWithout
<1> HIDE DEF Bare, e2, a2
<1>3. IsWorld(e3, n) /\ IsWorld(a3, n)
  BY <1>1, UnitsWithoutStays DEF Twins
<1>4. e2.unit_entities = a2.unit_entities
  BY <1>1 DEF Twins, RestAgrees
<1>5. Twins(e3, a3, n)
  <2> DEFINE f == [u \in UnitSlots |-> IF e2.unit_entities[u] = h THEN Null ELSE e2.unit_entities[u]]
  <2>1. e3 = [e2 EXCEPT !.unit_entities = f] /\ a3 = [a2 EXCEPT !.unit_entities = f]
    BY <1>4 DEF UnitsWithout
  <2> HIDE DEF f, e3, a3
  <2>2. QED
    BY <1>1, <1>3, <2>1, TwinFields
<1> HIDE DEF e3, a3
<1>6. QED
  BY <1>2, <1>5, TwinsRelease

(* sys_flush_destroy keeps worlds in agreement, one pending entity after   *)
(* the other.                                                              *)
LEMMA TwinsFlush ==
  ASSUME NEW n \in Nat, NEW e, NEW a, Twins(e, a, n)
  PROVE  Twins(Flushed(e), Flushed(a), n)
<1> DEFINE p == e.pending_destroy
           m == Len(p)
<1>1. IsWorld(e, n) /\ IsWorld(a, n) /\ a.pending_destroy = p
  BY DEF Twins, RestAgrees
<1>2. PICK g : /\ g[0] = e
               /\ \A k \in 1 .. m : g[k] = Destroyed(g[k - 1], p[k])
               /\ Flushed(e) = [g[m] EXCEPT !.pending_destroy = << >>]
  BY <1>1, FlushSteps
<1>3. PICK f : /\ f[0] = a
               /\ \A k \in 1 .. m : f[k] = Destroyed(f[k - 1], p[k])
               /\ Flushed(a) = [f[m] EXCEPT !.pending_destroy = << >>]
  BY <1>1, FlushSteps
<1>4. p \in Seq(Handles) /\ m \in Nat
  <2>1. p \in Seq(Handles)
    BY <1>1 DEF IsWorld, World
  <2>2. QED
    BY <2>1, LenProperties
<1>5. \A k \in 1 .. m : p[k] \in Handles
  BY <1>4, ElementOfSeq
<1> HIDE DEF p, m
<1>6. \A k \in 0 .. m : Twins(g[k], f[k], n)
  <2> DEFINE T == {k \in 0 .. m : Twins(g[k], f[k], n)}
  <2>1. 0 \in T
    BY <1>2, <1>3, <1>4
  <2>2. ASSUME NEW k \in 1 .. m, k - 1 \in T PROVE k \in T
    <3>1. k \in 0 .. m /\ Twins(g[k - 1], f[k - 1], n) /\ p[k] \in Handles
      BY <1>4, <1>5, <2>2
    <3>2. g[k] = Destroyed(g[k - 1], p[k]) /\ f[k] = Destroyed(f[k - 1], p[k])
      BY <1>2, <1>3, <3>1
    <3>3. Twins(g[k], f[k], n)
      BY <3>1, <3>2, TwinsDestroy
    <3>4. QED
      BY <3>1, <3>3
  <2> HIDE DEF T
  <2>3. \A k \in 0 .. m : k \in T
    BY <1>4, <2>1, <2>2, UpTo
  <2>4. QED
    BY <2>3 DEF T
<1>7. IsWorld(Flushed(e), n) /\ IsWorld(Flushed(a), n)
  BY <1>1, FlushedStays
<1> DEFINE x == << >>
           e2 == g[m]
           a2 == f[m]
<1>8. Twins(e2, a2, n)
  BY <1>4, <1>6
<1>9. Flushed(e) = [e2 EXCEPT !.pending_destroy = x] /\ Flushed(a) = [a2 EXCEPT !.pending_destroy = x]
  BY <1>2, <1>3
<1> DEFINE e3 == [e2 EXCEPT !.pending_destroy = x]
           a3 == [a2 EXCEPT !.pending_destroy = x]
<1>10. Flushed(e) = e3 /\ Flushed(a) = a3
  BY <1>9
<1> HIDE DEF x, e2, a2
<1>11. IsWorld(e3, n) /\ IsWorld(a3, n)
  BY <1>7, <1>10
<1>12. Twins(e3, a3, n)
  BY <1>8, <1>11, TwinFields
<1>13. QED
  BY <1>10, <1>12

(* The two buffers, whichever is read. *)
LEMMA BothBuffers ==
  ASSUME NEW n, NEW w, IsWorld(w, n)
  PROVE  /\ \A b \in 1 .. 2 : w.buffers[b] = ReadEvents(w) \/ w.buffers[b] = WriteEvents(w)
         /\ \E b, c \in 1 .. 2 : ReadEvents(w) = w.buffers[b] /\ WriteEvents(w) = w.buffers[c]
<1>1. w.read_index \in {1, 2}
  BY DEF IsWorld, World
<1>2. /\ w.read_index \in 1 .. 2 /\ 3 - w.read_index \in 1 .. 2
      /\ \A b \in 1 .. 2 : b = w.read_index \/ b = 3 - w.read_index
  BY <1>1
<1>3. QED
  BY <1>2 DEF ReadEvents, WriteEvents, WriteIndex

(* Worlds in agreement answer alike. *)
LEMMA TwinsAgree ==
  ASSUME NEW n, NEW e, NEW a, Twins(e, a, n)
  PROVE  /\ \A h : IsAlive(e, h) <=> IsAlive(a, h)
         /\ \A p \in Pools : \A h : Has(e, p, h) <=> Has(a, p, h)
         /\ UnitsValid(e) <=> UnitsValid(a)
         /\ PendingValid(e) <=> PendingValid(a)
<1>1. /\ RestAgrees(e, a) /\ \A p \in Pools : PoolAgrees(e, a, p)
      /\ e.unit_entities = a.unit_entities /\ e.pending_destroy = a.pending_destroy
  BY DEF Twins, RestAgrees
<1>2. \A h : IsAlive(e, h) <=> IsAlive(a, h)
  BY <1>1, TwinsAlive
<1>3. \A p \in Pools : \A h : Has(e, p, h) <=> Has(a, p, h)
  BY <1>1 DEF PoolAgrees
<1>4. UnitsValid(e) <=> UnitsValid(a)
  <2>1. \A h : (\A p \in Pools : Has(e, p, h)) <=> (\A p \in Pools : Has(a, p, h))
    BY <1>3
  <2>2. QED
    BY <1>1, <1>2, <2>1 DEF UnitsValid
<1>5. PendingValid(e) <=> PendingValid(a)
  BY <1>1, <1>2 DEF PendingValid
<1>6. QED
  BY <1>2, <1>3, <1>4, <1>5

(* They still agree when one more call is allowed for. *)
LEMMA TwinsMore ==
  ASSUME NEW n \in Nat, NEW e, NEW a, Twins(e, a, n)
  PROVE  Twins(e, a, n + 1)
<1>1. ASSUME NEW v, IsWorld(v, n) PROVE IsWorld(v, n + 1)
  <2>1. v.tick \in Nat /\ v.tick <= n /\ v.rng \in Nat /\ v.rng <= n
    BY <1>1 DEF IsWorld, World
  <2>2. v.tick <= n + 1 /\ v.rng <= n + 1
    BY <2>1
  <2>3. QED
    BY <1>1, <2>2 DEF IsWorld
<1>2. QED
  BY <1>1 DEF Twins

(* sim_tick keeps worlds in agreement: both accept it or both refuse it. *)
LEMMA TwinsTick ==
  ASSUME NEW n \in Nat, NEW e, NEW a, Twins(e, a, n)
  PROVE  Twins(WorldTicked(e), WorldTicked(a), n + 1)
<1>1. IsWorld(e, n) /\ IsWorld(a, n) /\ RestAgrees(e, a)
  BY DEF Twins
<1>2. TickAccepted(e) <=> TickAccepted(a)
  <2>1. ASSUME NEW w, IsWorld(w, n)
        PROVE  (\A b \in 1 .. 2 : w.buffers[b] = << >>) <=> (ReadEvents(w) = << >> /\ WriteEvents(w) = << >>)
    BY <2>1, BothBuffers
  <2>2. ReadEvents(e) = ReadEvents(a) /\ WriteEvents(e) = WriteEvents(a)
    BY <1>1 DEF RestAgrees
  <2>3. QED
    BY <1>1, <2>1, <2>2, TwinsAgree DEF TickAccepted
<1>3. CASE ~TickAccepted(e)
  <2>1. WorldTicked(e) = e /\ WorldTicked(a) = a
    BY <1>2, <1>3 DEF WorldTicked
  <2>2. QED
    BY <2>1, TwinsMore
<1>4. CASE TickAccepted(e)
  <2> DEFINE Work(w) == Cooled(EventsPublished(Moved(w)))
             e2 == Work(e)
             a2 == Work(a)
             x == e2.rng + 1
             e3 == [e2 EXCEPT !.rng = x]
             a3 == [a2 EXCEPT !.rng = x]
             e4 == Flushed(e3)
             a4 == Flushed(a3)
             y == e4.tick + 1
             e5 == [e4 EXCEPT !.tick = y]
             a5 == [a4 EXCEPT !.tick = y]
  <2>1. Twins(e2, a2, n)
    BY TwinsMoveAndCool, TwinsEvents
  <2>2. WorldTicked(e) = [Flushed([e2 EXCEPT !.rng = @ + 1]) EXCEPT !.tick = @ + 1]
    BY <1>4 DEF WorldTicked
  <2>3. WorldTicked(a) = [Flushed([a2 EXCEPT !.rng = @ + 1]) EXCEPT !.tick = @ + 1]
    BY <1>2, <1>4 DEF WorldTicked
  <2> HIDE DEF Work, e2, a2
  <2>4. /\ IsWorld(e2, n) /\ IsWorld(a2, n) /\ e2.rng = a2.rng
        /\ e2.rng \in Nat /\ e2.rng <= n /\ e2.tick \in Nat /\ e2.tick <= n
        /\ a2.tick \in Nat /\ a2.tick <= n
    BY <2>1 DEF Twins, RestAgrees, IsWorld, World
  <2>5. [e2 EXCEPT !.rng = @ + 1] = e3 /\ [a2 EXCEPT !.rng = @ + 1] = a3
    BY <2>4
  <2>6. ASSUME NEW w, IsWorld(w, n), w.rng = e2.rng
        PROVE  LET v == [w EXCEPT !.rng = x] IN IsWorld(v, n + 1) /\ v.tick = w.tick
    <3>0. x \in Nat /\ x <= n + 1
      BY <2>4
    <3> HIDE DEF x
    <3>1. w \in World /\ x \in Nat /\ x <= n + 1 /\ w.tick \in Nat /\ w.tick <= n
      BY <2>6, <3>0 DEF IsWorld, World
    <3> DEFINE v == [w EXCEPT !.rng = x]
    <3>2. v \in World /\ v.rng = x
      BY <3>1 DEF World
    <3>3. /\ v.tick = w.tick /\ v.buffers = w.buffers
          /\ v.event_capacity = w.event_capacity /\ v.pools = w.pools
      BY <3>1 DEF World
    <3> HIDE DEF v
    <3>4. v.tick <= n + 1
      BY <3>1, <3>3
    <3>5. IsWorld(v, n + 1)
      BY <2>6, <3>1, <3>2, <3>3, <3>4 DEF IsWorld
    <3>6. QED
      BY <3>3, <3>5 DEF v
  <2>7. /\ IsWorld(e3, n + 1) /\ IsWorld(a3, n + 1) /\ e3.tick = e2.tick /\ a3.tick = a2.tick
    BY <2>4, <2>6
  <2>8. Twins(e3, a3, n + 1)
    <3> HIDE DEF x
    <3>1. QED
      BY <2>1, <2>7, TwinFields
  <2> HIDE DEF e3, a3, x
  <2>9. Twins(e4, a4, n + 1) /\ e4.tick = e3.tick /\ a4.tick = a3.tick
    <3>1. n + 1 \in Nat
      OBVIOUS
    <3> DEFINE m == n + 1
    <3>2. m \in Nat /\ IsWorld(e3, m) /\ IsWorld(a3, m) /\ Twins(e3, a3, m)
      BY <2>7, <2>8, <3>1
    <3> HIDE DEF m
    <3>3. Twins(e4, a4, m)
      BY <3>2, TwinsFlush
    <3>4. e4.tick = e3.tick /\ a4.tick = a3.tick
      BY <3>2, FlushedStays
    <3>5. QED
      BY <3>3, <3>4 DEF m
  <2>10. WorldTicked(e) = [e4 EXCEPT !.tick = @ + 1] /\ WorldTicked(a) = [a4 EXCEPT !.tick = @ + 1]
    BY <2>2, <2>3, <2>5
  <2> HIDE DEF e4, a4
  <2>11. e4.tick = a4.tick
    BY <2>9 DEF Twins, RestAgrees
  <2>12. WorldTicked(e) = e5 /\ WorldTicked(a) = a5
    BY <2>10, <2>11
  <2>13. IsWorld(e5, n + 1) /\ IsWorld(a5, n + 1)
    BY <1>1, <2>12, TickedStays
  <2> HIDE DEF y
  <2>14. Twins(e5, a5, n + 1)
    BY <2>9, <2>13, TwinFields
  <2>15. QED
    BY <2>12, <2>14
<1>5. QED
  BY <1>3, <1>4

(* Two worlds that agree still do after any call. *)
LEMMA OutcomeTwins ==
  ASSUME NEW n \in Nat, NEW e, NEW a, Twins(e, a, n), NEW call \in Calls
  PROVE  Twins(Outcome(e, call), Outcome(a, call), n + 1)
<1>1. \A v, w : Twins(v, w, n) => Twins(v, w, n + 1)
  BY TwinsMore
<1>2. \/ call \in [op : {"create", "publish", "consume", "tick"}]
      \/ call \in [op : {"release", "destroy"}, entity : Handles]
      \/ call \in [op : {"add", "remove"}, pool : Pools, entity : Handles]
      \/ \E p \in Pools : call \in [op : {"write"}, pool : {p}, entity : Handles,
                                    column : DOMAIN Columns[p], value : 0 .. ValueMod - 1]
      \/ call \in [op : {"append"}, event : DamageEvents]
  BY Zenon DEF Calls
<1>3. CASE call \in [op : {"create", "publish", "consume", "tick"}]
  <2>1. call.op \in {"create", "publish", "consume", "tick"}
    BY <1>3
  <2>2. CASE call.op = "create"
    BY <1>1, <2>2, TwinsCreate DEF Outcome
  <2>3. CASE call.op = "publish"
    BY <1>1, <2>3, TwinsEvents DEF Outcome
  <2>4. CASE call.op = "consume"
    BY <1>1, <2>4, TwinsEvents DEF Outcome
  <2>5. CASE call.op = "tick"
    BY <2>5, TwinsTick DEF Outcome
  <2>6. QED
    BY <2>1, <2>2, <2>3, <2>4, <2>5
<1>4. CASE call \in [op : {"release", "destroy"}, entity : Handles]
  <2>1. call.op \in {"release", "destroy"} /\ call.entity \in Handles
    BY <1>4
  <2>2. CASE call.op = "release"
    BY <1>1, <2>1, <2>2, TwinsRelease DEF Outcome
  <2>3. CASE call.op = "destroy"
    BY <1>1, <2>1, <2>3, TwinsRequest DEF Outcome
  <2>4. QED
    BY <2>1, <2>2, <2>3
<1>5. CASE call \in [op : {"add", "remove"}, pool : Pools, entity : Handles]
  <2>1. call.op \in {"add", "remove"} /\ call.pool \in Pools /\ call.entity \in Handles
    BY <1>5
  <2>2. CASE call.op = "add"
    <3> DEFINE m == Len(Columns[call.pool])
               row == [c \in 1 .. m |-> 0]
    <3>1. m \in Nat
      BY <2>1, PoolNames
    <3>2. 0 \in Values
      BY Sizes DEF Values
    <3> HIDE DEF m
    <3>3. row \in Seq(Values) /\ Len(row) = m
      BY <3>1, <3>2
    <3> HIDE DEF row
    <3>4. Twins(Added(e, call.pool, call.entity, row), Added(a, call.pool, call.entity, row), n)
      BY <2>1, <3>3, TwinsAdd DEF m
    <3>5. /\ Outcome(e, call) = Added(e, call.pool, call.entity, row)
          /\ Outcome(a, call) = Added(a, call.pool, call.entity, row)
      BY <2>2 DEF Outcome, row, m
    <3>6. QED
      BY <1>1, <3>4, <3>5
  <2>3. CASE call.op = "remove"
    BY <1>1, <2>1, <2>3, TwinsRemove DEF Outcome
  <2>4. QED
    BY <2>1, <2>2, <2>3
<1>6. ASSUME NEW p \in Pools, call \in [op : {"write"}, pool : {p}, entity : Handles,
                                        column : DOMAIN Columns[p], value : 0 .. ValueMod - 1]
      PROVE  Twins(Outcome(e, call), Outcome(a, call), n + 1)
  <2>1. /\ call.op = "write" /\ call.pool = p /\ call.entity \in Handles
        /\ call.column \in DOMAIN Columns[p] /\ call.value \in Values
    BY <1>6 DEF Values
  <2>2. /\ Outcome(e, call) = Written(e, p, call.entity, call.column, call.value)
        /\ Outcome(a, call) = Written(a, p, call.entity, call.column, call.value)
    BY <2>1 DEF Outcome
  <2>3. Twins(Written(e, p, call.entity, call.column, call.value),
              Written(a, p, call.entity, call.column, call.value), n)
    BY <2>1, TwinsWrite
  <2>4. QED
    BY <1>1, <2>2, <2>3
<1>7. CASE call \in [op : {"append"}, event : DamageEvents]
  <2>1. call.op = "append" /\ call.event \in DamageEvents
    BY <1>7
  <2>2. QED
    BY <1>1, <2>1, TwinsEvents DEF Outcome
<1>8. QED
  BY <1>2, <1>3, <1>4, <1>5, <1>6, <1>7

(* Worlds in agreement hold the same in each pool. *)
LEMMA TwinsHold ==
  ASSUME NEW n, NEW e, NEW a, Twins(e, a, n), NEW p \in Pools
  PROVE  /\ ToSet(e.pools[p].dense) = ToSet(a.pools[p].dense)
         /\ Len(e.pools[p].dense) = Len(a.pools[p].dense)
         /\ Held(e, p) = Held(a, p)
<1>1. IsWorld(e, n) /\ IsWorld(a, n) /\ PoolAgrees(e, a, p)
  BY DEF Twins
<1>2. \A h : /\ h \in ToSet(e.pools[p].dense) <=> Has(e, p, h)
             /\ h \in ToSet(a.pools[p].dense) <=> Has(a, p, h)
  BY <1>1, HeldIsHas
<1>3. ToSet(e.pools[p].dense) = ToSet(a.pools[p].dense)
  BY <1>1, <1>2 DEF PoolAgrees
<1>4. /\ Cardinality(ToSet(e.pools[p].dense)) = Len(e.pools[p].dense)
      /\ Cardinality(ToSet(a.pools[p].dense)) = Len(a.pools[p].dense)
  BY <1>1, HeldCount
<1>5. \A h \in ToSet(e.pools[p].dense) : Row(e, p, h) = Row(a, p, h)
  BY <1>1, <1>2 DEF PoolAgrees
<1>6. Held(e, p) = Held(a, p)
  BY <1>3, <1>5, Zenon DEF Held
<1>7. QED
  BY <1>3, <1>4, <1>6

(* Worlds in agreement are both canonical or neither is. *)
LEMMA TwinsCanonical ==
  ASSUME NEW n, NEW e, NEW a, Twins(e, a, n)
  PROVE  CanonicalWorld(e) <=> CanonicalWorld(a)
<1>1. IsWorld(e, n) /\ IsWorld(a, n) /\ RestAgrees(e, a)
  BY DEF Twins
<1>2. /\ \A h : IsAlive(e, h) <=> IsAlive(a, h)
      /\ \A p \in Pools : \A h : Has(e, p, h) <=> Has(a, p, h)
      /\ UnitsValid(e) <=> UnitsValid(a)
      /\ PendingValid(e) <=> PendingValid(a)
  BY TwinsAgree
<1>3. ManagerValid(e) <=> ManagerValid(a)
  <2>1. /\ e.generations = a.generations /\ e.liveness = a.liveness
        /\ e.next_fresh = a.next_fresh /\ e.live_count = a.live_count /\ e.free_count = a.free_count
        /\ \A k \in 1 .. e.free_count : e.free_stack[k] = a.free_stack[k]
    BY <1>1 DEF RestAgrees
  <2>2. (\A k \in 1 .. e.free_count : e.free_stack[k] < e.next_fresh /\ e.liveness[e.free_stack[k]] = 0)
        <=> (\A k \in 1 .. a.free_count : a.free_stack[k] < a.next_fresh /\ a.liveness[a.free_stack[k]] = 0)
    BY <2>1
  <2>3. QED
    BY <2>1, <2>2 DEF ManagerValid
<1>4. ASSUME NEW p \in Pools PROVE MembershipValid(e, p) <=> MembershipValid(a, p)
  <2>1. ASSUME NEW w, IsWorld(w, n)
        PROVE  (\A d \in DOMAIN w.pools[p].dense : IsAlive(w, w.pools[p].dense[d]))
                   <=> (\A h \in ToSet(w.pools[p].dense) : IsAlive(w, h))
    BY DEF ToSet
  <2>2. /\ ToSet(e.pools[p].dense) = ToSet(a.pools[p].dense)
        /\ Len(e.pools[p].dense) = Len(a.pools[p].dense)
    BY TwinsHold
  <2>3. QED
    BY <1>1, <1>2, <2>1, <2>2 DEF MembershipValid
<1>5. (\A b \in 1 .. 2 : \A k \in DOMAIN e.buffers[b] : EventValid(e, e.buffers[b][k]))
      <=> (\A b \in 1 .. 2 : \A k \in DOMAIN a.buffers[b] : EventValid(a, a.buffers[b][k]))
  <2>1. ReadEvents(e) = ReadEvents(a) /\ WriteEvents(e) = WriteEvents(a)
    BY <1>1 DEF RestAgrees
  <2>2. \A ev : EventValid(e, ev) <=> EventValid(a, ev)
    <3>1. "health" \in Pools
      BY DEF Pools
    <3>2. QED
      BY <1>2, <3>1 DEF EventValid
  <2> DEFINE Good(w, s) == \A k \in DOMAIN s : EventValid(w, s[k])
  <2>3. \A s : Good(e, s) <=> Good(a, s)
    BY <2>2
  <2> HIDE DEF Good
  <2>4. ASSUME NEW w, IsWorld(w, n)
        PROVE  (\A b \in 1 .. 2 : Good(w, w.buffers[b])) <=> Good(w, ReadEvents(w)) /\ Good(w, WriteEvents(w))
    BY <2>4, BothBuffers
  <2>5. (\A b \in 1 .. 2 : Good(e, e.buffers[b])) <=> (\A b \in 1 .. 2 : Good(a, a.buffers[b]))
    BY <1>1, <2>1, <2>3, <2>4
  <2>6. QED
    BY <2>5 DEF Good
<1>6. QED
  BY <1>2, <1>3, <1>4, <1>5 DEF CanonicalWorld

(* Worlds that agree hash alike. *)
LEMMA TwinsSame ==
  ASSUME NEW n, NEW e, NEW a, Twins(e, a, n)
  PROVE  Same(e, a)
<1>1. IsWorld(e, n) /\ IsWorld(a, n) /\ RestAgrees(e, a)
  BY DEF Twins
<1>2. CanonicalWorld(e) <=> CanonicalWorld(a)
  BY TwinsCanonical
<1>3. CASE ~CanonicalWorld(e)
  BY <1>2, <1>3 DEF Same, SimHashState
<1>4. CASE CanonicalWorld(e)
  <2>1. /\ e.event_capacity = a.event_capacity /\ e.tick = a.tick /\ e.rng = a.rng
        /\ e.generations = a.generations /\ e.liveness = a.liveness
        /\ e.next_fresh = a.next_fresh /\ e.free_count = a.free_count
        /\ \A k \in 1 .. e.free_count : e.free_stack[k] = a.free_stack[k]
        /\ e.unit_entities = a.unit_entities /\ e.pending_destroy = a.pending_destroy
        /\ ReadEvents(e) = ReadEvents(a) /\ WriteEvents(e) = WriteEvents(a)
    BY <1>1 DEF RestAgrees
  <2>2. EntitySlots(e) = EntitySlots(a)
    BY <2>1 DEF EntitySlots
  <2>3. FreeSlots(e) = FreeSlots(a)
    BY <2>1 DEF FreeSlots
  <2>4. EventsOf(e) = EventsOf(a)
    BY <2>1 DEF EventsOf
  <2>5. [p \in Pools |-> Held(e, p)] = [p \in Pools |-> Held(a, p)]
    <3>1. \A p \in Pools : Held(e, p) = Held(a, p)
      BY TwinsHold
    <3>2. QED
      BY <3>1
  <2>6. Contents(e) = Contents(a)
    <3>1. <<e.tick, e.rng, e.event_capacity>> = <<a.tick, a.rng, a.event_capacity>>
      BY <2>1
    <3>2. Contents(e) =
            [scalars |-> <<e.tick, e.rng, e.event_capacity>>, entities |-> EntitySlots(e),
             free |-> FreeSlots(e), units |-> e.unit_entities, pending |-> e.pending_destroy,
             events |-> EventsOf(e), pools |-> [p \in Pools |-> Held(e, p)]]
      BY <1>1, <1>4, ContentsParts
    <3>3. Contents(a) =
            [scalars |-> <<a.tick, a.rng, a.event_capacity>>, entities |-> EntitySlots(a),
             free |-> FreeSlots(a), units |-> a.unit_entities, pending |-> a.pending_destroy,
             events |-> EventsOf(a), pools |-> [p \in Pools |-> Held(a, p)]]
      BY <1>1, <1>2, <1>4, ContentsParts
    <3>4. QED
      BY <2>1, <2>2, <2>3, <2>4, <2>5, <3>1, <3>2, <3>3, Zenon
  <2>7. Hashed(e) = Hashed(a)
    BY <1>1, <1>2, <1>4, <2>6, ContentsTell
  <2>8. QED
    BY <1>2, <2>7 DEF Same, SimHashState
<1>5. QED
  BY <1>3, <1>4

(* Worlds that hash alike agree on everything an operation asks. *)
LEMMA SameTwins ==
  ASSUME NEW n \in 0 .. Limit64 - 1, NEW e, NEW a,
         IsWorld(e, n), Stacked(e), CanonicalWorld(e),
         IsWorld(a, n), Stacked(a), CanonicalWorld(a), Same(e, a)
  PROVE  Twins(e, a, n)
<1>1. Contents(e) = Contents(a)
  BY SameTells, WorldIsContents
<1>2. /\ e.tick = a.tick /\ e.rng = a.rng /\ e.event_capacity = a.event_capacity
      /\ e.next_fresh = a.next_fresh /\ e.free_count = a.free_count /\ e.live_count = a.live_count
      /\ \A i \in 0 .. e.next_fresh - 1 :
             e.generations[i] = a.generations[i] /\ e.liveness[i] = a.liveness[i]
      /\ \A k \in 1 .. e.free_count : e.free_stack[k] = a.free_stack[k]
      /\ e.unit_entities = a.unit_entities /\ e.pending_destroy = a.pending_destroy
      /\ ReadEvents(e) = ReadEvents(a) /\ WriteEvents(e) = WriteEvents(a)
      /\ \A p \in Pools : Held(e, p) = Held(a, p)
  BY <1>1, ContentsFields
<1>3. e.generations = a.generations /\ e.liveness = a.liveness
  <2>0. e.next_fresh \in Nat
    BY Sizes DEF IsWorld, World
  <2>1. /\ e.generations \in [Slots -> 0 .. GenMax] /\ a.generations \in [Slots -> 0 .. GenMax]
        /\ e.liveness \in [Slots -> {0, 1}] /\ a.liveness \in [Slots -> {0, 1}]
    BY DEF IsWorld, World
  <2>2. ASSUME NEW i \in Slots
        PROVE  e.generations[i] = a.generations[i] /\ e.liveness[i] = a.liveness[i]
    <3>1. i \in Nat
      BY Sizes DEF Slots
    <3>2. CASE e.next_fresh <= i
      BY <1>2, <3>2 DEF Stacked, UnissuedClear
    <3>3. CASE ~(e.next_fresh <= i)
      <4>1. i \in 0 .. e.next_fresh - 1
        BY <2>0, <3>1, <3>3
      <4>2. QED
        BY <1>2, <4>1
    <3>4. QED
      BY <3>2, <3>3
  <2>3. QED
    BY <2>1, <2>2
<1>4. RestAgrees(e, a)
  BY <1>2, <1>3 DEF RestAgrees
<1>5. ASSUME NEW p \in Pools PROVE PoolAgrees(e, a, p)
  <2>1. Held(e, p) = Held(a, p)
    BY <1>2
  <2>2. DOMAIN Held(e, p) = ToSet(e.pools[p].dense) /\ DOMAIN Held(a, p) = ToSet(a.pools[p].dense)
    BY DEF Held
  <2>3. ASSUME NEW h
        PROVE  /\ Has(e, p, h) <=> h \in DOMAIN Held(e, p)
               /\ Has(a, p, h) <=> h \in DOMAIN Held(a, p)
    BY <2>2, HeldIsHas
  <2>4. ASSUME NEW h, h \in DOMAIN Held(e, p)
        PROVE  Held(e, p)[h] = Row(e, p, h) /\ Held(a, p)[h] = Row(a, p, h)
    <3>1. h \in ToSet(e.pools[p].dense) /\ h \in ToSet(a.pools[p].dense)
      BY <2>1, <2>2, <2>4
    <3>2. QED
      BY <3>1 DEF Held
  <2>5. QED
    BY <2>1, <2>3, <2>4 DEF PoolAgrees
<1>6. QED
  BY <1>4, <1>5 DEF Twins

(* A world with its free stack in order agrees with itself. *)
LEMMA OwnTwin ==
  ASSUME NEW n, NEW w
  PROVE  Twins(w, w, n) <=> IsWorld(w, n) /\ Stacked(w)
BY DEF Twins, RestAgrees, PoolAgrees

(* The free stack of either world is in order. *)
LEMMA StacksStay == WorldsSpec => [](WorldsInvariant /\ Stacked(expected) /\ Stacked(actual))
<1>1. WorldsInit => Stacked(expected) /\ Stacked(actual)
  <2> SUFFICES ASSUME WorldsInit PROVE Stacked(expected) /\ Stacked(actual)
    OBVIOUS
  <2>1. PICK capacity \in EventCapacities : actual = Initialised(capacity)
    BY DEF WorldsInit
  <2>2. MostEvents \in EventCapacities /\ expected = Initialised(MostEvents)
    BY <2>1, MostEventsThere DEF WorldsInit
  <2>3. ASSUME NEW c \in EventCapacities PROVE Stacked(Initialised(c))
    <3> DEFINE w == Initialised(c)
    <3>1. IsWorld(w, 0) /\ w.free_count = 0 /\ UnissuedClear(w)
      BY InitialisedIsWorld
    <3> HIDE DEF w
    <3>2. w.next_fresh \in Nat
      BY <3>1, Sizes DEF IsWorld, World
    <3>3. 1 .. w.free_count = {}
      BY <3>1
    <3>4. Stacked(w)
      BY <3>1, <3>2, <3>3 DEF Stacked
    <3>5. QED
      BY <3>4 DEF w
  <2>4. QED
    BY <2>1, <2>2, <2>3
<1>2. /\ WorldsInvariant /\ Stacked(expected) /\ Stacked(actual) /\ [WorldsNext]_worlds
      => Stacked(expected)' /\ Stacked(actual)'
  <2> SUFFICES ASSUME WorldsInvariant, Stacked(expected), Stacked(actual), [WorldsNext]_worlds
               PROVE  Stacked(expected') /\ Stacked(actual')
    OBVIOUS
  <2>1. CASE WorldsNext
    <3>1. PICK call \in mix.calls : Replay(call) \/ Diverge(call)
      BY <2>1 DEF WorldsNext
    <3>2. call \in Calls /\ calls \in Nat
      BY <3>1, StateDiffAssumption DEF WorldsInvariant
    <3>3. Twins(expected, expected, calls) /\ Twins(actual, actual, calls)
      BY OwnTwin DEF WorldsInvariant
    <3>4. /\ Twins(Outcome(expected, call), Outcome(expected, call), calls + 1)
          /\ Twins(Outcome(actual, call), Outcome(actual, call), calls + 1)
      BY <3>2, <3>3, OutcomeTwins
    <3>5. Stacked(Outcome(expected, call)) /\ Stacked(Outcome(actual, call))
      BY <3>4 DEF Twins
    <3>6. QED
      BY <3>1, <3>5 DEF Replay, Diverge
  <2>2. CASE UNCHANGED worlds
    BY <2>2 DEF worlds
  <2>3. QED
    BY <2>1, <2>2
<1>3. QED
  BY <1>1, <1>2, WorldsStay, PTL DEF WorldsSpec

(* HashDecidesFuture: worlds with equal hashes have equal hashes after any *)
(* call that both get. Equal hashes mean agreement on everything an        *)
(* operation asks, every operation keeps it, and worlds in agreement hash  *)
(* alike. It is about sim_hash_state and all of the world's operations.    *)
THEOREM HashDecides == WorldsSpec => []HashDecidesFuture
<1>1. WorldsInvariant /\ Stacked(expected) /\ Stacked(actual) => HashDecidesFuture
  <2> SUFFICES ASSUME WorldsInvariant, Stacked(expected), Stacked(actual),
                      CanonicalWorld(expected), CanonicalWorld(actual), Same(expected, actual),
                      NEW call \in mix.calls
               PROVE  Same(Outcome(expected, call), Outcome(actual, call))
    BY DEF HashDecidesFuture
  <2>1. calls \in 0 .. Limit64 - 1 /\ calls \in Nat /\ call \in Calls
    BY StateDiffAssumption, WordLimits DEF WorldsInvariant
  <2>2. Twins(expected, actual, calls)
    BY <2>1, SameTwins DEF WorldsInvariant
  <2>3. Twins(Outcome(expected, call), Outcome(actual, call), calls + 1)
    BY <2>1, <2>2, OutcomeTwins
  <2>4. QED
    BY <2>3, TwinsSame
<1>2. QED
  BY <1>1, StacksStay, PTL
=============================================================================
