------------------------ MODULE RenderFramesProofs ------------------------
(***************************************************************************)
(* Proofs about the renderer's frames and resources for every capacity of  *)
(* the tables, every number of frames in flight and of images, and every   *)
(* delay that callers ask for.                                             *)
(***************************************************************************)
EXTENDS RenderFrames, SequenceTheorems, FiniteSetTheorems, SortedSetsProofs

Statuses == {"free", "alive", "retiring"}

Table(capacity) ==
    [generation   : [0 .. capacity - 1 -> Nat \ {0}],
     status       : [0 .. capacity - 1 -> Statuses],
     retire_frame : [0 .. capacity - 1 -> Nat],
     free         : Seq(0 .. capacity - 1)]

(* A retired slot waits at least for the frames in flight. *)
RetiredLater(t) ==
    \A i \in SlotIds(t) : t.status[i] = "retiring" => t.retire_frame[i] >= FramesInFlight

(* The slot of a handle is there and is not collected up to a frame. *)
SafeUntil(t, h, f) ==
    /\ h.index \in SlotIds(t)
    /\ StillHolds(t, h)
    /\ t.status[h.index] = "retiring" => t.retire_frame[h.index] > f

(* What an operation on a table may do to the slots it is not about. *)
SameSlot(t, u, i) ==
    /\ u.generation[i] = t.generation[i]
    /\ u.status[i] = t.status[i]
    /\ u.retire_frame[i] = t.retire_frame[i]

Occupied(t) == {i \in SlotIds(t) : t.status[i] # "free"}

----------------------------------------------------------------------------
(* The operations of a handle table. *)

(* A new table is free in every slot. *)
LEMMA NewTableFacts ==
  ASSUME NEW capacity \in Nat
  PROVE  LET t == NewTable(capacity) IN
         /\ t \in Table(capacity) /\ FreeListExact(t) /\ RetiredLater(t)
         /\ Occupied(t) = {}
<1> DEFINE t == NewTable(capacity)
<1>1. t.free = [k \in 1 .. capacity |-> k - 1] /\ t.free \in Seq(0 .. capacity - 1)
  BY DEF NewTable
<1>2. /\ t.generation = [i \in 0 .. capacity - 1 |-> 1]
      /\ t.status = [i \in 0 .. capacity - 1 |-> "free"]
      /\ SlotIds(t) = 0 .. capacity - 1
  BY DEF NewTable, SlotIds
<1>3. t \in Table(capacity)
  BY <1>1 DEF NewTable, Table, Statuses
<1>4. FreeListExact(t)
  <2>1. Range(t.free) = 0 .. capacity - 1
    <3>1. ASSUME NEW i \in 0 .. capacity - 1 PROVE i \in Range(t.free)
      <4>1. i + 1 \in 1 .. capacity /\ t.free[i + 1] = i
        BY <1>1
      <4>2. QED
        BY <1>1, <4>1 DEF Range
    <3>2. \A k \in 1 .. capacity : t.free[k] \in 0 .. capacity - 1
      BY <1>1
    <3>3. QED
      BY <1>1, <3>1, <3>2 DEF Range
  <2>2. \A k, l \in 1 .. capacity : t.free[k] = t.free[l] => k = l
    BY <1>1
  <2>3. QED
    BY <1>1, <1>2, <2>1, <2>2 DEF FreeListExact, IsInjective
<1>5. QED
  BY <1>2, <1>3, <1>4 DEF RetiredLater, Occupied

(* A slot is taken from the front of the free list. *)
LEMMA AllocFacts ==
  ASSUME NEW capacity \in Nat, NEW t \in Table(capacity),
         AllocHandle(t) # NullHandle, FreeListExact(t)
  PROVE  LET u == AllocSlot(t)
             n == Head(t.free)
         IN
         /\ u \in Table(capacity) /\ SlotIds(u) = SlotIds(t) /\ FreeListExact(u)
         /\ n \in SlotIds(t) /\ t.status[n] = "free" /\ u.status[n] = "alive"
         /\ u.generation = t.generation
         /\ \A i \in SlotIds(t) \ {n} : SameSlot(t, u, i)
         /\ AllocHandle(t).index = n /\ AllocHandle(t).gen = t.generation[n]
<1> DEFINE u == AllocSlot(t)
           n == Head(t.free)
           S == 0 .. capacity - 1
<1>1. /\ t.generation \in [S -> Nat \ {0}] /\ t.status \in [S -> Statuses]
      /\ t.retire_frame \in [S -> Nat] /\ t.free \in Seq(S)
      /\ SlotIds(t) = S
  BY DEF Table, SlotIds
<1>2. t.free # << >>
  BY DEF AllocHandle
<1>3. n \in S /\ Tail(t.free) \in Seq(S) /\ Len(t.free) \in Nat \ {0} /\ n = t.free[1]
  <2>1. \A s \in Seq(S) : s # << >> => /\ Tail(s) \in Seq(S) /\ Len(s) \in Nat \ {0}
                                      /\ Head(s) = s[1] /\ s[1] \in S
    OBVIOUS
  <2>2. QED
    BY <1>1, <1>2, <2>1
<1>4. u = [generation |-> t.generation, status |-> [t.status EXCEPT ![n] = "alive"],
           retire_frame |-> [t.retire_frame EXCEPT ![n] = 0], free |-> Tail(t.free)]
  BY DEF AllocSlot
<1>5. u \in Table(capacity)
  <2>1. [t.status EXCEPT ![n] = "alive"] \in [S -> Statuses]
    BY <1>1, <1>3 DEF Statuses
  <2>2. [t.retire_frame EXCEPT ![n] = 0] \in [S -> Nat]
    BY <1>1, <1>3
  <2> HIDE DEF n
  <2>3. QED
    BY <1>1, <1>3, <1>4, <2>1, <2>2 DEF Table
<1> HIDE DEF u
<1>6. SlotIds(u) = S /\ u.generation = t.generation
  BY <1>1, <1>4 DEF SlotIds
<1>7. \A k \in 1 .. Len(u.free) : u.free[k] = t.free[k + 1] /\ k + 1 \in 1 .. Len(t.free)
  <2>1. \A s \in Seq(S) : s # << >> =>
            \A k \in 1 .. Len(Tail(s)) : Tail(s)[k] = s[k + 1] /\ k + 1 \in 1 .. Len(s)
    OBVIOUS
  <2>2. QED
    BY <1>1, <1>2, <1>4, <2>1
<1>8. Len(u.free) = Len(t.free) - 1
  <2>1. \A s \in Seq(S) : s # << >> => Len(Tail(s)) = Len(s) - 1
    OBVIOUS
  <2>2. QED
    BY <1>1, <1>2, <1>4, <2>1
<1>9. DOMAIN t.free = 1 .. Len(t.free) /\ DOMAIN u.free = 1 .. Len(u.free)
  BY <1>1, <1>3, <1>4
<1>10. \A k, l \in 1 .. Len(t.free) : t.free[k] = t.free[l] => k = l
  BY <1>9 DEF FreeListExact, IsInjective
<1>11. \A i : i \in Range(t.free) <=> \E k \in 1 .. Len(t.free) : t.free[k] = i
  BY <1>9 DEF Range
<1>12. t.status[n] = "free"
  <2>1. n \in Range(t.free)
    BY <1>3, <1>11
  <2>2. QED
    BY <2>1 DEF FreeListExact
<1>13. Range(u.free) = Range(t.free) \ {n}
  <2>1. ASSUME NEW i \in Range(u.free) PROVE i \in Range(t.free) \ {n}
    <3>1. PICK k \in 1 .. Len(u.free) : u.free[k] = i
      BY <1>9, <2>1 DEF Range
    <3>2. 1 \in 1 .. Len(t.free) /\ k + 1 # 1
      BY <1>3
    <3>3. QED
      BY <1>3, <1>7, <1>10, <1>11, <3>1, <3>2
  <2>2. ASSUME NEW i \in Range(t.free) \ {n} PROVE i \in Range(u.free)
    <3>1. PICK k \in 1 .. Len(t.free) : t.free[k] = i /\ k # 1
      BY <1>3, <1>11
    <3>2. k - 1 \in 1 .. Len(u.free) /\ (k - 1) + 1 = k
      BY <1>3, <1>8, <3>1
    <3>3. u.free[k - 1] = i
      BY <1>7, <3>1, <3>2
    <3>4. QED
      BY <1>9, <3>2, <3>3 DEF Range
  <2>3. QED
    BY <2>1, <2>2
<1>14. FreeListExact(u)
  <2>1. IsInjective(u.free)
    <3>1. ASSUME NEW k \in 1 .. Len(u.free), NEW l \in 1 .. Len(u.free), u.free[k] = u.free[l]
          PROVE  k = l
      <4>1. k + 1 = l + 1
        BY <1>7, <1>10, <3>1
      <4>2. QED
        BY <4>1
    <3>2. QED
      BY <1>9, <3>1 DEF IsInjective
  <2>2. \A i \in S : u.status[i] = "free" <=> t.status[i] = "free" /\ i # n
    BY <1>1, <1>3, <1>4
  <2>3. QED
    BY <1>1, <1>6, <1>13, <2>1, <2>2 DEF FreeListExact
<1>15. \A i \in S \ {n} : SameSlot(t, u, i)
  BY <1>1, <1>3, <1>4 DEF SameSlot
<1>16. u.status[n] = "alive"
  BY <1>1, <1>3, <1>4
<1>17. AllocHandle(t).index = n /\ AllocHandle(t).gen = t.generation[n]
  BY <1>2 DEF AllocHandle
<1>18. QED
  BY <1>1, <1>3, <1>5, <1>6, <1>12, <1>14, <1>15, <1>16, <1>17 DEF u

(* Retiring keeps the slot's objects and generation. *)
LEMMA RetireFacts ==
  ASSUME NEW capacity \in Nat, NEW t \in Table(capacity), NEW h, Valid(t, h),
         NEW f \in Nat
  PROVE  LET u == RetireSlot(t, h, f) IN
         /\ u \in Table(capacity) /\ SlotIds(u) = SlotIds(t)
         /\ FreeListExact(t) => FreeListExact(u)
         /\ h.index \in SlotIds(t) /\ t.status[h.index] = "alive"
         /\ u.status[h.index] = "retiring" /\ u.retire_frame[h.index] = f
         /\ u.generation = t.generation
         /\ u.free = t.free
         /\ \A i \in SlotIds(t) \ {h.index} : SameSlot(t, u, i)
<1> DEFINE u == RetireSlot(t, h, f)
           S == 0 .. capacity - 1
<1>1. /\ t.generation \in [S -> Nat \ {0}] /\ t.status \in [S -> Statuses]
      /\ t.retire_frame \in [S -> Nat] /\ t.free \in Seq(S)
      /\ SlotIds(t) = S
  BY DEF Table, SlotIds
<1>2. h.index \in S /\ t.status[h.index] = "alive"
  BY <1>1 DEF Valid
<1>3. u = [generation |-> t.generation, status |-> [t.status EXCEPT ![h.index] = "retiring"],
           retire_frame |-> [t.retire_frame EXCEPT ![h.index] = f], free |-> t.free]
  BY DEF RetireSlot, Table
<1>4. u \in Table(capacity)
  <2>1. [t.status EXCEPT ![h.index] = "retiring"] \in [S -> Statuses]
    BY <1>1, <1>2 DEF Statuses
  <2>2. [t.retire_frame EXCEPT ![h.index] = f] \in [S -> Nat]
    BY <1>1, <1>2
  <2>3. QED
    BY <1>1, <1>3, <2>1, <2>2 DEF Table
<1> HIDE DEF u
<1>5. SlotIds(u) = S /\ u.generation = t.generation /\ u.free = t.free
  BY <1>1, <1>3 DEF SlotIds
<1>6. /\ u.status[h.index] = "retiring" /\ u.retire_frame[h.index] = f
      /\ \A i \in S \ {h.index} : SameSlot(t, u, i)
  BY <1>1, <1>2, <1>3 DEF SameSlot
<1>7. FreeListExact(t) => FreeListExact(u)
  <2>1. \A i \in S : u.status[i] = "free" <=> t.status[i] = "free"
    BY <1>1, <1>2, <1>3
  <2>2. QED
    BY <1>1, <1>3, <1>5, <2>1 DEF FreeListExact
<1>8. QED
  BY <1>1, <1>2, <1>4, <1>5, <1>6, <1>7 DEF u

(* A collection frees the due slots and leaves the others alone. *)
LEMMA CollectedFacts ==
  ASSUME NEW capacity \in Nat, NEW t \in Table(capacity), NEW c \in Nat
  PROVE  LET u == Collected(t, c)
             due == Due(t, c)
         IN
         /\ u \in Table(capacity) /\ SlotIds(u) = SlotIds(t)
         /\ FreeListExact(t) => FreeListExact(u)
         /\ due \subseteq SlotIds(t)
         /\ \A i \in due : t.status[i] = "retiring" /\ u.status[i] = "free"
         /\ \A i \in SlotIds(t) \ due : SameSlot(t, u, i)
         /\ \A i \in due : u.generation[i] = t.generation[i] + 1
<1> DEFINE u == Collected(t, c)
           due == Due(t, c)
           S == 0 .. capacity - 1
<1>1. /\ t.generation \in [S -> Nat \ {0}] /\ t.status \in [S -> Statuses]
      /\ t.retire_frame \in [S -> Nat] /\ t.free \in Seq(S)
      /\ SlotIds(t) = S
  BY DEF Table, SlotIds
<1>2. due \subseteq S /\ \A i \in due : t.status[i] = "retiring"
  BY <1>1 DEF Due
<1>3. IsFiniteSet(due) /\ due \in SUBSET Nat
  <2>1. IsFiniteSet(S)
    BY FS_Interval
  <2>2. QED
    BY <1>2, <2>1, FS_Subset
<1>4. /\ u.generation = [i \in S |-> IF i \in due THEN t.generation[i] + 1 ELSE t.generation[i]]
      /\ u.status = [i \in S |-> IF i \in due THEN "free" ELSE t.status[i]]
      /\ u.retire_frame = [i \in S |-> IF i \in due THEN 0 ELSE t.retire_frame[i]]
      /\ u.free = Descending(due) \o t.free
      /\ u = [generation |-> u.generation, status |-> u.status,
              retire_frame |-> u.retire_frame, free |-> u.free]
  BY <1>1 DEF Collected
<1> DEFINE d == Descending(due)
<1>5. d \in Seq(due) /\ Range(d) = due /\ IsInjective(d)
  BY <1>3, DescendingListing
<1> HIDE DEF u, d, due
<1>6. d \in Seq(S)
  BY <1>2, <1>5, SeqMonotonic
<1>7. u.free = d \o t.free /\ u.free \in Seq(S)
  <2>1. u.free = d \o t.free
    BY <1>4 DEF d
  <2>2. QED
    BY <1>1, <1>6, <2>1
<1>8. u \in Table(capacity)
  <2>1. u.generation \in [S -> Nat \ {0}]
    BY <1>1, <1>4
  <2>2. u.status \in [S -> Statuses]
    BY <1>1, <1>4 DEF Statuses
  <2>3. u.retire_frame \in [S -> Nat]
    BY <1>1, <1>4
  <2>4. QED
    BY <1>4, <1>7, <2>1, <2>2, <2>3 DEF Table
<1>9. SlotIds(u) = S
  BY <1>4 DEF SlotIds
<1>10. \A i \in due : u.status[i] = "free" /\ u.generation[i] = t.generation[i] + 1
  BY <1>2, <1>4
<1>11. \A i \in S \ due : SameSlot(t, u, i)
  BY <1>4 DEF SameSlot
<1>12. ASSUME FreeListExact(t) PROVE FreeListExact(u)
  <2>1. /\ Len(u.free) = Len(d) + Len(t.free) /\ Len(d) \in Nat /\ Len(t.free) \in Nat
        /\ \A k \in 1 .. Len(d) : u.free[k] = d[k]
        /\ \A k \in 1 .. Len(t.free) : u.free[Len(d) + k] = t.free[k]
        /\ DOMAIN d = 1 .. Len(d) /\ DOMAIN t.free = 1 .. Len(t.free)
        /\ DOMAIN u.free = 1 .. Len(u.free)
    <3>1. \A p, q \in Seq(S) :
            /\ Len(p \o q) = Len(p) + Len(q) /\ Len(p) \in Nat /\ Len(q) \in Nat
            /\ \A k \in 1 .. Len(p) : (p \o q)[k] = p[k]
            /\ \A k \in 1 .. Len(q) : (p \o q)[Len(p) + k] = q[k]
            /\ DOMAIN p = 1 .. Len(p) /\ DOMAIN q = 1 .. Len(q)
            /\ DOMAIN (p \o q) = 1 .. Len(p \o q)
      OBVIOUS
    <3>2. QED
      BY <1>1, <1>6, <1>7, <3>1
  <2>2. Range(t.free) = {i \in S : t.status[i] = "free"} /\ IsInjective(t.free)
    BY <1>1, <1>12 DEF FreeListExact
  <2>3. \A k \in 1 .. Len(u.free) :
            \/ k \in 1 .. Len(d) /\ u.free[k] = d[k] /\ d[k] \in due
            \/ /\ k \notin 1 .. Len(d) /\ k - Len(d) \in 1 .. Len(t.free)
               /\ u.free[k] = t.free[k - Len(d)]
               /\ t.free[k - Len(d)] \in Range(t.free)
    <3>1. ASSUME NEW k \in 1 .. Len(u.free), k \in 1 .. Len(d)
          PROVE  u.free[k] = d[k] /\ d[k] \in due
      BY <1>5, <2>1, <3>1 DEF Range
    <3>2. ASSUME NEW k \in 1 .. Len(u.free), k \notin 1 .. Len(d)
          PROVE  /\ k - Len(d) \in 1 .. Len(t.free)
                 /\ u.free[k] = t.free[k - Len(d)]
                 /\ t.free[k - Len(d)] \in Range(t.free)
      <4>1. k - Len(d) \in 1 .. Len(t.free) /\ Len(d) + (k - Len(d)) = k
        BY <2>1, <3>2
      <4>2. QED
        BY <2>1, <4>1 DEF Range
    <3>3. QED
      BY <3>1, <3>2
  <2>4. \A i \in due : i \notin Range(t.free)
    BY <1>2, <2>2
  <2>5. Range(u.free) = due \union Range(t.free)
    <3>1. ASSUME NEW i \in due PROVE i \in Range(u.free)
      <4>1. PICK k \in 1 .. Len(d) : d[k] = i
        BY <1>5, <2>1 DEF Range
      <4>2. k \in 1 .. Len(u.free) /\ u.free[k] = i
        BY <2>1, <4>1
      <4>3. QED
        BY <2>1, <4>2 DEF Range
    <3>2. ASSUME NEW i \in Range(t.free) PROVE i \in Range(u.free)
      <4>1. PICK k \in 1 .. Len(t.free) : t.free[k] = i
        BY <2>1 DEF Range
      <4>2. Len(d) + k \in 1 .. Len(u.free) /\ u.free[Len(d) + k] = i
        BY <2>1, <4>1
      <4>3. QED
        BY <2>1, <4>2 DEF Range
    <3>3. \A i \in Range(u.free) : i \in due \/ i \in Range(t.free)
      BY <2>1, <2>3 DEF Range
    <3>4. QED
      BY <3>1, <3>2, <3>3
  <2>6. ASSUME NEW k \in 1 .. Len(u.free), NEW l \in 1 .. Len(u.free), u.free[k] = u.free[l]
        PROVE  k = l
    <3>1. CASE k \in 1 .. Len(d)
      <4>1. l \in 1 .. Len(d) /\ d[k] = d[l]
        BY <2>3, <2>4, <2>6, <3>1
      <4>2. QED
        BY <1>5, <2>1, <3>1, <4>1 DEF IsInjective
    <3>2. CASE k \notin 1 .. Len(d)
      <4>1. /\ l \notin 1 .. Len(d)
            /\ t.free[k - Len(d)] = t.free[l - Len(d)]
            /\ k - Len(d) \in 1 .. Len(t.free) /\ l - Len(d) \in 1 .. Len(t.free)
        BY <2>3, <2>4, <2>6, <3>2
      <4>2. k - Len(d) = l - Len(d)
        BY <2>1, <2>2, <4>1 DEF IsInjective
      <4>3. QED
        BY <2>1, <4>2
    <3>3. QED
      BY <3>1, <3>2
  <2>7. IsInjective(u.free)
    BY <2>1, <2>6 DEF IsInjective
  <2>8. \A i \in S : u.status[i] = "free" <=> i \in due \/ t.status[i] = "free"
    BY <1>4
  <2>9. Range(u.free) = {i \in S : u.status[i] = "free"}
    BY <1>2, <2>2, <2>5, <2>8
  <2>10. QED
    BY <1>9, <2>7, <2>9 DEF FreeListExact
<1>13. QED
  BY <1>1, <1>2, <1>8, <1>9, <1>10, <1>11, <1>12 DEF u, due

(* A create that fails gives back its own slot and no other. *)
LEMMA FailedCreateFacts ==
  ASSUME NEW capacity \in Nat, NEW t \in Table(capacity),
         AllocHandle(t) # NullHandle, FreeListExact(t), RetiredLater(t)
  PROVE  LET u == FailedCreate(t)
             n == Head(t.free)
         IN
         /\ u \in Table(capacity) /\ SlotIds(u) = SlotIds(t) /\ FreeListExact(u)
         /\ n \in SlotIds(t) /\ t.status[n] = "free" /\ u.status[n] = "free"
         /\ \A i \in SlotIds(t) \ {n} : SameSlot(t, u, i)
<1> DEFINE n == Head(t.free)
           h == AllocHandle(t)
           a == AllocSlot(t)
           r == RetireSlot(a, h, 0)
           u == FailedCreate(t)
<1>1. /\ a \in Table(capacity) /\ SlotIds(a) = SlotIds(t) /\ FreeListExact(a)
      /\ n \in SlotIds(t) /\ t.status[n] = "free" /\ a.status[n] = "alive"
      /\ a.generation = t.generation
      /\ \A i \in SlotIds(t) \ {n} : SameSlot(t, a, i)
      /\ h.index = n /\ h.gen = t.generation[n]
  BY AllocFacts
<1>2. t.generation[n] \in Nat \ {0}
  BY <1>1 DEF Table, SlotIds
<1>3. u = Collected(r, 0)
  BY DEF FailedCreate
<1> HIDE DEF n, h, a, u
<1>4. Valid(a, h)
  BY <1>1, <1>2 DEF Valid
<1>5. /\ r \in Table(capacity) /\ SlotIds(r) = SlotIds(a) /\ FreeListExact(r)
      /\ r.status[n] = "retiring" /\ r.retire_frame[n] = 0
      /\ \A i \in SlotIds(a) \ {n} : SameSlot(a, r, i)
  BY <1>1, <1>4, RetireFacts
<1> HIDE DEF r
<1>6. \A i \in SlotIds(t) \ {n} : SameSlot(t, r, i)
  BY <1>1, <1>5 DEF SameSlot
<1>7. Due(r, 0) = {n}
  <2>1. ASSUME NEW i \in SlotIds(t) \ {n}, r.status[i] = "retiring", r.retire_frame[i] <= 0
        PROVE  FALSE
    <3>1. t.status[i] = "retiring" /\ t.retire_frame[i] = r.retire_frame[i]
      BY <1>6, <2>1 DEF SameSlot
    <3>2. t.retire_frame[i] >= FramesInFlight /\ t.retire_frame[i] \in Nat
      BY <3>1 DEF RetiredLater, Table, SlotIds
    <3>3. QED
      BY <2>1, <3>1, <3>2, FramesAssumption
  <2>2. QED
    BY <1>1, <1>5, <2>1 DEF Due
<1>8. /\ u \in Table(capacity) /\ SlotIds(u) = SlotIds(r) /\ FreeListExact(u)
      /\ \A i \in {n} : u.status[i] = "free"
      /\ \A i \in SlotIds(r) \ {n} : SameSlot(r, u, i)
  BY <1>3, <1>5, <1>7, CollectedFacts
<1>9. \A i \in SlotIds(t) \ {n} : SameSlot(t, u, i)
  BY <1>1, <1>5, <1>6, <1>8 DEF SameSlot
<1>10. QED
  BY <1>1, <1>5, <1>8, <1>9 DEF n, u

----------------------------------------------------------------------------
(* What the operations preserve. *)

Good(t, capacity) == t \in Table(capacity) /\ FreeListExact(t) /\ RetiredLater(t)

(* What is not collected up to a frame stays so. *)
Keeps(t, u, f) == \A h : SafeUntil(t, h, f) => SafeUntil(u, h, f)

(* Slots an operation is not about keep what they have. *)
LEMMA SameSlotKeeps ==
  ASSUME NEW t, NEW u, NEW h, NEW f, SafeUntil(t, h, f),
         SlotIds(u) = SlotIds(t), SameSlot(t, u, h.index)
  PROVE  SafeUntil(u, h, f)
  BY DEF SafeUntil, StillHolds, SameSlot

(* A valid handle is not about to be collected. *)
LEMMA ValidIsSafe ==
  ASSUME NEW t, NEW h, NEW f, Valid(t, h)
  PROVE  SafeUntil(t, h, f)
  BY DEF Valid, SafeUntil, StillHolds

(* An allocation takes the head of the free list. *)
LEMMA AllocGood ==
  ASSUME NEW capacity \in Nat, NEW t, Good(t, capacity), AllocHandle(t) # NullHandle
  PROVE  /\ Good(AllocSlot(t), capacity)
         /\ Occupied(AllocSlot(t)) = Occupied(t) \union {Head(t.free)}
         /\ \A f : Keeps(t, AllocSlot(t), f)
<1> DEFINE u == AllocSlot(t)
           n == Head(t.free)
<1>1. /\ u \in Table(capacity) /\ SlotIds(u) = SlotIds(t) /\ FreeListExact(u)
      /\ n \in SlotIds(t) /\ t.status[n] = "free" /\ u.status[n] = "alive"
      /\ \A i \in SlotIds(t) \ {n} : SameSlot(t, u, i)
  BY AllocFacts DEF Good
<1> HIDE DEF u, n
<1>2. RetiredLater(u)
  BY <1>1 DEF Good, RetiredLater, SameSlot
<1>3. Occupied(u) = Occupied(t) \union {n}
  BY <1>1 DEF Occupied, SameSlot
<1>4. ASSUME NEW f, NEW h, SafeUntil(t, h, f) PROVE SafeUntil(u, h, f)
  <2>1. h.index \in SlotIds(t) \ {n}
    BY <1>1, <1>4 DEF SafeUntil, StillHolds
  <2>2. QED
    BY <1>1, <1>4, <2>1, SameSlotKeeps
<1>5. QED
  BY <1>1, <1>2, <1>3, <1>4 DEF Good, Keeps, u, n

(* A create that fails gives its slot back with a new generation. *)
LEMMA FailedCreateGood ==
  ASSUME NEW capacity \in Nat, NEW t, Good(t, capacity), AllocHandle(t) # NullHandle
  PROVE  /\ Good(FailedCreate(t), capacity)
         /\ Occupied(FailedCreate(t)) = Occupied(t)
         /\ \A f : Keeps(t, FailedCreate(t), f)
<1> DEFINE u == FailedCreate(t)
           n == Head(t.free)
<1>1. /\ u \in Table(capacity) /\ SlotIds(u) = SlotIds(t) /\ FreeListExact(u)
      /\ n \in SlotIds(t) /\ t.status[n] = "free" /\ u.status[n] = "free"
      /\ \A i \in SlotIds(t) \ {n} : SameSlot(t, u, i)
  BY FailedCreateFacts DEF Good
<1> HIDE DEF u, n
<1>2. RetiredLater(u)
  BY <1>1 DEF Good, RetiredLater, SameSlot
<1>3. Occupied(u) = Occupied(t)
  BY <1>1 DEF Occupied, SameSlot
<1>4. ASSUME NEW f, NEW h, SafeUntil(t, h, f) PROVE SafeUntil(u, h, f)
  <2>1. h.index \in SlotIds(t) \ {n}
    BY <1>1, <1>4 DEF SafeUntil, StillHolds
  <2>2. QED
    BY <1>1, <1>4, <2>1, SameSlotKeeps
<1>5. QED
  BY <1>1, <1>2, <1>3, <1>4 DEF Good, Keeps, u

(* Retiring a slot keeps its object, and its handles' references up to the *)
(* frame it is due.                                                        *)
LEMMA RetireGood ==
  ASSUME NEW capacity \in Nat, NEW t, Good(t, capacity), NEW h, Valid(t, h),
         NEW g \in Nat, g >= FramesInFlight
  PROVE  /\ Good(RetireSlot(t, h, g), capacity)
         /\ Occupied(RetireSlot(t, h, g)) = Occupied(t)
         /\ \A f : g > f => Keeps(t, RetireSlot(t, h, g), f)
<1> DEFINE u == RetireSlot(t, h, g)
           n == h.index
<1>1. /\ u \in Table(capacity) /\ SlotIds(u) = SlotIds(t) /\ FreeListExact(u)
      /\ n \in SlotIds(t) /\ t.status[n] = "alive" /\ u.status[n] = "retiring"
      /\ u.retire_frame[n] = g /\ u.generation = t.generation
      /\ \A i \in SlotIds(t) \ {n} : SameSlot(t, u, i)
  BY RetireFacts DEF Good
<1> HIDE DEF u, n
<1>2. RetiredLater(u)
  BY <1>1 DEF Good, RetiredLater, SameSlot
<1>3. Occupied(u) = Occupied(t)
  BY <1>1 DEF Occupied, SameSlot
<1>4. ASSUME NEW f, g > f, NEW k, SafeUntil(t, k, f) PROVE SafeUntil(u, k, f)
  <2>1. CASE k.index = n
    BY <1>1, <1>4, <2>1 DEF SafeUntil, StillHolds
  <2>2. CASE k.index # n
    <3>1. k.index \in SlotIds(t) \ {n}
      BY <1>4, <2>2 DEF SafeUntil
    <3>2. QED
      BY <1>1, <1>4, <3>1, SameSlotKeeps
  <2>3. QED
    BY <2>1, <2>2
<1>5. QED
  BY <1>1, <1>2, <1>3, <1>4 DEF Good, Keeps, u

(* A collection frees exactly what is due, and keeps what is due later. *)
LEMMA CollectedGood ==
  ASSUME NEW capacity \in Nat, NEW t, Good(t, capacity), NEW c \in Nat
  PROVE  /\ Good(Collected(t, c), capacity)
         /\ Occupied(Collected(t, c)) = Occupied(t) \ Due(t, c)
         /\ \A f \in Nat : c <= f => Keeps(t, Collected(t, c), f)
         /\ \A h : Valid(t, h) => Valid(Collected(t, c), h) /\ h.index \notin Due(t, c)
<1> DEFINE u == Collected(t, c)
           due == Due(t, c)
<1>1. /\ u \in Table(capacity) /\ SlotIds(u) = SlotIds(t) /\ FreeListExact(u)
      /\ due \subseteq SlotIds(t)
      /\ \A i \in due : t.status[i] = "retiring" /\ u.status[i] = "free"
      /\ \A i \in SlotIds(t) \ due : SameSlot(t, u, i)
  BY CollectedFacts DEF Good
<1>2. \A i \in due : t.retire_frame[i] <= c
  BY DEF Due
<1>3. \A i \in SlotIds(t) : t.retire_frame[i] \in Nat
  BY DEF Good, Table, SlotIds
<1> HIDE DEF u, due
<1>4. RetiredLater(u)
  BY <1>1 DEF Good, RetiredLater, SameSlot
<1>5. Occupied(u) = Occupied(t) \ due
  BY <1>1 DEF Occupied, SameSlot
<1>6. ASSUME NEW f \in Nat, c <= f, NEW h, SafeUntil(t, h, f) PROVE SafeUntil(u, h, f)
  <2>1. h.index \in SlotIds(t) /\ (h.index \in due => t.retire_frame[h.index] > f)
    BY <1>1, <1>6 DEF SafeUntil
  <2>2. h.index \notin due
    BY <1>2, <1>3, <1>6, <2>1
  <2>3. QED
    BY <1>1, <1>6, <2>1, <2>2, SameSlotKeeps
<1>7. ASSUME NEW h, Valid(t, h) PROVE Valid(u, h) /\ h.index \notin due
  <2>1. h.index \in SlotIds(t) \ due
    BY <1>1, <1>7 DEF Valid
  <2>2. SameSlot(t, u, h.index)
    BY <1>1, <2>1
  <2>3. QED
    BY <1>1, <1>7, <2>1, <2>2 DEF Valid, SameSlot
<1>8. QED
  BY <1>1, <1>4, <1>5, <1>6, <1>7 DEF Good, Keeps, u, due

----------------------------------------------------------------------------
(* The inductive invariant. *)

Phases == {"idle", "enter", "wait_frame", "acquire", "wait_image", "record",
           "readback", "aborted", "destroyed"}
AnyHandle   == [index : Nat, gen : Nat]
Reference   == {"mesh", "texture", "material"} \X AnyHandle
AnyFrame    == [slot : Frames, image : Images, capture : BOOLEAN, uses : SUBSET Reference]
AnyItem     == [mesh : AnyHandle, material : AnyHandle]

TypeOK ==
    /\ objects \in [mesh : SUBSET Nat, texture : SUBSET Nat, descriptor : SUBSET Nat]
    /\ material_texture \in [0 .. MaterialCapacity - 1 -> AnyHandle]
    /\ pc \in Phases
    /\ frame \in Frames /\ frame_count \in Nat
    /\ items \in SUBSET AnyItem
    /\ image \in Images /\ capture \in BOOLEAN
    /\ fences \in [Frames -> BOOLEAN]
    /\ images_in_flight \in [Images -> Frames \union {NoSlot}]
    /\ gpu \in Seq(AnyFrame)

(* The tables are sound until they are gone, and the slots that are not    *)
(* free are those with objects.                                            *)
TablesInv ==
    /\ pc # "destroyed" => /\ Good(meshes, MeshCapacity)
                           /\ Good(textures, TextureCapacity)
                           /\ Good(materials, MaterialCapacity)
    /\ objects.mesh = Occupied(meshes)
    /\ objects.texture = Occupied(textures)

(* The slot of the frame drawn n frames ago, for at most a full round. *)
Ago(n) == IF frame >= n THEN frame - n ELSE frame + FramesInFlight - n

(* The frames in flight are the last ones that were submitted, with their  *)
(* fences down and their images marked.  Neither the slot that is recorded *)
(* nor its image is among them.                                            *)
InFlight ==
    /\ Len(gpu) <= FramesInFlight
    /\ \A k \in 1 .. Len(gpu) :
        /\ gpu[k].slot = Ago(Len(gpu) - k + 1)
        /\ ~fences[gpu[k].slot]
        /\ images_in_flight[gpu[k].image] = gpu[k].slot
        /\ gpu[k].capture => pc = "readback"

SyncInv ==
    /\ InFlight
    /\ pc \in {"acquire", "wait_image"} => fences[frame]
    /\ pc = "record" => ~fences[frame] /\ images_in_flight[image] = frame
    /\ RecordsIdleBuffers

(* The first frame at which something may be collected that the frame at   *)
(* place k refers to, less one.                                            *)
Horizon(k) == frame_count + FramesInFlight - (Len(gpu) - k + 1)

SafeReference(use, f) ==
    \/ use[1] = "mesh"     /\ SafeUntil(meshes, use[2], f)
    \/ use[1] = "texture"  /\ SafeUntil(textures, use[2], f)
    \/ use[1] = "material" /\ SafeUntil(materials, use[2], f)

(* What a frame in flight refers to is not collected before a frame that   *)
(* has to wait for it.                                                     *)
UsesInv ==
    \A k \in 1 .. Len(gpu) : \A use \in gpu[k].uses : SafeReference(use, Horizon(k))

Drawing == {"enter", "wait_frame", "acquire", "wait_image", "record"}

(* The items of a frame that is drawn resolve all the time, and pipelines  *)
(* are those of the swapchain.                                             *)
DrawInv ==
    /\ pc \in Drawing => \A item \in items : Resolves(item)
    /\ pc \in Drawing \ {"enter"} => swapchain
    /\ pc # "aborted" /\ swapchain => pipelines_format = sc_format

IInv == TypeOK /\ TablesInv /\ SyncInv /\ UsesInv /\ DrawInv

USE FramesAssumption, GenMaxAssumption

(* The invariant holds of a new renderer. *)
LEMMA InitIInv == Init => IInv
<1> SUFFICES ASSUME Init PROVE IInv
  OBVIOUS
<1>1. gpu = << >> /\ Len(gpu) = 0 /\ gpu \in Seq(AnyFrame)
  BY EmptySeq DEF Init
<1>2. image \in Images
  BY DEF Init
<1>3. frame \in Frames
  BY DEF Init, Frames
<1>4. TypeOK
  BY <1>1, <1>2, <1>3 DEF Init, TypeOK, Phases, NoSlot, NullHandle, AnyHandle
<1>5. TablesInv
  <2>1. \A capacity \in Nat : Good(NewTable(capacity), capacity) /\ Occupied(NewTable(capacity)) = {}
    BY NewTableFacts DEF Good
  <2>2. QED
    BY <2>1 DEF Init, TablesInv
<1>6. SyncInv
  BY <1>1 DEF Init, SyncInv, InFlight, RecordsIdleBuffers
<1>7. UsesInv
  BY <1>1 DEF UsesInv
<1>8. DrawInv
  BY DEF Init, DrawInv, Drawing
<1>9. QED
  BY <1>4, <1>5, <1>6, <1>7, <1>8 DEF IInv

(* Slots: the next one is what the frame before was one later, and the     *)
(* slots of a full round are apart.                                        *)
LEMMA Slots ==
  ASSUME frame \in Frames
  PROVE  /\ NextFrame = (IF frame = FramesInFlight - 1 THEN 0 ELSE frame + 1)
         /\ NextFrame \in Frames
         /\ WaitedFrame = Ago(1)
         /\ \A n \in 1 .. FramesInFlight : Ago(n) \in Frames
         /\ \A n, m \in 1 .. FramesInFlight : Ago(n) = Ago(m) => n = m
         /\ Ago(FramesInFlight) = frame
<1>1. frame \in 0 .. FramesInFlight - 1 /\ FramesInFlight \in Nat \ {0} /\ frame \in Nat
  BY DEF Frames
<1>2. \A a \in 0 .. FramesInFlight - 1 : a % FramesInFlight = a
  BY <1>1
<1>3. \A a \in FramesInFlight .. 2 * FramesInFlight - 1 : a % FramesInFlight = a - FramesInFlight
  BY <1>1
<1>4. NextFrame = (IF frame = FramesInFlight - 1 THEN 0 ELSE frame + 1)
  <2>1. CASE frame = FramesInFlight - 1
    BY <1>1, <1>3, <2>1 DEF NextFrame
  <2>2. CASE frame # FramesInFlight - 1
    BY <1>1, <1>2, <2>2 DEF NextFrame
  <2>3. QED
    BY <2>1, <2>2
<1>5. WaitedFrame = Ago(1)
  <2>1. CASE frame = 0
    BY <1>1, <1>2, <2>1 DEF WaitedFrame, Ago
  <2>2. CASE frame # 0
    <3>1. frame + FramesInFlight - 1 \in FramesInFlight .. 2 * FramesInFlight - 1
      BY <1>1, <2>2
    <3>2. WaitedFrame = (frame + FramesInFlight - 1) - FramesInFlight
      BY <1>3, <3>1 DEF WaitedFrame
    <3>3. QED
      BY <1>1, <2>2, <3>2 DEF Ago
  <2>3. QED
    BY <2>1, <2>2
<1>6. QED
  BY <1>1, <1>4, <1>5 DEF Ago, Frames

----------------------------------------------------------------------------
(* The steps, one part of the invariant after the other. *)

(* The handles that callers can hold are numbers of slots and generations. *)
LEMMA HandlesTyped ==
  ASSUME NEW capacity \in Nat, NEW t, Good(t, capacity)
  PROVE  /\ Handles(t) \subseteq AnyHandle
         /\ SlotIds(t) = 0 .. capacity - 1 /\ SlotIds(t) \subseteq Nat
         /\ AllocHandle(t) # NullHandle => Head(t.free) \in SlotIds(t)
<1>1. SlotIds(t) = 0 .. capacity - 1
  BY DEF Good, Table, SlotIds
<1>2. Handles(t) \subseteq AnyHandle
  BY <1>1 DEF Handles, AnyHandle
<1>3. AllocHandle(t) # NullHandle => Head(t.free) \in SlotIds(t)
  BY AllocFacts DEF Good
<1>4. QED
  BY <1>1, <1>2, <1>3

(* Creating and destroying resources keeps the types. *)
LEMMA TypeResource == IInv /\ Resource => TypeOK'
<1> SUFFICES ASSUME IInv, Resource PROVE TypeOK'
  OBVIOUS
<1>1. /\ pc = "idle" /\ pc' \in Phases
      /\ UNCHANGED <<frame, frame_count, image, capture, items, fences,
                     images_in_flight, gpu>>
  BY DEF Resource, CreateMesh, CreateTexture, CreateFails, CreateMaterial, DestroyMesh,
         DestroyTexture, DestroyMaterial, owned, draw, chain, sync, Phases, IInv, TypeOK
<1>2. /\ Good(meshes, MeshCapacity) /\ Good(textures, TextureCapacity)
      /\ Good(materials, MaterialCapacity)
  BY <1>1 DEF IInv, TablesInv
<1>3. /\ objects \in [mesh : SUBSET Nat, texture : SUBSET Nat, descriptor : SUBSET Nat]
      /\ material_texture \in [0 .. MaterialCapacity - 1 -> AnyHandle]
  BY DEF IInv, TypeOK
<1>4. objects' \in [mesh : SUBSET Nat, texture : SUBSET Nat, descriptor : SUBSET Nat]
  <2>1. CASE CreateMesh
    BY <1>2, <1>3, <2>1, HandlesTyped DEF CreateMesh
  <2>2. CASE CreateTexture
    BY <1>2, <1>3, <2>2, HandlesTyped DEF CreateTexture
  <2>3. ASSUME NEW h, CreateMaterial(h)
        PROVE  objects' \in [mesh : SUBSET Nat, texture : SUBSET Nat, descriptor : SUBSET Nat]
    BY <1>2, <1>3, <2>3, HandlesTyped DEF CreateMaterial
  <2>4. QED
    BY <1>3, <2>1, <2>2, <2>3 DEF Resource, CreateFails, DestroyMesh, DestroyTexture,
                                  DestroyMaterial, owned
<1>5. material_texture' \in [0 .. MaterialCapacity - 1 -> AnyHandle]
  <2>1. ASSUME NEW h \in Handles(textures), CreateMaterial(h)
        PROVE  material_texture' \in [0 .. MaterialCapacity - 1 -> AnyHandle]
    BY <1>2, <1>3, <2>1, HandlesTyped DEF CreateMaterial
  <2>2. QED
    BY <1>3, <2>1 DEF Resource, CreateMesh, CreateTexture, CreateFails, DestroyMesh,
                      DestroyTexture, DestroyMaterial, owned
<1>6. QED
  BY <1>1, <1>4, <1>5 DEF IInv, TypeOK, NoSlot

(* The steps of a frame keep the types. *)
LEMMA TypeFrame ==
  ASSUME IInv,
         \/ BeginFrame \/ EndFrame \/ DestroyRenderer \/ GpuComplete \/ DrawStep
         \/ \E h \in Handles(meshes), m \in Handles(materials) : Submit(h, m)
  PROVE  TypeOK'
<1> USE DEF Phases, tables, owned, draw, chain, sync, GiveUp, NoSlot
<1>1. CASE BeginFrame
  BY <1>1 DEF BeginFrame, IInv, TypeOK
<1>2. ASSUME NEW h \in Handles(meshes), NEW m \in Handles(materials), Submit(h, m)
      PROVE  TypeOK'
  <2>1. h \in AnyHandle /\ m \in AnyHandle
    BY <1>2, HandlesTyped DEF Submit, IInv, TablesInv
  <2>2. QED
    BY <1>2, <2>1 DEF Submit, IInv, TypeOK, AnyItem
<1>3. CASE EndFrame
  BY <1>3 DEF EndFrame, IInv, TypeOK
<1>4. CASE SkipMinimized
  BY <1>4 DEF SkipMinimized, IInv, TypeOK
<1>5. CASE RecreateSwapchain
  BY <1>5 DEF RecreateSwapchain, IInv, TypeOK
<1>6. CASE KeepSwapchain
  BY <1>6 DEF KeepSwapchain, IInv, TypeOK
<1>7. CASE WaitFrame
  <2>1. NullHandle \in AnyHandle
    BY DEF NullHandle, AnyHandle
  <2>2. objects' \in [mesh : SUBSET Nat, texture : SUBSET Nat, descriptor : SUBSET Nat]
    BY <1>7 DEF WaitFrame, IInv, TypeOK
  <2>3. material_texture' \in [0 .. MaterialCapacity - 1 -> AnyHandle]
    BY <1>7, <2>1 DEF WaitFrame, IInv, TypeOK
  <2>4. pc' \in Phases /\ UNCHANGED <<draw, items, chain, sync>>
    BY <1>7 DEF WaitFrame
  <2>5. QED
    BY <2>2, <2>3, <2>4 DEF IInv, TypeOK
<1>8. CASE Acquire
  BY <1>8 DEF Acquire, IInv, TypeOK
<1>9. CASE AcquireFails
  BY <1>9 DEF AcquireFails, IInv, TypeOK
<1>10. CASE WaitImage
  <2>1. /\ images_in_flight' \in [Images -> Frames \union {FramesInFlight}]
        /\ fences' \in [Frames -> BOOLEAN]
    BY <1>10 DEF WaitImage, IInv, TypeOK
  <2>2. QED
    BY <1>10, <2>1 DEF WaitImage, IInv, TypeOK
<1>11. CASE SubmitFrame
  <2>1. Submission \in AnyFrame
    <3>1. \A item \in items : Uses(item) \subseteq Reference
      <4>1. ASSUME NEW item \in items PROVE Uses(item) \subseteq Reference
        <5>1. item.mesh \in AnyHandle /\ item.material \in AnyHandle /\ Resolves(item)
          BY <1>11 DEF SubmitFrame, IInv, TypeOK, AnyItem, DrawInv, Drawing
        <5>2. item.material.index \in 0 .. MaterialCapacity - 1
          BY <1>11, <5>1, HandlesTyped DEF SubmitFrame, IInv, TablesInv, Resolves, Valid
        <5>3. material_texture[item.material.index] \in AnyHandle
          BY <5>2 DEF IInv, TypeOK
        <5>4. QED
          BY <5>1, <5>3 DEF Uses, Reference
      <4>2. QED
        BY <4>1
    <3>2. UNION {Uses(item) : item \in items} \in SUBSET Reference
      BY <3>1
    <3>3. QED
      BY <3>2 DEF Submission, AnyFrame, IInv, TypeOK
  <2>2. gpu' \in Seq(AnyFrame)
    BY <1>11, <2>1 DEF SubmitFrame, IInv, TypeOK
  <2>3. frame' \in Frames /\ frame_count' \in Nat
    BY <1>11, Slots DEF SubmitFrame, IInv, TypeOK
  <2>4. QED
    BY <1>11, <2>2, <2>3 DEF SubmitFrame, IInv, TypeOK
<1>12. CASE ReadBack
  BY <1>12 DEF ReadBack, IInv, TypeOK
<1>13. CASE DestroyRenderer
  <2>1. objects' \in [mesh : SUBSET Nat, texture : SUBSET Nat, descriptor : SUBSET Nat]
    BY <1>13 DEF DestroyRenderer, IInv, TypeOK
  <2>2. QED
    BY <1>13, <2>1 DEF DestroyRenderer, IInv, TypeOK
<1>14. CASE GpuComplete
  <2>1. gpu \in Seq(AnyFrame) /\ gpu # << >> /\ gpu' = Tail(gpu)
    BY <1>14 DEF GpuComplete, IInv, TypeOK
  <2>2. gpu' \in Seq(AnyFrame) /\ Head(gpu) \in AnyFrame
    BY <2>1, HeadTailProperties
  <2>3. fences' \in [Frames -> BOOLEAN]
    BY <1>14, <2>2 DEF GpuComplete, IInv, TypeOK, AnyFrame
  <2>4. QED
    BY <1>14, <2>2, <2>3 DEF GpuComplete, IInv, TypeOK
<1>15. QED
  BY <1>1, <1>2, <1>3, <1>4, <1>5, <1>6, <1>7, <1>8, <1>9, <1>10, <1>11, <1>12, <1>13,
     <1>14 DEF DrawStep

(* The frames in between which nothing a frame in flight needs is due. *)
Near(f) == f \in Nat /\ frame_count <= f /\ f < frame_count + FramesInFlight

TablesKept(f) ==
    Keeps(meshes, meshes', f) /\ Keeps(textures, textures', f) /\ Keeps(materials, materials', f)

(* A step that leaves the tables alone keeps what is known of them. *)
LEMMA SameTables ==
  ASSUME TablesInv, UNCHANGED tables, UNCHANGED objects, pc # "destroyed"
  PROVE  TablesInv' /\ \A f : TablesKept(f)
BY DEF TablesInv, tables, TablesKept, Keeps

(* Every step leaves the tables sound, and keeps what frames in flight     *)
(* need while there is one.                                                *)
LEMMA TablesResource ==
  ASSUME IInv, Resource
  PROVE  TablesInv' /\ \A f : Near(f) => TablesKept(f)
<1>1. /\ pc = "idle" /\ pc' # "destroyed"
  BY DEF Resource, CreateMesh, CreateTexture, CreateFails, CreateMaterial, DestroyMesh,
         DestroyTexture, DestroyMaterial
<1>2. /\ Good(meshes, MeshCapacity) /\ Good(textures, TextureCapacity)
      /\ Good(materials, MaterialCapacity)
      /\ objects.mesh = Occupied(meshes) /\ objects.texture = Occupied(textures)
      /\ objects \in [mesh : SUBSET Nat, texture : SUBSET Nat, descriptor : SUBSET Nat]
      /\ frame_count \in Nat
  BY <1>1 DEF IInv, TablesInv, TypeOK
<1>3. \A t, f : Keeps(t, t, f)
  BY DEF Keeps
<1>4. \A d \in Delays : /\ RetireAfter(d) \in Nat /\ RetireAfter(d) >= FramesInFlight
                         /\ \A f : Near(f) => RetireAfter(d) > f
  BY <1>2 DEF RetireAfter, Near
<1> DEFINE Kept == TablesInv' /\ \A f : Near(f) => TablesKept(f)
<1>5. CASE CreateMesh
  BY <1>1, <1>2, <1>3, <1>5, AllocGood DEF CreateMesh, TablesInv, TablesKept
<1>6. CASE CreateTexture
  BY <1>1, <1>2, <1>3, <1>6, AllocGood DEF CreateTexture, TablesInv, TablesKept
<1>7. CASE CreateFails
  BY <1>1, <1>2, <1>3, <1>7, FailedCreateGood DEF CreateFails, TablesInv, TablesKept, owned
<1>8. ASSUME NEW h, CreateMaterial(h) PROVE Kept
  BY <1>1, <1>2, <1>3, <1>8, AllocGood DEF CreateMaterial, TablesInv, TablesKept
<1>9. ASSUME NEW h, NEW d \in Delays, DestroyMesh(h, d) PROVE Kept
  BY <1>1, <1>2, <1>3, <1>4, <1>9, RetireGood DEF DestroyMesh, TablesInv, TablesKept, owned
<1>10. ASSUME NEW h, NEW d \in Delays, DestroyTexture(h, d) PROVE Kept
  BY <1>1, <1>2, <1>3, <1>4, <1>10, RetireGood DEF DestroyTexture, TablesInv, TablesKept, owned
<1>11. ASSUME NEW h, NEW d \in Delays, DestroyMaterial(h, d) PROVE Kept
  BY <1>1, <1>2, <1>3, <1>4, <1>11, RetireGood DEF DestroyMaterial, TablesInv, TablesKept, owned
<1>12. QED
  BY <1>5, <1>6, <1>7, <1>8, <1>9, <1>10, <1>11 DEF Resource

(* Drawing a frame collects only what no frame in flight refers to. *)
LEMMA TablesFrame ==
  ASSUME IInv, DrawStep
  PROVE  TablesInv' /\ \A f : Near(f) => TablesKept(f)
<1>1. pc # "destroyed" /\ pc' # "destroyed"
  BY DEF DrawStep, SkipMinimized, RecreateSwapchain, KeepSwapchain, WaitFrame, Acquire,
         AcquireFails, WaitImage, SubmitFrame, ReadBack, GiveUp
<1>2. CASE WaitFrame
  <2>1. /\ Good(meshes, MeshCapacity) /\ Good(textures, TextureCapacity)
        /\ Good(materials, MaterialCapacity)
        /\ objects.mesh = Occupied(meshes) /\ objects.texture = Occupied(textures)
        /\ objects \in [mesh : SUBSET Nat, texture : SUBSET Nat, descriptor : SUBSET Nat]
        /\ frame_count \in Nat
    BY <1>1 DEF IInv, TablesInv, TypeOK
  <2>2. /\ Good(meshes', MeshCapacity) /\ Good(textures', TextureCapacity)
        /\ Good(materials', MaterialCapacity)
        /\ Occupied(meshes') = Occupied(meshes) \ Due(meshes, frame_count)
        /\ Occupied(textures') = Occupied(textures) \ Due(textures, frame_count)
    BY <1>2, <2>1, CollectedGood DEF WaitFrame
  <2>3. objects'.mesh = Occupied(meshes') /\ objects'.texture = Occupied(textures')
    BY <1>2, <2>1, <2>2 DEF WaitFrame
  <2>4. \A f : Near(f) => TablesKept(f)
    BY <1>2, <2>1, CollectedGood DEF WaitFrame, Near, TablesKept
  <2>5. QED
    BY <2>2, <2>3, <2>4 DEF TablesInv
<1>3. CASE ~WaitFrame
  <2>1. UNCHANGED tables /\ UNCHANGED objects
    BY <1>3 DEF DrawStep, SkipMinimized, RecreateSwapchain, KeepSwapchain, Acquire,
         AcquireFails, WaitImage, SubmitFrame, ReadBack, GiveUp, owned
  <2>2. QED
    BY <1>1, <2>1, SameTables DEF IInv
<1>4. QED
  BY <1>2, <1>3

(* Every step keeps the tables sound, and what a frame in flight needs in  *)
(* them.                                                                   *)
LEMMA TablesStep ==
  ASSUME IInv, Next
  PROVE  TablesInv' /\ (gpu # << >> => \A f : Near(f) => TablesKept(f))
<1>1. CASE DestroyRenderer
  <2>1. \A t : /\ SlotIds(ReleasedAll(t)) = SlotIds(t)
               /\ Occupied(ReleasedAll(t)) = {}
    BY DEF ReleasedAll, SlotIds, Occupied
  <2>2. /\ objects.mesh = Occupied(meshes) /\ objects.texture = Occupied(textures)
        /\ gpu = << >> /\ pc' = "destroyed"
        /\ meshes' = ReleasedAll(meshes) /\ textures' = ReleasedAll(textures)
        /\ objects' = [mesh |-> objects.mesh \ Occupied(meshes),
                       texture |-> objects.texture \ Occupied(textures),
                       descriptor |-> {}]
    BY <1>1 DEF DestroyRenderer, IInv, TablesInv, Occupied
  <2>3. QED
    BY <2>1, <2>2 DEF TablesInv
<1>2. CASE Resource
  BY <1>2, TablesResource
<1>3. CASE DrawStep
  BY <1>3, TablesFrame
<1>4. CASE GpuComplete
  <2>1. UNCHANGED <<meshes, textures, materials, objects, pc>>
    BY <1>4 DEF GpuComplete, tables, owned
  <2>2. QED
    BY <2>1 DEF IInv, TablesInv, TablesKept, Keeps
<1>5. CASE BeginFrame
  BY <1>5, SameTables DEF BeginFrame, IInv, owned
<1>6. ASSUME NEW h, NEW m, Submit(h, m) PROVE TablesInv' /\ \A f : TablesKept(f)
  BY <1>6, SameTables DEF Submit, IInv, owned
<1>7. CASE EndFrame
  BY <1>7, SameTables DEF EndFrame, IInv, owned
<1>8. QED
  BY <1>1, <1>2, <1>3, <1>4, <1>5, <1>6, <1>7 DEF Next

(* Submissions stay the last ones while neither side touches them, and the *)
(* CPU does not come to record.                                            *)
LEMMA SameSync ==
  ASSUME SyncInv, UNCHANGED <<frame, images_in_flight, fences, gpu>>, pc # "readback",
         pc' \in {"acquire", "wait_image"} => fences[frame], pc' # "record"
  PROVE  SyncInv'
<1>1. InFlight'
  BY DEF SyncInv, InFlight, Ago
<1>2. QED
  BY <1>1 DEF SyncInv, RecordsIdleBuffers

(* Resources have no part in the fences. *)
LEMMA SyncResource ==
  ASSUME IInv, Resource
  PROVE  SyncInv'
<1>1. /\ pc = "idle" /\ pc' \in {"idle", "aborted"}
      /\ UNCHANGED <<frame, images_in_flight, fences, gpu>>
  BY DEF Resource, CreateMesh, CreateTexture, CreateFails, CreateMaterial, DestroyMesh,
         DestroyTexture, DestroyMaterial, draw, chain, sync
<1>2. QED
  BY <1>1, SameSync DEF IInv

(* The fence of the oldest submission goes up, those of the others stay    *)
(* down: its slot is none of theirs.                                       *)
LEMMA SyncComplete ==
  ASSUME IInv, GpuComplete
  PROVE  SyncInv'
<1>1. /\ gpu # << >> /\ gpu' = Tail(gpu) /\ gpu \in Seq(AnyFrame)
      /\ fences' = [fences EXCEPT ![Head(gpu).slot] = TRUE]
      /\ UNCHANGED <<pc, frame, image, images_in_flight>>
      /\ fences \in [Frames -> BOOLEAN] /\ frame \in Frames
  BY DEF GpuComplete, chain, draw, IInv, TypeOK
<1>2. /\ Len(gpu) \in Nat \ {0} /\ Len(gpu') = Len(gpu) - 1 /\ Head(gpu) = gpu[1]
      /\ \A k \in 1 .. Len(gpu') : gpu'[k] = gpu[k + 1] /\ k + 1 \in 1 .. Len(gpu)
      /\ \A k \in 1 .. Len(gpu) : gpu[k] \in AnyFrame
  <2>1. \A s \in Seq(AnyFrame) : s # << >> =>
           /\ Len(s) \in Nat \ {0} /\ Len(Tail(s)) = Len(s) - 1 /\ Head(s) = s[1]
           /\ \A k \in 1 .. Len(Tail(s)) : Tail(s)[k] = s[k + 1] /\ k + 1 \in 1 .. Len(s)
           /\ \A k \in 1 .. Len(s) : s[k] \in AnyFrame
    OBVIOUS
  <2>2. QED
    BY <1>1, <2>1
<1>3. InFlight
  BY DEF IInv, SyncInv
<1>4. Len(gpu) <= FramesInFlight /\ \A k \in 1 .. Len(gpu) : Len(gpu) - k + 1 \in 1 .. FramesInFlight
  BY <1>2, <1>3 DEF InFlight
<1>5. \A k, l \in 1 .. Len(gpu) : gpu[k].slot = gpu[l].slot => k = l
  <2>1. ASSUME NEW k \in 1 .. Len(gpu), NEW l \in 1 .. Len(gpu), gpu[k].slot = gpu[l].slot
        PROVE  k = l
    <3>1. Ago(Len(gpu) - k + 1) = Ago(Len(gpu) - l + 1)
      BY <1>3, <2>1 DEF InFlight
    <3>2. Len(gpu) - k + 1 = Len(gpu) - l + 1
      BY <1>1, <1>4, <3>1, Slots
    <3>3. QED
      BY <1>2, <3>2
  <2>2. QED
    BY <2>1
<1>6. \A f \in Frames : f # gpu[1].slot => fences'[f] = fences[f]
  BY <1>1, <1>2
<1>7. InFlight'
  <2>1. ASSUME NEW k \in 1 .. Len(gpu')
        PROVE  /\ gpu'[k].slot = Ago(Len(gpu) - k + 1)'
               /\ ~fences'[gpu'[k].slot]
               /\ images_in_flight'[gpu'[k].image] = gpu'[k].slot
               /\ gpu'[k].capture => pc' = "readback"
    <3>1. gpu'[k] = gpu[k + 1] /\ k + 1 \in 1 .. Len(gpu) /\ k + 1 # 1 /\ gpu[k + 1] \in AnyFrame
      BY <1>2
    <3>2. gpu[k + 1].slot # gpu[1].slot
      BY <1>2, <1>5, <3>1
    <3>3. ~fences'[gpu[k + 1].slot]
      BY <1>3, <1>6, <3>1, <3>2 DEF InFlight, AnyFrame
    <3>4. Len(gpu') - k + 1 = Len(gpu) - (k + 1) + 1
      BY <1>2
    <3>5. gpu[k + 1].slot = Ago(Len(gpu) - (k + 1) + 1)
      BY <1>3, <3>1 DEF InFlight
    <3>6. gpu'[k].slot = Ago(Len(gpu) - k + 1)'
      BY <1>1, <3>1, <3>4, <3>5 DEF Ago
    <3>7. QED
      BY <1>1, <1>3, <3>1, <3>3, <3>6 DEF InFlight
  <2>2. Len(gpu') <= FramesInFlight
    BY <1>2, <1>4
  <2>3. QED
    BY <2>1, <2>2 DEF InFlight
<1>8. RecordsIdleBuffers'
  <2>1. ASSUME pc = "record", NEW k \in 1 .. Len(gpu')
        PROVE  gpu'[k].slot # frame /\ gpu'[k].image # image
    BY <1>2, <2>1 DEF IInv, SyncInv, RecordsIdleBuffers
  <2>2. QED
    BY <1>1, <2>1 DEF RecordsIdleBuffers
<1>9. pc = "record" => gpu[1].slot # frame
  BY <1>2 DEF IInv, SyncInv, RecordsIdleBuffers
<1>10. /\ pc' \in {"acquire", "wait_image"} => fences'[frame']
       /\ pc' = "record" => ~fences'[frame'] /\ images_in_flight'[image'] = frame'
  BY <1>1, <1>2, <1>6, <1>9 DEF IInv, SyncInv
<1>11. QED
  BY <1>7, <1>8, <1>10 DEF SyncInv

(* No frame in flight has the slot whose fence is up, or is for an image   *)
(* that is free.                                                           *)
LEMMA SyncWaitImage ==
  ASSUME IInv, WaitImage
  PROVE  SyncInv'
<1>1. /\ fences[frame] /\ ImageFree /\ image \in Images /\ frame \in Frames
      /\ fences \in [Frames -> BOOLEAN]
      /\ images_in_flight \in [Images -> Frames \union {NoSlot}]
      /\ fences' = [fences EXCEPT ![frame] = FALSE]
      /\ images_in_flight' = [images_in_flight EXCEPT ![image] = frame]
      /\ pc' = "record" /\ UNCHANGED <<frame, image, gpu>> /\ pc = "wait_image"
  BY DEF WaitImage, IInv, SyncInv, TypeOK, draw
<1>2. InFlight /\ \A k \in 1 .. Len(gpu) : gpu[k] \in AnyFrame
  BY DEF IInv, SyncInv, TypeOK
<1>3. ASSUME NEW k \in 1 .. Len(gpu)
      PROVE  gpu[k].slot # frame /\ gpu[k].image # image
  <2>1. ~fences[gpu[k].slot] /\ images_in_flight[gpu[k].image] = gpu[k].slot
    BY <1>2 DEF InFlight
  <2>2. gpu[k].slot \in Frames /\ gpu[k].slot # NoSlot
    BY <1>2 DEF AnyFrame, Frames, NoSlot
  <2>3. gpu[k].image # image
    BY <1>1, <2>1, <2>2 DEF ImageFree
  <2>4. QED
    BY <1>1, <2>1, <2>3
<1>4. \A k \in 1 .. Len(gpu) :
        /\ ~fences'[gpu[k].slot]
        /\ images_in_flight'[gpu[k].image] = gpu[k].slot
  BY <1>1, <1>2, <1>3 DEF InFlight, AnyFrame
<1>5. InFlight'
  BY <1>1, <1>2, <1>4 DEF InFlight, Ago
<1>6. RecordsIdleBuffers'
  BY <1>1, <1>3 DEF RecordsIdleBuffers
<1>7. QED
  BY <1>1, <1>5, <1>6 DEF SyncInv

(* A submission is the last one; those before it are one frame older. *)
LEMMA SyncSubmit ==
  ASSUME IInv, SubmitFrame
  PROVE  SyncInv'
<1>1. /\ frame \in Frames /\ frame' = NextFrame /\ pc' = (IF capture THEN "readback" ELSE "idle")
      /\ gpu \in Seq(AnyFrame) /\ Submission \in AnyFrame /\ gpu' = Append(gpu, Submission)
      /\ pc = "record" /\ UNCHANGED <<image, fences, images_in_flight>>
  <2>1. Submission \in AnyFrame
    <3>1. gpu' \in Seq(AnyFrame) /\ gpu' = Append(gpu, Submission) /\ gpu \in Seq(AnyFrame)
      BY TypeFrame DEF DrawStep, SubmitFrame, IInv, TypeOK
    <3>2. gpu'[Len(gpu')] = Submission /\ Len(gpu') \in 1 .. Len(gpu')
      BY <3>1, AppendProperties
    <3>3. QED
      BY <3>1, <3>2
  <2>2. QED
    BY <2>1 DEF SubmitFrame, IInv, TypeOK
<1>2. /\ Len(gpu) \in Nat /\ Len(gpu') = Len(gpu) + 1 /\ gpu'[Len(gpu) + 1] = Submission
      /\ \A k \in 1 .. Len(gpu) : gpu'[k] = gpu[k]
  BY <1>1, AppendProperties
<1>3. InFlight /\ RecordsIdleBuffers /\ ~fences[frame] /\ images_in_flight[image] = frame
  BY <1>1 DEF IInv, SyncInv
<1>4. Len(gpu) < FramesInFlight
  <2>1. SUFFICES ASSUME Len(gpu) = FramesInFlight PROVE FALSE
    BY <1>2, <1>3 DEF InFlight
  <2>2. 1 \in 1 .. Len(gpu) /\ gpu[1].slot = Ago(FramesInFlight)
    BY <1>3, <2>1 DEF InFlight
  <2>3. QED
    BY <1>1, <1>3, <2>2, Slots DEF RecordsIdleBuffers
<1>5. \A n \in 1 .. FramesInFlight - 1 : Ago(n + 1)' = Ago(n)
  <2>1. frame \in Nat /\ frame <= FramesInFlight - 1
    BY <1>1 DEF Frames
  <2>2. frame' = IF frame = FramesInFlight - 1 THEN 0 ELSE frame + 1
    BY <1>1, Slots
  <2>3. QED
    BY <2>1, <2>2 DEF Ago
<1>6. Ago(1)' = frame
  <2>1. frame \in Nat /\ frame <= FramesInFlight - 1
    BY <1>1 DEF Frames
  <2>2. frame' = IF frame = FramesInFlight - 1 THEN 0 ELSE frame + 1
    BY <1>1, Slots
  <2>3. QED
    BY <2>1, <2>2 DEF Ago
<1>7. InFlight'
  <2>1. ASSUME NEW k \in 1 .. Len(gpu)
        PROVE  /\ gpu'[k].slot = Ago(Len(gpu) - k + 1)'
               /\ ~fences'[gpu'[k].slot]
               /\ images_in_flight'[gpu'[k].image] = gpu'[k].slot
               /\ gpu'[k].capture => pc' = "readback"
    <3>1. Len(gpu) - k + 1 \in 1 .. FramesInFlight - 1 /\ Len(gpu') - k + 1 = Len(gpu) - k + 1 + 1
      BY <1>2, <1>4
    <3>2. Ago(Len(gpu) - k + 1)' = Ago(Len(gpu) - k + 1)
      BY <1>5, <3>1
    <3>3. QED
      BY <1>1, <1>2, <1>3, <3>2 DEF InFlight
  <2>2. /\ Submission.slot = Ago(1)'
        /\ ~fences'[Submission.slot]
        /\ images_in_flight'[Submission.image] = Submission.slot
        /\ Submission.capture => pc' = "readback"
    BY <1>1, <1>3, <1>6 DEF Submission
  <2>3. \A k \in 1 .. Len(gpu') : k \in 1 .. Len(gpu) \/ k = Len(gpu) + 1
    BY <1>2
  <2>4. Len(gpu') - (Len(gpu) + 1) + 1 = 1
    BY <1>2
  <2>5. ASSUME NEW k \in 1 .. Len(gpu')
        PROVE  /\ gpu'[k].slot = Ago(Len(gpu) - k + 1)'
               /\ ~fences'[gpu'[k].slot]
               /\ images_in_flight'[gpu'[k].image] = gpu'[k].slot
               /\ gpu'[k].capture => pc' = "readback"
    BY <1>2, <2>1, <2>2, <2>3, <2>4
  <2>6. Len(gpu') <= FramesInFlight
    BY <1>2, <1>4
  <2>7. QED
    BY <2>5, <2>6 DEF InFlight
<1>8. QED
  BY <1>1, <1>7 DEF SyncInv, RecordsIdleBuffers

(* The pixels are read when the frame submitted last is done, and with it  *)
(* all others.                                                             *)
LEMMA SyncReadBack ==
  ASSUME IInv, ReadBack
  PROVE  SyncInv'
<1>1. /\ frame \in Frames /\ gpu \in Seq(AnyFrame) /\ fences[WaitedFrame] /\ pc' = "idle"
      /\ InFlight /\ UNCHANGED gpu
  BY DEF ReadBack, IInv, SyncInv, TypeOK, sync
<1>2. Len(gpu) = 0
  <2>1. SUFFICES ASSUME Len(gpu) # 0 PROVE FALSE
    OBVIOUS
  <2>2. Len(gpu) \in 1 .. Len(gpu) /\ Len(gpu) - Len(gpu) + 1 = 1
    BY <1>1, <2>1
  <2>3. gpu[Len(gpu)].slot = Ago(1) /\ ~fences[gpu[Len(gpu)].slot]
    BY <1>1, <2>2 DEF InFlight
  <2>4. QED
    BY <1>1, <2>3, Slots
<1>3. InFlight'
  BY <1>1, <1>2 DEF InFlight
<1>4. QED
  BY <1>1, <1>3 DEF SyncInv, RecordsIdleBuffers

(* The steps of a frame wait for the slot and the image that they use      *)
(* next.                                                                   *)
LEMMA SyncFrame ==
  ASSUME IInv,
         \/ BeginFrame \/ EndFrame \/ DestroyRenderer \/ DrawStep
         \/ \E h \in Handles(meshes), m \in Handles(materials) : Submit(h, m)
  PROVE  SyncInv'
<1> USE DEF draw, chain, sync, GiveUp
<1>1. CASE BeginFrame \/ \E h \in Handles(meshes), m \in Handles(materials) : Submit(h, m)
  BY <1>1, SameSync DEF BeginFrame, Submit, IInv
<1>2. CASE EndFrame \/ SkipMinimized \/ DestroyRenderer
  BY <1>2, SameSync DEF EndFrame, SkipMinimized, DestroyRenderer, IInv
<1>3. CASE RecreateSwapchain
  <2>1. gpu = << >> /\ gpu' = << >> /\ Len(gpu') = 0 /\ pc' \in {"wait_frame", "aborted", "idle"}
    BY <1>3 DEF RecreateSwapchain
  <2>2. QED
    BY <2>1 DEF SyncInv, InFlight, RecordsIdleBuffers
<1>4. CASE KeepSwapchain \/ WaitFrame \/ AcquireFails
  BY <1>4, SameSync DEF KeepSwapchain, WaitFrame, AcquireFails, IInv
<1>5. CASE Acquire
  BY <1>5, SameSync DEF Acquire, IInv, SyncInv
<1>6. QED
  BY <1>1, <1>2, <1>3, <1>4, <1>5, SyncWaitImage, SyncSubmit, SyncReadBack DEF DrawStep

(* Every place of the queue has a horizon less than a round away. *)
LEMMA HorizonNear ==
  ASSUME IInv, NEW k \in 1 .. Len(gpu)
  PROVE  Near(Horizon(k))
<1>1. Len(gpu) \in Nat /\ Len(gpu) <= FramesInFlight /\ frame_count \in Nat
  BY DEF IInv, TypeOK, SyncInv, InFlight
<1>2. QED
  BY <1>1 DEF Near, Horizon

(* A step that submits nothing keeps the references of the frames in       *)
(* flight.                                                                 *)
LEMMA UsesKept ==
  ASSUME IInv, UNCHANGED <<gpu, frame_count>>, gpu # << >> => \A f : Near(f) => TablesKept(f)
  PROVE  UsesInv'
<1>1. ASSUME NEW k \in 1 .. Len(gpu), NEW use \in gpu[k].uses
      PROVE  SafeReference(use, Horizon(k))'
  <2>1. Near(Horizon(k)) /\ gpu # << >>
    BY HorizonNear DEF IInv, TypeOK
  <2>2. TablesKept(Horizon(k)) /\ Horizon(k)' = Horizon(k)
    BY <2>1 DEF Horizon
  <2>3. SafeReference(use, Horizon(k))
    BY DEF IInv, UsesInv
  <2>4. QED
    BY <2>2, <2>3 DEF SafeReference, TablesKept, Keeps
<1>2. QED
  BY <1>1 DEF UsesInv

(* A frame that completes brings the others one place nearer. *)
LEMMA UsesComplete ==
  ASSUME IInv, GpuComplete
  PROVE  UsesInv'
<1>1. /\ gpu # << >> /\ gpu' = Tail(gpu) /\ gpu \in Seq(AnyFrame)
      /\ UNCHANGED <<meshes, textures, materials, frame_count>> /\ frame_count \in Nat
  BY DEF GpuComplete, tables, draw, IInv, TypeOK
<1>2. /\ Len(gpu) \in Nat \ {0} /\ Len(gpu') = Len(gpu) - 1
      /\ \A k \in 1 .. Len(gpu') : gpu'[k] = gpu[k + 1] /\ k + 1 \in 1 .. Len(gpu)
  <2>1. \A s \in Seq(AnyFrame) : s # << >> =>
           /\ Len(s) \in Nat \ {0} /\ Len(Tail(s)) = Len(s) - 1
           /\ \A k \in 1 .. Len(Tail(s)) : Tail(s)[k] = s[k + 1] /\ k + 1 \in 1 .. Len(s)
    OBVIOUS
  <2>2. QED
    BY <1>1, <2>1
<1>3. ASSUME NEW k \in 1 .. Len(gpu'), NEW use \in gpu'[k].uses
      PROVE  SafeReference(use, Horizon(k))'
  <2>1. SafeReference(use, Horizon(k + 1))
    BY <1>2 DEF IInv, UsesInv
  <2>2. Horizon(k)' = Horizon(k + 1)
    BY <1>1, <1>2 DEF Horizon
  <2>3. QED
    BY <1>1, <2>1, <2>2 DEF SafeReference
<1>4. QED
  BY <1>3 DEF UsesInv

(* What a frame refers to is valid when it is submitted, and if it is      *)
(* retired afterwards, then for a frame after the horizon.                 *)
LEMMA UsesSubmit ==
  ASSUME IInv, SubmitFrame
  PROVE  UsesInv'
<1>1. /\ gpu \in Seq(AnyFrame) /\ gpu' = Append(gpu, Submission) /\ pc = "record"
      /\ UNCHANGED <<meshes, textures, materials>>
      /\ frame_count \in Nat /\ frame_count' = frame_count + 1
  BY DEF SubmitFrame, tables, IInv, TypeOK
<1>2. /\ Len(gpu) \in Nat /\ Len(gpu') = Len(gpu) + 1 /\ gpu'[Len(gpu) + 1] = Submission
      /\ \A k \in 1 .. Len(gpu) : gpu'[k] = gpu[k]
  BY <1>1, AppendProperties
<1>3. ASSUME NEW k \in 1 .. Len(gpu), NEW use \in gpu'[k].uses
      PROVE  SafeReference(use, Horizon(k))'
  <2>1. SafeReference(use, Horizon(k))
    BY <1>2 DEF IInv, UsesInv
  <2>2. Horizon(k)' = Horizon(k)
    BY <1>1, <1>2 DEF Horizon
  <2>3. QED
    BY <1>1, <2>1, <2>2 DEF SafeReference
<1>4. ASSUME NEW use \in Submission.uses, NEW f
      PROVE  SafeReference(use, f)
  <2>1. PICK item \in items : use \in Uses(item)
    BY DEF Submission
  <2>2. Resolves(item)
    BY <1>1 DEF IInv, DrawInv, Drawing
  <2>3. QED
    BY <2>1, <2>2, ValidIsSafe DEF Uses, Resolves, SafeReference
<1>5. ASSUME NEW k \in 1 .. Len(gpu'), NEW use \in gpu'[k].uses
      PROVE  SafeReference(use, Horizon(k))'
  <2>1. CASE k \in 1 .. Len(gpu)
    BY <1>3, <2>1
  <2>2. CASE k = Len(gpu) + 1
    <3>1. SafeReference(use, Horizon(k)')
      BY <1>2, <1>4, <2>2
    <3>2. QED
      BY <1>1, <3>1 DEF SafeReference
  <2>3. QED
    BY <1>2, <2>1, <2>2
<1>6. QED
  BY <1>5 DEF UsesInv

(* Every step keeps the references of the frames in flight. *)
LEMMA UsesStep ==
  ASSUME IInv, Next
  PROVE  UsesInv'
<1>1. CASE GpuComplete
  BY <1>1, UsesComplete
<1>2. CASE SubmitFrame
  BY <1>2, UsesSubmit
<1>3. CASE Next /\ ~GpuComplete /\ ~SubmitFrame
  <2>1. UNCHANGED <<gpu, frame_count>>
    BY <1>3 DEF Next, Resource, DrawStep, CreateMesh, CreateTexture, CreateFails,
         CreateMaterial, DestroyMesh, DestroyTexture, DestroyMaterial, BeginFrame, EndFrame,
         Submit, DestroyRenderer, SkipMinimized, RecreateSwapchain, KeepSwapchain,
         WaitFrame, Acquire, AcquireFails, WaitImage, ReadBack, draw, sync
  <2>2. QED
    BY <2>1, TablesStep, UsesKept
<1>4. QED
  BY <1>1, <1>2, <1>3

(* The collection takes nothing from an item that resolves. *)
LEMMA ItemsKept ==
  ASSUME IInv, WaitFrame, NEW item \in items
  PROVE  Resolves(item)'
<1>1. pc = "wait_frame"
  BY DEF WaitFrame
<1>2. /\ Good(meshes, MeshCapacity) /\ Good(textures, TextureCapacity)
      /\ Good(materials, MaterialCapacity) /\ frame_count \in Nat
      /\ material_texture \in [0 .. MaterialCapacity - 1 -> AnyHandle]
  BY <1>1 DEF IInv, TablesInv, TypeOK
<1>3. Resolves(item)
  BY <1>1 DEF IInv, DrawInv, Drawing
<1>4. /\ Valid(meshes', item.mesh) /\ Valid(materials', item.material)
      /\ item.material.index \notin Due(materials, frame_count)
      /\ Valid(textures', material_texture[item.material.index])
  BY <1>2, <1>3, CollectedGood DEF WaitFrame, Resolves
<1>5. item.material.index \in DOMAIN material_texture
  BY <1>2, <1>3, HandlesTyped DEF Resolves, Valid
<1>6. material_texture'[item.material.index] = material_texture[item.material.index]
  BY <1>4, <1>5 DEF WaitFrame
<1>7. QED
  BY <1>4, <1>6 DEF Resolves

(* Every step keeps what is drawn resolved, and the pipelines those of the *)
(* swapchain.                                                              *)
LEMMA DrawInvStep ==
  ASSUME IInv, Next
  PROVE  DrawInv'
<1> USE DEF tables, owned, draw, chain, sync, formats, GiveUp
<1>1. CASE Resource
  <2>1. pc = "idle" /\ pc' \in {"idle", "aborted"} /\ UNCHANGED <<swapchain, sc_format, pipelines_format>>
    BY <1>1 DEF Resource, CreateMesh, CreateTexture, CreateFails, CreateMaterial,
         DestroyMesh, DestroyTexture, DestroyMaterial
  <2>2. QED
    BY <2>1 DEF IInv, DrawInv, Drawing
<1>2. CASE BeginFrame \/ DestroyRenderer
  BY <1>2 DEF BeginFrame, DestroyRenderer, IInv, DrawInv, Drawing
<1>3. ASSUME NEW h, NEW m, Submit(h, m) PROVE DrawInv'
  BY <1>3 DEF Submit, IInv, DrawInv, Drawing
<1>4. CASE EndFrame
  BY <1>4 DEF EndFrame, IInv, DrawInv, Drawing, Resolves
<1>5. CASE GpuComplete
  BY <1>5 DEF GpuComplete, IInv, DrawInv, Drawing, Resolves
<1>6. CASE WaitFrame
  <2>1. /\ pc = "wait_frame" /\ pc' \in {"acquire", "aborted"}
        /\ UNCHANGED <<items, swapchain, sc_format, pipelines_format>>
    BY <1>6 DEF WaitFrame
  <2>2. \A item \in items : Resolves(item)'
    BY <1>6, ItemsKept
  <2>3. QED
    BY <2>1, <2>2 DEF IInv, DrawInv, Drawing
<1>7. CASE RecreateSwapchain
  BY <1>7 DEF RecreateSwapchain, PipelinesFor, IInv, DrawInv, Drawing, Resolves
<1>8. ASSUME UNCHANGED <<tables, owned, swapchain, formats>>, pc \in Drawing,
             pc' \in Drawing => items' = items, pc' \in Drawing \ {"enter"} => swapchain,
             pc' # "aborted"
      PROVE  DrawInv'
  <2>1. /\ pc' \in Drawing => \A item \in items' : Resolves(item)'
        /\ pc # "aborted"
    BY <1>8 DEF IInv, DrawInv, Drawing, Resolves
  <2>2. swapchain' => pipelines_format' = sc_format'
    BY <1>8, <2>1 DEF IInv, DrawInv
  <2>3. QED
    BY <1>8, <2>1, <2>2 DEF DrawInv
<1>9. CASE SkipMinimized \/ KeepSwapchain \/ Acquire \/ AcquireFails \/ WaitImage \/ SubmitFrame
  <2>1. /\ UNCHANGED <<tables, owned, swapchain, formats>>
        /\ pc \in Drawing /\ pc' # "aborted"
        /\ pc' \in Drawing => items' = items
        /\ pc' \in Drawing \ {"enter"} => swapchain
    BY <1>9 DEF SkipMinimized, KeepSwapchain, Acquire, AcquireFails, WaitImage, SubmitFrame,
         Drawing, IInv, DrawInv
  <2>2. QED
    BY <1>8, <2>1
<1>10. CASE ReadBack
  BY <1>10 DEF ReadBack, IInv, DrawInv, Drawing
<1>11. QED
  BY <1>1, <1>2, <1>3, <1>4, <1>5, <1>6, <1>7, <1>9, <1>10 DEF Next, DrawStep

(* Every step of the renderer keeps the invariant. *)
LEMMA IInvStep == IInv /\ [Next]_vars => IInv'
<1> SUFFICES ASSUME IInv, [Next]_vars PROVE IInv'
  OBVIOUS
<1>1. CASE Next
  <2>1. TypeOK'
    BY <1>1, TypeResource, TypeFrame DEF Next
  <2>2. SyncInv'
    BY <1>1, SyncResource, SyncComplete, SyncFrame DEF Next
  <2>3. QED
    BY <1>1, <2>1, <2>2, TablesStep, UsesStep, DrawInvStep DEF IInv
<1>2. CASE UNCHANGED vars
  <2>1. TypeOK' /\ TablesInv'
    BY <1>2 DEF IInv, TypeOK, TablesInv, vars, tables, owned, draw, chain, sync, formats
  <2>2. SyncInv'
    BY <1>2 DEF IInv, SyncInv, InFlight, RecordsIdleBuffers, Ago, vars, draw, chain, sync
  <2>3. UsesInv'
    BY <1>2 DEF IInv, UsesInv, SafeReference, Horizon, vars, tables, draw, sync
  <2>4. DrawInv'
    BY <1>2 DEF IInv, DrawInv, Resolves, vars, tables, owned, draw, chain, formats
  <2>5. QED
    BY <2>1, <2>2, <2>3, <2>4 DEF IInv
<1>3. QED
  BY <1>1, <1>2

----------------------------------------------------------------------------
(* The invariant holds of every behaviour of the renderer. *)
THEOREM RendererInvariant == Spec => []IInv
<1>1. Init => IInv
  BY InitIInv
<1>2. IInv /\ [Next]_vars => IInv'
  BY IInvStep
<1>3. QED
  BY <1>1, <1>2, PTL DEF Spec

(* Nothing a frame in flight refers to is freed or rewritten, for every    *)
(* delay that callers give (renderer_destroy_*, render_handle_collect).    *)
THEOREM ResourcesOutlive == Spec => []ResourcesOutliveFrames
<1>1. IInv => ResourcesOutliveFrames
  BY DEF IInv, UsesInv, SafeReference, SafeUntil, ResourcesOutliveFrames
<1>2. QED
  BY <1>1, RendererInvariant, PTL

(* The items resolved by renderer_end_frame are the ones recorded, and     *)
(* still resolve after draw_frame's collection.                            *)
THEOREM NothingStale == Spec => []NothingStaleIsDrawn
<1>1. IInv => NothingStaleIsDrawn
  BY DEF IInv, DrawInv, Drawing, Resolves, NothingStaleIsDrawn
<1>2. QED
  BY <1>1, RendererInvariant, PTL

(* The slots that are not free have the GPU objects, through failed        *)
(* creates, retirement, collection and renderer_destroy.                   *)
THEOREM SlotsOwn == Spec => []SlotsOwnObjects
<1>1. IInv => SlotsOwnObjects
  BY DEF IInv, TablesInv, Good, Occupied, SlotsOwnObjects
<1>2. QED
  BY <1>1, RendererInvariant, PTL

(* draw_frame records into a slot and for an image the GPU is done with.   *)
THEOREM RecordsIdle == Spec => []RecordsIdleBuffers
<1>1. IInv => RecordsIdleBuffers
  BY DEF IInv, SyncInv
<1>2. QED
  BY <1>1, RendererInvariant, PTL

(* recreate_swapchain leaves pipelines for the format that is drawn.       *)
THEOREM PipelinesMatch == Spec => []PipelinesMatchSwapchain
<1>1. IInv => PipelinesMatchSwapchain
  BY DEF IInv, DrawInv, Drawing, PipelinesMatchSwapchain
<1>2. QED
  BY <1>1, RendererInvariant, PTL

(* renderer_end_frame_capture returns after the copy is done.              *)
THEOREM CapturesComplete == Spec => []CaptureIsComplete
<1>1. IInv => CaptureIsComplete
  BY DEF IInv, SyncInv, InFlight, CaptureIsComplete
<1>2. QED
  BY <1>1, RendererInvariant, PTL
=============================================================================
