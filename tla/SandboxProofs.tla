--------------------------- MODULE SandboxProofs ---------------------------
(***************************************************************************)
(* Proofs about the host loop, its window and the program they make: for   *)
(* every length of a step, catch-up limit and frame time, every set of     *)
(* units and of keys, and however pumps, messages and failures fall.       *)
(***************************************************************************)
EXTENDS Sandbox, SequenceTheorems, SortedSetsProofs

----------------------------------------------------------------------------
(* The host loop. *)

(* The numbers are naturals and the snapshots have ticks. *)
TimeTypes ==
    /\ accumulator \in Nat /\ elapsed \in Nat /\ cut \in Nat
    /\ tick \in Nat /\ burst \in Nat /\ presented \in Nat
    /\ previous \in [tick : Nat, buffer : {0, 1}]
    /\ current \in [tick : Nat, buffer : {0, 1}]
    /\ pc \in {"pump", "tick", "capture", "consume", "failed", "stopped"}

(* A tick that ran has not been taken off the debt before it is consumed.  *)
DebtExact ==
    /\ tick * Dt + accumulator + cut =
            IF pc \in {"capture", "consume"} THEN elapsed + Dt ELSE elapsed
    /\ pc \in {"capture", "consume", "failed"} => Owed
    /\ pc = "pump" => ~Owed

(* What is owed and what was run of it in this frame is within the limit.  *)
WithinLimit ==
    /\ burst * Dt + accumulator <= CatchUp
    /\ cut > 0 => elapsed > CatchUp

(* The snapshots are those of the last two captured ticks. *)
SnapshotsConsecutive ==
    /\ current.tick + (IF pc = "capture" THEN 1 ELSE 0) = tick
    /\ previous.tick = IF current.tick = 0 THEN 0 ELSE current.tick - 1

(* What was presented is not later than what would be presented now.       *)
PresentedNotAhead ==
    IF pc = "consume" \/ current.tick = previous.tick
      THEN presented <= previous.tick * Dt
      ELSE presented <= previous.tick * Dt + Alpha

(* The inductive invariant. *)
LoopInv ==
    /\ TimeTypes /\ DebtExact /\ WithinLimit
    /\ SnapshotsConsecutive /\ PresentedNotAhead

USE LoopAssumption

----------------------------------------------------------------------------
(* StepsAdd add up. *)
LEMMA StepsAdd ==
  /\ 0 * Dt = 0
  /\ \A n \in Nat : n * Dt \in Nat /\ (n + 1) * Dt = n * Dt + Dt
OBVIOUS

(* The loop starts at time zero with nothing owed. *)
LEMMA InitLoop == Init => LoopInv
BY StepsAdd DEF Init, LoopInv, TimeTypes, DebtExact, WithinLimit, SnapshotsConsecutive,
             PresentedNotAhead, Owed, Alpha

(* A frame tops up the debt to at most the limit and cuts off the rest. *)
LEMMA ToppedProperties ==
  ASSUME accumulator \in Nat, accumulator <= CatchUp, NEW delta \in Nat
  PROVE  /\ Topped(delta) \in Nat
         /\ accumulator <= Topped(delta) /\ Topped(delta) <= accumulator + delta
         /\ Topped(delta) <= CatchUp
         /\ Topped(delta) # accumulator + delta => accumulator + delta > CatchUp
BY DEF Topped

(* A frame begins with what the timer adds, up to the limit. *)
LEMMA StartFrameLoop ==
  ASSUME LoopInv, NEW delta \in Nat, StartFrame(delta)
  PROVE  LoopInv'
<1> DEFINE simulatedTime == tick * Dt
<1>1. /\ simulatedTime \in Nat /\ burst * Dt \in Nat /\ delta \in Nat
      /\ accumulator \in Nat /\ elapsed \in Nat /\ cut \in Nat
  BY StepsAdd DEF LoopInv, TimeTypes
<1>2. simulatedTime + accumulator + cut = elapsed /\ accumulator <= CatchUp
  BY <1>1 DEF LoopInv, DebtExact, WithinLimit, StartFrame
<1>3. /\ accumulator' = Topped(delta) /\ elapsed' = elapsed + delta
      /\ cut' = cut + (accumulator + delta - accumulator')
      /\ burst' = 0 /\ pc = "pump" /\ pc' = "tick"
      /\ UNCHANGED <<tick, previous, current, presented>>
  BY DEF StartFrame, simulated, snapshots, shown
<1>4. /\ accumulator' \in Nat /\ accumulator <= accumulator'
      /\ accumulator' <= accumulator + delta /\ accumulator' <= CatchUp
      /\ accumulator' # accumulator + delta => accumulator + delta > CatchUp
  BY <1>1, <1>2, <1>3, ToppedProperties
<1>5. TimeTypes'
  BY <1>1, <1>3, <1>4 DEF LoopInv, TimeTypes
<1>6. DebtExact'
  <2>1. tick' * Dt = simulatedTime
    BY <1>3
  <2>2. tick' * Dt + accumulator' + cut' = elapsed'
    BY <1>1, <1>2, <1>3, <1>4, <2>1
  <2>3. QED
    BY <1>3, <2>2 DEF DebtExact
<1>7. WithinLimit'
  <2>1. burst' * Dt = 0
    BY <1>3, StepsAdd
  <2>2. cut' > 0 => elapsed' > CatchUp
    BY <1>1, <1>2, <1>3, <1>4 DEF LoopInv, WithinLimit
  <2>3. QED
    BY <1>4, <2>1, <2>2 DEF WithinLimit
<1>8. SnapshotsConsecutive'
  BY <1>3 DEF LoopInv, SnapshotsConsecutive
<1>9. PresentedNotAhead'
  <2>1. Alpha <= Alpha'
    BY <1>1, <1>3, <1>4 DEF Alpha
  <2>2. previous'.tick * Dt \in Nat /\ Alpha \in Nat /\ Alpha' \in Nat /\ presented \in Nat
    BY <1>1, <1>3, <1>4, StepsAdd DEF LoopInv, TimeTypes, Alpha
  <2>3. QED
    BY <1>3, <2>1, <2>2 DEF LoopInv, PresentedNotAhead
<1>10. QED
  BY <1>5, <1>6, <1>7, <1>8, <1>9 DEF LoopInv

(* A tick is run and then captured while its step is still owed. *)
LEMMA TickLoop ==
  ASSUME LoopInv, Tick
  PROVE  LoopInv'
<1>1. /\ tick' = tick + 1 /\ pc = "tick" /\ pc' = "capture" /\ Owed
      /\ UNCHANGED <<accumulator, elapsed, cut, burst, previous, current, presented>>
  BY DEF Tick, clock, snapshots, shown
<1>2. tick' * Dt = tick * Dt + Dt /\ tick * Dt \in Nat
  BY <1>1, StepsAdd DEF LoopInv, TimeTypes
<1>3. TimeTypes'
  BY <1>1 DEF LoopInv, TimeTypes
<1>4. DebtExact'
  BY <1>1, <1>2 DEF LoopInv, DebtExact, TimeTypes, Owed
<1>5. WithinLimit'
  BY <1>1 DEF LoopInv, WithinLimit
<1>6. SnapshotsConsecutive'
  BY <1>1 DEF LoopInv, SnapshotsConsecutive, TimeTypes
<1>7. PresentedNotAhead'
  BY <1>1 DEF LoopInv, PresentedNotAhead, Alpha
<1>8. QED
  BY <1>3, <1>4, <1>5, <1>6, <1>7 DEF LoopInv

(* A capture makes the current snapshot the previous one: whatever was     *)
(* presented is not later than that, because a whole step was owed.        *)
LEMMA CaptureLoop ==
  ASSUME LoopInv, Capture
  PROVE  LoopInv'
<1>1. /\ previous' = current
      /\ current' = [tick |-> tick, buffer |-> previous.buffer]
      /\ pc = "capture" /\ pc' = "consume"
      /\ UNCHANGED <<accumulator, elapsed, cut, burst, tick, presented>>
  BY DEF Capture, clock, simulated, shown
<1>2. TimeTypes'
  BY <1>1 DEF LoopInv, TimeTypes
<1>3. DebtExact'
  BY <1>1 DEF LoopInv, DebtExact, Owed
<1>4. WithinLimit'
  BY <1>1 DEF LoopInv, WithinLimit
<1>5. SnapshotsConsecutive'
  BY <1>1 DEF LoopInv, SnapshotsConsecutive, TimeTypes
<1>6. PresentedNotAhead'
  <2>1. Owed /\ Alpha = Dt
    BY <1>1 DEF LoopInv, DebtExact, TimeTypes, Owed, Alpha
  <2>2. CASE current.tick = previous.tick
    BY <1>1, <2>2 DEF LoopInv, PresentedNotAhead
  <2>3. CASE current.tick # previous.tick
    <3>1. previous.tick \in Nat /\ current.tick = previous.tick + 1
      BY <2>3 DEF LoopInv, TimeTypes, SnapshotsConsecutive
    <3>2. current.tick * Dt = previous.tick * Dt + Dt
      BY <3>1, StepsAdd
    <3>3. presented <= previous.tick * Dt + Alpha
      BY <1>1, <2>3 DEF LoopInv, PresentedNotAhead
    <3>4. QED
      BY <1>1, <2>1, <3>2, <3>3 DEF PresentedNotAhead
  <2>4. QED
    BY <2>2, <2>3
<1>7. QED
  BY <1>2, <1>3, <1>4, <1>5, <1>6 DEF LoopInv

(* Consuming pays for the tick that ran. *)
LEMMA ConsumeLoop ==
  ASSUME LoopInv, Consume
  PROVE  LoopInv'
<1>1. /\ accumulator' = accumulator - Dt /\ burst' = burst + 1 /\ Owed
      /\ pc = "consume" /\ pc' = "tick"
      /\ UNCHANGED <<elapsed, cut, tick, previous, current, presented>>
  BY DEF Consume, Rest, simulated, snapshots, shown
<1>2. TimeTypes'
  BY <1>1 DEF LoopInv, TimeTypes, Owed
<1>3. DebtExact'
  <2>1. tick * Dt \in Nat
    BY StepsAdd DEF LoopInv, TimeTypes
  <2>2. QED
    BY <1>1, <2>1 DEF LoopInv, DebtExact, TimeTypes
<1>4. WithinLimit'
  <2>1. burst * Dt \in Nat /\ burst' * Dt = burst * Dt + Dt
    BY <1>1, StepsAdd DEF LoopInv, TimeTypes
  <2>2. QED
    BY <1>1, <2>1 DEF LoopInv, WithinLimit, TimeTypes
<1>5. SnapshotsConsecutive'
  BY <1>1 DEF LoopInv, SnapshotsConsecutive
<1>6. PresentedNotAhead'
  <2>1. Alpha' \in Nat /\ previous.tick * Dt \in Nat /\ presented \in Nat
    BY <1>2, StepsAdd DEF LoopInv, TimeTypes, Alpha
  <2>2. presented <= previous.tick * Dt
    BY <1>1 DEF LoopInv, PresentedNotAhead
  <2>3. QED
    BY <1>1, <2>1, <2>2 DEF PresentedNotAhead
<1>7. QED
  BY <1>2, <1>3, <1>4, <1>5, <1>6 DEF LoopInv

(* What Draw presents, and that it is not earlier than what it replaces. *)
LEMMA DrawPresents ==
  ASSUME LoopInv, Draw
  PROVE  /\ presented' = IF current.tick = previous.tick
                           THEN previous.tick * Dt
                           ELSE previous.tick * Dt + Alpha
         /\ presented' \in Nat
         /\ presented <= presented'
<1>1. /\ presented' = previous.tick * Dt + (current.tick - previous.tick) * Alpha
      /\ pc = "tick"
  BY DEF Draw
<1>2. /\ current.tick \in Nat /\ previous.tick \in Nat
      /\ current.tick # previous.tick => current.tick = previous.tick + 1
  BY DEF LoopInv, TimeTypes, SnapshotsConsecutive
<1>3. Alpha \in Nat /\ previous.tick * Dt \in Nat
  BY <1>2, StepsAdd DEF LoopInv, TimeTypes, Alpha
<1>4. CASE current.tick = previous.tick
  <2>1. (current.tick - previous.tick) * Alpha = 0
    BY <1>2, <1>3, <1>4
  <2>2. presented' = previous.tick * Dt
    BY <1>1, <1>3, <2>1
  <2>3. QED
    BY <1>1, <1>3, <1>4, <2>2 DEF LoopInv, PresentedNotAhead
<1>5. CASE current.tick # previous.tick
  <2>1. (current.tick - previous.tick) * Alpha = Alpha
    <3>1. current.tick - previous.tick = 1
      BY <1>2, <1>5
    <3>2. QED
      BY <1>3, <3>1
  <2>2. presented' = previous.tick * Dt + Alpha
    BY <1>1, <1>3, <2>1
  <2>3. QED
    BY <1>1, <1>3, <1>5, <2>2 DEF LoopInv, PresentedNotAhead
<1>6. QED
  BY <1>4, <1>5

(* A frame that is drawn presents what is shown now. *)
LEMMA DrawLoop ==
  ASSUME LoopInv, Draw
  PROVE  LoopInv'
<1>1. /\ ~Owed /\ pc = "tick" /\ pc' = "pump"
      /\ UNCHANGED <<accumulator, elapsed, cut, burst, tick, previous, current>>
  BY DEF Draw, clock, simulated, snapshots
<1>2. /\ presented' \in Nat
      /\ presented' = IF current.tick = previous.tick
                        THEN previous.tick * Dt
                        ELSE previous.tick * Dt + Alpha
  BY DrawPresents
<1>3. TimeTypes'
  BY <1>1, <1>2 DEF LoopInv, TimeTypes
<1>4. DebtExact'
  BY <1>1 DEF LoopInv, DebtExact, Owed
<1>5. WithinLimit'
  BY <1>1 DEF LoopInv, WithinLimit
<1>6. SnapshotsConsecutive'
  BY <1>1 DEF LoopInv, SnapshotsConsecutive
<1>7. PresentedNotAhead'
  <2>1. Alpha' = Alpha
    BY <1>1 DEF Alpha
  <2>2. previous.tick * Dt \in Nat /\ Alpha \in Nat
    BY StepsAdd DEF LoopInv, TimeTypes, Alpha
  <2>3. QED
    BY <1>1, <1>2, <2>1, <2>2 DEF PresentedNotAhead
<1>8. QED
  BY <1>3, <1>4, <1>5, <1>6, <1>7 DEF LoopInv

(* The loop may stop, after a frame or at a tick that fails. *)
LEMMA StopLoop ==
  ASSUME LoopInv, Quit \/ TickFails
  PROVE  LoopInv'
<1>1. /\ pc' \in {"stopped", "failed"} /\ pc \in {"pump", "tick"}
      /\ pc' = "failed" => Owed
      /\ UNCHANGED <<accumulator, elapsed, cut, burst, tick, previous, current, presented>>
  BY DEF Quit, TickFails, clock, simulated, snapshots, shown
<1>2. TimeTypes'
  BY <1>1 DEF LoopInv, TimeTypes
<1>3. DebtExact'
  BY <1>1 DEF LoopInv, DebtExact, Owed
<1>4. WithinLimit' /\ SnapshotsConsecutive' /\ PresentedNotAhead'
  BY <1>1 DEF LoopInv, WithinLimit, SnapshotsConsecutive, PresentedNotAhead, Alpha
<1>5. QED
  BY <1>2, <1>3, <1>4 DEF LoopInv

----------------------------------------------------------------------------
(* The invariant holds of every reachable state of the loop. *)
THEOREM LoopInvariant == Spec => []LoopInv
<1>1. ASSUME LoopInv, UNCHANGED vars PROVE LoopInv'
  <2>1. UNCHANGED <<accumulator, elapsed, cut, burst, tick, previous, current, presented, pc>>
    BY <1>1 DEF vars, clock, simulated, snapshots, shown
  <2>2. QED
    BY <1>1, <2>1 DEF LoopInv, TimeTypes, DebtExact, WithinLimit, SnapshotsConsecutive,
                      PresentedNotAhead, Owed, Alpha
<1>2. LoopInv /\ [Next]_vars => LoopInv'
  BY <1>1, StartFrameLoop, TickLoop, CaptureLoop, ConsumeLoop, DrawLoop, StopLoop DEF Next
<1>3. QED
  BY InitLoop, <1>2, PTL DEF Spec

(* platform_fixed_step.cpp loses no time: it was simulated, is owed, or    *)
(* was given up at the catch-up limit.                                     *)
THEOREM TimeIsAccounted == Spec => []TimeAccounted
<1>1. LoopInv => TimeAccounted
  BY DEF LoopInv, DebtExact, WithinLimit, TimeAccounted
<1>2. QED
  BY <1>1, LoopInvariant, PTL

(* The ticks of one frame are bounded by the limit of the code.            *)
THEOREM CatchUpIsBounded == Spec => []CatchUpBounded
<1>1. LoopInv => CatchUpBounded
  <2>1. LoopInv => burst * Dt \in Nat /\ accumulator \in Nat
    BY StepsAdd DEF LoopInv, TimeTypes
  <2>2. QED
    BY <2>1 DEF LoopInv, DebtExact, WithinLimit, CatchUpBounded
<1>2. QED
  BY <1>1, LoopInvariant, PTL

(* The presented time never goes back, whatever ticks and frames come.     *)
THEOREM PresentedTimeIsMonotone == Spec => PresentedTimeMonotone
<1>1. LoopInv /\ [Next]_vars => [presented' >= presented]_vars
  <2>1. ASSUME LoopInv, Draw PROVE presented' >= presented
    BY <2>1, DrawPresents DEF LoopInv, TimeTypes
  <2>2. ASSUME LoopInv, UNCHANGED presented PROVE presented' >= presented
    BY <2>2 DEF LoopInv, TimeTypes
  <2>3. ASSUME Next, ~Draw PROVE UNCHANGED presented
    BY <2>3 DEF Next, StartFrame, Quit, Tick, TickFails, Capture, Consume, shown
  <2>4. QED
    BY <2>1, <2>2, <2>3
<1>2. QED
  BY <1>1, LoopInvariant, PTL DEF Spec, PresentedTimeMonotone

----------------------------------------------------------------------------
(* What the loop draws. *)

(* The snapshots show the units of the world before and after the last     *)
(* tick that was captured.                                                 *)
SnapshotsShow ==
    /\ world \in Worlds /\ last_world \in Worlds
    /\ buffers \in [{0, 1} -> Worlds]
    /\ previous.buffer \in {0, 1} /\ current.buffer \in {0, 1}
    /\ previous.buffer # current.buffer
    /\ IF pc = "capture" THEN buffers[current.buffer] = last_world
       ELSE buffers[current.buffer] = world /\ buffers[previous.buffer] = last_world

(* A part of the way between two places is between them. *)
LEMMA BetweenPlaces ==
  ASSUME NEW a \in Int, NEW b \in Int, NEW part \in 0 .. Dt
  PROVE  Between(a * Dt, b * Dt, a * Dt + (b - a) * part)
<1>1. \A d \in Nat : 0 <= d * part /\ d * part <= d * Dt
  OBVIOUS
<1>2. CASE a <= b
  <2>1. b - a \in Nat
    BY <1>2
  <2>2. 0 <= (b - a) * part /\ (b - a) * part <= (b - a) * Dt
    BY <1>1, <2>1
  <2>3. (b - a) * Dt = b * Dt - a * Dt
    OBVIOUS
  <2>4. a * Dt \in Int /\ b * Dt \in Int /\ (b - a) * part \in Int
    OBVIOUS
  <2>5. QED
    BY <2>2, <2>3, <2>4 DEF Between
<1>3. CASE b <= a
  <2>1. a - b \in Nat
    BY <1>3
  <2>2. 0 <= (a - b) * part /\ (a - b) * part <= (a - b) * Dt
    BY <1>1, <2>1
  <2>3. (a - b) * Dt = a * Dt - b * Dt /\ (b - a) * part = -((a - b) * part)
    OBVIOUS
  <2>4. a * Dt \in Int /\ b * Dt \in Int /\ (a - b) * part \in Int
    OBVIOUS
  <2>5. QED
    BY <2>2, <2>3, <2>4 DEF Between
<1>4. QED
  BY <1>2, <1>3

(* The slots with a unit are listed, each once. *)
LEMMA OccupiedListed ==
  ASSUME NEW units \in Worlds
  PROVE  LET S == {s \in Slots : units[s] # Empty} IN
         /\ Ascending(S) \in Seq(S)
         /\ \A k \in 1 .. Len(Ascending(S)) : Ascending(S)[k] \in S
<1> DEFINE S == {s \in Slots : units[s] # Empty}
<1>1. IsFiniteSet(S) /\ S \in SUBSET Nat
  <2>1. IsFiniteSet(Slots)
    BY FS_Interval DEF Slots
  <2>2. QED
    BY <2>1, FS_Subset DEF Slots
<1> HIDE DEF S
<1>2. Ascending(S) \in Seq(S)
  BY <1>1, AscendingListing
<1>3. \A q \in Seq(S) : \A k \in 1 .. Len(q) : q[k] \in S
  OBVIOUS
<1>4. QED
  BY <1>2, <1>3 DEF S

(* A frame draws each unit between its last two places. *)
LEMMA DrawShows ==
  ASSUME LoopInv, SnapshotsShow, Draw
  PROVE  DrawnBetweenTicks'
<1> DEFINE listed == Ascending({s \in Slots : world[s] # Empty})
<1>1. /\ pc = "tick" /\ UNCHANGED <<world, last_world>> /\ drawn' = DrawItems
      /\ world \in Worlds /\ last_world \in Worlds
      /\ buffers[current.buffer] = world /\ buffers[previous.buffer] = last_world
  BY DEF Draw, simulated, SnapshotsShow
<1>2. /\ listed \in Seq({s \in Slots : world[s] # Empty})
      /\ \A k \in 1 .. Len(listed) : listed[k] \in Slots /\ world[listed[k]] # Empty
  BY <1>1, OccupiedListed
<1>3. drawn' = [k \in 1 .. Len(listed) |-> Blended(last_world[listed[k]], world[listed[k]])]
  BY <1>1 DEF DrawItems
<1> HIDE DEF listed
<1>4. Len(listed) \in Nat
  BY <1>2
<1>5. Len(drawn') = Len(listed) /\ \A k \in 1 .. Len(listed) :
            drawn'[k] = Blended(last_world[listed[k]], world[listed[k]])
  BY <1>3, <1>4
<1>6. Alpha \in 0 .. Dt
  BY DEF LoopInv, TimeTypes, Alpha
<1>7. ASSUME NEW k \in 1 .. Len(listed),
             last_world[listed[k]].entity = world[listed[k]].entity
      PROVE  Between(last_world[listed[k]].x * Dt, world[listed[k]].x * Dt, drawn'[k])
  <2> DEFINE old == last_world[listed[k]]
             new == world[listed[k]]
  <2>1. new \in Unit
    BY <1>1, <1>2 DEF Worlds
  <2>2. old \in Unit \union {Empty}
    BY <1>1, <1>2 DEF Worlds
  <2>3. old # Empty
    BY <1>7, <2>1 DEF Unit, Empty
  <2>4. old.x \in Int /\ new.x \in Int
    BY <2>1, <2>2, <2>3 DEF Unit
  <2>5. drawn'[k] = old.x * Dt + (new.x - old.x) * Alpha
    BY <1>5, <1>7 DEF Blended
  <2> HIDE DEF old, new
  <2>6. Between(old.x * Dt, new.x * Dt, old.x * Dt + (new.x - old.x) * Alpha)
    BY <1>6, <2>4, BetweenPlaces
  <2>7. QED
    BY <2>5, <2>6 DEF old, new
<1>8. ASSUME NEW k \in 1 .. Len(listed),
             last_world[listed[k]].entity # world[listed[k]].entity
      PROVE  drawn'[k] = world[listed[k]].x * Dt
  BY <1>5, <1>8 DEF Blended
<1>9. QED
  BY <1>1, <1>5, <1>7, <1>8 DEF DrawnBetweenTicks, listed

----------------------------------------------------------------------------
(* The window and its keyboard. *)

Messages ==
    [kind : {"key_down"}, key : Keys, was_down : BOOLEAN]
    \union [kind : {"key_up"}, key : Keys]
    \union [kind : {"kill_focus", "set_focus", "close"}]
    \union [kind : {"size"}, minimized : BOOLEAN]

WindowTypeOK ==
    /\ queue \in Seq(Messages)
    /\ focus \in BOOLEAN
    /\ w \in [quit : BOOLEAN, minimized : BOOLEAN, focused : BOOLEAN,
              key_down : SUBSET KeyCodes, transitions : Nat]

(* The user holds the key in this window. *)
Holds(key) == focus /\ key \in held

(* The messages after which the key is not down. *)
Clears(m, key) == m.kind = "kill_focus" \/ (m.kind = "key_up" /\ m.key = key)

(* A key that the window counts as down, or that a waiting message will    *)
(* put down, is held, unless a message behind it takes it back.            *)
DownIsHeld ==
    hwnd = "open" =>
        \A key \in KeyCodes :
            /\ (/\ key \in w.key_down
                /\ \A j \in 1 .. Len(queue) : ~Clears(queue[j], key)) => Holds(key)
            /\ \A i \in 1 .. Len(queue) :
                (/\ queue[i].kind = "key_down" /\ queue[i].key = key
                 /\ \A j \in 1 .. Len(queue) : i < j => ~Clears(queue[j], key)) => Holds(key)

(* Before it is opened the window knows of no key. *)
NotOpened == hwnd = "none" => w.key_down = {} /\ queue = << >>

(* The inductive invariant. *)
WindowInv == WindowTypeOK /\ DownIsHeld /\ NotOpened

(* The invariant holds before the window is opened. *)
LEMMA InitWindow == WindowInit => WindowInv
<1> SUFFICES ASSUME WindowInit PROVE WindowInv
  OBVIOUS
<1>1. queue = << >> /\ hwnd = "none" /\ focus = FALSE /\ w = Closed
  BY DEF WindowInit
<1>2. queue \in Seq(Messages)
  BY <1>1, EmptySeq
<1>3. QED
  BY <1>1, <1>2 DEF Closed, WindowInv, WindowTypeOK, DownIsHeld, NotOpened

(* What the user does: a message may join the end of the queue. *)
LEMMA PostPreserves ==
  ASSUME WindowInv, NEW m \in Messages, Post(m), UNCHANGED <<hwnd, w>>, hwnd = "open",
         focus' \in BOOLEAN,
         \A key \in KeyCodes : Holds(key) /\ ~Clears(m, key) => Holds(key)',
         m.kind = "key_down" => Holds(m.key)'
  PROVE  WindowInv'
<1>1. /\ queue' \in Seq(Messages)
      /\ Len(queue') = Len(queue) + 1 /\ Len(queue) \in Nat
      /\ queue'[Len(queue) + 1] = m
      /\ \A i \in 1 .. Len(queue) : queue'[i] = queue[i]
  BY DEF WindowInv, WindowTypeOK, Post
<1>2. WindowTypeOK' /\ NotOpened'
  BY <1>1 DEF WindowInv, WindowTypeOK, NotOpened
<1>3. ASSUME NEW key \in KeyCodes, key \in w.key_down,
             \A j \in 1 .. Len(queue') : ~Clears(queue'[j], key)
      PROVE  Holds(key)'
  <2>1. ~Clears(m, key) /\ \A j \in 1 .. Len(queue) : ~Clears(queue[j], key)
    BY <1>1, <1>3
  <2>2. QED
    BY <1>3, <2>1 DEF WindowInv, DownIsHeld
<1>4. ASSUME NEW key \in KeyCodes, NEW i \in 1 .. Len(queue'),
             queue'[i].kind = "key_down", queue'[i].key = key,
             \A j \in 1 .. Len(queue') : i < j => ~Clears(queue'[j], key)
      PROVE  Holds(key)'
  <2>1. CASE i = Len(queue) + 1
    BY <1>1, <1>4, <2>1
  <2>2. CASE i \in 1 .. Len(queue)
    <3>1. /\ queue[i].kind = "key_down" /\ queue[i].key = key
          /\ ~Clears(m, key)
          /\ \A j \in 1 .. Len(queue) : i < j => ~Clears(queue[j], key)
      BY <1>1, <1>4, <2>2
    <3>2. QED
      BY <2>2, <3>1 DEF WindowInv, DownIsHeld
  <2>3. QED
    BY <1>1, <2>1, <2>2
<1>5. DownIsHeld'
  BY <1>3, <1>4 DEF DownIsHeld
<1>6. QED
  BY <1>2, <1>5 DEF WindowInv

(* Nothing is posted and no key is let go of that counts. *)
LEMMA QuietPreserves ==
  ASSUME WindowInv, UNCHANGED <<hwnd, queue>>, focus' \in BOOLEAN,
         w' \in [quit : BOOLEAN, minimized : BOOLEAN, focused : BOOLEAN,
                 key_down : SUBSET KeyCodes, transitions : Nat],
         w'.key_down = w.key_down,
         \A key \in KeyCodes : Holds(key) => Holds(key)'
  PROVE  WindowInv'
  BY DEF WindowInv, WindowTypeOK, DownIsHeld, NotOpened

(* Each act of the user. *)
LEMMA PressWindow ==
  ASSUME WindowInv, NEW key \in Keys, Press(key)
  PROVE  WindowInv'
<1>1. CASE focus
  <2> DEFINE m == [kind |-> "key_down", key |-> key, was_down |-> key \in held]
  <2>1. m \in Messages /\ Post(m)
    BY <1>1 DEF Press, Messages
  <2>2. /\ \A k \in KeyCodes : Holds(k) /\ ~Clears(m, k) => Holds(k)'
        /\ Holds(m.key)'
    BY <1>1 DEF Press, Holds
  <2>3. QED
    BY <1>1, <2>1, <2>2, PostPreserves DEF Press
<1>2. CASE ~focus
  BY <1>2, QuietPreserves DEF Press, Holds, WindowInv, WindowTypeOK
<1>3. QED
  BY <1>1, <1>2

(* A key that is lifted in the window posts its message; outside it is     *)
(* only lifted.                                                            *)
LEMMA LiftWindow ==
  ASSUME WindowInv, NEW key \in Keys, Lift(key)
  PROVE  WindowInv'
<1>1. CASE focus
  <2> DEFINE m == [kind |-> "key_up", key |-> key]
  <2>1. m \in Messages /\ Post(m)
    BY <1>1 DEF Lift, Messages
  <2>2. \A k \in KeyCodes : Holds(k) /\ ~Clears(m, k) => Holds(k)'
    BY <1>1 DEF Lift, Holds, Clears
  <2>3. QED
    BY <1>1, <2>1, <2>2, PostPreserves DEF Lift
<1>2. CASE ~focus
  BY <1>2, QuietPreserves DEF Lift, Holds, WindowInv, WindowTypeOK
<1>3. QED
  BY <1>1, <1>2

(* The focus that goes takes every key with it. *)
LEMMA SwitchFocusWindow == WindowInv /\ SwitchFocus => WindowInv'
<1> SUFFICES ASSUME WindowInv, SwitchFocus PROVE WindowInv'
  OBVIOUS
<1> DEFINE m == [kind |-> IF focus THEN "kill_focus" ELSE "set_focus"]
<1>1. m \in Messages /\ Post(m) /\ focus' \in BOOLEAN
  BY DEF SwitchFocus, Messages
<1>2. \A k \in KeyCodes : Holds(k) /\ ~Clears(m, k) => Holds(k)'
  BY DEF SwitchFocus, Holds, Clears
<1>3. QED
  BY <1>1, <1>2, PostPreserves DEF SwitchFocus

(* Minimizing says nothing of keys. *)
LEMMA MinimizeWindow == WindowInv /\ Minimize => WindowInv'
<1> SUFFICES ASSUME WindowInv, Minimize PROVE WindowInv'
  OBVIOUS
<1> DEFINE m == [kind |-> "size", minimized |-> ~iconic]
<1>1. m \in Messages /\ Post(m)
  BY DEF Minimize, Messages
<1>2. QED
  BY <1>1, PostPreserves DEF Minimize, Holds, WindowInv, WindowTypeOK

(* The close button says nothing of keys. *)
LEMMA CloseWindow == WindowInv /\ Close => WindowInv'
<1> SUFFICES ASSUME WindowInv, Close PROVE WindowInv'
  OBVIOUS
<1> DEFINE m == [kind |-> "close"]
<1>1. m \in Messages /\ Post(m)
  BY DEF Close, Messages
<1>2. QED
  BY <1>1, PostPreserves DEF Close, user, Holds, WindowInv, WindowTypeOK

(* The window procedure takes the first message: what it puts down is the  *)
(* subject of that message, and what stays down was not cleared by it.     *)
LEMMA DispatchWindow == WindowInv /\ Dispatch => WindowInv'
<1> SUFFICES ASSUME WindowInv, Dispatch PROVE WindowInv'
  OBVIOUS
<1> DEFINE m == queue[1]
<1>1. /\ queue' \in Seq(Messages) /\ Len(queue) \in Nat \ {0}
      /\ m \in Messages /\ m.kind # "close" /\ w' = Handled(m)
      /\ Len(queue') = Len(queue) - 1
      /\ \A i \in 1 .. Len(queue') : queue'[i] = queue[i + 1]
  BY DEF WindowInv, WindowTypeOK, Dispatch
<1>2. WindowTypeOK'
  <2> DEFINE Windows == [quit : BOOLEAN, minimized : BOOLEAN, focused : BOOLEAN,
                         key_down : SUBSET KeyCodes, transitions : Nat]
  <2>1. w \in Windows /\ focus' \in BOOLEAN
    BY DEF WindowInv, WindowTypeOK, Dispatch, user
  <2>2. CASE m.kind = "key_down"
    <3>1. w' = KeyDown(m.key, m.was_down)
      BY <1>1, <2>2 DEF Handled
    <3>2. /\ w.transitions \in Nat
          /\ w.transitions + (IF m.was_down THEN 0 ELSE 1) \in Nat
      BY <2>1
    <3>3. CASE m.key \in KeyCodes
      <4>1. w.key_down \union {m.key} \in SUBSET KeyCodes
        BY <2>1, <3>3
      <4>2. w' = [w EXCEPT !.key_down = w.key_down \union {m.key},
                           !.transitions = w.transitions + (IF m.was_down THEN 0 ELSE 1)]
        BY <3>1, <3>3, Zenon DEF KeyDown
      <4>3. w' \in Windows
        BY <2>1, <3>2, <4>1, <4>2
      <4>4. QED
        BY <1>1, <2>1, <4>3 DEF WindowTypeOK
    <3>4. CASE m.key \notin KeyCodes
      BY <1>1, <2>1, <3>1, <3>4 DEF WindowTypeOK, KeyDown
    <3>5. QED
      BY <3>3, <3>4
  <2>3. CASE m.kind = "key_up"
    <3>1. w' = KeyUp(m.key)
      BY <1>1, <2>3 DEF Handled
    <3>2. w.transitions + 1 \in Nat /\ w.key_down \ {m.key} \in SUBSET KeyCodes
      BY <2>1
    <3>3. CASE m.key \in KeyCodes
      <4>1. w' = [w EXCEPT !.key_down = w.key_down \ {m.key},
                           !.transitions = w.transitions + 1]
        BY <3>1, <3>3, Zenon DEF KeyUp
      <4>2. w' \in Windows
        BY <2>1, <3>2, <4>1
      <4>3. QED
        BY <1>1, <2>1, <4>2 DEF WindowTypeOK
    <3>4. CASE m.key \notin KeyCodes
      BY <1>1, <2>1, <3>1, <3>4 DEF WindowTypeOK, KeyUp
    <3>5. QED
      BY <3>3, <3>4
  <2>4. CASE m.kind \in {"kill_focus", "set_focus"}
    BY <1>1, <2>1, <2>4 DEF WindowTypeOK, Handled, Blurred
  <2>5. CASE m.kind = "size"
    <3>1. m.minimized \in BOOLEAN
      BY <1>1, <2>5 DEF Messages
    <3>2. QED
      BY <1>1, <2>1, <2>5, <3>1 DEF WindowTypeOK, Handled
  <2>6. QED
    BY <1>1, <2>2, <2>3, <2>4, <2>5 DEF Messages
<1>3. \A key \in KeyCodes :
        key \in w'.key_down => \/ key \in w.key_down /\ ~Clears(m, key)
                               \/ m.kind = "key_down" /\ m.key = key
  BY <1>1 DEF WindowInv, WindowTypeOK, Messages, Handled, KeyDown, KeyUp, Blurred, Clears
<1>4. ASSUME NEW key \in KeyCodes, hwnd = "open", key \in w'.key_down,
             \A j \in 1 .. Len(queue') : ~Clears(queue'[j], key)
      PROVE  Holds(key)
  <2>1. \A j \in 1 .. Len(queue) : 1 < j => ~Clears(queue[j], key)
    <3>1. ASSUME NEW j \in 1 .. Len(queue), 1 < j PROVE ~Clears(queue[j], key)
      <4>1. j - 1 \in 1 .. Len(queue') /\ queue'[j - 1] = queue[j]
        BY <1>1, <3>1
      <4>2. QED
        BY <1>4, <4>1
    <3>2. QED
      BY <3>1
  <2>2. 1 \in 1 .. Len(queue)
    BY <1>1
  <2>3. CASE key \in w.key_down /\ ~Clears(m, key)
    <3>1. \A j \in 1 .. Len(queue) : ~Clears(queue[j], key)
      BY <2>1, <2>3
    <3>2. QED
      BY <1>4, <2>3, <3>1 DEF WindowInv, DownIsHeld
  <2>4. CASE m.kind = "key_down" /\ m.key = key
    BY <1>4, <2>1, <2>2, <2>4 DEF WindowInv, DownIsHeld
  <2>5. QED
    BY <1>3, <1>4, <2>3, <2>4
<1>5. ASSUME NEW key \in KeyCodes, NEW i \in 1 .. Len(queue'), hwnd = "open",
             queue'[i].kind = "key_down", queue'[i].key = key,
             \A j \in 1 .. Len(queue') : i < j => ~Clears(queue'[j], key)
      PROVE  Holds(key)
  <2>1. /\ i + 1 \in 1 .. Len(queue)
        /\ queue[i + 1].kind = "key_down" /\ queue[i + 1].key = key
    BY <1>1, <1>5
  <2>2. \A j \in 1 .. Len(queue) : i + 1 < j => ~Clears(queue[j], key)
    <3>1. ASSUME NEW j \in 1 .. Len(queue), i + 1 < j PROVE ~Clears(queue[j], key)
      <4>1. j - 1 \in 1 .. Len(queue') /\ i < j - 1 /\ queue'[j - 1] = queue[j]
        BY <1>1, <3>1
      <4>2. QED
        BY <1>5, <4>1
    <3>2. QED
      BY <3>1
  <2>3. QED
    BY <1>5, <2>1, <2>2 DEF WindowInv, DownIsHeld
<1>6. DownIsHeld'
  <2>1. hwnd' = hwnd /\ \A key \in KeyCodes : Holds(key)' = Holds(key)
    BY DEF Dispatch, user, Holds
  <2>2. QED
    BY <1>4, <1>5, <2>1 DEF DownIsHeld
<1>7. NotOpened'
  BY DEF WindowInv, NotOpened, Dispatch
<1>8. QED
  BY <1>2, <1>6, <1>7 DEF WindowInv

(* A window that is destroyed has no messages, and no key matters. *)
LEMMA DispatchCloseWindow == WindowInv /\ DispatchClose => WindowInv'
<1> SUFFICES ASSUME WindowInv, DispatchClose PROVE WindowInv'
  OBVIOUS
<1>1. queue' \in Seq(Messages)
  BY EmptySeq DEF DispatchClose
<1>2. QED
  BY <1>1 DEF DispatchClose, WindowInv, WindowTypeOK, DownIsHeld, NotOpened, Blurred

(* A window that is destroyed forgets its keys and its messages. *)
LEMMA ShutWindow == WindowInv /\ Shut => WindowInv'
<1> SUFFICES ASSUME WindowInv, Shut PROVE WindowInv'
  OBVIOUS
<1>1. queue' \in Seq(Messages)
  BY EmptySeq DEF Shut
<1>2. QED
  BY <1>1 DEF Shut, WindowInv, WindowTypeOK, DownIsHeld, NotOpened

(* Opening finds no key and no message; the pump's frame around the        *)
(* messages changes none.                                                  *)
LEMMA OpenedWindow == WindowInv /\ hwnd = "none" /\ Opened => WindowInv'
  BY DEF WindowInv, WindowTypeOK, DownIsHeld, NotOpened, Opened

(* The pump's own steps change no key. *)
LEMMA PumpWindow == WindowInv /\ (PumpStart \/ DispatchQuit \/ PumpEnd) => WindowInv'
<1>1. ASSUME WindowInv, PumpStart PROVE WindowInv'
  BY <1>1, QuietPreserves DEF PumpStart, user, Holds, WindowInv, WindowTypeOK
<1>2. ASSUME WindowInv, DispatchQuit PROVE WindowInv'
  BY <1>2, QuietPreserves DEF DispatchQuit, user, Holds, WindowInv, WindowTypeOK
<1>3. ASSUME WindowInv, PumpEnd PROVE WindowInv'
  BY <1>3, QuietPreserves DEF PumpEnd, user, Holds, WindowInv, WindowTypeOK
<1>4. QED
  BY <1>1, <1>2, <1>3

(* The invariant holds of every reachable window. *)
THEOREM WindowInvariant == WindowSpec => []WindowInv
<1>1. ASSUME WindowInv, UNCHANGED window PROVE WindowInv'
  BY <1>1, QuietPreserves DEF window, user, Holds, WindowInv, WindowTypeOK
<1>2. ASSUME WindowInv, WindowInput PROVE WindowInv'
  BY <1>2, PressWindow, LiftWindow, SwitchFocusWindow, MinimizeWindow, CloseWindow DEF WindowInput
<1>3. ASSUME WindowInv, PumpStep PROVE WindowInv'
  BY <1>3, DispatchWindow, DispatchCloseWindow, PumpWindow DEF PumpStep
<1>4. WindowInv /\ [WindowNext]_window => WindowInv'
  BY <1>1, <1>2, <1>3, OpenedWindow, PumpWindow, ShutWindow DEF WindowNext
<1>5. QED
  BY InitWindow, <1>4, PTL DEF WindowSpec

(* win32_platform.cpp:115, "no stuck key on alt-tab": once the messages    *)
(* are handled, every key that counts as down is held in this window.      *)
THEOREM NoStuckKey == WindowSpec => []HeldKeysAreHeld
<1>1. WindowInv => HeldKeysAreHeld
  <2> SUFFICES ASSUME WindowInv, queue = << >>, hwnd = "open", NEW key \in w.key_down
               PROVE  key \in IF focus THEN held \intersect KeyCodes ELSE {}
    BY DEF HeldKeysAreHeld
  <2>1. key \in KeyCodes
    BY DEF WindowInv, WindowTypeOK
  <2>2. Holds(key)
    BY <2>1 DEF WindowInv, DownIsHeld
  <2>3. QED
    BY <2>1, <2>2 DEF Holds
<1>2. QED
  BY WindowInvariant, <1>1, PTL

----------------------------------------------------------------------------
(* The program. *)

(* Nothing was drawn and no time has passed before the start is over; what *)
(* is drawn afterwards is drawn by a renderer that was there before.       *)
ProgramInv ==
    /\ LoopInv /\ SnapshotsShow
    /\ scenario \in Scenarios
    /\ step = "start" => elapsed = 0
    /\ UnitsDrawn

USE ScenarioAssumption

(* The invariant holds of a program that begins. *)
LEMMA InitProgram == SandboxInit => ProgramInv
<1> SUFFICES ASSUME SandboxInit PROVE ProgramInv
  OBVIOUS
<1>1. Init /\ elapsed = 0 /\ scenario \in Scenarios
  BY DEF SandboxInit, Init
<1>2. SnapshotsShow
  BY <1>1 DEF Init, SnapshotsShow
<1>3. UnitsDrawn
  BY <1>1 DEF UnitsDrawn, DrawnBetweenTicks
<1>4. QED
  BY <1>1, <1>2, <1>3, InitLoop DEF ProgramInv

(* A tick, a capture and the rest keep the snapshots and the world in      *)
(* step, whatever the tick does to the units.                              *)
LEMMA SnapshotsKept ==
  ASSUME LoopInv, SnapshotsShow,
         Tick \/ Capture \/ Consume \/ Draw \/ TickFails \/ Quit \/ \E d \in Nat : StartFrame(d)
  PROVE  SnapshotsShow'
<1>1. CASE Tick
  BY <1>1 DEF Tick, snapshots, SnapshotsShow
<1>2. CASE Capture
  <2>1. /\ pc = "capture" /\ pc' = "consume"
        /\ buffers' = [buffers EXCEPT ![previous.buffer] = world]
        /\ previous' = current
        /\ current' = [tick |-> tick, buffer |-> previous.buffer]
        /\ UNCHANGED <<world, last_world>>
    BY <1>2 DEF Capture, simulated
  <2>2. current'.buffer = previous.buffer /\ previous'.buffer = current.buffer
    BY <2>1
  <2>3. QED
    BY <2>1, <2>2 DEF SnapshotsShow
<1>3. CASE Consume \/ Draw \/ TickFails \/ Quit \/ \E d \in Nat : StartFrame(d)
  <2>1. /\ pc # "capture" /\ pc' # "capture"
        /\ UNCHANGED <<world, last_world, buffers, previous, current>>
    BY <1>3 DEF Consume, Draw, TickFails, Quit, StartFrame, simulated, snapshots, LoopInv,
                DebtExact
  <2>2. QED
    BY <2>1 DEF SnapshotsShow
<1>4. QED
  BY <1>1, <1>2, <1>3

(* What the program does to its loop is what the loop does by itself, or,  *)
(* without a renderer, a frame that draws nothing.                         *)
LoopStep ==
    Tick \/ Capture \/ Consume \/ Draw \/ TickFails \/ Quit \/ \E d \in Nat : StartFrame(d)

Undrawn ==
    /\ ~R!HasRenderer /\ pc = "tick" /\ ~Owed /\ pc' = "pump"
    /\ UNCHANGED <<clock, simulated, snapshots, shown, burst, live>>

(* What the program does to its loop, and when it may begin to draw. *)
LEMMA ProgramSteps ==
  ASSUME ProgramInv, [SandboxNext]_sandbox
  PROVE  /\ LoopStep \/ Undrawn \/ UNCHANGED loop
         /\ R!HasRenderer' => R!HasRenderer \/ step = "start"
         /\ step' = "start" => step = "start" /\ UNCHANGED loop
         /\ step = "start" => UNCHANGED loop
         /\ UNCHANGED scenario
<1> USE DEF host, run
<1>1. CASE UserActs
  BY <1>1 DEF UserActs, resources, R!HasRenderer
<1>2. CASE Succeeds \/ Fails
  BY <1>2 DEF Succeeds, Fails
<1>3. CASE Started \/ Poll \/ Pump \/ Show \/ Exit
  BY <1>3 DEF Started, Poll, Pump, Show, Exit, resources, R!HasRenderer
<1>4. CASE FrameStarts
  <2>1. PICK delta \in scenario.deltas : StartFrame(delta)
    BY <1>4 DEF FrameStarts
  <2>2. delta \in Nat
    BY DEF ProgramInv
  <2>3. QED
    BY <1>4, <2>1, <2>2 DEF FrameStarts, resources, R!HasRenderer, LoopStep
<1>5. CASE LoopEnds
  BY <1>5 DEF LoopEnds, R!TearDown, R!HasRenderer, LoopStep
<1>6. CASE Simulates
  BY <1>6 DEF Simulates, resources, R!HasRenderer, LoopStep
<1>7. CASE SimulationFails
  BY <1>7 DEF SimulationFails, R!TearDown, R!HasRenderer, LoopStep
<1>8. CASE Build
  BY <1>8 DEF Build, resources, R!HasRenderer, LoopStep, Undrawn
<1>9. CASE ShowLast
  BY <1>9 DEF ShowLast, R!TearDown, R!HasRenderer
<1>10. CASE Release
  BY <1>10 DEF Release, R!Release, R!HasRenderer
<1>11. CASE UNCHANGED sandbox
  BY <1>11 DEF sandbox, resources, R!HasRenderer
<1>12. QED
  BY <1>1, <1>2, <1>3, <1>4, <1>5, <1>6, <1>7, <1>8, <1>9, <1>10, <1>11 DEF SandboxNext, Program

(* Every step of the program keeps its invariant. *)
LEMMA ProgramKeeps == ProgramInv /\ [SandboxNext]_sandbox => ProgramInv'
<1> SUFFICES ASSUME ProgramInv, [SandboxNext]_sandbox PROVE ProgramInv'
  OBVIOUS
<1>1. /\ LoopStep \/ Undrawn \/ UNCHANGED loop
      /\ R!HasRenderer' => R!HasRenderer \/ step = "start"
      /\ step' = "start" => step = "start" /\ UNCHANGED loop
      /\ step = "start" => UNCHANGED loop
      /\ UNCHANGED scenario
  BY ProgramSteps
<1>2. LoopInv /\ SnapshotsShow /\ UnitsDrawn /\ (step = "start" => elapsed = 0)
  BY DEF ProgramInv
<1>3. CASE LoopStep
  <2>1. LoopInv'
    BY <1>2, <1>3, StartFrameLoop, TickLoop, CaptureLoop, ConsumeLoop, DrawLoop, StopLoop
    DEF LoopStep
  <2>2. SnapshotsShow'
    BY <1>2, <1>3, SnapshotsKept DEF LoopStep
  <2>3. step # "start"
    <3>1. LoopStep => ~UNCHANGED loop
      BY <1>2 DEF LoopStep, loop, Tick, Capture, Consume, Draw, TickFails, Quit, StartFrame
    <3>2. QED
      BY <1>1, <1>3, <3>1
  <2>4. pc' = "pump" => Draw
    BY <1>3 DEF LoopStep, Tick, Capture, Consume, TickFails, Quit, StartFrame
  <2>5. UnitsDrawn'
    <3>1. CASE Draw
      BY <1>2, <3>1, DrawShows DEF UnitsDrawn
    <3>2. CASE pc' # "pump"
      BY <3>2 DEF UnitsDrawn, DrawnBetweenTicks
    <3>3. QED
      BY <2>4, <3>1, <3>2
  <2>6. QED
    BY <1>1, <1>2, <2>1, <2>2, <2>3, <2>5 DEF ProgramInv
<1>4. CASE Undrawn
  <2>1. /\ pc = "tick" /\ ~Owed /\ pc' = "pump"
        /\ UNCHANGED <<accumulator, elapsed, cut, burst, tick, previous, current, presented,
                       world, last_world, buffers, live>>
    BY <1>4 DEF Undrawn, clock, simulated, snapshots, shown
  <2>2. TimeTypes' /\ DebtExact'
    BY <1>2, <2>1 DEF LoopInv, TimeTypes, DebtExact, Owed
  <2>3. WithinLimit' /\ SnapshotsConsecutive' /\ PresentedNotAhead'
    BY <1>2, <2>1 DEF LoopInv, WithinLimit, SnapshotsConsecutive, PresentedNotAhead, Alpha
  <2>4. SnapshotsShow'
    BY <1>2, <2>1 DEF SnapshotsShow
  <2>5. ~R!HasRenderer'
    BY <1>4 DEF Undrawn, R!HasRenderer
  <2>6. elapsed' = 0 \/ step' # "start"
    BY <1>1, <1>2, <2>1
  <2>7. QED
    BY <1>1, <1>2, <2>2, <2>3, <2>4, <2>5, <2>6 DEF ProgramInv, LoopInv, UnitsDrawn
<1>5. CASE UNCHANGED loop
  <2>1. UNCHANGED <<accumulator, elapsed, cut, burst, tick, previous, current, presented, pc,
                    world, last_world, buffers, drawn>>
    BY <1>5 DEF loop, clock, simulated, snapshots, shown
  <2>2. LoopInv'
    BY <1>2, <2>1 DEF LoopInv, TimeTypes, DebtExact, WithinLimit, SnapshotsConsecutive,
                      PresentedNotAhead, Owed, Alpha
  <2>3. SnapshotsShow'
    BY <1>2, <2>1 DEF SnapshotsShow
  <2>4. UnitsDrawn'
    BY <1>1, <1>2, <2>1 DEF UnitsDrawn, DrawnBetweenTicks
  <2>5. QED
    BY <1>1, <1>2, <2>1, <2>2, <2>3, <2>4 DEF ProgramInv
<1>6. QED
  BY <1>1, <1>3, <1>4, <1>5

(* The invariant holds of the program from its start to its end. *)
THEOREM ProgramInvariant == SandboxSpec => []ProgramInv
<1>1. QED
  BY InitProgram, ProgramKeeps, PTL DEF SandboxSpec

(* What the sandbox draws while it has a renderer is each unit of the      *)
(* world, between its places at the last two ticks, across catch-up        *)
(* bursts, failed starts and the way out (present_build_draw_items).       *)
THEOREM UnitsAreDrawn == SandboxSpec => []UnitsDrawn
<1>1. ProgramInv => UnitsDrawn
  BY DEF ProgramInv
<1>2. QED
  BY <1>1, ProgramInvariant, PTL

(* In the program no time is lost either, whatever fails and ends it.      *)
THEOREM ProgramAccountsTime == SandboxSpec => []TimeAccounted
<1>1. ProgramInv => TimeAccounted
  BY DEF ProgramInv, LoopInv, DebtExact, WithinLimit, TimeAccounted
<1>2. QED
  BY <1>1, ProgramInvariant, PTL

(* Nor does the time on its screen go back. *)
THEOREM ProgramPresentsForward == SandboxSpec => PresentedTimeMonotone
<1>1. ASSUME ProgramInv, [SandboxNext]_sandbox PROVE [presented' >= presented]_vars
  <2>1. LoopStep \/ Undrawn \/ UNCHANGED loop
    BY <1>1, ProgramSteps
  <2>2. LoopInv
    BY <1>1 DEF ProgramInv
  <2>3. CASE Draw
    BY <2>2, <2>3, DrawPresents DEF LoopInv, TimeTypes
  <2>4. CASE UNCHANGED presented
    BY <2>2, <2>4 DEF LoopInv, TimeTypes
  <2>5. QED
    BY <2>1, <2>3, <2>4 DEF LoopStep, Undrawn, loop, StartFrame, Quit, Tick, TickFails,
                           Capture, Consume, shown
<1>2. QED
  BY <1>1, ProgramInvariant, PTL DEF SandboxSpec, PresentedTimeMonotone

----------------------------------------------------------------------------
(* The resources. *)

ArenasOfFrames == {"frame_arena_0", "frame_arena_1"}
Core  == {"window", "struct", "arena", "instance"} \union ArenasOfFrames
Ready == Core \union {"surface", "device"}
Own   == {"window", "world_arena", "present_arena"}

OfRenderer == R!OfDevice \union Ready \union {"messenger"}
AssetThings ==
    {"mesh", "persistent", "level", "global", "io", "registry", "material"}
Resources  == OfRenderer \union Own \union AssetThings

(* The parts of the start, up to the instance, the swapchain and the       *)
(* assets, and what comes after them.                                      *)
Early  == {"window", "loader", "struct", "functions", "arena", "frame_arena_0",
           "frame_arena_1", "tables", "instance"}
Middle == {"messenger", "surface", "physical_device", "device", "cmd_pool", "sync",
           "layouts", "pipeline_layouts", "desc_pool", "sampler", "frame_buffers_0",
           "frame_buffers_1", "pipeline_cache", "swapchain", "pipelines"}
Assets == {"mesh", "persistent", "level", "global", "io", "registry", "texture", "material"}
Final  == {"world_arena", "world", "present_arena", "present", "up"}

(* What a step of the start finds, as far as later steps need it. *)
Found(s) ==
    CASE s = "window" -> {}
      [] s \in {"loader", "struct"} -> {"window"}
      [] s \in {"functions", "arena"} -> {"window", "struct"}
      [] s = "frame_arena_0" -> {"window", "struct", "arena"}
      [] s = "frame_arena_1" -> {"window", "struct", "arena", "frame_arena_0"}
      [] s \in {"tables", "instance"} -> Core \ {"instance"}
      [] s \in {"messenger", "surface"} -> Core
      [] s \in {"physical_device", "device"} -> Core \union {"surface"}
      [] s = "level" -> Ready \union {"persistent"}
      [] s = "global" -> Ready \union {"persistent", "level"}
      [] s = "io" -> Ready \union {"persistent", "level", "global"}
      [] s = "registry" -> Ready \union {"persistent", "level", "global", "io"}
      [] OTHER -> Ready

Named(order) == {order[i] : i \in DOMAIN order}

(* What is named in the plan and needed by what is live comes after it.    *)
Planned ==
    \A r \in live \ R!Leaked, j \in DOMAIN plan :
        plan[j] \in R!Needs(r) => \E i \in 1 .. j - 1 : plan[i] = r

(* The way to the first frame: nothing has been planned yet. *)
Starting ==
    /\ stage \in Early \union Middle \union Assets \union Final \union {"exit"}
    /\ stage \in Early => live = Found(stage)
    /\ stage \in Middle => live \subseteq OfRenderer
    /\ stage \in Early \union Middle \union Assets =>
            Found(stage) \subseteq live /\ plan = << >> /\ "instance" \notin failed

(* With the renderer up, or given back but for what it forgets; the way    *)
(* out names all there is.                                                 *)
Ending ==
    /\ stage \in Final =>
          \/ "struct" \in live /\ plan = << >> /\ "instance" \notin failed
          \/ /\ live \subseteq Named(plan) \union Own \union R!Leaked
             /\ Named(plan) \intersect Own = {}
    /\ stage \in Final \ {"world_arena"} => R!Unreleased = {}
    /\ stage = "exit" => live \subseteq Named(plan) \union R!Leaked
    /\ "instance" \in failed => ArenasOfFrames \subseteq live \ Named(plan)

(* The inductive invariant. *)
ResourceInv ==
    /\ live \subseteq Resources
    /\ DOMAIN plan = 1 .. Len(plan) /\ Len(plan) \in Nat
    /\ Starting /\ Ending /\ Planned
    /\ R!NothingDangles

(* The names in the sequences. *)
LEMMA NamesIn ==
    /\ R!ToSet(R!FrameArenas) = ArenasOfFrames
    /\ R!ToSet(R!AssetArenas) = {"io", "global", "level", "persistent"}
    /\ R!ToSet(R!WorldStages) = {"world_arena", "world", "present_arena", "present"}
    /\ R!ToSet(R!FrameBuffers) = {"frame_buffers_0", "frame_buffers_1"}
<1>1. R!ToSet(R!FrameArenas) = ArenasOfFrames
  BY DEF R!ToSet, R!FrameArenas, ArenasOfFrames
<1>2. R!ToSet(R!AssetArenas) = {"io", "global", "level", "persistent"}
  BY DEF R!ToSet, R!AssetArenas
<1>3. R!ToSet(R!WorldStages) = {"world_arena", "world", "present_arena", "present"}
  BY DEF R!ToSet, R!WorldStages
<1>4. R!ToSet(R!FrameBuffers) = {"frame_buffers_0", "frame_buffers_1"}
  BY DEF R!ToSet, R!FrameBuffers
<1>5. QED
  BY <1>1, <1>2, <1>3, <1>4

(* What is made of the device. *)
LEMMA RendererObjects ==
    R!OfDevice =
        {"objects", "pipelines", "pipeline_cache", "sampler", "desc_pool",
         "pipeline_layouts", "layouts", "swapchain", "sync", "cmd_pool",
         "frame_buffers_0", "frame_buffers_1"}
BY NamesIn DEF R!OfDevice

(* The first numbers, one by one. *)
LEMMA UpTo37 ==
    \A i \in 1 .. 37 :
        i \in {1, 2, 3, 4, 5, 6, 7, 8, 9, 10, 11, 12, 13, 14, 15, 16,
              17, 18, 19, 20, 21, 22, 23, 24, 25, 26, 27, 28, 29, 30,
              31, 32, 33, 34, 35, 36, 37}
OBVIOUS

(* The steps of the start. *)
LEMMA StageOrder ==
    /\ DOMAIN R!Stages = 1 .. 37
    /\ R!Stages[1] = "window" /\ R!Stages[2] = "loader"
    /\ R!Stages[3] = "struct" /\ R!Stages[4] = "functions"
    /\ R!Stages[5] = "arena" /\ R!Stages[6] = "frame_arena_0"
    /\ R!Stages[7] = "frame_arena_1" /\ R!Stages[8] = "tables"
    /\ R!Stages[9] = "instance" /\ R!Stages[10] = "messenger"
    /\ R!Stages[11] = "surface" /\ R!Stages[12] = "physical_device"
    /\ R!Stages[13] = "device" /\ R!Stages[14] = "cmd_pool"
    /\ R!Stages[15] = "sync" /\ R!Stages[16] = "layouts"
    /\ R!Stages[17] = "pipeline_layouts" /\ R!Stages[18] = "desc_pool"
    /\ R!Stages[19] = "sampler" /\ R!Stages[20] = "frame_buffers_0"
    /\ R!Stages[21] = "frame_buffers_1" /\ R!Stages[22] = "pipeline_cache"
    /\ R!Stages[23] = "swapchain" /\ R!Stages[24] = "pipelines"
    /\ R!Stages[25] = "mesh" /\ R!Stages[26] = "persistent"
    /\ R!Stages[27] = "level" /\ R!Stages[28] = "global"
    /\ R!Stages[29] = "io" /\ R!Stages[30] = "registry"
    /\ R!Stages[31] = "texture" /\ R!Stages[32] = "material"
    /\ R!Stages[33] = "world_arena" /\ R!Stages[34] = "world"
    /\ R!Stages[35] = "present_arena" /\ R!Stages[36] = "present"
    /\ R!Stages[37] = "up"
BY DEF R!Stages, R!WorldStages, R!AssetStages, R!RendererStages, R!InstanceStages,
       R!FrameArenas, R!DeviceStages, R!LayoutStages, R!FrameBuffers, R!SurfaceStages

(* The parts of the start are those of the code. *)
LEMMA StageSets ==
    /\ R!ToSet(R!RendererStages) = (Early \ {"window"}) \union Middle
    /\ R!ToSet(R!AssetStages) = Assets
<1>1. R!ToSet(R!AssetStages) = Assets
  BY DEF R!ToSet, R!AssetStages, Assets
<1>2. /\ DOMAIN R!RendererStages = 1 .. 23
      /\ R!RendererStages[1] = "loader" /\ R!RendererStages[2] = "struct"
      /\ R!RendererStages[3] = "functions" /\ R!RendererStages[4] = "arena"
      /\ R!RendererStages[5] = "frame_arena_0" /\ R!RendererStages[6] = "frame_arena_1"
      /\ R!RendererStages[7] = "tables" /\ R!RendererStages[8] = "instance"
      /\ R!RendererStages[9] = "messenger" /\ R!RendererStages[10] = "surface"
      /\ R!RendererStages[11] = "physical_device" /\ R!RendererStages[12] = "device"
      /\ R!RendererStages[13] = "cmd_pool" /\ R!RendererStages[14] = "sync"
      /\ R!RendererStages[15] = "layouts" /\ R!RendererStages[16] = "pipeline_layouts"
      /\ R!RendererStages[17] = "desc_pool" /\ R!RendererStages[18] = "sampler"
      /\ R!RendererStages[19] = "frame_buffers_0" /\ R!RendererStages[20] = "frame_buffers_1"
      /\ R!RendererStages[21] = "pipeline_cache" /\ R!RendererStages[22] = "swapchain"
      /\ R!RendererStages[23] = "pipelines"
  BY DEF R!RendererStages, R!InstanceStages, R!FrameArenas, R!DeviceStages,
         R!LayoutStages, R!FrameBuffers, R!SurfaceStages
<1>3. \A i \in 1 .. 23 : R!RendererStages[i] \in (Early \ {"window"}) \union Middle
  BY <1>2, UpTo37 DEF Early, Middle
<1>4. \A s \in (Early \ {"window"}) \union Middle : \E i \in 1 .. 23 : R!RendererStages[i] = s
  BY <1>2 DEF Early, Middle
<1>5. R!ToSet(R!RendererStages) = (Early \ {"window"}) \union Middle
  BY <1>2, <1>3, <1>4 DEF R!ToSet
<1>6. QED
  BY <1>1, <1>5

(* Every step is there once, so the next one is well defined. *)
LEMMA StagesDiffer ==
  \A i, j \in 1 .. 37 : R!Stages[i] = R!Stages[j] => i = j
<1>1. /\ \A i \in 1 .. 37 : R!Stages[i] = "window" => i = 1
      /\ \A i \in 1 .. 37 : R!Stages[i] = "loader" => i = 2
      /\ \A i \in 1 .. 37 : R!Stages[i] = "struct" => i = 3
      /\ \A i \in 1 .. 37 : R!Stages[i] = "functions" => i = 4
      /\ \A i \in 1 .. 37 : R!Stages[i] = "arena" => i = 5
      /\ \A i \in 1 .. 37 : R!Stages[i] = "frame_arena_0" => i = 6
      /\ \A i \in 1 .. 37 : R!Stages[i] = "frame_arena_1" => i = 7
      /\ \A i \in 1 .. 37 : R!Stages[i] = "tables" => i = 8
      /\ \A i \in 1 .. 37 : R!Stages[i] = "instance" => i = 9
      /\ \A i \in 1 .. 37 : R!Stages[i] = "messenger" => i = 10
      /\ \A i \in 1 .. 37 : R!Stages[i] = "surface" => i = 11
      /\ \A i \in 1 .. 37 : R!Stages[i] = "physical_device" => i = 12
      /\ \A i \in 1 .. 37 : R!Stages[i] = "device" => i = 13
      /\ \A i \in 1 .. 37 : R!Stages[i] = "cmd_pool" => i = 14
      /\ \A i \in 1 .. 37 : R!Stages[i] = "sync" => i = 15
      /\ \A i \in 1 .. 37 : R!Stages[i] = "layouts" => i = 16
      /\ \A i \in 1 .. 37 : R!Stages[i] = "pipeline_layouts" => i = 17
      /\ \A i \in 1 .. 37 : R!Stages[i] = "desc_pool" => i = 18
      /\ \A i \in 1 .. 37 : R!Stages[i] = "sampler" => i = 19
      /\ \A i \in 1 .. 37 : R!Stages[i] = "frame_buffers_0" => i = 20
      /\ \A i \in 1 .. 37 : R!Stages[i] = "frame_buffers_1" => i = 21
      /\ \A i \in 1 .. 37 : R!Stages[i] = "pipeline_cache" => i = 22
      /\ \A i \in 1 .. 37 : R!Stages[i] = "swapchain" => i = 23
      /\ \A i \in 1 .. 37 : R!Stages[i] = "pipelines" => i = 24
      /\ \A i \in 1 .. 37 : R!Stages[i] = "mesh" => i = 25
      /\ \A i \in 1 .. 37 : R!Stages[i] = "persistent" => i = 26
      /\ \A i \in 1 .. 37 : R!Stages[i] = "level" => i = 27
      /\ \A i \in 1 .. 37 : R!Stages[i] = "global" => i = 28
      /\ \A i \in 1 .. 37 : R!Stages[i] = "io" => i = 29
      /\ \A i \in 1 .. 37 : R!Stages[i] = "registry" => i = 30
      /\ \A i \in 1 .. 37 : R!Stages[i] = "texture" => i = 31
      /\ \A i \in 1 .. 37 : R!Stages[i] = "material" => i = 32
      /\ \A i \in 1 .. 37 : R!Stages[i] = "world_arena" => i = 33
      /\ \A i \in 1 .. 37 : R!Stages[i] = "world" => i = 34
      /\ \A i \in 1 .. 37 : R!Stages[i] = "present_arena" => i = 35
      /\ \A i \in 1 .. 37 : R!Stages[i] = "present" => i = 36
      /\ \A i \in 1 .. 37 : R!Stages[i] = "up" => i = 37
  BY StageOrder, UpTo37
<1>2. QED
  BY <1>1, StageOrder, UpTo37

(* The step after each. *)
LEMMA NextStage ==
    /\ R!After("window") = "loader"
    /\ R!After("loader") = "struct"
    /\ R!After("struct") = "functions"
    /\ R!After("functions") = "arena"
    /\ R!After("arena") = "frame_arena_0"
    /\ R!After("frame_arena_0") = "frame_arena_1"
    /\ R!After("frame_arena_1") = "tables"
    /\ R!After("tables") = "instance"
    /\ R!After("instance") = "messenger"
    /\ R!After("messenger") = "surface"
    /\ R!After("surface") = "physical_device"
    /\ R!After("physical_device") = "device"
    /\ R!After("device") = "cmd_pool"
    /\ R!After("cmd_pool") = "sync"
    /\ R!After("sync") = "layouts"
    /\ R!After("layouts") = "pipeline_layouts"
    /\ R!After("pipeline_layouts") = "desc_pool"
    /\ R!After("desc_pool") = "sampler"
    /\ R!After("sampler") = "frame_buffers_0"
    /\ R!After("frame_buffers_0") = "frame_buffers_1"
    /\ R!After("frame_buffers_1") = "pipeline_cache"
    /\ R!After("pipeline_cache") = "swapchain"
    /\ R!After("swapchain") = "pipelines"
    /\ R!After("pipelines") = "mesh"
    /\ R!After("mesh") = "persistent"
    /\ R!After("persistent") = "level"
    /\ R!After("level") = "global"
    /\ R!After("global") = "io"
    /\ R!After("io") = "registry"
    /\ R!After("registry") = "texture"
    /\ R!After("texture") = "material"
    /\ R!After("material") = "world_arena"
    /\ R!After("world_arena") = "world"
    /\ R!After("world") = "present_arena"
    /\ R!After("present_arena") = "present"
    /\ R!After("present") = "up"
<1>1. ASSUME NEW i \in 1 .. 36 PROVE R!After(R!Stages[i]) = R!Stages[i + 1]
  <2>1. DOMAIN R!Stages = 1 .. 37
    BY StageOrder
  <2>2. \A j \in DOMAIN R!Stages : R!Stages[j] = R!Stages[i] => j = i
    BY <2>1, StagesDiffer
  <2>3. QED
    BY <2>1, <2>2 DEF R!After
<1>2. QED
  BY <1>1, StageOrder

----------------------------------------------------------------------------
(* The orders of release. *)

(* How deep a resource lies: what it needs lies deeper. *)
Depth(r) ==
    CASE r \in {"mesh", "material", "registry"} -> 0
      [] r \in R!OfDevice -> 1
      [] r = "device" -> 2
      [] r \in {"surface", "messenger"} -> 3
      [] r = "instance" -> 4
      [] r = "arena" \/ r \in ArenasOfFrames -> 5
      [] r = "struct" -> 6
      [] r \in {"io", "global", "level", "persistent"} -> 7
      [] OTHER -> 8

(* The arenas of the world and its presentation need nothing and are       *)
(* needed by nothing: their place does not matter.                         *)
Apart == {"world_arena", "present_arena"}

(* An order of release in which nothing comes before what lies less deep.  *)
Descends(order) ==
    /\ DOMAIN order = 1 .. Len(order) /\ Len(order) \in Nat
    /\ \A i, j \in DOMAIN order :
            i <= j /\ order[i] \notin Apart /\ order[j] \notin Apart =>
                Depth(order[i]) <= Depth(order[j])

(* What a resource needs lies deeper than it does. *)
LEMMA NeedsLieDeeper ==
  ASSUME NEW r \in Resources, NEW n \in R!Needs(r)
  PROVE  /\ r \notin Apart /\ n \notin Apart
         /\ Depth(r) \in Nat /\ Depth(n) \in Nat /\ Depth(r) < Depth(n)
<1> USE NamesIn, RendererObjects DEF R!Needs, Depth, Apart, ArenasOfFrames
<1>1. CASE r \in R!OfDevice
  BY <1>1
<1>2. CASE r \notin R!OfDevice
  BY <1>2
<1>3. QED
  BY <1>1, <1>2

(* The window and the arenas of the world need nothing. *)
LEMMA NeedsNone == \A r \in Own : R!Needs(r) = {}
BY NamesIn, RendererObjects DEF R!Needs, Own, Apart, ArenasOfFrames

(* What is released in such an order and names all that needs something is *)
(* planned as it must be.                                                  *)
LEMMA DescentIsPlanned ==
  ASSUME NEW order, Descends(order),
         NEW r \in Resources, r \in Named(order) \/ R!Needs(r) = {},
         NEW j \in DOMAIN order, order[j] \in R!Needs(r)
  PROVE  \E i \in 1 .. j - 1 : order[i] = r
<1>1. PICK i \in DOMAIN order : order[i] = r
  BY DEF Named
<1>2. /\ Depth(r) \in Nat /\ Depth(order[j]) \in Nat /\ Depth(r) < Depth(order[j])
      /\ r \notin Apart /\ order[j] \notin Apart
  BY NeedsLieDeeper
<1>3. i \in Nat /\ j \in Nat /\ i >= 1
  BY DEF Descends
<1>4. ~(j <= i)
  BY <1>1, <1>2 DEF Descends
<1>5. QED
  BY <1>1, <1>3, <1>4

(* renderer_destroy, which gives back all of the renderer. *)
LEMMA RendererDestroyedDescends ==
  ASSUME R!HasRenderer
  PROVE  /\ Descends(R!RendererDestroyed)
         /\ Named(R!RendererDestroyed) = OfRenderer \ {"window"}
<1>1. /\ DOMAIN R!RendererDestroyed = 1 .. 20
      /\ R!RendererDestroyed[1] = "objects" /\ R!RendererDestroyed[2] = "pipelines"
      /\ R!RendererDestroyed[3] = "pipeline_cache" /\ R!RendererDestroyed[4] = "frame_buffers_0"
      /\ R!RendererDestroyed[5] = "frame_buffers_1" /\ R!RendererDestroyed[6] = "sampler"
      /\ R!RendererDestroyed[7] = "desc_pool" /\ R!RendererDestroyed[8] = "pipeline_layouts"
      /\ R!RendererDestroyed[9] = "layouts" /\ R!RendererDestroyed[10] = "swapchain"
      /\ R!RendererDestroyed[11] = "sync" /\ R!RendererDestroyed[12] = "cmd_pool"
      /\ R!RendererDestroyed[13] = "device" /\ R!RendererDestroyed[14] = "surface"
      /\ R!RendererDestroyed[15] = "messenger" /\ R!RendererDestroyed[16] = "instance"
      /\ R!RendererDestroyed[17] = "arena" /\ R!RendererDestroyed[18] = "frame_arena_0"
      /\ R!RendererDestroyed[19] = "frame_arena_1" /\ R!RendererDestroyed[20] = "struct"
      /\ Len(R!RendererDestroyed) = 20
  BY DEF R!RendererDestroyed, R!FrameBuffers, R!FrameArenas
<1>2. \A i \in 1 .. 20 :
        Depth(R!RendererDestroyed[i]) =
            IF i <= 12 THEN 1 ELSE IF i <= 13 THEN 2 ELSE IF i <= 15 THEN 3
            ELSE IF i <= 16 THEN 4 ELSE IF i <= 19 THEN 5 ELSE 6
  BY <1>1, UpTo37, RendererObjects DEF Depth, ArenasOfFrames
<1>3. Descends(R!RendererDestroyed)
  BY <1>1, <1>2 DEF Descends
<1>4. \A i \in 1 .. 20 : R!RendererDestroyed[i] \in OfRenderer \ {"window"}
  BY <1>1, UpTo37, RendererObjects DEF Resources, OfRenderer, Ready, Core, Own,
     AssetThings, ArenasOfFrames
<1>5. \A r \in OfRenderer \ {"window"} : \E i \in 1 .. 20 : R!RendererDestroyed[i] = r
  BY <1>1, RendererObjects DEF Resources, OfRenderer, Ready, Core, Own, AssetThings,
     ArenasOfFrames
<1>6. QED
  BY <1>1, <1>3, <1>4, <1>5 DEF Named

(* The end of main, which gives back all there is. *)
LEMMA TornDownDescends ==
  ASSUME R!HasRenderer
  PROVE  /\ Descends(R!TornDown)
         /\ Named(R!TornDown) = Resources
<1>1. /\ DOMAIN R!TornDown = 1 .. 30
      /\ R!TornDown[1] = "material" /\ R!TornDown[2] = "registry"
      /\ R!TornDown[3] = "mesh" /\ R!TornDown[4] = "objects"
      /\ R!TornDown[5] = "pipelines" /\ R!TornDown[6] = "pipeline_cache"
      /\ R!TornDown[7] = "frame_buffers_0" /\ R!TornDown[8] = "frame_buffers_1"
      /\ R!TornDown[9] = "sampler" /\ R!TornDown[10] = "desc_pool"
      /\ R!TornDown[11] = "pipeline_layouts" /\ R!TornDown[12] = "layouts"
      /\ R!TornDown[13] = "swapchain" /\ R!TornDown[14] = "sync"
      /\ R!TornDown[15] = "cmd_pool" /\ R!TornDown[16] = "device"
      /\ R!TornDown[17] = "surface" /\ R!TornDown[18] = "messenger"
      /\ R!TornDown[19] = "instance" /\ R!TornDown[20] = "arena"
      /\ R!TornDown[21] = "frame_arena_0" /\ R!TornDown[22] = "frame_arena_1"
      /\ R!TornDown[23] = "struct" /\ R!TornDown[24] = "io"
      /\ R!TornDown[25] = "global" /\ R!TornDown[26] = "level"
      /\ R!TornDown[27] = "persistent" /\ R!TornDown[28] = "present_arena"
      /\ R!TornDown[29] = "world_arena" /\ R!TornDown[30] = "window"
      /\ Len(R!TornDown) = 30
  BY DEF R!TornDown, R!Unloaded, R!AssetArenas, R!RendererDestroyed, R!FrameBuffers,
     R!FrameArenas
<1>2. \A i \in 1 .. 30 :
        Depth(R!TornDown[i]) =
            IF i <= 3 THEN 0 ELSE IF i <= 15 THEN 1 ELSE IF i <= 16 THEN 2
            ELSE IF i <= 18 THEN 3 ELSE IF i <= 19 THEN 4 ELSE IF i <= 22 THEN 5
            ELSE IF i <= 23 THEN 6 ELSE IF i <= 27 THEN 7 ELSE 8
  BY <1>1, UpTo37, RendererObjects DEF Depth, ArenasOfFrames
<1>3. Descends(R!TornDown)
  BY <1>1, <1>2 DEF Descends
<1>4. \A i \in 1 .. 30 : R!TornDown[i] \in Resources
  BY <1>1, UpTo37, RendererObjects DEF Resources, OfRenderer, Ready, Core, Own,
     AssetThings, ArenasOfFrames
<1>5. \A r \in Resources : \E i \in 1 .. 30 : R!TornDown[i] = r
  BY <1>1, RendererObjects DEF Resources, OfRenderer, Ready, Core, Own, AssetThings,
     ArenasOfFrames
<1>6. QED
  BY <1>1, <1>3, <1>4, <1>5 DEF Named

(* The end of main without a renderer. *)
LEMMA TornDownEarlyDescends ==
  ASSUME ~R!HasRenderer
  PROVE  /\ Descends(R!TornDown)
         /\ Named(R!TornDown) = Own \union AssetThings
<1>1. /\ DOMAIN R!TornDown = 1 .. 10
      /\ R!TornDown[1] = "material" /\ R!TornDown[2] = "registry"
      /\ R!TornDown[3] = "mesh" /\ R!TornDown[4] = "io"
      /\ R!TornDown[5] = "global" /\ R!TornDown[6] = "level"
      /\ R!TornDown[7] = "persistent" /\ R!TornDown[8] = "present_arena"
      /\ R!TornDown[9] = "world_arena" /\ R!TornDown[10] = "window"
      /\ Len(R!TornDown) = 10
  BY DEF R!TornDown, R!Unloaded, R!AssetArenas, R!RendererDestroyed, R!FrameBuffers,
     R!FrameArenas
<1>2. \A i \in 1 .. 10 :
        Depth(R!TornDown[i]) =
            IF i <= 3 THEN 0 ELSE IF i <= 7 THEN 7 ELSE 8
  BY <1>1, UpTo37, RendererObjects DEF Depth, ArenasOfFrames
<1>3. Descends(R!TornDown)
  BY <1>1, <1>2 DEF Descends
<1>4. \A i \in 1 .. 10 : R!TornDown[i] \in Own \union AssetThings
  BY <1>1, UpTo37, RendererObjects DEF Resources, OfRenderer, Ready, Core, Own,
     AssetThings, ArenasOfFrames
<1>5. \A r \in Own \union AssetThings : \E i \in 1 .. 10 : R!TornDown[i] = r
  BY <1>1, RendererObjects DEF Resources, OfRenderer, Ready, Core, Own, AssetThings,
     ArenasOfFrames
<1>6. QED
  BY <1>1, <1>3, <1>4, <1>5 DEF Named

(* The end of main when the simulation cannot be set up. *)
LEMMA GivenUpDescends ==
  ASSUME R!HasRenderer
  PROVE  /\ Descends(R!GivenUp)
         /\ Named(R!GivenUp) = Resources
<1>1. /\ DOMAIN R!GivenUp = 1 .. 30
      /\ R!GivenUp[1] = "present_arena" /\ R!GivenUp[2] = "world_arena"
      /\ R!GivenUp[3] = "material" /\ R!GivenUp[4] = "registry"
      /\ R!GivenUp[5] = "mesh" /\ R!GivenUp[6] = "objects"
      /\ R!GivenUp[7] = "pipelines" /\ R!GivenUp[8] = "pipeline_cache"
      /\ R!GivenUp[9] = "frame_buffers_0" /\ R!GivenUp[10] = "frame_buffers_1"
      /\ R!GivenUp[11] = "sampler" /\ R!GivenUp[12] = "desc_pool"
      /\ R!GivenUp[13] = "pipeline_layouts" /\ R!GivenUp[14] = "layouts"
      /\ R!GivenUp[15] = "swapchain" /\ R!GivenUp[16] = "sync"
      /\ R!GivenUp[17] = "cmd_pool" /\ R!GivenUp[18] = "device"
      /\ R!GivenUp[19] = "surface" /\ R!GivenUp[20] = "messenger"
      /\ R!GivenUp[21] = "instance" /\ R!GivenUp[22] = "arena"
      /\ R!GivenUp[23] = "frame_arena_0" /\ R!GivenUp[24] = "frame_arena_1"
      /\ R!GivenUp[25] = "struct" /\ R!GivenUp[26] = "io"
      /\ R!GivenUp[27] = "global" /\ R!GivenUp[28] = "level"
      /\ R!GivenUp[29] = "persistent" /\ R!GivenUp[30] = "window"
      /\ Len(R!GivenUp) = 30
  BY DEF R!GivenUp, R!Unloaded, R!AssetArenas, R!RendererDestroyed, R!FrameBuffers,
     R!FrameArenas
<1>2. /\ \A i \in 1 .. 2 : R!GivenUp[i] \in Apart
      /\ \A i \in 3 .. 30 :
            Depth(R!GivenUp[i]) =
                IF i <= 5 THEN 0 ELSE IF i <= 17 THEN 1 ELSE IF i <= 18 THEN 2
                ELSE IF i <= 20 THEN 3 ELSE IF i <= 21 THEN 4 ELSE IF i <= 24 THEN 5
                ELSE IF i <= 25 THEN 6 ELSE IF i <= 29 THEN 7 ELSE 8
  BY <1>1, UpTo37, RendererObjects DEF Depth, ArenasOfFrames, Apart
<1>3. Descends(R!GivenUp)
  BY <1>1, <1>2 DEF Descends
<1>4. \A i \in 1 .. 30 : R!GivenUp[i] \in Resources
  BY <1>1, UpTo37, RendererObjects DEF Resources, OfRenderer, Ready, Core, Own,
     AssetThings, ArenasOfFrames
<1>5. \A r \in Resources : \E i \in 1 .. 30 : R!GivenUp[i] = r
  BY <1>1, RendererObjects DEF Resources, OfRenderer, Ready, Core, Own, AssetThings,
     ArenasOfFrames
<1>6. QED
  BY <1>1, <1>3, <1>4, <1>5 DEF Named

(* The same without a renderer. *)
LEMMA GivenUpEarlyDescends ==
  ASSUME ~R!HasRenderer
  PROVE  /\ Descends(R!GivenUp)
         /\ Named(R!GivenUp) = Own \union AssetThings
<1>1. /\ DOMAIN R!GivenUp = 1 .. 10
      /\ R!GivenUp[1] = "present_arena" /\ R!GivenUp[2] = "world_arena"
      /\ R!GivenUp[3] = "material" /\ R!GivenUp[4] = "registry"
      /\ R!GivenUp[5] = "mesh" /\ R!GivenUp[6] = "io"
      /\ R!GivenUp[7] = "global" /\ R!GivenUp[8] = "level"
      /\ R!GivenUp[9] = "persistent" /\ R!GivenUp[10] = "window"
      /\ Len(R!GivenUp) = 10
  BY DEF R!GivenUp, R!Unloaded, R!AssetArenas, R!RendererDestroyed, R!FrameBuffers,
     R!FrameArenas
<1>2. /\ \A i \in 1 .. 2 : R!GivenUp[i] \in Apart
      /\ \A i \in 3 .. 10 :
            Depth(R!GivenUp[i]) =
                IF i <= 5 THEN 0 ELSE IF i <= 9 THEN 7 ELSE 8
  BY <1>1, UpTo37, RendererObjects DEF Depth, ArenasOfFrames, Apart
<1>3. Descends(R!GivenUp)
  BY <1>1, <1>2 DEF Descends
<1>4. \A i \in 1 .. 10 : R!GivenUp[i] \in Own \union AssetThings
  BY <1>1, UpTo37, RendererObjects DEF Resources, OfRenderer, Ready, Core, Own,
     AssetThings, ArenasOfFrames
<1>5. \A r \in Own \union AssetThings : \E i \in 1 .. 10 : R!GivenUp[i] = r
  BY <1>1, RendererObjects DEF Resources, OfRenderer, Ready, Core, Own, AssetThings,
     ArenasOfFrames
<1>6. QED
  BY <1>1, <1>3, <1>4, <1>5 DEF Named

----------------------------------------------------------------------------
(* The start. *)

(* The steps up to the instance: each acquires just what it is named for. *)
LEMMA NextEarly ==
  ASSUME NEW s \in Early
  PROVE  /\ R!After(s) \in Early \union {"messenger"}
         /\ Found(R!After(s)) = Found(s) \union (IF s \in R!Checks THEN {} ELSE {s})
         /\ s \in Resources \union R!Checks /\ s \notin R!Unchecked \union R!Partial
         /\ s \notin {"pipelines", "texture", "mesh", "material"}
<1> USE NextStage, NamesIn DEF Found, Core, ArenasOfFrames, R!Checks
<1>1. R!After(s) \in Early \union {"messenger"}
  BY DEF Early
<1>2. Found(R!After(s)) = Found(s) \union (IF s \in R!Checks THEN {} ELSE {s})
  BY DEF Early
<1>3. s \in Resources \union R!Checks /\ s \notin R!Unchecked \union R!Partial
  BY DEF Early, Resources, OfRenderer, Ready, AssetThings, R!Unchecked, R!Partial
<1>4. s \notin {"pipelines", "texture", "mesh", "material"}
  BY DEF Early
<1>5. QED
  BY <1>1, <1>2, <1>3, <1>4

(* The steps up to the pipelines: the surface and the device are relied on. *)
LEMMA NextMiddle ==
  ASSUME NEW s \in Middle
  PROVE  /\ R!After(s) \in Middle \union {"mesh"}
         /\ Found(R!After(s)) \subseteq Found(s) \union (IF s \in R!Checks THEN {} ELSE {s})
         /\ s \in R!Unchecked \union {"pipelines"} => Found(R!After(s)) \subseteq Found(s)
         /\ s \notin R!Checks => s \in OfRenderer
         /\ s \in Resources => s \in OfRenderer
         /\ s \notin {"texture", "mesh", "material"}
<1> USE NextStage, NamesIn, RendererObjects DEF Found, Core, Ready, ArenasOfFrames
<1>1. R!After(s) \in Middle \union {"mesh"}
  BY DEF Middle
<1>2. Found(R!After(s)) \subseteq Found(s) \union (IF s \in R!Checks THEN {} ELSE {s})
  BY DEF Middle, R!Checks
<1>3. s \in R!Unchecked \union {"pipelines"} => Found(R!After(s)) \subseteq Found(s)
  BY DEF Middle, R!Unchecked
<1>4. /\ s \notin R!Checks => s \in OfRenderer
      /\ s \in Resources => s \in OfRenderer
  BY DEF Middle, R!Checks, OfRenderer, Resources, Own, AssetThings
<1>5. s \notin {"texture", "mesh", "material"}
  BY DEF Middle
<1>6. QED
  BY <1>1, <1>2, <1>3, <1>4, <1>5

(* The steps of the assets: the registry relies on its arenas. *)
LEMMA NextAsset ==
  ASSUME NEW s \in Assets
  PROVE  /\ R!After(s) \in Assets \union {"world_arena"}
         /\ R!After(s) \in Assets =>
                Found(R!After(s)) \subseteq Found(s) \union {s}
         /\ s \in R!Unchecked \union {"texture"} /\ R!After(s) \in Assets =>
                Found(R!After(s)) \subseteq Found(s)
         /\ s # "texture" => s \in Resources
         /\ s \notin R!Checks \union R!Partial /\ s # "pipelines"
         /\ Ready \subseteq Found(s)
<1> USE NextStage, NamesIn DEF Found, Core, Ready, ArenasOfFrames
<1>1. R!After(s) \in Assets \union {"world_arena"}
  BY DEF Assets
<1>2. R!After(s) \in Assets => Found(R!After(s)) \subseteq Found(s) \union {s}
  BY DEF Assets
<1>3. s \in R!Unchecked \union {"texture"} /\ R!After(s) \in Assets =>
            Found(R!After(s)) \subseteq Found(s)
  BY DEF Assets, R!Unchecked
<1>4. s # "texture" => s \in Resources
  BY DEF Assets, Resources, AssetThings
<1>5. s \notin R!Checks \union R!Partial /\ s # "pipelines"
  BY DEF Assets, R!Checks, R!Partial
<1>6. Ready \subseteq Found(s)
  BY DEF Assets
<1>7. QED
  BY <1>1, <1>2, <1>3, <1>4, <1>5, <1>6

(* The steps after the assets acquire arenas of their own. *)
LEMMA NextFinal ==
  ASSUME NEW s \in Final \ {"up"}
  PROVE  /\ R!After(s) \in Final \ {"world_arena"}
         /\ s \notin R!Checks => s \in Own
         /\ s \notin R!Unchecked \union R!Partial \union Early \union Middle \union Assets
         /\ s \notin {"pipelines", "texture", "mesh", "material"}
BY NextStage, NamesIn DEF Final, R!Checks, Own, R!Unchecked, R!Partial, Early, Middle, Assets

(* Every step finds what its resources need. *)
LEMMA FoundIsEnough ==
  ASSUME NEW s \in Early \union Middle \union Assets,
         NEW r \in Resources, r = s \/ (s \in {"texture", "mesh", "material"} /\ r = "objects")
  PROVE  R!Needs(r) \subseteq
            Found(s) \union (IF r \in {"mesh", "material"} THEN {"objects"} ELSE {})
<1> USE NamesIn, RendererObjects DEF R!Needs, Found, Core, Ready, ArenasOfFrames
<1>1. CASE s \in Early
  BY <1>1 DEF Early
<1>2. CASE s \in Middle
  BY <1>2 DEF Middle
<1>3. CASE s \in Assets
  BY <1>3 DEF Assets, Resources, OfRenderer, Own, AssetThings
<1>4. QED
  BY <1>1, <1>2, <1>3

----------------------------------------------------------------------------
(* The steps. *)

(* No step is in two parts of the start. *)
LEMMA PartsDiffer ==
    /\ Early \intersect (Middle \union Assets \union Final \union {"exit"}) = {}
    /\ Middle \intersect (Assets \union Final \union {"exit"}) = {}
    /\ Assets \intersect (Final \union {"exit"}) = {}
    /\ "exit" \notin Final /\ "up" \in Final /\ "world_arena" \in Final
BY DEF Early, Middle, Assets, Final

(* Nothing has been acquired. *)
LEMMA InitResources == R!Init => ResourceInv
<1> SUFFICES ASSUME R!Init PROVE ResourceInv
  OBVIOUS
<1>1. stage = "window" /\ live = {} /\ plan = << >> /\ failed = {}
  BY DEF R!Init
<1>2. Starting
  BY <1>1, PartsDiffer DEF Starting, Found, Early
<1>3. Ending /\ Planned /\ R!NothingDangles
  BY <1>1 DEF Ending, Planned, R!NothingDangles, Final
<1>4. QED
  BY <1>1, <1>2, <1>3 DEF ResourceInv

(* What has been named and passed is not live. *)
LEMMA NothingLeft ==
  ASSUME R!Unreleased = {} PROVE live \intersect Named(plan) = {}
BY DEF R!Unreleased, Named

(* What is acquired has what it needs. *)
LEMMA AcquiredStands ==
  ASSUME R!NothingDangles, live \subseteq live', failed \subseteq failed',
         \A r \in live' \ live : R!Needs(r) \subseteq live'
  PROVE  R!NothingDangles'
<1>1. R!Leaked \subseteq R!Leaked'
  BY DEF R!Leaked
<1>2. QED
  BY <1>1 DEF R!NothingDangles, R!Needs, R!OfDevice, R!ToSet

(* The plan names all that needs something, in an order that descends. *)
LEMMA NamedIsPlanned ==
  ASSUME Descends(plan'), live' \subseteq Resources,
         \A r \in live' \ R!Leaked' : r \in Named(plan') \/ R!Needs(r) = {}
  PROVE  Planned' /\ DOMAIN plan' = 1 .. Len(plan') /\ Len(plan') \in Nat
<1>1. ASSUME NEW r \in live' \ R!Leaked', NEW j \in DOMAIN plan', plan'[j] \in R!Needs(r)
      PROVE  \E i \in 1 .. j - 1 : plan'[i] = r
  BY <1>1, DescentIsPlanned
<1>2. QED
  BY <1>1 DEF Planned, Descends, R!Needs, R!OfDevice, R!ToSet

(* An empty plan names nothing. *)
LEMMA NothingPlanned ==
  ASSUME plan' = << >>
  PROVE  Planned' /\ DOMAIN plan' = 1 .. Len(plan') /\ Len(plan') \in Nat /\ Named(plan') = {}
BY DEF Planned, Named

(* A step of the start that is done, or failed and passed over: it leaves  *)
(* got of what it acquires, and what later steps rely on.                  *)
LEMMA Advanced ==
  ASSUME ResourceInv, stage \in Early \union Middle \union Assets,
         NEW got \in SUBSET Resources,
         \A r \in got : r = stage \/ (stage \in {"texture", "mesh", "material"} /\ r = "objects"),
         got \intersect {"mesh", "material"} # {} => "objects" \in got,
         stage \in Early => got = IF stage \in R!Checks THEN {} ELSE {stage},
         \/ stage \in R!Checks \/ stage \in R!Unchecked
         \/ stage \in {"texture", "pipelines"} \/ stage \in got,
         live' = live \union got, stage' = R!After(stage), plan' = plan,
         failed' = failed \/ (failed' = failed \union {stage} /\ stage # "instance")
  PROVE  ResourceInv'
<1>1. /\ plan = << >> /\ plan' = << >> /\ "instance" \notin failed'
      /\ live' \subseteq Resources
  BY DEF ResourceInv, Starting
<1>2. Planned' /\ DOMAIN plan' = 1 .. Len(plan') /\ Len(plan') \in Nat
  BY <1>1, NothingPlanned
<1>3. R!NothingDangles'
  <2>1. ASSUME NEW r \in live' \ live PROVE R!Needs(r) \subseteq live'
    <3>1. r \in got /\ r \in Resources /\ Found(stage) \subseteq live
      BY <2>1 DEF ResourceInv, Starting
    <3>2. R!Needs(r) \subseteq
            Found(stage) \union (IF r \in {"mesh", "material"} THEN {"objects"} ELSE {})
      BY <3>1, FoundIsEnough
    <3>3. QED
      BY <3>1, <3>2
  <2>2. R!NothingDangles
    BY DEF ResourceInv
  <2>3. QED
    BY <2>1, <2>2, AcquiredStands
<1>4. Starting' /\ Ending'
  <2>1. CASE stage \in Early
    <3>1. /\ R!After(stage) \in Early \union {"messenger"}
          /\ Found(R!After(stage)) = Found(stage) \union got
      BY <2>1, NextEarly
    <3>2. live' = Found(stage')
      BY <2>1, <3>1 DEF ResourceInv, Starting
    <3>3. "messenger" \in Middle /\ Found("messenger") \subseteq OfRenderer
      BY DEF Middle, Found, OfRenderer, Ready
    <3>4. Starting'
      BY <1>1, <3>1, <3>2, <3>3, PartsDiffer DEF Starting
    <3>5. QED
      BY <1>1, <3>1, <3>3, <3>4, PartsDiffer DEF Ending
  <2>2. CASE stage \in Middle
    <3>1. /\ R!After(stage) \in Middle \union {"mesh"}
          /\ Found(R!After(stage)) \subseteq live'
          /\ got \subseteq OfRenderer
      <4>1. Found(stage) \subseteq live'
        BY DEF ResourceInv, Starting
      <4>2. stage \notin {"texture", "mesh", "material"}
        BY <2>2, NextMiddle
      <4>3. got \subseteq {stage} /\ got \subseteq OfRenderer
        BY <2>2, <4>2, NextMiddle
      <4>4. Found(R!After(stage)) \subseteq live'
        BY <2>2, <4>1, <4>2, NextMiddle
      <4>5. QED
        BY <2>2, <4>3, <4>4, NextMiddle
    <3>2. "mesh" \in Assets /\ live \subseteq OfRenderer
      BY <2>2 DEF Assets, ResourceInv, Starting
    <3>3. Starting'
      BY <1>1, <3>1, <3>2, PartsDiffer DEF Starting
    <3>4. QED
      BY <1>1, <3>1, <3>2, <3>3, PartsDiffer DEF Ending
  <2>3. CASE stage \in Assets
    <3>1. /\ R!After(stage) \in Assets \union {"world_arena"}
          /\ R!After(stage) \in Assets => Found(R!After(stage)) \subseteq live'
          /\ "struct" \in live'
      <4>1. Found(stage) \subseteq live' /\ stage \notin R!Checks /\ stage # "pipelines"
        BY <2>3, NextAsset DEF ResourceInv, Starting
      <4>2. "struct" \in live'
        BY <2>3, <4>1, NextAsset DEF Ready, Core
      <4>3. R!After(stage) \in Assets => Found(R!After(stage)) \subseteq live'
        BY <2>3, <4>1, NextAsset
      <4>4. QED
        BY <2>3, <4>2, <4>3, NextAsset
    <3>2. Starting'
      BY <1>1, <3>1, PartsDiffer DEF Starting
    <3>3. R!Unreleased' = {}
      BY <1>1 DEF R!Unreleased
    <3>4. QED
      BY <1>1, <3>1, <3>2, <3>3, PartsDiffer DEF Ending
  <2>4. QED
    BY <2>1, <2>2, <2>3
<1>5. QED
  BY <1>1, <1>2, <1>3, <1>4 DEF ResourceInv

(* A step that gives nothing up: it acquires what it can. *)
LEMMA SucceedsKeeps == ResourceInv /\ R!Succeeds => ResourceInv'
<1> SUFFICES ASSUME ResourceInv, R!Succeeds PROVE ResourceInv'
  OBVIOUS
<1> DEFINE got == R!Acquired(stage)
<1>1. /\ R!Unreleased = {} /\ stage \notin {"up", "exit"}
      /\ live' = live \union got /\ stage' = R!After(stage)
      /\ plan' = plan /\ failed' = failed
  BY DEF R!Succeeds, R!Underway
<1>2. stage \in Early \union Middle \union Assets \union Final
  BY <1>1 DEF ResourceInv, Starting
<1>3. CASE stage \in Early \union Middle \union Assets
  <2>1. /\ got \subseteq Resources
        /\ \A r \in got : r = stage \/ (stage \in {"texture", "mesh", "material"} /\ r = "objects")
        /\ got \intersect {"mesh", "material"} # {} => "objects" \in got
        /\ stage \in R!Checks \/ stage \in {"texture", "pipelines"} \/ stage \in got
    <3>1. "objects" \in Resources /\ (stage \in Resources \/ stage \in R!Checks \/ stage = "texture")
      BY <1>3, NextEarly, NextMiddle, NextAsset, RendererObjects DEF Resources, OfRenderer
    <3>2. CASE stage \in R!Checks \/ ~R!Wanted(stage)
      <4>1. got = {} /\ (stage \in R!Checks \/ stage = "pipelines")
        BY <3>2 DEF R!Acquired, R!Wanted
      <4>2. QED
        BY <4>1
    <3>3. CASE stage \notin R!Checks /\ R!Wanted(stage)
      <4>1. \/ stage = "texture" /\ got = {"objects"}
            \/ stage \in {"mesh", "material"} /\ got = {stage, "objects"}
            \/ stage \notin {"texture", "mesh", "material"} /\ got = {stage}
        BY <3>3 DEF R!Acquired
      <4> HIDE DEF got
      <4>2. CASE stage = "texture" /\ got = {"objects"}
        BY <3>1, <4>2
      <4>3. CASE stage \in {"mesh", "material"} /\ got = {stage, "objects"}
        BY <3>1, <3>3, <4>3
      <4>4. CASE stage \notin {"texture", "mesh", "material"} /\ got = {stage}
        BY <3>1, <3>3, <4>4
      <4>5. QED
        BY <4>1, <4>2, <4>3, <4>4
    <3>4. QED
      BY <3>2, <3>3
  <2>2. stage \in Early => got = IF stage \in R!Checks THEN {} ELSE {stage}
    BY NextEarly DEF R!Acquired, R!Wanted
  <2> HIDE DEF got
  <2>3. /\ got \in SUBSET Resources
        /\ \/ stage \in R!Checks \/ stage \in R!Unchecked
           \/ stage \in {"texture", "pipelines"} \/ stage \in got
        /\ failed' = failed \/ (failed' = failed \union {stage} /\ stage # "instance")
    BY <1>1, <2>1
  <2>4. QED
    BY <1>1, <1>3, <2>1, <2>2, <2>3, Advanced, ZenonT(30)
<1>4. CASE stage \in Final
  <2>1. /\ got \subseteq Own /\ got \subseteq Resources
        /\ stage' \in Final \ {"world_arena"}
    <3>1. stage \in Final \ {"up"} /\ stage \notin {"pipelines", "texture", "mesh", "material"}
      BY <1>1, <1>4, NextFinal
    <3>2. got \subseteq Own /\ stage' \in Final \ {"world_arena"}
      BY <1>1, <3>1, NextFinal DEF R!Acquired, R!Wanted
    <3>3. QED
      BY <3>2 DEF Resources
  <2> HIDE DEF got
  <2>2. R!Leaked' = R!Leaked /\ Named(plan') = Named(plan) /\ Named(plan) \intersect live = {}
    BY <1>1, NothingLeft DEF R!Leaked, Named
  <2>3. Starting'
    BY <2>1, PartsDiffer DEF Starting
  <2>4. /\ \/ "struct" \in live' /\ plan' = << >> /\ "instance" \notin failed'
           \/ /\ live' \subseteq Named(plan') \union Own \union R!Leaked'
              /\ Named(plan') \intersect Own = {}
        /\ Named(plan') \intersect live' = {}
    <3>1. CASE "struct" \in live /\ plan = << >> /\ "instance" \notin failed
      BY <1>1, <3>1, <2>1, NothingPlanned
    <3>2. CASE live \subseteq Named(plan) \union Own \union R!Leaked /\ Named(plan) \intersect Own = {}
      BY <1>1, <3>2, <2>1, <2>2
    <3>3. QED
      BY <1>4, <3>1, <3>2 DEF ResourceInv, Ending
  <2>5. R!Unreleased' = {}
    BY <2>4 DEF R!Unreleased, Named
  <2>6. Ending'
    <3>1. "instance" \in failed' => ArenasOfFrames \subseteq live' \ Named(plan')
      BY <1>1, <2>2 DEF ResourceInv, Ending
    <3>2. QED
      BY <2>1, <2>4, <2>5, <3>1, PartsDiffer DEF Ending
  <2>7. \A r \in live' \ live : R!Needs(r) = {}
    BY <1>1, <2>1, NeedsNone
  <2>8. Planned'
    <3>1. ASSUME NEW r \in live' \ R!Leaked', NEW j \in DOMAIN plan', plan'[j] \in R!Needs(r)
          PROVE  \E i \in 1 .. j - 1 : plan'[i] = r
      BY <1>1, <2>2, <2>7, <3>1 DEF ResourceInv, Planned
    <3>2. QED
      BY <3>1 DEF Planned, R!Needs, R!OfDevice, R!ToSet
  <2>9. R!NothingDangles'
    BY <1>1, <2>7, AcquiredStands DEF ResourceInv
  <2>10. QED
    BY <1>1, <2>1, <2>3, <2>6, <2>8, <2>9 DEF ResourceInv
<1>5. QED
  BY <1>2, <1>3, <1>4

(* The next to be released is live and named, and nothing live is named    *)
(* before it.                                                              *)
LEMMA NextReleased ==
  ASSUME ResourceInv, R!Unreleased # {}
  PROVE  \E m \in DOMAIN plan :
            /\ R!Releasing = plan[m] /\ plan[m] \in live
            /\ \A i \in 1 .. m - 1 : plan[i] \notin live
<1>1. R!Unreleased \subseteq Nat /\ DOMAIN plan = 1 .. Len(plan) /\ Len(plan) \in Nat
  BY DEF R!Unreleased, ResourceInv
<1> DEFINE Least(i) == i \in R!Unreleased /\ \A j \in R!Unreleased : i <= j
           m == CHOOSE i \in R!Unreleased : \A j \in R!Unreleased : i <= j
<1>2. \E i \in R!Unreleased : \A j \in R!Unreleased : i <= j
  BY <1>1, LeastElement
<1>3. m \in R!Unreleased /\ \A j \in R!Unreleased : m <= j
  BY <1>2
<1>4. R!Releasing = plan[m]
  BY DEF R!Releasing
<1> HIDE DEF m
<1>5. ASSUME NEW i \in 1 .. m - 1 PROVE plan[i] \notin live
  <2>1. m \in DOMAIN plan /\ i \in DOMAIN plan /\ ~(m <= i)
    BY <1>1, <1>3 DEF R!Unreleased
  <2>2. QED
    BY <1>3, <2>1 DEF R!Unreleased
<1>6. QED
  BY <1>3, <1>4, <1>5 DEF R!Unreleased

(* One resource is released. *)
LEMMA ReleaseKeeps == ResourceInv /\ R!Release => ResourceInv'
<1> SUFFICES ASSUME ResourceInv, R!Release PROVE ResourceInv'
  OBVIOUS
<1>1. /\ R!Unreleased # {} /\ live' = live \ {R!Releasing}
      /\ stage' = stage /\ plan' = plan /\ failed' = failed
  BY DEF R!Release
<1>2. PICK m \in DOMAIN plan :
            /\ R!Releasing = plan[m] /\ plan[m] \in live
            /\ \A i \in 1 .. m - 1 : plan[i] \notin live
  BY <1>1, NextReleased
<1>3. R!Leaked' = R!Leaked /\ Named(plan') = Named(plan) /\ R!Releasing \in Named(plan) /\ plan # << >>
  BY <1>1, <1>2 DEF R!Leaked, Named
<1>4. stage \in {"world_arena", "exit"}
  BY <1>1, <1>3 DEF ResourceInv, Starting, Ending
<1>5. Starting' /\ Ending'
  <2>1. Starting'
    BY <1>1, <1>4, PartsDiffer DEF ResourceInv, Starting
  <2>2. /\ stage \in Final =>
              live' \subseteq Named(plan) \union Own \union R!Leaked /\ Named(plan) \intersect Own = {}
        /\ stage = "exit" => live' \subseteq Named(plan) \union R!Leaked
        /\ "instance" \in failed => ArenasOfFrames \subseteq live' \ Named(plan)
    BY <1>1, <1>3 DEF ResourceInv, Ending
  <2>3. QED
    BY <1>1, <1>3, <1>4, <2>1, <2>2, PartsDiffer DEF Ending
<1>6. Planned'
  <2>1. ASSUME NEW r \in live' \ R!Leaked', NEW j \in DOMAIN plan', plan'[j] \in R!Needs(r)
        PROVE  \E i \in 1 .. j - 1 : plan'[i] = r
    BY <1>1, <1>3, <2>1 DEF ResourceInv, Planned
  <2>2. QED
    BY <2>1 DEF Planned, R!Needs, R!OfDevice, R!ToSet
<1>7. R!NothingDangles'
  <2>1. ASSUME NEW r \in live' \ R!Leaked', NEW n \in R!Needs(r) PROVE n \in live'
    <3>1. r \in live \ R!Leaked /\ n \in live
      BY <1>1, <1>3, <2>1 DEF ResourceInv, R!NothingDangles
    <3>2. plan[m] \notin R!Needs(r)
      <4>1. SUFFICES ASSUME plan[m] \in R!Needs(r) PROVE FALSE
        OBVIOUS
      <4>2. PICK i \in 1 .. m - 1 : plan[i] = r
        BY <3>1, <4>1 DEF ResourceInv, Planned
      <4>3. QED
        BY <1>2, <3>1, <4>2
    <3>3. QED
      BY <1>1, <1>2, <3>1, <3>2
  <2>2. QED
    BY <2>1 DEF R!NothingDangles, R!Needs, R!OfDevice, R!ToSet
<1>8. QED
  BY <1>1, <1>5, <1>6, <1>7 DEF ResourceInv

(* The way out of main, with or without a renderer, names all there is. *)
LEMMA WayOut ==
  ASSUME ResourceInv, R!Unreleased = {}, stage \in Final,
         plan' \in {R!TornDown, R!GivenUp}, stage' = "exit", live' = live,
         "instance" \in failed' <=> "instance" \in failed
  PROVE  ResourceInv'
<1>1. R!Leaked' = R!Leaked /\ live \subseteq Resources /\ live' \subseteq Resources
  BY DEF R!Leaked, ResourceInv
<1>2. R!NothingDangles'
  BY <1>1 DEF ResourceInv, R!NothingDangles, R!Needs, R!OfDevice, R!ToSet
<1>3. Starting'
  BY PartsDiffer DEF Starting
<1>4. /\ Descends(plan')
      /\ live' \subseteq Named(plan') \union R!Leaked'
      /\ "instance" \in failed' => ArenasOfFrames \subseteq live' \ Named(plan')
  <2>1. CASE R!HasRenderer
    <3>1. Descends(plan') /\ Resources \subseteq Named(plan')
      BY <2>1, TornDownDescends, GivenUpDescends, RendererObjects
      DEF Resources, OfRenderer, Ready, Core, Own, ArenasOfFrames
    <3>2. "instance" \notin failed'
      <4>1. "struct" \notin Own \union R!Leaked
        BY NamesIn DEF Own, R!Leaked, ArenasOfFrames
      <4>2. QED
        BY <2>1, <4>1, NothingLeft DEF R!HasRenderer, ResourceInv, Ending
    <3>3. QED
      BY <1>1, <3>1, <3>2
  <2>2. CASE ~R!HasRenderer
    <3>1. Descends(plan') /\ Own \subseteq Named(plan') /\ ArenasOfFrames \intersect Named(plan') = {}
      BY <2>2, TornDownEarlyDescends, GivenUpEarlyDescends DEF Own, AssetThings, ArenasOfFrames
    <3>2. live \subseteq Own \union R!Leaked
      BY <2>2, NothingLeft DEF R!HasRenderer, ResourceInv, Ending
    <3>3. "instance" \in failed => ArenasOfFrames \subseteq live
      BY DEF ResourceInv, Ending
    <3>4. QED
      BY <1>1, <3>1, <3>2, <3>3
  <2>3. QED
    BY <2>1, <2>2
<1>5. Planned' /\ DOMAIN plan' = 1 .. Len(plan') /\ Len(plan') \in Nat
  BY <1>1, <1>4, NamedIsPlanned
<1>6. Ending'
  BY <1>4, PartsDiffer DEF Ending
<1>7. QED
  BY <1>1, <1>2, <1>3, <1>5, <1>6 DEF ResourceInv

(* Short orders descend. *)
LEMMA ShortOrders ==
  /\ Descends(<< >>) /\ Named(<< >>) = {}
  /\ Descends(<<"struct">>) /\ Named(<<"struct">>) = {"struct"}
  /\ Descends(<<"arena", "struct">>) /\ Named(<<"arena", "struct">>) = {"arena", "struct"}
<1>1. Descends(<< >>) /\ Named(<< >>) = {}
  BY DEF Descends, Named
<1>2. Descends(<<"struct">>) /\ Named(<<"struct">>) = {"struct"}
  BY RendererObjects DEF Descends, Named, Depth, ArenasOfFrames
<1>3. Descends(<<"arena", "struct">>) /\ Named(<<"arena", "struct">>) = {"arena", "struct"}
  BY RendererObjects DEF Descends, Named, Depth, ArenasOfFrames
<1>4. QED
  BY <1>1, <1>2, <1>3

(* The renderer could not be made: what there is of it is given back. *)
LEMMA Unmade ==
  ASSUME Descends(plan'), R!NothingDangles', stage' = "world_arena",
         live' \subseteq Resources,
         live' \subseteq Named(plan') \union {"window"} \union R!Leaked',
         Named(plan') \intersect Own = {},
         "instance" \in failed' => ArenasOfFrames \subseteq live' \ Named(plan')
  PROVE  ResourceInv'
<1>1. \A r \in live' \ R!Leaked' : r \in Named(plan') \/ R!Needs(r) = {}
  BY NeedsNone DEF Own
<1>2. Planned' /\ DOMAIN plan' = 1 .. Len(plan') /\ Len(plan') \in Nat
  BY <1>1, NamedIsPlanned
<1>3. Starting'
  BY PartsDiffer DEF Starting
<1>4. Ending'
  BY PartsDiffer DEF Ending, Own
<1>5. QED
  BY <1>2, <1>3, <1>4 DEF ResourceInv

(* A step that fails before there is an instance. *)
LEMMA EarlyFails ==
  ASSUME ResourceInv, R!Fails, stage \in Early
  PROVE  ResourceInv'
<1>1. /\ stage \notin R!Unchecked \union R!Partial
      /\ failed' = failed \union {stage} /\ live' = live /\ live = Found(stage)
      /\ plan' = R!Recovery(stage).plan /\ stage' = R!Recovery(stage).to
      /\ "instance" \notin failed
  BY NextEarly DEF R!Fails, ResourceInv, Starting
<1>2. R!NothingDangles'
  BY <1>1, AcquiredStands DEF ResourceInv
<1>3. CASE stage = "window"
  <2>1. live' = {} /\ plan' = << >> /\ stage' = "exit"
    BY <1>1, <1>3 DEF Found, R!Recovery
  <2>2. Starting' /\ Ending'
    BY <1>1, <1>3, <2>1, PartsDiffer DEF Starting, Ending
  <2>3. QED
    BY <1>2, <2>1, <2>2, NothingPlanned DEF ResourceInv
<1>4. CASE stage # "window"
  <2>1. plan' = R!Unwound(stage) /\ stage' = "world_arena"
    BY <1>1, <1>4, StageSets DEF R!Recovery
  <2>2. live' \subseteq Core /\ live' \subseteq Resources
    BY <1>1 DEF Early, Found, Core, ArenasOfFrames, Resources, OfRenderer, Ready
  <2>3. /\ Descends(plan') /\ Named(plan') \intersect Own = {}
        /\ live' \subseteq Named(plan') \union {"window"} \union R!Leaked'
        /\ "instance" \in failed' => ArenasOfFrames \subseteq live' \ Named(plan')
    <3>1. CASE stage \in {"loader", "struct"}
      <4>1. plan' = << >> /\ live' = {"window"} /\ "instance" \notin failed'
        BY <1>1, <2>1, <3>1 DEF R!Unwound, Found
      <4>2. QED
        BY <4>1, ShortOrders
    <3>2. CASE stage \in {"functions", "arena"}
      <4>1. plan' = <<"struct">> /\ live' = {"window", "struct"} /\ "instance" \notin failed'
        BY <1>1, <2>1, <3>2 DEF R!Unwound, Found
      <4>2. QED
        BY <4>1, ShortOrders DEF Own
    <3>3. CASE stage = "instance"
      <4>1. plan' = <<"arena", "struct">> /\ live' = {"window", "struct", "arena"} \union ArenasOfFrames
        BY <1>1, <2>1, <3>3 DEF R!Unwound, Found, Core, ArenasOfFrames
      <4>2. R!Leaked' = ArenasOfFrames
        BY <1>1, <3>3, NamesIn DEF R!Leaked
      <4>3. QED
        BY <4>1, <4>2, ShortOrders DEF Own, ArenasOfFrames
    <3>4. CASE stage \in {"frame_arena_0", "frame_arena_1", "tables"}
      <4>1. plan' = R!RendererDestroyed /\ "struct" \in live /\ "instance" \notin failed'
        BY <1>1, <2>1, <3>4 DEF R!Unwound, Found, Core
      <4>2. QED
        BY <2>2, <4>1, RendererDestroyedDescends, RendererObjects
        DEF R!HasRenderer, OfRenderer, Ready, Own, Core, ArenasOfFrames
    <3>5. QED
      BY <1>4, <3>1, <3>2, <3>3, <3>4 DEF Early
  <2>4. QED
    BY <1>2, <2>1, <2>2, <2>3, Unmade
<1>5. QED
  BY <1>3, <1>4

(* A step that fails once there is one. *)
LEMMA MiddleFails ==
  ASSUME ResourceInv, R!Fails, stage \in Middle
  PROVE  ResourceInv'
<1>1. PICK left \in IF stage \in R!Partial THEN {{}, {stage}} ELSE {{}} : live' = live \union left
  BY DEF R!Fails
<1>2. /\ failed' = failed \union {stage}
      /\ plan' = R!Recovery(stage).plan /\ stage' = R!Recovery(stage).to
      /\ stage # "instance" /\ stage # "window" /\ stage \notin {"texture", "mesh", "material"}
      /\ plan = << >> /\ "instance" \notin failed'
      /\ Found(stage) \subseteq live /\ live \subseteq OfRenderer
  BY NextMiddle DEF R!Fails, ResourceInv, Starting, Middle
<1>3. left \subseteq {stage} /\ left \in SUBSET OfRenderer /\ left \in SUBSET Resources
  <2>1. stage \in R!Partial => stage \in OfRenderer
    BY NextMiddle, NamesIn DEF R!Partial, R!Checks
  <2>2. QED
    BY <1>1, <2>1 DEF Resources
<1>4. CASE stage \in R!Unchecked
  <2>1. plan' = plan /\ stage' = R!After(stage)
    BY <1>2, <1>4 DEF R!Recovery
  <2>2. /\ \A r \in left : r = stage \/ (stage \in {"texture", "mesh", "material"} /\ r = "objects")
        /\ left \intersect {"mesh", "material"} # {} => "objects" \in left
        /\ \/ stage \in R!Checks \/ stage \in R!Unchecked
           \/ stage \in {"texture", "pipelines"} \/ stage \in left
        /\ stage \in Early => left = IF stage \in R!Checks THEN {} ELSE {stage}
    BY <1>2, <1>3, <1>4, PartsDiffer
  <2>3. QED
    BY <1>1, <1>2, <1>3, <2>1, <2>2, Advanced, ZenonT(30)
<1>5. CASE stage \notin R!Unchecked
  <2>1. plan' = R!RendererDestroyed /\ stage' = "world_arena"
    <3>1. stage \in R!ToSet(R!RendererStages) /\ stage \notin Early
      BY StageSets, PartsDiffer
    <3>2. QED
      BY <1>2, <1>5, <3>1 DEF R!Recovery, R!Unwound, Early
  <2>2. "struct" \in live
    BY <1>2 DEF Middle, Found, Ready, Core
  <2>3. /\ Descends(plan') /\ Named(plan') \intersect Own = {}
        /\ OfRenderer \subseteq Named(plan') \union {"window"}
    BY <2>1, <2>2, RendererDestroyedDescends, RendererObjects
    DEF R!HasRenderer, Own, OfRenderer, Ready, Core, ArenasOfFrames
  <2>4. R!NothingDangles'
    <3>1. ASSUME NEW r \in live' \ live PROVE R!Needs(r) \subseteq live'
      <4>1. r = stage /\ r \in Resources /\ r \notin {"mesh", "material"}
        BY <1>1, <1>2, <1>3, <3>1
      <4>2. R!Needs(r) \subseteq Found(stage)
        BY <4>1, FoundIsEnough
      <4>3. QED
        BY <1>1, <1>2, <4>2
    <3>2. QED
      BY <1>1, <1>2, <3>1, AcquiredStands DEF ResourceInv
  <2>5. live' \subseteq OfRenderer /\ live' \subseteq Resources
    BY <1>1, <1>2, <1>3 DEF Resources
  <2>6. QED
    BY <1>2, <2>1, <2>3, <2>4, <2>5, Unmade
<1>6. QED
  BY <1>4, <1>5

(* A step of the assets that fails. *)
LEMMA AssetFails ==
  ASSUME ResourceInv, R!Fails, stage \in Assets
  PROVE  ResourceInv'
<1>1. /\ live' = live /\ failed' = failed \union {stage}
      /\ plan' = R!Recovery(stage).plan /\ stage' = R!Recovery(stage).to
      /\ stage # "instance" /\ stage # "window"
      /\ plan = << >> /\ "instance" \notin failed'
      /\ "struct" \in live
  BY NextAsset DEF R!Fails, ResourceInv, Starting, Assets, Ready, Core
<1>2. CASE stage \in R!Unchecked
  <2>1. plan' = plan /\ stage' = R!After(stage) /\ live' = live \union {}
    BY <1>1, <1>2 DEF R!Recovery
  <2>2. /\ {} \in SUBSET Resources
        /\ \A r \in {} : r = stage \/ (stage \in {"texture", "mesh", "material"} /\ r = "objects")
        /\ {} \intersect {"mesh", "material"} # {} => "objects" \in {}
        /\ \/ stage \in R!Checks \/ stage \in R!Unchecked
           \/ stage \in {"texture", "pipelines"} \/ stage \in {}
        /\ stage \in Early => {} = IF stage \in R!Checks THEN {} ELSE {stage}
    BY <1>2, PartsDiffer
  <2>3. QED
    BY <1>1, <2>1, <2>2, Advanced, ZenonT(30)
<1>3. CASE stage \notin R!Unchecked
  <2>1. plan' = << >> /\ stage' = "world_arena"
    <3>1. stage \in R!ToSet(R!AssetStages) /\ stage \notin R!ToSet(R!RendererStages)
      BY StageSets, PartsDiffer
    <3>2. QED
      BY <1>1, <1>3, <3>1 DEF R!Recovery
  <2>2. Starting' /\ Ending'
    BY <1>1, <2>1, PartsDiffer DEF Starting, Ending
  <2>3. R!NothingDangles'
    BY <1>1, AcquiredStands DEF ResourceInv
  <2>4. QED
    BY <1>1, <2>1, <2>2, <2>3, NothingPlanned DEF ResourceInv
<1>4. QED
  BY <1>2, <1>3

(* A failed step, wherever it is. *)
LEMMA FailsKeeps == ResourceInv /\ R!Fails => ResourceInv'
<1> SUFFICES ASSUME ResourceInv, R!Fails PROVE ResourceInv'
  OBVIOUS
<1>1. /\ stage \notin {"up", "exit"} /\ R!Unreleased = {}
      /\ stage \in Early \union Middle \union Assets \union Final
  BY DEF R!Fails, R!Underway, ResourceInv, Starting
<1>2. CASE stage \in Final
  <2>1. stage \in Final \ {"up"}
    BY <1>1, <1>2
  <2>2. stage \notin R!Unchecked \union R!Partial \union Early \union Middle \union Assets
    BY <2>1, NextFinal
  <2>3. /\ live' = live /\ failed' = failed \union {stage} /\ stage # "instance"
        /\ plan' = R!GivenUp /\ stage' = "exit"
    <3>1. /\ stage # "window" /\ stage # "instance"
          /\ stage \notin R!ToSet(R!RendererStages) /\ stage \notin R!ToSet(R!AssetStages)
      BY <2>2, StageSets DEF Early
    <3>2. QED
      BY <2>2, <3>1 DEF R!Fails, R!Recovery
  <2>4. QED
    BY <1>1, <1>2, <2>3, WayOut
<1>3. QED
  BY <1>1, <1>2, EarlyFails, MiddleFails, AssetFails

(* The end of main begins with everything released that was to be. *)
LEMMA TearDownKeeps == ResourceInv /\ R!TearDown => ResourceInv'
<1> SUFFICES ASSUME ResourceInv, R!TearDown PROVE ResourceInv'
  OBVIOUS
<1>1. R!Unreleased = {} /\ stage \in Final
  BY PartsDiffer DEF R!TearDown, ResourceInv, Ending
<1>2. QED
  BY <1>1, WayOut DEF R!TearDown

----------------------------------------------------------------------------
(* The program and its resources. *)

(* Steps of the rest of the program. *)
LEMMA ResourcesKept == ResourceInv /\ UNCHANGED resources => ResourceInv'
<1> SUFFICES ASSUME ResourceInv, UNCHANGED resources PROVE ResourceInv'
  OBVIOUS
<1>1. stage' = stage /\ live' = live /\ plan' = plan /\ failed' = failed
  BY DEF resources
<1>2. Starting' /\ Ending' /\ Planned' /\ R!NothingDangles'
  BY <1>1 DEF ResourceInv, Starting, Ending, Planned, Named, R!Unreleased, R!Leaked,
              R!NothingDangles, R!Needs, R!OfDevice, R!ToSet
<1>3. QED
  BY <1>1, <1>2 DEF ResourceInv

(* The program moves its resources only as SandboxResources does. *)
LEMMA ProgramMovesResources ==
  [SandboxNext]_sandbox =>
    R!Succeeds \/ R!Fails \/ R!TearDown \/ R!Release \/ UNCHANGED resources
BY DEF SandboxNext, Program, UserActs, Succeeds, Fails, Started, Release, Exit, Poll, Pump,
       FrameStarts, LoopEnds, Simulates, SimulationFails, Build, Show, ShowLast, sandbox

(* Wherever the start fails, as often as it does, and whenever the program *)
(* ends: what lives has what it needs, and the rest of what was acquired   *)
(* is named by the plan, after what needs it.                              *)
THEOREM ResourceInvariant == SandboxSpec => []ResourceInv
<1>1. SandboxInit => ResourceInv
  BY InitResources DEF SandboxInit
<1>2. ResourceInv /\ [SandboxNext]_sandbox => ResourceInv'
  BY ProgramMovesResources, SucceedsKeeps, FailsKeeps, TearDownKeeps, ReleaseKeeps, ResourcesKept
<1>3. QED
  BY <1>1, <1>2, PTL DEF SandboxSpec

(* Wherever the start fails and however the program ends, everything that  *)
(* was acquired is given back, and nothing before what needs it.           *)
THEOREM AllIsGivenBack == SandboxSpec => []ReleasedInOrder
<1>1. ResourceInv => ReleasedInOrder
  <2> SUFFICES ASSUME ResourceInv PROVE ReleasedInOrder
    OBVIOUS
  <2>1. "instance" \in failed => R!Leaked \subseteq live /\ R!Leaked \intersect Named(plan) = {}
    BY NamesIn DEF ResourceInv, Ending, R!Leaked
  <2>2. R!Exited => live = R!Leaked
    <3>1. SUFFICES ASSUME R!Exited PROVE live = R!Leaked
      OBVIOUS
    <3>2. live \intersect Named(plan) = {} /\ live \subseteq Named(plan) \union R!Leaked
      BY <3>1, NothingLeft DEF R!Exited, ResourceInv, Ending
    <3>3. R!Leaked \subseteq live
      BY <2>1 DEF R!Leaked
    <3>4. QED
      BY <3>2, <3>3
  <2>3. stage \in R!ToSet(R!WorldStages) /\ R!Unreleased = {} /\ "struct" \notin live =>
            live \ R!Leaked \subseteq {"window", "world_arena", "present_arena"}
    <3>1. SUFFICES ASSUME stage \in R!ToSet(R!WorldStages), R!Unreleased = {}, "struct" \notin live
                   PROVE  live \ R!Leaked \subseteq Own
      BY DEF Own
    <3>2. stage \in Final
      BY <3>1, NamesIn DEF Final
    <3>3. QED
      BY <3>1, <3>2, NothingLeft DEF ResourceInv, Ending
  <2>4. QED
    BY <2>2, <2>3 DEF ReleasedInOrder, ResourceInv, R!GivenBack
<1>2. QED
  BY <1>1, ResourceInvariant, PTL
=============================================================================
