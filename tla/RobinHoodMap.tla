---------------------------- MODULE RobinHoodMap ----------------------------
(***************************************************************************)
(* The open-addressing hash map of engine/core (hashmap.h): linear probing *)
(* in a power-of-two table, where an entry far from its home slot takes    *)
(* the place of one that is nearer (Robin Hood), removal shifts the chain  *)
(* back instead of leaving tombstones, and the table doubles at 7/8 load.  *)
(*                                                                         *)
(* The hash function is any function from keys to hash values: it is       *)
(* chosen at the start and stays.  dib is the code's distance from the     *)
(* initial bucket.  Storage is never refused by the allocator.  A loop     *)
(* along the table is the number of slots it goes, for it never comes      *)
(* round to where it began: a slot is free.                                *)
(***************************************************************************)
EXTENDS Naturals, FiniteSets

CONSTANTS
    Keys, Vals,
    HashMax,            (* hash values are 0 .. HashMax                    *)
    InitialCapacity     (* capacity of the first table, 16 in the code     *)

ASSUME MapAssumption ==
    /\ HashMax \in Nat
    /\ InitialCapacity \in Nat /\ InitialCapacity > 1
    /\ \E n \in 1 .. 31 : InitialCapacity = 2 ^ n

VARIABLES
    hash,       (* key -> hash value                                       *)
    cap,        (* slots of the table, 0 before the first insert           *)
    slots,      (* position -> entry or FreeSlot                           *)
    entries,    (* the count the code keeps                                *)
    removed     (* what the last removal returned                          *)

FreeSlot == [key |-> "free"]
Pairs    == [key : Keys, val : Vals]

EmptyTable(capacity) == [pos \in 0 .. capacity - 1 |-> FreeSlot]

HashInit ==
    /\ hash \in [Keys -> 0 .. HashMax]
    /\ cap = 0 /\ slots = EmptyTable(0)
    /\ entries = 0
    /\ removed = FALSE

----------------------------------------------------------------------------
(* Positions wrap around a table. *)
Size(table)                == Cardinality(DOMAIN table)
Home(table, key)           == hash[key] % Size(table)
Onward(table, pos, d)      == (pos + d) % Size(table)
Distance(table, from, pos) == (pos + Size(table) - from) % Size(table)

(* Where a loop along a table ends: the first of its slots that P holds of. *)
First(size, P(_)) == CHOOSE d \in 0 .. size - 1 : P(d) /\ \A c \in 0 .. d - 1 : ~P(c)

(* How far the entry at a position is from its home. *)
Dib(table, pos) == Distance(table, Home(table, table[pos].key), pos)

(* Fault: no entry yields its place.                                       *)
YieldsNever(table, pos, dib) == FALSE

(* The rich yields to the poor. *)
Yields(table, pos, dib) == table[pos] # FreeSlot /\ Dib(table, pos) < dib

(* The entry that hashmap__place has in hand d slots behind the home of    *)
(* the one it began with, and its distance there.                          *)
InHand(table, entry) ==
    LET hand[d \in 0 .. Size(table) - 1] ==
            IF d = 0 THEN [entry |-> entry, dib |-> 0]
            ELSE LET prior == hand[d - 1]
                     pos   == Onward(table, Home(table, entry.key), d - 1)
                 IN  IF Yields(table, pos, prior.dib)
                       THEN [entry |-> table[pos], dib |-> Dib(table, pos) + 1]
                       ELSE [entry |-> prior.entry, dib |-> prior.dib + 1]
    IN  hand

(* hashmap__place ends in a slot that is free or has the key in hand. *)
Place(table, entry) ==
    LET home == Home(table, entry.key)
        hand == InHand(table, entry)
        Settles(d) ==
            LET pos == Onward(table, home, d)
            IN  table[pos] = FreeSlot \/ table[pos].key = hand[d].entry.key
        last == First(Size(table), Settles)
    IN  [pos \in DOMAIN table |->
            LET d == Distance(table, home, pos) IN
            IF d = last \/ (d < last /\ Yields(table, pos, hand[d].dib))
              THEN hand[d].entry ELSE table[pos]]

(* hashmap__rehash: the entries of the old table in slot order. *)
Rehash(table, capacity) ==
    LET into[pos \in 0 .. Size(table)] ==
            IF pos = 0 THEN EmptyTable(capacity)
            ELSE IF table[pos - 1] = FreeSlot THEN into[pos - 1]
                 ELSE Place(into[pos - 1], table[pos - 1])
    IN  into[Size(table)]

(* The table hashmap_set inserts into: the load is checked first, also     *)
(* when the key is present.                                                *)
Grown ==
    IF cap = 0 THEN EmptyTable(InitialCapacity)
    ELSE IF (entries + 1) * 8 >= cap * 7 THEN Rehash(slots, 2 * cap) ELSE slots

(* The probe of hashmap_get and hashmap_remove: the position of the key,   *)
(* or none when it meets a free slot or an entry nearer to its home.       *)
Probe(key) ==
    LET At(d)   == Onward(slots, Home(slots, key), d)
        Ends(d) == \/ slots[At(d)] = FreeSlot \/ slots[At(d)].key = key
                   \/ Dib(slots, At(d)) < d
    IN  IF cap = 0 THEN {}
        ELSE {pos \in {At(First(cap, Ends))} : slots[pos] # FreeSlot /\ slots[pos].key = key}

(* hashmap_set *)
Set(key, val) ==
    LET table == Grown IN
    /\ slots' = Place(table, [key |-> key, val |-> val])
    /\ cap' = Size(table)
    /\ entries' = IF \E pos \in DOMAIN table : table[pos] # FreeSlot /\ table[pos].key = key
                    THEN entries ELSE entries + 1
    /\ UNCHANGED <<hash, removed>>

(* Fault: the hole is left without shifting the chain behind it.           *)
ShiftLengthNone(hole) == 0

(* How many entries behind a hole the backward shift moves: those before   *)
(* the first slot that is free or holds an entry in its home.              *)
ShiftLength(hole) ==
    LET NextStays(d) == LET pos == Onward(slots, hole, d + 1)
                        IN  slots[pos] = FreeSlot \/ Dib(slots, pos) = 0
    IN  First(cap, NextStays)

(* The table without the entry at a position, its chain shifted back. *)
ShiftedBack(hole) ==
    LET length == ShiftLength(hole)
    IN  [pos \in DOMAIN slots |->
            LET d == Distance(slots, hole, pos) IN
            IF d < length THEN slots[Onward(slots, pos, 1)]
            ELSE IF d = length THEN FreeSlot ELSE slots[pos]]

(* hashmap_remove *)
RemoveKey(key) ==
    /\ removed' = (Probe(key) # {})
    /\ IF Probe(key) = {} THEN UNCHANGED <<slots, entries>>
       ELSE /\ slots' = ShiftedBack(CHOOSE pos \in Probe(key) : TRUE)
            /\ entries' = entries - 1
    /\ UNCHANGED <<hash, cap>>

(* hashmap_clear keeps the table, hashmap_free gives it back. *)
Clear ==
    /\ slots' = EmptyTable(cap)
    /\ entries' = 0
    /\ UNCHANGED <<hash, cap, removed>>

FreeTable ==
    /\ cap' = 0 /\ slots' = EmptyTable(0)
    /\ entries' = 0
    /\ UNCHANGED <<hash, removed>>

HashNext ==
    \/ \E key \in Keys : RemoveKey(key) \/ \E val \in Vals : Set(key, val)
    \/ Clear
    \/ FreeTable

HashSpec == HashInit /\ [][HashNext]_<<hash, cap, slots, entries, removed>>

----------------------------------------------------------------------------
Occupied == {pos \in DOMAIN slots : slots[pos] # FreeSlot}

(* Along the table the distance from home grows by at most one per slot,   *)
(* and an entry behind a free slot is at home: what the early exits of     *)
(* probe and removal rely on, after any sequence of inserts and removals.  *)
(* The count is exact and a slot is free, so every probe ends.             *)
RobinHoodOrder ==
    /\ entries = Cardinality(Occupied)
    /\ cap # 0 => entries < cap
    /\ \A pos \in Occupied :
        LET before == Distance(slots, 1, pos) IN
        Dib(slots, pos) # 0 =>
            slots[before] # FreeSlot /\ Dib(slots, pos) <= Dib(slots, before) + 1

(* The map the caller sees through hashmap_get. *)
Mapping ==
    [key \in {k \in Keys : Probe(k) # {}} |-> slots[CHOOSE pos \in Probe(key) : TRUE].val]

KeyValues == INSTANCE KeyValueMap WITH Values <- Vals, map <- Mapping

(* The table implements the map. *)
KeyValueSpec == KeyValues!Spec
=============================================================================
