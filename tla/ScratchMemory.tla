---------------------------- MODULE ScratchMemory ----------------------------
(***************************************************************************)
(* Arenas and the scratch pad of engine/core (mem.h, mem/arena.cpp) on the *)
(* pages of engine/platform (win32_mem.cpp).                               *)
(*                                                                         *)
(* A pad is two arenas, each an offset into reserved address space that is *)
(* committed as it grows.  Allocations go to the current arena and are     *)
(* never freed one by one: a temporary region is closed in the reverse     *)
(* order of the openings, and every frame the pad changes over to the      *)
(* other arena and empties it.  A push that does not fit, and a page that  *)
(* cannot be committed, end the process.                                   *)
(*                                                                         *)
(* blocks holds what callers may still use: a block dies with its          *)
(* temporary region, when it is reallocated or freed, or at the second     *)
(* change of frames.  Callers close their regions before the arena is      *)
(* emptied.  Left out: contents, the high-water mark, which nothing reads, *)
(* the poisoning of dead memory, and addresses near the end of the space.  *)
(***************************************************************************)
EXTENDS Naturals, Sequences, FiniteSets

CONSTANTS
    Base,           (* arena -> its address                                *)
    Reserved,       (* size of the address space of an arena               *)
    Granularity,    (* commit_granularity, the page size                   *)
    BlockSizes,
    Aligns,         (* powers of two in the code                           *)
    MaxBlocks,      (* bound on the blocks in use                          *)
    MaxMarks        (* bound on the open temporary regions                 *)

Pad == 0 .. 1

ASSUME ScratchAssumption ==
    /\ Base \in [Pad -> Nat]
    /\ Reserved \in Nat /\ Granularity \in Nat \ {0}
    /\ BlockSizes \subseteq Nat \ {0}
    /\ Aligns \subseteq Nat \ {0}

VARIABLES
    pages,          (* arenas whose address space is reserved              *)
    offset,         (* arena -> bytes in use                               *)
    committed,      (* arena -> bytes with pages behind them               *)
    cur,            (* the current arena                                   *)
    marks,          (* the open temporary regions, innermost last          *)
    blocks          (* number -> block in use                              *)

memory == <<pages, offset, committed, cur, marks, blocks>>

Names == 1 .. MaxBlocks

PadInit ==
    /\ pages = {}
    /\ offset = [a \in Pad |-> 0] /\ committed = [a \in Pad |-> 0]
    /\ cur = 0
    /\ marks = << >>
    /\ blocks = << >>

Ready == pages = Pad

----------------------------------------------------------------------------
(* platform_scratchpad_reserve: the second arena may fail, and the first   *)
(* is given back then.                                                     *)
Reserve ==
    /\ pages = {}
    /\ pages' \in {{}, Pad}
    /\ offset' = [a \in Pad |-> 0] /\ committed' = [a \in Pad |-> 0]
    /\ cur' = 0
    /\ UNCHANGED <<marks, blocks>>

Gone ==
    /\ pages' = {}
    /\ offset' = [a \in Pad |-> 0] /\ committed' = [a \in Pad |-> 0]
    /\ marks' = << >>
    /\ blocks' = << >>

(* platform_arena_release of both arenas; nothing is used after it *)
ReleasePad ==
    /\ Ready
    /\ Gone
    /\ UNCHANGED cur

----------------------------------------------------------------------------
(* The first aligned address at or behind the offset. *)
Start(align) ==
    LET address == Base[cur] + offset[cur] IN
    offset[cur] + ((align - (address % align)) % align)

(* The bytes to commit for an arena that is used up to end. *)
Want(end) ==
    LET pagesNeeded == (end + Granularity - 1) \div Granularity IN
    IF pagesNeeded * Granularity > Reserved THEN Reserved
                                            ELSE pagesNeeded * Granularity

Fits(size, align) == Start(align) + size <= Reserved

(* arena_push, of a block that the caller names *)
Push(name, size, align) ==
    LET end == Start(align) + size IN
    /\ Ready
    /\ Fits(size, align)
    /\ offset' = [offset EXCEPT ![cur] = end]
    /\ committed' =
        [committed EXCEPT ![cur] = IF end > @ THEN Want(end) ELSE @]
    /\ blocks' = [n \in DOMAIN blocks \union {name} |->
        IF n # name THEN blocks[n]
        ELSE [arena |-> cur, start |-> Start(align), end |-> end, align |-> align]]
    /\ UNCHANGED <<pages, cur, marks>>

(* The ENSURE of a push that does not fit, or whose pages cannot be        *)
(* committed, ends the process.                                            *)
PushAborts(size, align) ==
    /\ Ready
    /\ ~Fits(size, align) \/ Start(align) + size > committed[cur]
    /\ Gone
    /\ cur' = 0

(* mem_alloc, of a name that is not in use *)
Alloc(size, align) ==
    \E name \in Names \ DOMAIN blocks :
        /\ \A n \in Names \ DOMAIN blocks : name <= n
        /\ Push(name, size, align)

(* mem_realloc: a new block, and the old one is not used again *)
Realloc(name, size, align) ==
    /\ name \in DOMAIN blocks
    /\ blocks[name].arena = cur
    /\ Push(name, size, align)

(* mem_free does nothing: arenas are emptied as a whole *)
Free(name) ==
    /\ blocks' = [n \in DOMAIN blocks \ {name} |-> blocks[n]]
    /\ UNCHANGED <<pages, offset, committed, cur, marks>>

----------------------------------------------------------------------------
(* temp_begin and temp_end of the innermost region *)
TempBegin ==
    /\ Ready
    /\ Len(marks) < MaxMarks
    /\ marks' = Append(marks, [arena |-> cur, saved_offset |-> offset[cur]])
    /\ UNCHANGED <<pages, offset, committed, cur, blocks>>

(* The names of the blocks an arena handed out below an offset, or that    *)
(* another arena did.                                                      *)
Outside(arena, below) ==
    {n \in DOMAIN blocks : blocks[n].arena = arena => blocks[n].start < below}

TempEnd ==
    /\ marks # << >>
    /\ LET mark == marks[Len(marks)] IN
        /\ offset' = [offset EXCEPT ![mark.arena] = mark.saved_offset]
        /\ blocks' = [n \in Outside(mark.arena, mark.saved_offset) |-> blocks[n]]
    /\ marks' = SubSeq(marks, 1, Len(marks) - 1)
    /\ UNCHANGED <<pages, committed, cur>>

(* Fault: the arena of the frame that ends is emptied.                     *)
FlippedNot == cur

(* The arena of the next frame. *)
Flipped == 1 - cur

(* scratch_next_frame *)
NextFrame ==
    /\ Ready
    /\ \A i \in DOMAIN marks : marks[i].arena = cur
    /\ cur' = Flipped
    /\ offset' = [offset EXCEPT ![Flipped] = 0]
    /\ blocks' = [n \in Outside(1 - cur, 0) |-> blocks[n]]
    /\ UNCHANGED <<pages, committed, marks>>

PadNext ==
    \/ Reserve \/ ReleasePad
    \/ \E size \in BlockSizes, align \in Aligns :
        \/ Alloc(size, align)
        \/ PushAborts(size, align)
        \/ \E name \in Names : Realloc(name, size, align)
    \/ \E name \in DOMAIN blocks : Free(name)
    \/ TempBegin \/ TempEnd
    \/ NextFrame

PadSpec == PadInit /\ [][PadNext]_memory

----------------------------------------------------------------------------
(* A block in use is aligned, has pages behind it and shares no byte with  *)
(* another, through regions that are closed, frames that change over and   *)
(* one further frame; and what an open region goes back to is still there. *)
BlocksHold ==
    /\ \A n \in DOMAIN blocks :
        LET block == blocks[n] IN
        /\ (Base[block.arena] + block.start) % block.align = 0
        /\ block.end <= offset[block.arena]
        /\ \A other \in DOMAIN blocks \ {n} :
            block.arena = blocks[other].arena =>
                block.end <= blocks[other].start \/ blocks[other].end <= block.start
    /\ \A a \in Pad : offset[a] <= committed[a] /\ committed[a] <= Reserved
    /\ \A i \in DOMAIN marks : marks[i].saved_offset <= offset[marks[i].arena]
=============================================================================
