------------------------- MODULE RenderHandleTable -------------------------
(***************************************************************************)
(* The renderer's handle table with deferred release (engine/render/src/   *)
(* render_handle_table.cpp), as operators on a table value.                *)
(*                                                                         *)
(* A slot is free, alive or retiring.  A retired slot keeps its GPU        *)
(* objects until a collect finds its retire_frame reached; only then is    *)
(* its generation advanced and the slot put back on the free list.  The    *)
(* intrusive list through next_free is a sequence with free_head first.    *)
(***************************************************************************)
EXTENDS Naturals, Sequences, FiniteSets, SequencesExt, SortedSets

CONSTANT GenMax     (* HANDLE_GEN_MASK                                     *)

ASSUME GenMaxAssumption == GenMax \in Nat \ {0}

NullHandle == [index |-> 0, gen |-> 0]

SlotIds(table) == DOMAIN table.generation

(* render_handle_table_init *)
NewTable(capacity) ==
    [generation   |-> [i \in 0 .. capacity - 1 |-> 1],
     status       |-> [i \in 0 .. capacity - 1 |-> "free"],
     retire_frame |-> [i \in 0 .. capacity - 1 |-> 0],
     free         |-> [k \in 1 .. capacity |-> k - 1]]

(* render_handle_alloc: the handle it returns, and the table afterwards. *)
AllocHandle(table) ==
    IF table.free = << >> THEN NullHandle
    ELSE [index |-> Head(table.free), gen |-> table.generation[Head(table.free)]]

AllocSlot(table) ==
    LET slot == Head(table.free) IN
    [generation   |-> table.generation,
     status       |-> [table.status EXCEPT ![slot] = "alive"],
     retire_frame |-> [table.retire_frame EXCEPT ![slot] = 0],
     free         |-> Tail(table.free)]

(* render_handle_valid *)
Valid(table, h) ==
    /\ h.gen # 0
    /\ h.index \in SlotIds(table)
    /\ table.status[h.index] = "alive"
    /\ table.generation[h.index] = h.gen

(* render_handle_retire *)
RetireSlot(table, h, frame) ==
    IF Valid(table, h)
      THEN [table EXCEPT !.status[h.index] = "retiring",
                         !.retire_frame[h.index] = frame]
      ELSE table

(* The slots a collect at a frame releases. *)
Due(table, frame) ==
    {i \in SlotIds(table) :
        table.status[i] = "retiring" /\ table.retire_frame[i] <= frame}

(* A release at the last generation aborts the process. *)
Wraps(table, frame) ==
    \E i \in Due(table, frame) : table.generation[i] = GenMax

(* render_handle_collect: each due slot in ascending order is pushed on    *)
(* the front of the free list.                                             *)
Collected(table, frame) ==
    LET due == Due(table, frame) IN
    [generation   |-> [i \in SlotIds(table) |->
                        IF i \in due THEN table.generation[i] + 1
                                     ELSE table.generation[i]],
     status       |-> [i \in SlotIds(table) |->
                        IF i \in due THEN "free" ELSE table.status[i]],
     retire_frame |-> [i \in SlotIds(table) |->
                        IF i \in due THEN 0 ELSE table.retire_frame[i]],
     free         |-> Descending(due) \o table.free]

(* render_handle_release_all *)
ReleasedAll(table) ==
    [table EXCEPT !.status = [i \in SlotIds(table) |-> "free"]]

(* The free list names exactly the free slots, each once. *)
FreeListExact(table) ==
    /\ Range(table.free) = {i \in SlotIds(table) : table.status[i] = "free"}
    /\ IsInjective(table.free)
=============================================================================
