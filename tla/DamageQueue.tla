---------------------------- MODULE DamageQueue ----------------------------
(***************************************************************************)
(* The double-buffered damage event queue of engine/sim (events.cpp).      *)
(*                                                                         *)
(* Two fixed buffers swap the read and the write role when a phase is      *)
(* published.  A buffer is the array the code has, and counts says how     *)
(* much of it is in use: what lies past the count is leftover that no      *)
(* reader may see.                                                         *)
(***************************************************************************)
EXTENDS Naturals, Sequences

CONSTANTS
    QueueCapacity,  (* events per buffer                                   *)
    Event,          (* the canonical damage events                         *)
    NoEvent         (* DamageEvent{}, what a cleared entry holds           *)

ASSUME QueueAssumption == QueueCapacity \in Nat \ {0} /\ NoEvent \notin Event

VARIABLES
    buffers,        (* buffer -> entry -> event                            *)
    counts,         (* buffer -> entries in use                            *)
    read_index,
    write_index

queue == <<buffers, counts, read_index, write_index>>

BufferIds == {0, 1}
Entries   == 0 .. QueueCapacity - 1

QueueInit ==
    /\ buffers = [b \in BufferIds |-> [k \in Entries |-> NoEvent]]
    /\ counts = [b \in BufferIds |-> 0]
    /\ read_index = 0
    /\ write_index = 1

(* damage_event_queue_is_valid *)
QueueValid ==
    /\ read_index \in BufferIds
    /\ write_index \in BufferIds
    /\ read_index # write_index
    /\ \A b \in BufferIds : counts[b] <= QueueCapacity

AppendAccepted == QueueValid /\ counts[write_index] < QueueCapacity

(* damage_event_queue_append, of an event that is canonical *)
AppendEvent(ev) ==
    /\ AppendAccepted
    /\ buffers' = [buffers EXCEPT ![write_index][counts[write_index]] = ev]
    /\ counts' = [counts EXCEPT ![write_index] = @ + 1]
    /\ UNCHANGED <<read_index, write_index>>

(* Fault: a batch that was not consumed is published over. *)
PublishAcceptedAlways == QueueValid

PublishAccepted == QueueValid /\ counts[read_index] = 0

(* damage_event_queue_publish *)
Publish ==
    /\ PublishAccepted
    /\ read_index' = write_index
    /\ write_index' = read_index
    /\ counts' = [counts EXCEPT ![read_index] = 0]
    /\ UNCHANGED buffers

(* The view damage_event_queue_read returns. *)
ReadView == [k \in 1 .. counts[read_index] |-> buffers[read_index][k - 1]]

(* damage_event_queue_consume *)
Consume ==
    /\ QueueValid
    /\ buffers' = [buffers EXCEPT ![read_index] =
                    [k \in Entries |-> IF k < counts[read_index] THEN NoEvent ELSE @[k]]]
    /\ counts' = [counts EXCEPT ![read_index] = 0]
    /\ UNCHANGED <<read_index, write_index>>

QueueNext == (\E ev \in Event : AppendEvent(ev)) \/ Publish \/ Consume

QueueSpec == QueueInit /\ [][QueueNext]_queue

----------------------------------------------------------------------------
(* Every entry holds an event or is clear, the counts fit, and no           *)
(* operation makes the queue refuse itself as invalid.                     *)
QueueTypeOK ==
    /\ buffers \in [BufferIds -> [Entries -> Event \union {NoEvent}]]
    /\ counts \in [BufferIds -> 0 .. QueueCapacity]
    /\ read_index \in BufferIds
    /\ write_index \in BufferIds
    /\ QueueValid

InUse(b) == [k \in 1 .. counts[b] |-> buffers[b][k - 1]]

(* The queue implements the mailbox. *)
Mailbox == INSTANCE EventMailbox
              WITH posted <- InUse(write_index), visible <- ReadView,
                   Limit <- QueueCapacity

MailboxSpec == Mailbox!Spec
=============================================================================
