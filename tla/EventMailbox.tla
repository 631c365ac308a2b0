---------------------------- MODULE EventMailbox ----------------------------
(***************************************************************************)
(* What the damage event queue promises: events are posted in order during *)
(* one phase, become visible together when the phase ends, and are taken   *)
(* off before the next batch becomes visible: none is lost, doubled or     *)
(* reordered.                                                              *)
(***************************************************************************)
EXTENDS Naturals, Sequences

CONSTANTS Event, Limit

VARIABLES posted, visible

Init == posted = << >> /\ visible = << >>

Post ==
    /\ Len(posted) < Limit
    /\ \E ev \in Event : posted' = Append(posted, ev)
    /\ visible' = visible

Deliver ==
    /\ visible = << >>
    /\ visible' = posted
    /\ posted' = << >>

Take ==
    /\ visible' = << >>
    /\ posted' = posted

Next == Post \/ Deliver \/ Take

Spec == Init /\ [][Next]_<<posted, visible>>
=============================================================================
