----------------------------- MODULE MCSandbox -----------------------------
(* Time without a user, a user without units, two failures of a start with *)
(* a user, and as many failures as there are steps of the start.           *)
EXTENDS Sandbox

MCTiming ==
    [deltas |-> Deltas, time |-> MaxTime, still |-> FALSE,
     inputs |-> 0, failures |-> 0, limited |-> FALSE]
MCTyping ==
    [deltas |-> {0, Dt}, time |-> Dt, still |-> TRUE,
     inputs |-> 4, failures |-> 0, limited |-> FALSE]
MCStarting ==
    [deltas |-> {0, 3}, time |-> 3, still |-> TRUE,
     inputs |-> 1, failures |-> 2, limited |-> TRUE]
MCFailing ==
    [deltas |-> {0}, time |-> 0, still |-> TRUE,
     inputs |-> 0, failures |-> Len(R!Stages), limited |-> TRUE]

MCScenarios == {MCTiming, MCTyping, MCStarting, MCFailing}
=============================================================================
