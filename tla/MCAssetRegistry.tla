-------------------------- MODULE MCAssetRegistry --------------------------
(* Callers who register what they like, and files that are cooked, moved   *)
(* and loaded.  Asset ids, and the names under one id, are interchangeable.*)
EXTENDS AssetFiles, TLC

MCCallers ==
    [writes |-> 0, callers |-> TRUE, names |-> {}, contents |-> {}, formats |-> {}]
MCFiles ==
    [writes |-> 2, callers |-> FALSE, names |-> Names, contents |-> {"p", "q"},
     formats |-> {"tga", "wav"}]

(* One more write, to cook again after an overlap or to move its result,   *)
(* with less to tell apart.                                                *)
MCCooks(name) ==
    [writes |-> 3, callers |-> FALSE, names |-> {name}, contents |-> {"p"},
     formats |-> {}]

MCScenarios == {MCCallers, MCFiles} \union {MCCooks(name) : name \in Names}

Symmetry == Permutations(Ids) \union Permutations(Names)
=============================================================================
