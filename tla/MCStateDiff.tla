---------------------------- MODULE MCStateDiff ----------------------------
(* StateDiff under five mixes of calls, each as long as it takes to bring  *)
(* two worlds to the same contents in different ways.                      *)
EXTENDS StateDiff

Requests == [op : {"destroy"}, entity : Handles]
Adds     == [op : {"add"}, pool : Pools, entity : Handles]
Removes  == [op : {"remove"}, pool : Pools, entity : Handles]
Writes   == UNION {[op : {"write"}, pool : {p}, entity : {Handle(0, 1), Handle(1, 1)},
                    column : 1 .. Len(Columns[p]), value : {1}] : p \in Pools}
Events   == [source : {Null, Handle(1, 1)}, target : {Handle(0, 1), Handle(1, 1)}, amount : {1}]
Appends  == [op : {"append"}, event : Events]
Bare(op) == {[op |-> op]}

MCMixes == {
    [calls |-> Bare("create") \union Bare("tick") \union Requests, length |-> 5],
    [calls |-> Appends \union Bare("publish") \union Bare("consume"), length |-> 4],
    [calls |-> Adds \union Removes \union Bare("tick"), length |-> 3],
    [calls |-> Writes \union Bare("tick"), length |-> 3],
    [calls |-> Bare("create") \union Requests \union [op : {"release"}, entity : Handles]
                \union Removes \union Appends \union Bare("publish"), length |-> 2]}
=============================================================================
