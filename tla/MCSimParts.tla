----------------------------- MODULE MCSimParts -----------------------------
(* The parts that a simulated world is made of, each on its own: in each   *)
(* behaviour one of them runs and the others rest.                         *)
EXTENDS EntityManager, ComponentPool, DamageQueue, TLC

VARIABLE part

PartsInit == part \in {"manager", "pool", "queue"} /\ Init /\ PoolInit /\ QueueInit

PartsNext ==
    \/ part = "manager" /\ Next /\ UNCHANGED <<part, pool, queue>>
    \/ part = "pool" /\ PoolNext /\ UNCHANGED <<part, vars, queue>>
    \/ part = "queue" /\ QueueNext /\ UNCHANGED <<part, vars, pool>>

PartsSpec == PartsInit /\ [][PartsNext]_<<part, vars, pool, queue>>

(* Nothing tells the values of components apart, or the events. *)
Interchangeable == Permutations(Values) \union Permutations(Event)
=============================================================================
