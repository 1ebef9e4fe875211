-------------------------- MODULE MC_EventStream ---------------------------
(* Two consumers and a queue of two: enough for a woken consumer to lose   *)
(* its item to the other one or to an eviction.                            *)
EXTENDS EventStream, TLC
CONSTANTS c1, c2
MCConsumers == {c1, c2}
Symmetry == Permutations(MCConsumers)
============================================================================
