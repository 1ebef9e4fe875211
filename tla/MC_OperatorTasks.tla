--------------------------- MODULE MC_OperatorTasks ---------------------------
(* Two preparations for one place in the table, two views' worth of        *)
(* generations, and an entity that pushes the other out of the records.    *)
EXTENDS OperatorTasks, TLC
MCSymmetry == Permutations(Tokens) \cup Permutations(Generations)
              \cup Permutations(Sockets)
=============================================================================
