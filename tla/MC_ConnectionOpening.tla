---------------------- MODULE MC_ConnectionOpening ----------------------
(* Two attempts, a name with two addresses, three descriptors.               *)
EXTENDS ConnectionOpening
=============================================================================
