---------------------------- MODULE MC_AckLedger ----------------------------
(* Three operations with one packet identifier, two at a time in different *)
(* tables: each one reuses the identifier of those before it, which may be *)
(* answered, retired or leaked.                                            *)
EXTENDS AckLedger
CONSTANTS o1, o2, o3
MCOps == {o1, o2, o3}
============================================================================
