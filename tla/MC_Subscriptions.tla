-------------------------- MODULE MC_Subscriptions --------------------------
(* A durable call, one that shares its filter, and one of another filter.  *)
EXTENDS Subscriptions, TLC
CONSTANTS d, t, e, f, g
MCOps == {d, t, e}
MCFilterOf == (d :> f) @@ (t :> f) @@ (e :> g)
=============================================================================
