------------------------- MODULE MC_EntityWatchers -------------------------
(* A latest-value watcher of entities, with one of another kind that opens *)
(* two subscriptions; two small TRACKs fit, or a small and a large one.    *)
EXTENDS EntityWatchers, TLC

CONSTANTS l, o, a, b, c
MCKinds == [w \in Watchers |-> IF w = l THEN {"latest"} ELSE {"fifo", "location"}]
MCFilters == [w \in Watchers |-> IF w = l THEN 1 ELSE 2]
MCSymmetry == Permutations(Entities)
=============================================================================
