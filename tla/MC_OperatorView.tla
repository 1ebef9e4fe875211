---------------------------- MODULE MC_OperatorView ----------------------------
(* With one identity, two preparations over two generations or one over     *)
(* three; with a second one, one preparation over two generations or two    *)
(* over one.                                                               *)
EXTENDS OperatorView, TLC
MCBound ==
    Cardinality({t \in Tokens : b.flow[t].at # "idle"})
        + Cardinality({g \in Gens : socks[g].at # "idle"}) + b.id <= 5
MCSymmetry == Permutations(Tokens)
=============================================================================
