---------------------------- MODULE MC_VerifyRelease ----------------------------
(* The release graph of verify_release.py, with one job and with two, and one *)
(* mishap: an operation that fails, or an edit or a checkout.                *)
EXTENDS VerifyRelease

OneMishap == tree + Cardinality(At({"failed"})) <= 1

(* What is committed is read until the worktree is found clean, and never    *)
(* again: later edits need only be followed as checkouts.                    *)
CommitsMatter ==
    head # tree => phase \in {"policy", "reset", "first", "digest", "clean", "passed", "failed"}
=============================================================================
