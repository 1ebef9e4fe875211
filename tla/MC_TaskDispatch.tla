-------------------------- MODULE MC_TaskDispatch --------------------------
(* Two sends over a table of one: one send in every state of its life,     *)
(* while a second one is refused, or is sent after the first has ended.    *)
EXTENDS TaskDispatch, TLC
CONSTANTS r1, r2
MCRequests == {r1, r2}
============================================================================
