-------------------------- MODULE DeliveryContract --------------------------
(***************************************************************************)
(* What TaskService.send promises its caller (interfaces/tasks.py, the     *)
(* "Raises" table; models/common.py DeliveryPhase; exceptions.py).  A      *)
(* request has a fate outside the client, which the client learns only in  *)
(* part, and the caller is told one verdict, once.  A verdict may claim no *)
(* more than the fate supports, and what was reported as not sent is never *)
(* sent afterwards: the caller may safely issue it again.                  *)
(***************************************************************************)
CONSTANT Requests

VARIABLES fate,   \* local, sent, accepted or refused by the broker, answered
          told    \* the verdict send() ended with, or "none"

vars == <<fate, told>>

Fates == {"local", "sent", "accepted", "refused", "answered"}
Verdicts == {"response", "receipt", "unknown", "rejected", "not_sent",
             "cancelled", "limit"}

(* The verdicts a fate supports.  OutcomeUnknownError is always allowed    *)
(* once the request has left; the definite ones need their evidence.       *)
Supports(f) ==
    CASE f = "local"    -> {"not_sent", "cancelled", "limit", "rejected"}
      [] f = "sent"     -> {"unknown"}
      [] f = "accepted" -> {"unknown", "receipt"}
      [] f = "refused"  -> {"unknown", "rejected"}
      [] f = "answered" -> {"unknown", "receipt", "response"}

Follows == [local |-> {"sent"}, sent |-> {"accepted", "refused"},
            accepted |-> {"answered"}, refused |-> {}, answered |-> {}]

Init == /\ fate = [r \in Requests |-> "local"]
        /\ told = [r \in Requests |-> "none"]

(* The world moves on, for a request the caller has not been told is gone. *)
Proceed(r) ==
    /\ \E f \in Follows[fate[r]] : fate' = [fate EXCEPT ![r] = f]
    /\ fate[r] = "local" => told[r] = "none"
    /\ UNCHANGED told

Conclude(r) ==
    /\ told[r] = "none"
    /\ \E v \in Supports(fate[r]) : told' = [told EXCEPT ![r] = v]
    /\ UNCHANGED fate

Next == \E r \in Requests : Proceed(r) \/ Conclude(r)
Spec == Init /\ [][Next]_vars
============================================================================
