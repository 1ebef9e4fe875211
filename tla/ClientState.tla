---------------------------- MODULE ClientState ----------------------------
(***************************************************************************)
(* What an ECNClient (client.py) knows of its connection and tells others: *)
(* a record, and the callbacks and setters that change it.  None of them   *)
(* suspends, so each is a function of the record.  Whoever calls           *)
(* wait_until_ready is in "waiting" until a publication answers everybody; *)
(* "shown" is the last status given to the streams of connection_events.   *)
(***************************************************************************)
EXTENDS Integers

NoFailure == "none"
Closed == {"closing", "closed"}
NewClientNeeded == {"configuration_invalid", "tls_peer_verification_failed"}
CredentialCodes == {"credentials_unavailable", "authentication_rejected"}
Exhausted == {"retry_exhausted"}

IsReady(c, strict) == c.state = "ready" /\ c.connected /\ strict

Status(c, strict) ==
    [state |-> c.state, ready |-> IsReady(c, strict), connected |-> c.connected,
     gen |-> c.gen, code |-> c.code, retry |-> c.retry]

NewClient ==
    [state |-> "created", connected |-> FALSE, gen |-> 0, rtg |-> 0,
     code |-> NoFailure, retry |-> "inactive", waiting |-> {},
     shown |-> [state |-> "created", ready |-> FALSE, connected |-> FALSE,
                gen |-> 0, code |-> NoFailure, retry |-> "inactive"]]

(* _publish_connection_status: a status that differs is shown, and those   *)
(* who wait are answered when it is ready, failed or closed.               *)
OnlyReady(c, strict) == IsReady(c, strict)  \* a defect of Answered
Answered(c, strict) ==
    IsReady(c, strict) \/ c.state \in Closed \cup {"failed"}
Publish(c, strict) ==
    [c EXCEPT !.shown = Status(c, strict),
              !.waiting = IF Answered(c, strict) THEN {} ELSE @]

SetState(c, s, strict) ==
    Publish([c EXCEPT !.state = s,
                      !.retry = CASE s \in Closed \cup {"starting"} -> "inactive"
                                  [] s = "failed" -> "terminal"
                                  [] OTHER -> @], strict)

OnConnection(c, up, strict) ==
    IF (up /\ c.state \in Closed) \/ c.connected = up THEN c
    ELSE Publish([c EXCEPT !.connected = up,
                           !.state = IF ~up /\ @ = "ready" THEN "reconnecting" ELSE @],
                 strict)

(* _on_mqtt_recovery_change: the state a snapshot leads to.                *)
Follows(c, snap, strict, code) ==
    CASE snap.state = "terminal" -> "failed"
      [] /\ snap.state = "connecting"
         /\ \/ c.gen > 0 \/ c.state = "reconnecting"
            \/ c.state = "failed" /\ code \in Exhausted -> "reconnecting"
      [] snap.state = "inactive" /\ c.connected /\ strict -> "ready"
      [] OTHER -> c.state

OnRecovery(c, snap, strict, generation) ==
    LET code == IF snap.code = NoFailure THEN c.code ELSE snap.code
        next == Follows(c, snap, strict, code)
        established == snap.state = "inactive" /\ c.connected /\ strict
    IN  IF c.state \in Closed THEN c
        ELSE Publish([c EXCEPT
                 !.retry = snap.state, !.code = code, !.state = next,
                 !.gen = IF established /\ c.state # "ready" THEN @ + 1 ELSE @,
                 !.rtg = IF established THEN generation ELSE @], strict)

(* _mark_authorized_revival: shown at once, before the supervisor runs.    *)
Revived(c, before, allowed, strict) ==
    IF /\ c.state = "failed" /\ before.state = "terminal" /\ before.code \in allowed
       /\ c.gen > 0 \/ before.code \in Exhausted
    THEN Publish([c EXCEPT !.retry = "connecting", !.state = "reconnecting"], strict)
    ELSE c

(* wait_until_ready: at once, refused, or among those who wait.            *)
Refuses(c) == c.state \in Closed \cup {"created", "failed"}
Waits(c, caller, strict) ==
    IF IsReady(c, strict) \/ Refuses(c) THEN c
    ELSE [c EXCEPT !.waiting = @ \cup {caller}]
=============================================================================
