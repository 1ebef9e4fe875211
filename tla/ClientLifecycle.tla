-------------------------- MODULE ClientLifecycle --------------------------
(***************************************************************************)
(* An ECNClient over its transport: start, wait_until_ready, the requests  *)
(* for recovery and close (client.py), composed with the supervisor.       *)
(* start is one shared task that ends with the client ready or failed; a   *)
(* failed start closes the transport and gives the services up, except     *)
(* when transient retries ran out, so that recovery can be asked for       *)
(* again.  close happens once and takes everything down.                   *)
(* A cancelled supervisor is assumed to end within shutdown_timeout.       *)
(***************************************************************************)
EXTENDS RecoverySupervisor

CONSTANT Callers        \* the tasks that call wait_until_ready

VARIABLES
    startup,    \* the startup task, "none" when it is over
    services,   \* task and watcher services are built
    cleanup,    \* the task that closes services and transport
    closer      \* close(): idle, closing, joining, done

cvars == <<startup, services, cleanup, closer>>
vars == <<svars, cvars>>

Init == /\ SupInit
        /\ startup = "none" /\ services = TRUE /\ cleanup = "none" /\ closer = "idle"

Idle == startup = "none"

----------------------------------------------------------------------------
(* start()                                                                 *)

(* A first start, or another after one that failed for a reason that a     *)
(* new attempt may mend.  A client that was ready only waits (see Wait).   *)
MayStart ==
    /\ cl.state \notin Closed /\ ~IsReady(cl, strict) /\ cl.gen = 0
    /\ ~(cl.state = "failed" /\ cl.code \in NewClientNeeded)
Start ==
    /\ closer = "idle" /\ MayStart /\ Idle
    /\ cl' = SetState(cl, "starting", strict) /\ startup' = "begin"
    /\ UNCHANGED <<task, attempt, closing, awaits, link, readiness, budget, snap, failed,
                   wakeup, timer, call, services, cleanup, closer>>

(* _start_once up to its wait: rebuilt services need the previous cleanup. *)
Running == {"asked", "closing"}
StartupBegins ==
    /\ startup = "begin" /\ (services \/ cleanup \notin Running)
    /\ services' = TRUE /\ cleanup' = IF services THEN cleanup ELSE "none"
    /\ StartTransport /\ startup' = "waiting"
    /\ UNCHANGED <<attempt, awaits, link, timer, call, cl, closer>>

(* _start_once ends with the client failed, unless it is closing.          *)
Failed(c) == /\ startup' = "none" /\ UNCHANGED <<services, cleanup>>
             /\ cl' = IF c.state \in Closed THEN c ELSE SetState(c, "failed", FALSE)

(* _cleanup_failed_start up to its wait.                                   *)
Tidy(c) == /\ startup' = "tidying" /\ cl' = c /\ services' = FALSE
           /\ cleanup' = IF cleanup = "none" \/ (cleanup = "done" /\ services)
                         THEN "asked" ELSE cleanup

(* The error of the transport's start in _start_once: when transient       *)
(* retries ran out and the client was never ready, all stays in place.     *)
KeptForRetry(s) == cl.gen = 0 /\ s.state = "terminal" /\ s.code \in Exhausted
Raised(c, s) ==
    IF c.state \in Closed \/ KeptForRetry(s) THEN Failed(c) ELSE Tidy(c)

(* _raise_start_failure: a transport that did not exhaust its retries is   *)
(* closed first.                                                           *)
RaiseStartFailure(c, s) ==
    IF s.code \in Exhausted
    THEN Raised(c, s) /\ UNCHANGED <<closing, wakeup, stop, timer, awaits, owned>>
                      /\ failed' = TRUE
    ELSE /\ BeginClose("startup") /\ startup' = "closing" /\ cl' = c
         /\ UNCHANGED <<services, cleanup>>

StartupFails ==
    /\ startup = "waiting" /\ failed /\ ~strict
    /\ RaiseStartFailure(cl, snap)
    /\ UNCHANGED <<sup, doubled, restart, attempt, link, readiness, budget, snap,
                   call, closer>>

(* The startup deadline: terminal for the phase the attempt is in, or for  *)
(* the last failure.                                                       *)
Overdue ==
    CASE sup = "tls" -> "configuration_invalid"
      [] sup = "resolve" -> "credentials_unavailable"
      [] sup \notin Attempting /\ snap.code # NoFailure -> snap.code
      [] OTHER -> "broker_unavailable"
StartupTimesOut ==
    /\ startup = "waiting"
    /\ LET s == Snapshot("terminal", Overdue) IN
       snap' = s /\ RaiseStartFailure(OnRecovery(cl, s, strict, session), s)
    /\ UNCHANGED <<sup, doubled, restart, attempt, link, readiness, budget,
                   call, closer>>

StartupReady ==
    /\ startup = "waiting" /\ strict
    /\ startup' = "none"
    /\ cl' = IF cl.state \in Closed THEN cl ELSE SetState(cl, "ready", strict)
    /\ UNCHANGED <<task, attempt, closing, awaits, link, readiness, budget, snap, failed,
                   wakeup, timer, call, services, cleanup, closer>>

(* The transport is closed: then the services.                             *)
StartupClosed ==
    /\ startup = "closing" /\ Over("startup")
    /\ EndClose("startup") /\ Raised(Lost(cl), snap)
    /\ UNCHANGED <<sup, owned, stop, doubled, attempt, closing, session, everReady,
                   readyAge, budget, snap, failed, wakeup, call, closer>>

(* The cleanup is over, or is waited for no longer.                        *)
StartupTidied ==
    /\ startup = "tidying"
    /\ Failed([cl EXCEPT !.connected = FALSE])
    /\ UNCHANGED <<task, attempt, closing, awaits, link, readiness, budget, snap, failed,
                   wakeup, timer, call, closer>>

(* The previous cleanup does not end in time.                              *)
StartupGivesUp ==
    /\ startup = "begin" /\ ~services /\ cleanup \in Running
    /\ Tidy(cl)
    /\ UNCHANGED <<task, attempt, closing, awaits, link, readiness, budget, snap, failed,
                   wakeup, timer, call, closer>>

StartupCancelled ==
    /\ startup = "cancelled" /\ startup' = "none"
    /\ UNCHANGED <<svars, services, cleanup, closer>>

(* Cancelled within the close of the transport, which finishes at once.    *)
StartupCloseCancelled ==
    /\ startup = "close_cancelled" /\ startup' = "none"
    /\ EndClose("startup") /\ cl' = Lost(cl)
    /\ UNCHANGED <<sup, owned, stop, doubled, attempt, closing, session, everReady,
                   readyAge, budget, snap, failed, wakeup, call,
                   services, cleanup, closer>>

----------------------------------------------------------------------------
(* _close_services_and_transport                                           *)

CleanupBegins ==
    /\ cleanup = "asked" /\ cleanup' = "closing" /\ BeginClose("cleanup")
    /\ UNCHANGED <<sup, doubled, restart, attempt, link, readiness, budget, snap,
                   call, cl, startup, services, closer>>

CleanupEnds ==
    /\ cleanup = "closing" /\ Over("cleanup") /\ cleanup' = "done"
    /\ EndClose("cleanup") /\ cl' = Lost(cl)
    /\ UNCHANGED <<sup, owned, stop, doubled, attempt, closing, session, everReady,
                   readyAge, budget, snap, failed, wakeup, call,
                   startup, services, closer>>

(* close(): announced, then the components, then closed, at the latest     *)
(* after shutdown_timeout.                                                 *)
Close ==
    /\ closer = "idle" /\ closer' = "closing"
    /\ cl' = SetState(cl, "closing", strict)
    /\ UNCHANGED <<task, attempt, closing, awaits, link, readiness, budget, snap, failed,
                   wakeup, timer, call, startup, services, cleanup>>

CloseComponents ==
    /\ closer = "closing" /\ closer' = "joining"
    /\ startup' = CASE startup = "none" -> "none"
                    [] startup = "closing" -> "close_cancelled"
                    [] OTHER -> "cancelled"
    /\ services' = FALSE
    /\ cleanup' = IF cleanup = "none" \/ (cleanup = "done" /\ services)
                  THEN "asked" ELSE cleanup
    /\ UNCHANGED <<svars>>

CloseEnds ==
    /\ closer = "joining" /\ closer' = "done"
    /\ cl' = SetState([cl EXCEPT !.connected = FALSE], "closed", strict)
    /\ UNCHANGED <<task, attempt, closing, awaits, link, readiness, budget, snap, failed,
                   wakeup, timer, call, startup, services, cleanup>>

----------------------------------------------------------------------------
(* The other calls.                                                        *)

Wait(c) ==
    /\ c \notin cl.waiting /\ cl' = Waits(cl, c, strict) /\ cl' # cl
    /\ UNCHANGED <<task, attempt, closing, awaits, link, readiness, budget, snap, failed,
                   wakeup, timer, call, cvars>>
WaitTimesOut(c) ==
    /\ c \in cl.waiting /\ cl' = [cl EXCEPT !.waiting = @ \ {c}]
    /\ UNCHANGED <<task, attempt, closing, awaits, link, readiness, budget, snap, failed,
                   wakeup, timer, call, cvars>>

Request == (RequestRetry \/ NotifyCredentialsChanged) /\ UNCHANGED cvars

StartupStep ==
    \/ StartupBegins \/ StartupFails \/ StartupTimesOut \/ StartupReady \/ StartupClosed
    \/ StartupTidied \/ StartupGivesUp \/ StartupCancelled \/ StartupCloseCancelled
CleanupStep == CleanupBegins \/ CleanupEnds
CloseStep == CloseComponents \/ CloseEnds

(* What two requests in a row can lead to is not followed: a second        *)
(* supervisor (see OneSupervisor), or a request that is left over for the  *)
(* failure after next because the task it waits for has yet to start.      *)
LeftOver == restart.codes # {} /\ ~restart.due /\ sup \notin {"ending", "none"}
Followed == ~doubled /\ ~LeftOver
Next ==
    /\ Followed
    /\ \/ Machinery /\ UNCHANGED cvars
       \/ Start \/ StartupStep \/ CleanupStep \/ Close \/ CloseStep \/ Request
       \/ \E c \in Callers : Wait(c) \/ WaitTimesOut(c)

Spec == Init /\ [][Next]_vars

----------------------------------------------------------------------------
(* Types.                                                                  *)
Places ==
    /\ sup \in Attempting \cup {"none", "attempt", "restoring", "serving", "clearing",
                                "sleeping", "ending"}
    /\ startup \in {"none", "begin", "waiting", "closing", "tidying", "cancelled",
                    "close_cancelled"}
    /\ cleanup \in Running \cup {"none", "done"}
    /\ closer \in {"idle", "closing", "joining", "done"}
    /\ awaits \in {"nobody", "startup", "cleanup"}
Flags ==
    /\ owned \in BOOLEAN /\ stop \in BOOLEAN /\ doubled \in BOOLEAN /\ wasReady \in BOOLEAN
    /\ closing \in BOOLEAN /\ connected \in BOOLEAN /\ usable \in BOOLEAN
    /\ strict \in BOOLEAN /\ everReady \in BOOLEAN /\ authUsed \in BOOLEAN
    /\ failed \in BOOLEAN /\ wakeup \in BOOLEAN /\ services \in BOOLEAN
Counts ==
    /\ session \in 0..MaxSessions /\ attempts \in 0..MaxAttempts
    /\ age \in None..MaxElapsed /\ readyAge \in None..StableAfter
    /\ prints \in 0..3
Timers ==
    /\ timer \subseteq [session : 0..MaxSessions, age : 0..StableAfter]
    /\ \A t, u \in timer : t = u
Records ==
    /\ restart \in [codes : {{}, Exhausted, CredentialCodes}, due : BOOLEAN]
    /\ call \in [open : BOOLEAN, suspended : BOOLEAN, session : 0..MaxSessions]
    /\ snap.state \in {"inactive", "connecting", "scheduled", "waiting_for_credentials",
                       "terminal"}
    /\ cl.state \in {"created", "starting", "ready", "reconnecting", "failed", "closing",
                     "closed"}
    /\ cl.waiting \subseteq Callers
TypeOK == Places /\ Flags /\ Counts /\ Timers /\ Records

(* "Wake one credential-blocked retry without creating another supervisor"  *)
(* (_transport/mqtt.py:1987): there is never more than one task that keeps  *)
(* the transport connected.                                                *)
OneSupervisor == ~doubled

(* Whoever waits for readiness is answered when there is an answer, and the *)
(* last status given to the streams of connection_events is the present    *)
(* one, unless the step that changed it is yet to announce it: no callback *)
(* of the transport leaves _publish_connection_status out.                 *)
NobodyLeftWaiting ==
    cl.waiting # {} => ~IsReady(cl, strict) /\ cl.state \notin Closed \cup {"failed"}
Settling ==
    \/ sup \in {"clearing", "ending"} \/ cleanup \in Running \/ closer # "idle"
    \/ startup \in {"closing", "tidying"}
StatusIsCurrent == Settling \/ cl.shown = Status(cl, strict)
Informed == NobodyLeftWaiting /\ StatusIsCurrent

(* A client that says it is starting or reconnecting has something at work  *)
(* on it: a supervisor, one that is asked for, or the startup task; and a  *)
(* supervisor that sleeps before a retry has said so, so that              *)
(* request_retry finds what to wake.  (A client whose transport a failed   *)
(* start has closed is the exception: see the README.)                     *)
Driven ==
    /\ cl.state \in {"starting", "reconnecting"}
        => Alive \/ restart.codes # {} \/ startup # "none" \/ closing
    /\ sup = "sleeping" /\ ~stop => snap.state \in {"scheduled", "waiting_for_credentials"}

(* Once the start is over, a client that was not in the ready state becomes *)
(* ready only with the session the supervisor has restored: neither a      *)
(* timer of an earlier session nor a subscribe that returns late makes it  *)
(* so.                                                                     *)
ReadyIsReal ==
    [][cl.state # "ready" /\ IsReady(cl', strict') /\ startup = "none"
       => cl'.rtg = session' /\ connected' /\ sup' \in {"serving", "clearing"}]_vars

(* Attempts are forgotten only after a connection that was ready for the    *)
(* stable period, by a request that follows a terminal failure, or by a    *)
(* new start: a connection that flaps runs out of its budget.              *)
BudgetIsEarned ==
    [][attempts' < attempts
       => \/ sup \in {"serving", "clearing"} /\ readyAge >= StableAfter
          \/ snap.state = "terminal" /\ sup \in {"none", "attempt"}
          \/ startup = "begin"]_vars
=============================================================================
