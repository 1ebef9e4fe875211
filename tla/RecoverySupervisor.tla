------------------------- MODULE RecoverySupervisor -------------------------
(***************************************************************************)
(* The task that keeps an MQTTTransport connected (_transport/mqtt.py,     *)
(* _run): attempts within a budget of attempts and of time, the retry      *)
(* sleep with its wake-up, the classification of failures, the timer that  *)
(* refills the budget after a stable connection, the requests that start a *)
(* new episode after a terminal one, and close.  Announcements call the    *)
(* client (ClientState) and do not suspend, so they are part of the step   *)
(* that makes them.                                                        *)
(* Time is kept as ages, in units of the smallest interval of the policy.  *)
(***************************************************************************)
EXTENDS ClientState, FailureClasses

CONSTANTS Fails,        \* the errors that may end each phase of an attempt
          MaxAttempts,  \* maximum_attempts
          MaxElapsed,   \* maximum_elapsed_seconds
          StableAfter,  \* stable_reset_seconds
          MaxSessions   \* bound: connections established

Attempting == {"resolve", "tls", "connect"}
ASSUME FailsAssumption ==
    DOMAIN Fails = Attempting \cup {"restoring", "serving"}
Errors == UNION {Fails[p] : p \in DOMAIN Fails}
ASSUME BudgetAssumption ==
    /\ MaxAttempts \in Nat \ {0} /\ MaxElapsed \in Nat \ {0}
    /\ StableAfter \in Nat \ {0} /\ MaxSessions \in Nat

VARIABLES
    sup,        \* where the supervisor is; "none" when its task is over
    owned,      \* _supervisor refers to it
    stop,       \* it has been cancelled
    doubled,    \* a second one was created while it was alive
    restart,    \* the codes a new episode was requested for while one was
                \* alive, and whether the callback of its end is queued
    why,        \* the error that ended the attempt
    wasReady,
    closing,    \* _closing
    connected,  \* _connected
    session,    \* _connection_generation
    usable,     \* _client is set
    strict,     \* _strict_ready
    everReady,  \* _ever_ready
    readyAge,   \* time since _ready_since, or None
    age,        \* time since _recovery_started_at, or None
    attempts,   \* _attempt_count
    authUsed,   \* _auth_immediate_retry_used
    print,      \* _protocol_failure_signature
    prints,     \* _protocol_failure_count
    snap,       \* _recovery_snapshot
    failed,     \* _startup_failure_event
    wakeup,     \* _retry_wakeup
    timer,      \* the stable-ready timers: session and age
    call,       \* the subscribe that holds _subscription_lock
    awaits,     \* which close() waits for the supervisor, or nobody
    cl          \* the client

None == -1
task == <<sup, owned, stop, doubled, restart>>
attempt == <<why, wasReady>>
link == <<connected, session, usable>>
readiness == <<strict, everReady, readyAge>>
budget == <<age, attempts, authUsed, print, prints>>
svars == <<task, attempt, closing, awaits, link, readiness, budget, snap, failed,
           wakeup, timer, call, cl>>

NoCall == [open |-> FALSE, suspended |-> FALSE, session |-> 0]
Snapshot(state, code) == [state |-> state, code |-> code]
Inactive == Snapshot("inactive", NoFailure)
NoError == Plain("MqttError")
NoRestart == [codes |-> {}, due |-> FALSE]

SupInit ==
    /\ sup = "none" /\ owned = FALSE /\ stop = FALSE /\ doubled = FALSE /\ restart = NoRestart
    /\ why = NoError /\ wasReady = FALSE /\ closing = FALSE
    /\ connected = FALSE /\ session = 0 /\ usable = FALSE
    /\ strict = FALSE /\ everReady = FALSE /\ readyAge = None
    /\ age = None /\ attempts = 0 /\ authUsed = FALSE /\ print = <<>> /\ prints = 0
    /\ snap = Inactive /\ failed = FALSE /\ wakeup = FALSE
    /\ timer = {} /\ call = NoCall /\ cl = NewClient /\ awaits = "nobody"

----------------------------------------------------------------------------
Alive == sup # "none"
Lost(c) == OnConnection(c, FALSE, FALSE)       \* _set_connected(False)
Told(c, s) == OnRecovery(c, s, FALSE, session) \* _emit_recovery, not ready
NotReady == strict' = FALSE /\ timer' = {}     \* _mark_not_ready

(* asyncio.create_task(self._run()).                                       *)
Spawn == /\ sup' = "attempt" /\ owned' = TRUE /\ stop' = FALSE
         /\ doubled' = (doubled \/ Alive)

FreshBudget == age' = None /\ attempts' = 0 /\ authUsed' = FALSE
               /\ print' = <<>> /\ prints' = 0

(* _set_terminal_recovery: the rest of _run waits for the lock.            *)
Terminate(c, client) ==
    /\ snap' = Snapshot("terminal", c.code)
    /\ cl' = Told(client, Snapshot("terminal", c.code))
    /\ failed' = TRUE /\ sup' = "ending"

HasAttempts == attempts < MaxAttempts
TimeIsUp(a) == a # None /\ a >= MaxElapsed

(* _begin_attempt: the episode's clock starts with its first attempt, and  *)
(* an attempt is begun while the budget lasts.                             *)
BeginAttempt(begun) ==
    /\ age' = IF age = None THEN 0 ELSE age
    /\ begun = (HasAttempts /\ ~(TimeIsUp(age') /\ attempts > 0))
    /\ attempts' = IF begun THEN attempts + 1 ELSE attempts

(* The top of the loop of _run, up to the first suspension.  A callback    *)
(* that was queued before the task runs before it.                         *)
Attempt ==
    /\ sup = "attempt" /\ ~stop /\ ~restart.due
    /\ \/ /\ closing
          /\ sup' = "ending" /\ UNCHANGED <<budget, snap, cl, failed>>
       \/ /\ ~closing /\ BeginAttempt(FALSE)
          /\ Terminate(OutOfBudget(snap.code), cl)
          /\ UNCHANGED <<authUsed, print, prints>>
       \/ /\ ~closing /\ BeginAttempt(TRUE)
          /\ snap' = Snapshot("connecting", NoFailure)
          /\ cl' = OnRecovery(cl, snap', strict, session)
          /\ sup' = "resolve"
          /\ UNCHANGED <<authUsed, print, prints, failed>>
    /\ UNCHANGED <<owned, stop, doubled, restart, attempt, closing, awaits, link,
                   readiness, wakeup, timer, call>>

(* _authentication, then the TLS material and _new_client, whose __aenter__*)
(* opens the connection (ConnectionOpening).                               *)
Authenticated == sup = "resolve" /\ sup' = "tls"
NewConnection == sup = "tls" /\ sup' = "connect"
Advance ==
    /\ ~stop
    /\ Authenticated \/ NewConnection
    /\ UNCHANGED <<owned, stop, doubled, restart, attempt, closing, awaits, link,
                   readiness, budget, snap, failed, wakeup, timer, call, cl>>

(* CONNACK.  The cause of earlier failures is cleared before the           *)
(* connection is announced.                                                *)
Connected ==
    /\ sup = "connect" /\ ~stop /\ session < MaxSessions
    /\ failed' = FALSE /\ connected' = TRUE /\ session' = session + 1
    /\ cl' = OnConnection(cl, TRUE, strict)
    /\ sup' = "restoring"
    /\ UNCHANGED <<owned, stop, doubled, restart, attempt, closing, awaits, usable,
                   readiness, budget, snap, wakeup, timer, call>>

(* _mark_ready, with the new timer in place of the old one.                *)
NewTimer == [session |-> session, age |-> 0]
OneTimer == {NewTimer}
MarkReady ==
    /\ strict' = TRUE /\ everReady' = TRUE /\ readyAge' = 0
    /\ print' = <<>> /\ prints' = 0
    /\ timer' = OneTimer

(* Every owned subscription is restored.                                   *)
Restored ==
    /\ sup = "restoring" /\ ~stop /\ ~closing
    /\ usable' = TRUE /\ MarkReady
    /\ snap' = Inactive /\ cl' = OnRecovery(cl, Inactive, TRUE, session)
    /\ sup' = "serving"
    /\ UNCHANGED <<owned, stop, doubled, restart, attempt, closing, awaits, connected,
                   session, age, attempts, authUsed, failed, wakeup, call>>

----------------------------------------------------------------------------
(* The end of an attempt.                                                  *)

(* _finish_ready_period *)
AlwaysStable == wasReady         \* a defect of Stable
Stable == wasReady /\ readyAge # None /\ readyAge >= StableAfter

(* The classification of every error that is possible here.                *)
ClassOf ==
    [x \in Errors \X BOOLEAN \X BOOLEAN \X BOOLEAN |-> Classify(x[1], x[2], x[3], x[4])]

(* _run after the finally clause: what the failure leads to.  No announce- *)
(* ment suspends, so no wake-up falls between it and the sleep.            *)
Decide(e, reset) ==
    LET retryUsed == authUsed /\ ~reset
        c0 == ClassOf[<<e, everReady, retryUsed, wasReady>>]
        c == Limited(c0, print, prints)
        since == IF reset THEN None ELSE age
        used == IF reset THEN 0 ELSE attempts
        client == Lost(cl)
        spent == TimeIsUp(since) \/ used >= MaxAttempts
        next == Snapshot(IF c.waiting THEN "waiting_for_credentials" ELSE "scheduled", c.code)
    IN  /\ age' = since /\ attempts' = used
        /\ authUsed' = (retryUsed \/ (c0.waiting /\ c0.immediate))
        /\ print' = IF c.code = "protocol_failure" THEN c0.print ELSE <<>>
        /\ prints' = Streak(c0, print, prints)
        /\ \/ /\ c.terminal \/ spent
              /\ Terminate(IF c.terminal THEN c ELSE OutOfBudget(c.code), client)
              /\ UNCHANGED wakeup
           \/ /\ ~c.terminal /\ ~spent
              /\ snap' = next /\ cl' = Told(client, next)
              /\ \/ sup' = "attempt" /\ UNCHANGED wakeup    \* no delay
                 \/ ~c.immediate /\ ~reset /\ sup' = "sleeping" /\ wakeup' = FALSE
              /\ UNCHANGED failed

(* The finally clause once the client is cleared: the ready period ends,   *)
(* then the connection, and the failure is judged unless closing.          *)
Settle(e) ==
    /\ readyAge' = IF wasReady THEN None ELSE readyAge
    /\ connected' = FALSE
    /\ IF closing
       THEN /\ sup' = "ending" /\ cl' = Lost(cl)
            /\ UNCHANGED <<budget, snap, failed, wakeup>>
       ELSE Decide(e, Stable)

(* An attempt fails before there is a client: nothing to clear.            *)
FailEarly(e) ==
    /\ sup \in {"resolve", "tls"} /\ ~stop
    /\ NotReady /\ Settle(e)
    /\ UNCHANGED <<owned, stop, doubled, restart, attempt, closing, awaits, session, usable,
                   everReady, call>>

(* It fails later: readiness goes at once, the client when the lock is     *)
(* free.                                                                   *)
Fail(e) ==
    /\ sup \in {"connect", "restoring", "serving"} /\ ~stop
    /\ NotReady /\ why' = e /\ wasReady' = (sup = "serving")
    /\ sup' = "clearing"
    /\ UNCHANGED <<owned, stop, doubled, restart, closing, awaits, link, everReady, readyAge,
                   budget, snap, failed, wakeup, call, cl>>

Clear ==
    /\ sup = "clearing" /\ ~stop /\ ~call.open
    /\ usable' = FALSE /\ wasReady' = FALSE /\ why' = NoError
    /\ Settle(why)
    /\ UNCHANGED <<owned, stop, doubled, restart, closing, awaits, session, strict, everReady,
                   timer, call>>

(* The retry sleep ends by itself; a wake-up is one way to end early.       *)
SleepOver ==
    /\ sup = "sleeping" /\ ~stop
    /\ sup' = "attempt"
    /\ UNCHANGED <<owned, stop, doubled, restart, attempt, closing, awaits, link,
                   readiness, budget, snap, failed, wakeup, timer, call, cl>>

(* The cancellation close() asked for, delivered at any suspension.        *)
Cancelled ==
    /\ stop /\ sup \notin {"none", "ending"}
    /\ NotReady /\ sup' = "ending"
    /\ UNCHANGED <<owned, stop, doubled, restart, attempt, closing, awaits, link, everReady,
                   readyAge, budget, snap, failed, wakeup, call, cl>>

(* The finally clause of _run.                                             *)
End ==
    /\ sup = "ending" /\ ~call.open
    /\ sup' = "none" /\ stop' = FALSE /\ wasReady' = FALSE /\ why' = NoError
    /\ usable' = FALSE /\ connected' = FALSE /\ cl' = Lost(cl)
    /\ restart' = [restart EXCEPT !.due = restart.codes # {}]
    /\ UNCHANGED <<owned, doubled, closing, awaits, session, readiness, budget,
                   snap, failed, wakeup, timer, call>>

----------------------------------------------------------------------------
(* Requests from outside.                                                  *)

Signal == wakeup' = TRUE

Revivable(allowed) == snap.state = "terminal" /\ snap.code \in allowed

(* _start_new_recovery_episode *)
NewEpisode(allowed) ==
    IF closing \/ connected \/ ~Revivable(allowed)
    THEN UNCHANGED <<sup, owned, stop, doubled, budget, failed>>
    ELSE Spawn /\ FreshBudget /\ failed' = FALSE

(* _schedule_new_recovery_episode: at once, or when the old one is over.   *)
MustWait == Alive
Forgets(allowed) ==                         \* a defect of Schedule
    IF Revivable(allowed) /\ ~MustWait THEN NewEpisode(allowed) /\ UNCHANGED restart
    ELSE UNCHANGED <<task, budget, failed>>
Schedule(allowed) ==
    \/ ~Revivable(allowed) /\ UNCHANGED <<task, budget, failed>>
    \/ /\ Revivable(allowed) /\ MustWait
       /\ restart' = IF restart.codes = {} THEN [NoRestart EXCEPT !.codes = allowed] ELSE restart
       /\ UNCHANGED <<sup, owned, stop, doubled, budget, failed>>
    \/ /\ Revivable(allowed) /\ ~MustWait
       /\ NewEpisode(allowed) /\ UNCHANGED restart

(* request_retry and notify_credentials_changed of transport and client.   *)
Ask(waking, allowed) ==
    /\ \/ (closing \/ connected) /\ UNCHANGED <<task, budget, failed, wakeup>>
       \/ /\ ~closing /\ ~connected /\ snap.state = waking
          /\ Signal /\ UNCHANGED <<task, budget, failed>>
       \/ /\ ~closing /\ ~connected /\ snap.state # waking
          /\ Schedule(allowed) /\ UNCHANGED wakeup
    /\ cl' = Revived(cl, snap, allowed, strict)
    /\ UNCHANGED <<attempt, closing, awaits, link, readiness, snap, timer, call>>

RequestRetry == Ask("scheduled", Exhausted)
NotifyCredentialsChanged == Ask("waiting_for_credentials", CredentialCodes)

(* The done-callback of a supervisor that a new episode waited for.        *)
Restart ==
    /\ restart.due /\ restart' = NoRestart /\ NewEpisode(restart.codes)
    /\ UNCHANGED <<attempt, closing, awaits, link, readiness, snap, wakeup, timer, call, cl>>

(* The stable-ready timer.                                                 *)
AnyReady(t) == strict                       \* a defect of StillReady
StillReady(t) == strict /\ session = t.session /\ readyAge # None
StableReset(t) ==
    /\ t \in timer /\ t.age >= StableAfter
    /\ timer' = timer \ {t}
    /\ IF ~closing /\ StillReady(t)
       THEN /\ FreshBudget /\ snap' = Inactive
            /\ cl' = OnRecovery(cl, Inactive, strict, session)
       ELSE UNCHANGED <<budget, snap, cl>>
    /\ UNCHANGED <<task, attempt, closing, awaits, link, readiness, failed, wakeup, call>>

----------------------------------------------------------------------------
(* A subscribe of a durable filter, as far as the supervisor sees it (see  *)
(* Subscriptions): it holds the lock, suspends readiness and restores it,  *)
(* and announces both with the snapshot as it stands.                      *)
CallOpens ==
    /\ ~call.open /\ usable /\ connected /\ ~closing
    /\ call' = [open |-> TRUE, suspended |-> strict, session |-> session]
    /\ IF strict THEN NotReady /\ cl' = Told(cl, snap) ELSE UNCHANGED <<strict, timer, cl>>
    /\ UNCHANGED <<task, attempt, closing, awaits, link, everReady, readyAge, budget, snap,
                   failed, wakeup>>

Restorable == call.suspended /\ ~closing /\ usable /\ connected /\ call.session = session
KeptQuiet(c) == c                           \* a defect of Retold
Retold(c) == OnRecovery(c, snap, TRUE, session)
CallReturns ==
    /\ call.open /\ call' = NoCall
    /\ IF Restorable
       THEN MarkReady /\ cl' = Retold(cl)
       ELSE UNCHANGED <<readiness, timer, print, prints, cl>>
    /\ UNCHANGED <<task, attempt, closing, awaits, link, age, attempts, authUsed, snap,
                   failed, wakeup>>

(* An ambiguous SUBACK, or a failed UNSUBSCRIBE: the session is given up.  *)
CallInvalidates ==
    /\ call.open /\ call' = NoCall /\ NotReady
    /\ usable' = FALSE /\ connected' = FALSE /\ cl' = Lost(cl)
    /\ UNCHANGED <<task, attempt, closing, awaits, session, everReady, readyAge, budget, snap,
                   failed, wakeup>>

----------------------------------------------------------------------------
(* start() and close() of the transport, for the client to call.           *)

StartTransport ==
    IF Alive /\ owned
    THEN UNCHANGED <<task, closing, readiness, budget, snap, failed, wakeup>>
    ELSE /\ Spawn /\ restart' = NoRestart /\ closing' = FALSE /\ failed' = FALSE
         /\ wakeup' = FALSE
         /\ strict' = strict /\ everReady' = FALSE /\ readyAge' = None
         /\ FreshBudget /\ snap' = Inactive

(* close up to its wait for what it cancelled, and after it.  A second one  *)
(* finds no supervisor to wait for.                                        *)
BeginClose(who) ==
    /\ closing' = TRUE /\ wakeup' = TRUE /\ failed' = (failed \/ ~connected)
    /\ stop' = (stop \/ (owned /\ Alive)) /\ timer' = {}
    /\ awaits' = IF owned /\ Alive THEN who ELSE awaits
    /\ owned' = FALSE
Over(who) == ~call.open /\ (awaits = who => ~Alive)
EndClose(who) ==
    /\ usable' = FALSE /\ restart' = NoRestart /\ NotReady /\ connected' = FALSE
    /\ awaits' = IF awaits = who THEN "nobody" ELSE awaits

Tick ==
    /\ age' = IF age \in 0..(MaxElapsed - 1) THEN age + 1 ELSE age
    /\ readyAge' = IF readyAge \in 0..(StableAfter - 1) THEN readyAge + 1 ELSE readyAge
    /\ timer' = {[t EXCEPT !.age = IF @ < StableAfter THEN @ + 1 ELSE @] : t \in timer}
    /\ <<age, readyAge, timer>>' # <<age, readyAge, timer>>
    /\ UNCHANGED <<task, attempt, closing, awaits, link, strict, everReady, attempts, authUsed,
                   print, prints, snap, failed, wakeup, call, cl>>

Machinery ==
    \/ Attempt \/ Advance \/ Connected \/ Restored \/ Clear \/ SleepOver \/ Cancelled \/ End
    \/ Restart \/ CallOpens \/ CallReturns \/ CallInvalidates \/ Tick
    \/ sup \in DOMAIN Fails /\ \E e \in Fails[sup] : FailEarly(e) \/ Fail(e)
    \/ \E t \in timer : StableReset(t)
=============================================================================
