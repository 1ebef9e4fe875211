--------------------------- MODULE Subscriptions ---------------------------
(***************************************************************************)
(* The subscriptions of MQTTTransport (_transport/mqtt.py): subscribe and  *)
(* unsubscribe calls that share one lock, the supervisor that connects,    *)
(* restores, serves and clears, and the broker, which answers the requests *)
(* of a session in order and forgets everything with the session.  The     *)
(* transport is ready when it is connected and every durable subscription  *)
(* is established; a durable subscribe suspends readiness until its SUBACK.*)
(* A broker request is a task of its own, shielded from its caller, which  *)
(* may be cancelled while it waits: then the caller waits again, undoes    *)
(* what the broker granted, and only then ends.                            *)
(***************************************************************************)
EXTENDS Integers, Sequences

CONSTANTS Ops,          \* the subscribe calls, and the handles they return
          Sup,          \* the supervisor
          Filters,
          FilterOf,     \* the topic filter of a call
          Durable,      \* the calls with restore_on_reconnect
          Pinned,       \* the calls that give expected_connection_generation
          MaxSessions,  \* bound: connections
          MaxCancels    \* bound: cancellations of callers

ASSUME OpsAssumption == Sup \notin Ops
ASSUME FilterAssumption == FilterOf \in [Ops -> Filters]
ASSUME DurableAssumption == Durable \subseteq Ops
ASSUME PinnedAssumption == Pinned \subseteq Ops
ASSUME BoundAssumption == MaxSessions \in Nat /\ MaxCancels \in Nat

VARIABLES
    sup,        \* the supervisor: off, restoring, serving, clearing
    required,   \* the filters of one restore round that are to be active
    restored,   \* restored_filters
    asked,      \* the filter of the request that runs
    spoiled,    \* a rejection no callback isolated
    session,    \* _connection_generation
    up,         \* the network connection of the session lives
    connected,  \* _connected
    client,     \* _client: the session that may be used, 0 for none
    ready,      \* _strict_ready
    closing,    \* _closing
    pc,         \* where each call is
    seen,       \* expected_connection_generation
    own,        \* the session of its broker request
    suspended,  \* readiness_suspended
    cancel,     \* a cancellation is to be delivered
    cancels,    \* cancellations so far
    task,       \* the broker request that runs: none, sub, unsub
    reply,      \* what it returned
    registered, \* _subscriptions
    wire,       \* the requests on their way to the broker
    brokerSubs, \* the filters the broker has
    escaped     \* a second cancellation left a SUBSCRIBE unattended

supervisor == <<sup, required, restored, asked, spoiled>>
link == <<session, up, connected, client>>
call == <<seen, own, suspended>>
interrupts == <<cancel, cancels, closing>>
requests == <<task, reply>>
broker == <<wire, brokerSubs>>
vars == <<supervisor, link, ready, pc, call, interrupts, requests, registered,
          broker, escaped>>

Actors == Ops \cup {Sup}
Holding == {"subscribing", "cancelled", "undoing", "compensating",
            "invalidating", "removing"}
LockFree == \A o \in Ops : pc[o] \notin Holding

TypeOK ==
    /\ sup \in {"off", "restoring", "serving", "clearing"}
    /\ required \subseteq Filters /\ restored \subseteq Filters
    /\ asked \subseteq Filters /\ spoiled \in BOOLEAN
    /\ session \in 0..MaxSessions /\ client \in {0, session}
    /\ up \in BOOLEAN /\ connected \in BOOLEAN /\ ready \in BOOLEAN
    /\ closing \in BOOLEAN /\ escaped \in BOOLEAN
    /\ pc \in [Ops -> Holding \cup {"idle", "called", "open", "done"}]
    /\ seen \in [Ops -> 0..MaxSessions] /\ own \in [Ops -> 0..MaxSessions]
    /\ suspended \in [Ops -> BOOLEAN] /\ cancel \in [Ops -> BOOLEAN]
    /\ cancels \in 0..MaxCancels
    /\ task \in [Actors -> {"none", "sub", "unsub"}]
    /\ reply \in [Actors -> {"none", "granted", "denied", "removed", "failed"}]
    /\ registered \subseteq Ops
    /\ wire \in Seq([who : Actors, kind : {"sub", "unsub"}, filter : Filters])
    /\ brokerSubs \subseteq Filters
    /\ up => sup # "off"
    /\ ~up => wire = <<>> /\ brokerSubs = {}
    /\ \A o, p \in Ops : pc[o] \in Holding /\ pc[p] \in Holding => o = p

Init ==
    /\ sup = "off" /\ required = {} /\ restored = {} /\ asked = {} /\ spoiled = FALSE
    /\ session = 0 /\ up = FALSE /\ connected = FALSE /\ client = 0
    /\ ready = FALSE /\ closing = FALSE
    /\ pc = [o \in Ops |-> "idle"] /\ seen = [o \in Ops |-> 0]
    /\ own = [o \in Ops |-> 0] /\ suspended = [o \in Ops |-> FALSE]
    /\ cancel = [o \in Ops |-> FALSE] /\ cancels = 0
    /\ task = [a \in Actors |-> "none"] /\ reply = [a \in Actors |-> "none"]
    /\ registered = {} /\ wire = <<>> /\ brokerSubs = {} /\ escaped = FALSE

----------------------------------------------------------------------------
FiltersOf(handles) == {FilterOf[o] : o \in handles}

(* asyncio.create_task of a broker request: it goes out if the connection  *)
(* lives, and fails if not.                                                *)
Request(a, k, f) ==
    /\ task' = [task EXCEPT ![a] = k] /\ reply' = [reply EXCEPT ![a] = "none"]
    /\ wire' = IF up THEN Append(wire, [who |-> a, kind |-> k, filter |-> f])
               ELSE wire

SessionDies == up' = FALSE /\ wire' = <<>> /\ brokerSubs' = {}

Goes(o, where) ==
    /\ pc' = [pc EXCEPT ![o] = where] /\ cancel' = [cancel EXCEPT ![o] = FALSE]

(* The session in which the call asked the broker is still in use.         *)
Live(o) == ~closing /\ connected /\ client # 0 /\ client = own[o]

Resume(o) == ready' = (ready \/ (suspended[o] /\ Live(o)))

----------------------------------------------------------------------------
(* A pinned call names the session its caller saw.                         *)
Call(o) ==
    /\ pc[o] = "idle" /\ session > 0
    /\ pc' = [pc EXCEPT ![o] = "called"]
    /\ seen' = [seen EXCEPT ![o] = session]
    /\ UNCHANGED <<supervisor, link, ready, own, suspended, interrupts,
                   requests, registered, broker, escaped>>

AdmittedAnySession(o) == client # 0 /\ connected /\ ~closing \* a defect
Admitted(o) ==
    /\ client # 0 /\ connected /\ ~closing
    /\ o \in Pinned => seen[o] = session

Refused(o) ==
    /\ pc[o] = "called"
    /\ cancel[o] \/ (LockFree /\ ~Admitted(o))
    /\ Goes(o, "done")
    /\ UNCHANGED <<supervisor, link, ready, call, cancels, closing, requests,
                   registered, broker, escaped>>

(* The broker has the filter already: no request.                          *)
Join(o) ==
    /\ pc[o] = "called" /\ ~cancel[o] /\ LockFree /\ Admitted(o)
    /\ FilterOf[o] \in FiltersOf(registered)
    /\ Goes(o, "open")
    /\ own' = [own EXCEPT ![o] = session]
    /\ registered' = registered \cup {o}
    /\ UNCHANGED <<supervisor, link, ready, seen, suspended, cancels, closing,
                   requests, broker, escaped>>

Subscribe(o) ==
    /\ pc[o] = "called" /\ ~cancel[o] /\ LockFree /\ Admitted(o)
    /\ FilterOf[o] \notin FiltersOf(registered)
    /\ Goes(o, "subscribing")
    /\ own' = [own EXCEPT ![o] = session]
    /\ suspended' = [suspended EXCEPT ![o] = o \in Durable /\ ready]
    /\ ready' = (ready /\ o \notin Durable)
    /\ Request(o, "sub", FilterOf[o])
    /\ UNCHANGED <<supervisor, link, seen, cancels, closing, registered,
                   brokerSubs, escaped>>

Opened(o) ==
    /\ pc[o] = "subscribing" /\ ~cancel[o] /\ reply[o] = "granted" /\ Live(o)
    /\ Resume(o)
    /\ Goes(o, "open")
    /\ registered' = registered \cup {o}
    /\ UNCHANGED <<supervisor, link, call, cancels, closing, requests, broker,
                   escaped>>

(* Granted, but the session is not in use any more.                        *)
Outlived(o) ==
    /\ pc[o] = "subscribing" /\ ~cancel[o] /\ reply[o] = "granted" /\ ~Live(o)
    /\ Goes(o, "compensating")
    /\ Request(o, "unsub", FilterOf[o])
    /\ UNCHANGED <<supervisor, link, ready, call, cancels, closing, registered,
                   brokerSubs, escaped>>

Rejected(o) ==
    /\ pc[o] \in {"subscribing", "cancelled"} /\ ~cancel[o] /\ reply[o] = "denied"
    /\ Resume(o)
    /\ Goes(o, "done")
    /\ UNCHANGED <<supervisor, link, call, cancels, closing, requests,
                   registered, broker, escaped>>

(* Nobody knows whether the broker subscribed: the session must go.        *)
Ambiguous(o) ==
    /\ pc[o] \in {"subscribing", "cancelled"} /\ ~cancel[o] /\ reply[o] = "failed"
    /\ ready' = FALSE
    /\ IF own[o] = session THEN SessionDies ELSE UNCHANGED <<up, broker>>
    /\ Goes(o, "invalidating")
    /\ UNCHANGED <<supervisor, session, connected, client, call, cancels,
                   closing, requests, registered, escaped>>

Invalidated(o) ==
    /\ pc[o] = "invalidating"
    /\ client' = IF client = own[o] THEN 0 ELSE client
    /\ connected' = FALSE
    /\ Goes(o, "done")
    /\ UNCHANGED <<supervisor, session, up, ready, call, cancels, closing,
                   requests, registered, broker, escaped>>

----------------------------------------------------------------------------
(* asyncio.Task.cancel by the owner of the calling task.  Cancelling an    *)
(* unsubscribe only makes its caller wait.                                 *)
Cancel(o) ==
    /\ pc[o] \in {"called"} \cup (Holding \ {"removing"})
    /\ ~cancel[o] /\ cancels < MaxCancels
    /\ cancel' = [cancel EXCEPT ![o] = TRUE] /\ cancels' = cancels + 1
    /\ UNCHANGED <<supervisor, link, ready, pc, call, closing, requests,
                   registered, broker, escaped>>

Interrupted(o) ==
    /\ pc[o] = "subscribing" /\ cancel[o] /\ ~closing
    /\ Goes(o, "cancelled")
    /\ UNCHANGED <<supervisor, link, ready, call, cancels, closing, requests,
                   registered, broker, escaped>>

(* A defect of Undo: the broker keeps the subscription.                    *)
UndoLocally(o) ==
    /\ pc[o] = "cancelled" /\ ~cancel[o] /\ reply[o] = "granted"
    /\ Resume(o)
    /\ Goes(o, "done")
    /\ UNCHANGED <<supervisor, link, call, cancels, closing, requests,
                   registered, broker, escaped>>

Undo(o) ==
    /\ pc[o] = "cancelled" /\ ~cancel[o] /\ reply[o] = "granted"
    /\ Goes(o, "undoing")
    /\ Request(o, "unsub", FilterOf[o])
    /\ UNCHANGED <<supervisor, link, ready, call, cancels, closing, registered,
                   brokerSubs, escaped>>

(* A cancellation of the second wait only stops the waiting.               *)
Undone(o) ==
    /\ pc[o] = "undoing" /\ (reply[o] # "none" \/ cancel[o])
    /\ Resume(o)
    /\ Goes(o, "done")
    /\ UNCHANGED <<supervisor, link, call, cancels, closing, requests,
                   registered, broker, escaped>>

Compensated(o) ==
    /\ pc[o] = "compensating" /\ (reply[o] # "none" \/ cancel[o])
    /\ Goes(o, "done")
    /\ UNCHANGED <<supervisor, link, ready, call, cancels, closing, requests,
                   registered, broker, escaped>>

(* The cancellation leaves subscribe: at its second delivery, or when the  *)
(* transport is closing.                                                   *)
Escape(o) ==
    /\ cancel[o]
    /\ pc[o] = "cancelled" \/ (pc[o] = "subscribing" /\ closing)
    /\ Goes(o, "done")
    /\ escaped' = TRUE
    /\ UNCHANGED <<supervisor, link, ready, call, cancels, closing, requests,
                   registered, broker>>

----------------------------------------------------------------------------
LastOfAny(o) == TRUE         \* a defect: others are not looked at
LastOf(o) == FilterOf[o] \notin FiltersOf(registered \ {o})

(* _unsubscribe_handle: local first, and at the broker when it was the     *)
(* last registration of its filter.                                        *)
Forget(o) ==
    /\ pc[o] = "open" /\ LockFree
    /\ ~(o \in registered /\ LastOf(o) /\ client # 0)
    /\ registered' = registered \ {o}
    /\ Goes(o, "done")
    /\ UNCHANGED <<supervisor, link, ready, call, cancels, closing, requests,
                   broker, escaped>>

Unsubscribe(o) ==
    /\ pc[o] = "open" /\ LockFree
    /\ o \in registered /\ LastOf(o) /\ client # 0
    /\ registered' = registered \ {o}
    /\ own' = [own EXCEPT ![o] = client]
    /\ Goes(o, "removing")
    /\ Request(o, "unsub", FilterOf[o])
    /\ UNCHANGED <<supervisor, link, ready, seen, suspended, cancels, closing,
                   brokerSubs, escaped>>

(* A defect of Removed: only the UNSUBACK ends the wait.                   *)
RemovedAnswered(o) ==
    /\ pc[o] = "removing" /\ (reply[o] = "removed" \/ cancel[o])
    /\ Goes(o, "done")
    /\ UNCHANGED <<supervisor, link, ready, call, cancels, closing, requests,
                   registered, broker, escaped>>

Removed(o) ==
    /\ pc[o] = "removing" /\ (reply[o] # "none" \/ cancel[o])
    /\ Goes(o, "done")
    /\ UNCHANGED <<supervisor, link, ready, call, cancels, closing, requests,
                   registered, broker, escaped>>

----------------------------------------------------------------------------
(* The broker answers in order; a request nobody waits for any more still  *)
(* takes effect.  After a negative UNSUBACK the request is still to fail.  *)
Answer(result) ==
    LET r == Head(wire) IN
    /\ wire # <<>> /\ wire' = Tail(wire)
    /\ \/ r.kind = "sub" /\ result \in {"granted", "denied", "failed"}
       \/ r.kind = "unsub" /\ result \in {"removed", "failed"}
    /\ brokerSubs' = CASE result = "granted" -> brokerSubs \cup {r.filter}
                       [] result = "removed" -> brokerSubs \ {r.filter}
                       [] OTHER -> brokerSubs
    /\ IF task[r.who] = r.kind /\ ~(r.kind = "unsub" /\ result = "failed")
       THEN /\ task' = [task EXCEPT ![r.who] = "none"]
            /\ reply' = [reply EXCEPT ![r.who] = result]
       ELSE UNCHANGED requests
    /\ UNCHANGED <<supervisor, link, ready, pc, call, interrupts, registered,
                   escaped>>

SessionOf(a) == IF a = Sup THEN session ELSE own[a]

(* Timed out, refused or without connection.  An unsubscription that fails *)
(* takes its session down: _unsubscribe_with_session_fallback.             *)
Fails(a) ==
    /\ task[a] # "none"
    /\ task' = [task EXCEPT ![a] = "none"]
    /\ reply' = [reply EXCEPT ![a] = "failed"]
    /\ IF task[a] = "unsub"
       THEN /\ IF SessionOf(a) = session THEN SessionDies ELSE UNCHANGED <<up, broker>>
            /\ client' = IF client = SessionOf(a) THEN 0 ELSE client
            /\ connected' = FALSE
       ELSE UNCHANGED <<up, client, connected, broker>>
    /\ UNCHANGED <<supervisor, session, ready, pc, call, interrupts,
                   registered, escaped>>

Drop ==
    /\ up /\ SessionDies
    /\ UNCHANGED <<supervisor, session, connected, client, ready, pc, call,
                   interrupts, requests, registered, escaped>>

----------------------------------------------------------------------------
(* CONNACK.  The requests of the former session have failed with it.       *)
Connect ==
    /\ sup = "off" /\ ~closing /\ session < MaxSessions
    /\ \A a \in Actors : task[a] = "none"
    /\ session' = session + 1 /\ up' = TRUE /\ connected' = TRUE
    /\ sup' = "restoring" /\ required' = {} /\ restored' = {}
    /\ asked' = {} /\ spoiled' = FALSE /\ escaped' = FALSE
    /\ UNCHANGED <<client, ready, pc, call, interrupts, requests, registered,
                   broker>>

Restoring == sup = "restoring" /\ ~closing /\ task[Sup] = "none" /\ reply[Sup] = "none"
RoundDone == Restoring /\ restored = required

(* _restore_subscriptions: first the filters that are not needed any more. *)
Retract ==
    /\ Restoring
    /\ \E f \in restored \ required : Request(Sup, "unsub", f) /\ asked' = {f}
    /\ UNCHANGED <<sup, required, restored, spoiled, link, ready, pc, call,
                   interrupts, registered, brokerSubs, escaped>>

Restore ==
    /\ Restoring /\ restored \subseteq required
    /\ \E f \in required \ restored : Request(Sup, "sub", f) /\ asked' = {f}
    /\ UNCHANGED <<sup, required, restored, spoiled, link, ready, pc, call,
                   interrupts, registered, brokerSubs, escaped>>

Restored ==
    /\ sup = "restoring" /\ ~closing /\ reply[Sup] \in {"granted", "removed"}
    /\ restored' = IF reply[Sup] = "granted" THEN restored \cup asked
                   ELSE restored \ asked
    /\ asked' = {} /\ reply' = [reply EXCEPT ![Sup] = "none"]
    /\ UNCHANGED <<sup, required, spoiled, link, ready, pc, call, interrupts,
                   task, registered, broker, escaped>>

(* The owners of a rejected filter lose their registrations; when one has  *)
(* no callback that takes the failure, the attempt fails after the round.  *)
RestoreRejected(isolated) ==
    LET lost == {o \in registered : FilterOf[o] \in asked} IN
    /\ sup = "restoring" /\ ~closing /\ LockFree /\ reply[Sup] = "denied"
    /\ registered' = registered \ lost
    /\ required' = required \ asked
    /\ spoiled' = (spoiled \/ (~isolated /\ lost # {}))
    /\ asked' = {} /\ reply' = [reply EXCEPT ![Sup] = "none"]
    /\ UNCHANGED <<sup, restored, link, ready, pc, call, interrupts, task,
                   broker, escaped>>

Wanted == FiltersOf(registered \cap Durable)

Serve ==
    /\ RoundDone /\ ~spoiled /\ LockFree /\ Wanted = restored
    /\ sup' = "serving" /\ client' = session /\ ready' = TRUE
    /\ UNCHANGED <<required, restored, asked, spoiled, session, up, connected,
                   pc, call, interrupts, requests, registered, broker, escaped>>

NextRound ==
    /\ RoundDone /\ ~spoiled /\ LockFree /\ Wanted # restored
    /\ required' = Wanted
    /\ UNCHANGED <<sup, restored, asked, spoiled, link, ready, pc, call,
                   interrupts, requests, registered, broker, escaped>>

(* The finally of _run: not ready at once, and then the lock.              *)
EndsServing ==
    /\ sup' = "clearing" /\ ready' = FALSE /\ SessionDies
    /\ required' = {} /\ restored' = {} /\ asked' = {} /\ spoiled' = FALSE
    /\ task' = [task EXCEPT ![Sup] = "none"]
    /\ reply' = [reply EXCEPT ![Sup] = "none"]
    /\ UNCHANGED <<session, connected, client, pc, call, interrupts, registered,
                   escaped>>

RestoreFailed ==
    /\ sup = "restoring"
    /\ reply[Sup] = "failed" \/ (RoundDone /\ spoiled)
    /\ EndsServing

ConnectionEnded == sup = "serving" /\ ~up /\ EndsServing
SupervisorCancelled == sup \in {"restoring", "serving"} /\ closing /\ EndsServing

Kept == registered \cap Durable

Clear ==
    /\ sup = "clearing" /\ LockFree
    /\ sup' = "off" /\ client' = 0 /\ connected' = FALSE
    /\ registered' = Kept
    /\ UNCHANGED <<required, restored, asked, spoiled, session, up, ready, pc,
                   call, interrupts, requests, broker, escaped>>

----------------------------------------------------------------------------
(* close: cancel everything, wait at most shutdown_timeout, clear.         *)
Close ==
    /\ ~closing /\ closing' = TRUE
    /\ cancel' = [o \in Ops |-> pc[o] \in Holding \cup {"called"}]
    /\ task' = [a \in Actors |-> IF a = Sup THEN task[a] ELSE "none"]
    /\ reply' = [a \in Actors |-> IF a # Sup /\ task[a] # "none" THEN "failed"
                                  ELSE reply[a]]
    /\ UNCHANGED <<supervisor, link, ready, pc, call, cancels, registered,
                   broker, escaped>>

CloseReturns ==
    /\ closing
    /\ client' = 0 /\ connected' = FALSE /\ ready' = FALSE /\ registered' = {}
    /\ UNCHANGED <<supervisor, session, up, pc, call, interrupts, requests,
                   broker, escaped>>

----------------------------------------------------------------------------
CallStep(o) ==
    \/ Refused(o) \/ Join(o) \/ Subscribe(o) \/ Opened(o) \/ Outlived(o)
    \/ Rejected(o) \/ Ambiguous(o) \/ Invalidated(o) \/ Interrupted(o)
    \/ Undo(o) \/ Undone(o) \/ Compensated(o) \/ Escape(o) \/ Removed(o)

SupervisorStep ==
    \/ Retract \/ Restore \/ Restored \/ (\E i \in BOOLEAN : RestoreRejected(i))
    \/ Serve \/ NextRound \/ RestoreFailed \/ ConnectionEnded
    \/ SupervisorCancelled \/ Clear

Next ==
    \/ \E o \in Ops : \/ Call(o) \/ CallStep(o) \/ Cancel(o)
                      \/ Forget(o) \/ Unsubscribe(o)
    \/ \E r \in {"granted", "denied", "removed", "failed"} : Answer(r)
    \/ \E a \in Actors : Fails(a)
    \/ SupervisorStep \/ Connect \/ Drop \/ Close \/ CloseReturns

(* Nothing is owed by the callers, the broker or the network.              *)
Spec == Init /\ [][Next]_vars

----------------------------------------------------------------------------
(* Nothing is under way on a connection that is being served.              *)
Quiet ==
    /\ sup = "serving" /\ up /\ ~closing /\ LockFree /\ wire = <<>>
    /\ \A a \in Actors : task[a] = "none"

(* However subscribes, cancellations, rejections, failures and losses      *)
(* interleave, a connection at rest is ready again: every suspension of    *)
(* readiness was taken back, unless a second cancellation tore a subscribe *)
(* away from its own cleanup.                                              *)
ReadyAtRest == Quiet /\ ~escaped => ready

(* At rest the broker has exactly the filters somebody is registered for:  *)
(* nothing is left behind by a cancelled subscribe or a restore that was   *)
(* overtaken, and nothing was taken from a registration that shares its    *)
(* filter with one that ended.                                             *)
BrokerAgreesAtRest == Quiet /\ ~escaped => brokerSubs = FiltersOf(registered)

(* The connection at rest is usable and agrees with the broker.            *)
RestIsSound == ReadyAtRest /\ BrokerAgreesAtRest

(* Not only at rest: while a session may be used, every registration has   *)
(* its filter at the broker.                                               *)
RegisteredIsSubscribed ==
    client # 0 /\ up => FiltersOf(registered) \subseteq brokerSubs

(* A registration that must not be restored belongs to the session it was  *)
(* opened in, which is the one its caller saw if the call is pinned, and   *)
(* ends with it; it never migrates to another one.                         *)
TransientStaysInSession ==
    \A o \in registered \ Durable :
        own[o] = session /\ (o \in Pinned => seen[o] = session)

(* What a call that holds the lock goes on with: an answer it has a use     *)
(* for, a cancellation, or the end of a session nobody may use any more.   *)
HasStep(o) ==
    \/ cancel[o] \/ pc[o] = "invalidating"
    \/ pc[o] \in {"subscribing", "cancelled"} /\ reply[o] \in {"granted", "denied", "failed"}
    \/ pc[o] \in {"undoing", "compensating", "removing"} /\ reply[o] # "none"

(* A call that holds the lock has something to go on with, or a broker      *)
(* request that times out, whatever the broker and the network do.         *)
HolderAwaits == \A o \in Ops : pc[o] \in Holding => task[o] # "none" \/ HasStep(o)
HolderGoesOn == \A o \in Ops : pc[o] \in Holding /\ HasStep(o) => ENABLED CallStep(o)

(* When no call holds the lock, neither a call that waits for it nor the   *)
(* supervisor that has to clear or restore a session waits for anything    *)
(* but the supervisor's own request.                                       *)
WaitersGoOn ==
    LockFree => /\ \A o \in Ops : pc[o] = "called" => ENABLED CallStep(o)
                /\ sup \in {"restoring", "clearing"} =>
                      task[Sup] # "none" \/ ENABLED SupervisorStep

(* Nobody is stuck: whoever holds the lock goes on, and whoever waits for  *)
(* it goes on once it is free.                                             *)
NobodyIsStuck == HolderAwaits /\ HolderGoesOn /\ WaitersGoOn

(* "Return whether CONNACK and all active subscription restores completed" *)
(* (MQTTTransport.ready): without a connection the transport is not ready. *)
ReadyMeansConnected == ready => sup # "off"
============================================================================
