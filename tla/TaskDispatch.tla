---------------------------- MODULE TaskDispatch ----------------------------
(***************************************************************************)
(* The requesting half of TaskService (_services/tasks.py: send, close)    *)
(* over MQTTTransport.publish: concurrent sends, each with a response      *)
(* subscription, a QoS 1 publication and a wait for the response, against  *)
(* cancellation, timeout, connection loss and close.  An asyncio task      *)
(* cancelled while suspended sees CancelledError when it next runs, even   *)
(* if what it awaited has completed in the meantime: "cancel" is a request *)
(* to cancel that the task has not seen yet.                               *)
(***************************************************************************)
EXTENDS Integers, FiniteSets

CONSTANTS Requests,        \* calls of send(), each with its own task_id
          MaxOutstanding   \* max_outstanding

ASSUME RequestsAssumption == IsFiniteSet(Requests)
ASSUME MaxOutstandingAssumption == MaxOutstanding \in Nat \ {0}

VARIABLES
    connected,   \* the transport has a ready connection
    closed,      \* _closed
    closeDone,   \* close() has returned
    pc,          \* where each send() is suspended
    mode,        \* FIRE_AND_FORGET, or REPLY (COMPLETE, ACKNOWLEDGMENT)
    cancel,      \* a cancellation the task has not seen yet
    phase,       \* _delivery_phases
    future,      \* the response future
    ack,         \* the publication's acknowledgement future
    lost,        \* the connection the request was opened on is gone
    verdict,     \* what send() is about to end with, or has ended with
    pending,     \* the task_ids of _pending
    subs,        \* the task_ids of _response_subscriptions
    fate         \* what has really happened to the request

vars == <<connected, closed, closeDone, pc, mode, cancel, phase, future, ack,
          lost, verdict, pending, subs, fate>>
service == <<connected, closed, closeDone>>
resources == <<pending, subs>>

Active == {r \in Requests : pc[r] \notin {"idle", "done"}}
Answered(r) == future[r] \in {"value", "invalid", "failed"}

Types ==
    /\ connected \in BOOLEAN /\ closed \in BOOLEAN /\ closeDone \in BOOLEAN
    /\ pc \in [Requests -> {"idle", "subscribing", "suback", "queued", "puback",
                            "waiting", "draining", "redraining",
                            "unsubscribing", "done"}]
    /\ mode \in [Requests -> {"FIRE_AND_FORGET", "REPLY"}]
    /\ cancel \in [Requests -> BOOLEAN] /\ lost \in [Requests -> BOOLEAN]
    /\ phase \in [Requests -> {"NOT_SENT", "BROKER_ACKNOWLEDGMENT_PENDING",
                               "BROKER_ACCEPTED", "RESPONSE_PENDING"}]
    /\ future \in [Requests -> {"none", "pending", "value", "invalid", "failed",
                                "cancelled"}]
    /\ ack \in [Requests -> {"none", "waiting", "accepted", "refused", "failed"}]
    /\ verdict \in [Requests -> {"none", "interrupted", "response", "receipt",
                                 "unknown", "rejected", "not_sent", "cancelled",
                                 "limit"}]
    /\ pending \subseteq Requests /\ subs \subseteq Requests
    /\ fate \in [Requests -> {"local", "sent", "accepted", "refused",
                              "answered"}]

(* A send that has ended has told its caller how.                          *)
TypeOK == Types /\ \A r \in Requests :
              pc[r] = "done" => verdict[r] \notin {"none", "interrupted"}

Init ==
    /\ connected = TRUE /\ closed = FALSE /\ closeDone = FALSE
    /\ pc = [r \in Requests |-> "idle"]
    /\ mode \in [Requests -> {"FIRE_AND_FORGET", "REPLY"}]
    /\ cancel = [r \in Requests |-> FALSE]
    /\ phase = [r \in Requests |-> "NOT_SENT"]
    /\ future = [r \in Requests |-> "none"]
    /\ ack = [r \in Requests |-> "none"]
    /\ lost = [r \in Requests |-> FALSE]
    /\ verdict = [r \in Requests |-> "none"]
    /\ pending = {} /\ subs = {}
    /\ fate = [r \in Requests |-> "local"]

----------------------------------------------------------------------------
(* _response_result: an invalid response, and the error close() leaves in  *)
(* the future, are both reported as an unknown outcome.                    *)
ResponseResult(r) == IF future[r] = "value" THEN "response" ELSE "unknown"

(* A defect of AfterCancel: every cancellation is an ordinary one.         *)
AfterCancelBlind(r) == "cancelled"

(* The handler of CancelledError around the whole of send().               *)
AfterCancel(r) ==
    IF Answered(r) THEN ResponseResult(r)
    ELSE IF phase[r] # "NOT_SENT" THEN "unknown" ELSE "cancelled"

(* send() ends with verdict v; an interrupted one is judged only here.     *)
Return(r, v) ==
    /\ pc' = [pc EXCEPT ![r] = "done"]
    /\ verdict' = [verdict EXCEPT ![r] =
                      IF v = "interrupted" THEN AfterCancel(r) ELSE v]

(* Leaving the body of send(): with a response subscription open, the      *)
(* connection-loss waiter is cancelled and drained before anything else.   *)
Leave(r, v) ==
    IF r \in subs
    THEN pc' = [pc EXCEPT ![r] = "draining"] /\ verdict' = [verdict EXCEPT ![r] = v]
    ELSE Return(r, v)

DropFuture(r) ==
    /\ pending' = pending \ {r}
    /\ future' = [future EXCEPT ![r] = IF @ = "pending" THEN "cancelled" ELSE @]

Consume(r) == cancel' = [cancel EXCEPT ![r] = FALSE]

----------------------------------------------------------------------------
(* send: _begin_operation, then the response subscription or, for a        *)
(* request without response, directly the publication.                     *)
Send(r) ==
    /\ pc[r] = "idle" /\ ~closed /\ Cardinality(Active) < MaxOutstanding
    /\ IF mode[r] = "REPLY"
       THEN /\ pc' = [pc EXCEPT ![r] = "subscribing"]
            /\ future' = [future EXCEPT ![r] = "pending"]
            /\ pending' = pending \cup {r}
       ELSE /\ connected
            /\ pc' = [pc EXCEPT ![r] = "queued"]
            /\ UNCHANGED <<future, pending>>
    /\ UNCHANGED <<service, mode, cancel, phase, ack, lost, verdict, subs, fate>>

(* send on a full table, on a stale expected generation, or without a      *)
(* connection for a publication that needs no subscription.                *)
SendRefused(r) ==
    /\ pc[r] = "idle" /\ ~closed
    /\ IF Cardinality(Active) >= MaxOutstanding
       THEN Return(r, "limit")
       ELSE Return(r, "not_sent")
    /\ UNCHANGED <<service, mode, cancel, phase, future, ack, lost, resources, fate>>

(* The transport's subscribe: the SUBACK accepts, rejects, or never comes. *)
SubackArrives(r) ==
    /\ pc[r] = "subscribing" /\ connected
    /\ pc' = [pc EXCEPT ![r] = "suback"]
    /\ UNCHANGED <<service, mode, cancel, phase, future, ack, lost, verdict,
                   resources, fate>>

SubscribeFails(r) ==
    /\ pc[r] = "subscribing" /\ ~cancel[r]
    /\ \E v \in {"rejected", "not_sent"} : Return(r, v)
    /\ DropFuture(r)
    /\ UNCHANGED <<service, mode, cancel, phase, ack, lost, subs, fate>>

SubscribeCancelled(r) ==
    /\ pc[r] \in {"subscribing", "suback"} /\ cancel[r]
    /\ Return(r, "interrupted")
    /\ DropFuture(r) /\ Consume(r)
    /\ UNCHANGED <<service, mode, phase, ack, lost, subs, fate>>

(* The subscription is recorded and the publication begins: the transport  *)
(* checks the generation and the connection, then may queue on the         *)
(* semaphore of outgoing calls.  A send that finds the service closed      *)
(* gives its new subscription back at once.                                *)
SubscribeReturns(r) ==
    /\ pc[r] = "suback" /\ ~cancel[r]
    /\ IF closed
       THEN /\ Return(r, "not_sent")
            /\ DropFuture(r) /\ UNCHANGED subs
       ELSE /\ subs' = subs \cup {r}
            /\ IF lost[r]
               THEN /\ pc' = [pc EXCEPT ![r] = "draining"]
                    /\ verdict' = [verdict EXCEPT ![r] = "not_sent"]
               ELSE pc' = [pc EXCEPT ![r] = "queued"] /\ UNCHANGED verdict
            /\ UNCHANGED <<future, pending>>
    /\ UNCHANGED <<service, mode, cancel, phase, ack, lost, fate>>

----------------------------------------------------------------------------
(* The packet is handed to the MQTT client, which registers the wait for   *)
(* its PUBACK in the same step.                                            *)
StartSend(r) ==
    /\ pc[r] = "queued" /\ ~cancel[r] /\ ~lost[r]
    /\ fate' = [fate EXCEPT ![r] = "sent"]
    /\ phase' = [phase EXCEPT ![r] = "BROKER_ACKNOWLEDGMENT_PENDING"]
    /\ ack' = [ack EXCEPT ![r] = "waiting"]
    /\ pc' = [pc EXCEPT ![r] = "puback"]
    /\ UNCHANGED <<service, mode, cancel, future, lost, verdict, resources>>

(* The MQTT client refuses the packet.                                     *)
SendFails(r) ==
    /\ pc[r] = "queued" /\ ~cancel[r]
    /\ Leave(r, "not_sent")
    /\ UNCHANGED <<service, mode, cancel, phase, future, ack, lost, resources, fate>>

QueueCancelled(r) ==
    /\ pc[r] = "queued" /\ cancel[r]
    /\ Leave(r, "interrupted") /\ Consume(r)
    /\ UNCHANGED <<service, mode, phase, future, ack, lost, resources, fate>>

(* What send() does once publish() returned: no await separates the        *)
(* observed PUBACK from RESPONSE_PENDING.                                  *)
Published(r, afterCancellation) ==
    IF mode[r] = "FIRE_AND_FORGET"
    THEN /\ phase' = [phase EXCEPT ![r] = "BROKER_ACCEPTED"]
         /\ Leave(r, "receipt")
    ELSE IF Answered(r)
    THEN /\ phase' = [phase EXCEPT ![r] = "BROKER_ACCEPTED"]
         /\ Leave(r, ResponseResult(r))
    ELSE /\ phase' = [phase EXCEPT ![r] = "RESPONSE_PENDING"]
         /\ IF afterCancellation \/ lost[r]
            THEN Leave(r, "unknown")
            ELSE pc' = [pc EXCEPT ![r] = "waiting"] /\ UNCHANGED verdict

(* A defect of Unacknowledged: the response that came first is ignored.    *)
UnacknowledgedOnly(r) == Leave(r, "unknown") /\ UNCHANGED phase

(* publish() raised OutcomeUnknownError: a response that is already there  *)
(* is the better evidence.                                                 *)
Unacknowledged(r) ==
    /\ Leave(r, IF Answered(r) THEN ResponseResult(r) ELSE "unknown")
    /\ UNCHANGED phase

(* The acknowledgement future is done when the task runs: a recorded       *)
(* PUBACK is stronger evidence than a simultaneous cancellation.           *)
PublishSettled(r) ==
    /\ pc[r] = "puback" /\ ack[r] \in {"accepted", "refused", "failed"}
    /\ CASE ack[r] = "accepted" -> Published(r, cancel[r])
         [] ack[r] = "refused"  -> Leave(r, "rejected") /\ UNCHANGED phase
         [] ack[r] = "failed"   -> Unacknowledged(r)
    /\ Consume(r)
    /\ UNCHANGED <<service, mode, future, ack, lost, resources, fate>>

(* A defect of PublishGivenUp: a timeout is reported as not sent.          *)
PublishGivenUpAsUnsent(r) ==
    /\ pc[r] = "puback" /\ ack[r] = "waiting"
    /\ Leave(r, "not_sent") /\ UNCHANGED phase /\ Consume(r)
    /\ UNCHANGED <<service, mode, future, ack, lost, resources, fate>>

(* The operation timeout, or a cancellation with no PUBACK recorded: the   *)
(* transport reports both as an unknown outcome.                           *)
PublishGivenUp(r) ==
    /\ pc[r] = "puback" /\ ack[r] = "waiting"
    /\ Unacknowledged(r) /\ Consume(r)
    /\ UNCHANGED <<service, mode, future, ack, lost, resources, fate>>

----------------------------------------------------------------------------
(* The wait for the response: a response beats a simultaneous loss of the  *)
(* connection or timeout.                                                  *)
ResponseSettled(r) ==
    /\ pc[r] = "waiting" /\ ~cancel[r] /\ Answered(r)
    /\ Leave(r, ResponseResult(r))
    /\ UNCHANGED <<service, mode, cancel, phase, future, ack, lost, resources, fate>>

ResponseGivenUp(r) ==
    /\ pc[r] = "waiting" /\ ~cancel[r] /\ ~Answered(r)
    /\ Leave(r, "unknown")
    /\ UNCHANGED <<service, mode, cancel, phase, future, ack, lost, resources, fate>>

WaitCancelled(r) ==
    /\ pc[r] = "waiting" /\ cancel[r]
    /\ Leave(r, "interrupted") /\ Consume(r)
    /\ UNCHANGED <<service, mode, phase, future, ack, lost, resources, fate>>

----------------------------------------------------------------------------
(* A defect of Drained: the cleanup needs a connection.                    *)
DrainedOnline(r) ==
    /\ pc[r] \in {"draining", "redraining"} /\ ~cancel[r] /\ connected
    /\ DropFuture(r)
    /\ subs' = subs \ {r}
    /\ pc' = [pc EXCEPT ![r] = "unsubscribing"]
    /\ UNCHANGED <<service, mode, cancel, phase, ack, lost, verdict, fate>>

(* The cleanup: drain the loss waiter, forget the future, then drop the    *)
(* response subscription (the transport retires the local handle first).   *)
Drained(r) ==
    /\ pc[r] \in {"draining", "redraining"} /\ ~cancel[r]
    /\ DropFuture(r)
    /\ subs' = subs \ {r}
    /\ pc' = [pc EXCEPT ![r] = "unsubscribing"]
    /\ UNCHANGED <<service, mode, cancel, phase, ack, lost, verdict, fate>>

(* A cancellation seen while draining: a negative PUBACK survives it once; *)
(* otherwise it leaves the cleanup before the later steps have run.        *)
DrainCancelled(r) ==
    /\ pc[r] \in {"draining", "redraining"} /\ cancel[r]
    /\ IF pc[r] = "draining" /\ verdict[r] = "rejected"
       THEN pc' = [pc EXCEPT ![r] = "redraining"] /\ UNCHANGED verdict
       ELSE Return(r, "interrupted")
    /\ Consume(r)
    /\ UNCHANGED <<service, mode, phase, future, ack, lost, resources, fate>>

Unsubscribed(r) ==
    /\ pc[r] = "unsubscribing" /\ ~cancel[r]
    /\ Return(r, verdict[r])
    /\ UNCHANGED <<service, mode, cancel, phase, future, ack, lost, resources, fate>>

UnsubscribeCancelled(r) ==
    /\ pc[r] = "unsubscribing" /\ cancel[r]
    /\ Return(r, IF verdict[r] = "rejected" THEN "rejected" ELSE "interrupted")
    /\ Consume(r)
    /\ UNCHANGED <<service, mode, phase, future, ack, lost, resources, fate>>

----------------------------------------------------------------------------
(* The caller, or a timeout scope around the call, cancels it.             *)
Cancel(r) ==
    /\ r \in Active
    /\ cancel' = [cancel EXCEPT ![r] = TRUE]
    /\ UNCHANGED <<service, pc, mode, phase, future, ack, lost, verdict,
                   resources, fate>>

(* close: waiters not sent are cancelled, the others get an unknown        *)
(* outcome, and every send in progress is cancelled.                       *)
Close ==
    /\ ~closed
    /\ closed' = TRUE
    /\ future' = [r \in Requests |->
                    IF r \notin pending \/ future[r] # "pending" THEN future[r]
                    ELSE IF phase[r] = "NOT_SENT" THEN "cancelled" ELSE "failed"]
    /\ pending' = {}
    /\ cancel' = [r \in Requests |-> cancel[r] \/ r \in Active]
    /\ UNCHANGED <<connected, closeDone, pc, mode, phase, ack, lost, verdict,
                   subs, fate>>

(* The rest of close, once the sends have ended or shutdown_timeout passed.*)
CloseReturns ==
    /\ closed /\ ~closeDone
    /\ closeDone' = TRUE
    /\ subs' = {}
    /\ UNCHANGED <<connected, closed, pc, mode, cancel, phase, future, ack,
                   lost, verdict, pending, fate>>

----------------------------------------------------------------------------
(* External: the connection, the broker and the executing client.          *)
Disconnect ==
    /\ connected /\ connected' = FALSE
    /\ lost' = [r \in Requests |-> lost[r] \/ pc[r] \in {"suback", "queued",
                   "puback", "waiting", "draining", "redraining"}]
    /\ ack' = [r \in Requests |-> IF pc[r] = "puback" /\ ack[r] = "waiting"
                                  THEN "failed" ELSE ack[r]]
    /\ UNCHANGED <<closed, closeDone, pc, mode, cancel, phase, future, verdict,
                   resources, fate>>

Reconnect ==
    /\ ~connected /\ connected' = TRUE
    /\ UNCHANGED <<closed, closeDone, pc, mode, cancel, phase, future, ack,
                   lost, verdict, resources, fate>>

BrokerDecides(r) ==
    /\ fate[r] = "sent" /\ ~lost[r]
    /\ \E f \in {"accepted", "refused"} : fate' = [fate EXCEPT ![r] = f]
    /\ UNCHANGED <<service, pc, mode, cancel, phase, future, ack, lost,
                   verdict, resources>>

PubackArrives(r) ==
    /\ pc[r] = "puback" /\ ack[r] = "waiting"
    /\ fate[r] \in {"accepted", "refused", "answered"}
    /\ ack' = [ack EXCEPT ![r] = IF fate[r] = "refused" THEN "refused"
                                 ELSE "accepted"]
    /\ UNCHANGED <<service, pc, mode, cancel, phase, future, lost, verdict,
                   resources, fate>>

RemoteAnswers(r) ==
    /\ fate[r] = "accepted" /\ mode[r] = "REPLY"
    /\ fate' = [fate EXCEPT ![r] = "answered"]
    /\ UNCHANGED <<service, pc, mode, cancel, phase, future, ack, lost,
                   verdict, resources>>

(* _accept_response, from the transport's dispatcher.                      *)
ReceiveResponse(r) ==
    /\ fate[r] = "answered" /\ r \in subs /\ ~lost[r]
    /\ ~closed /\ future[r] = "pending"
    /\ \E f \in {"value", "invalid"} : future' = [future EXCEPT ![r] = f]
    /\ UNCHANGED <<service, pc, mode, cancel, phase, ack, lost, verdict,
                   resources, fate>>

----------------------------------------------------------------------------
(* The steps the event loop and its timers owe a send in progress.         *)
Progress(r) ==
    \/ SubscribeFails(r) \/ SubscribeCancelled(r) \/ SubscribeReturns(r)
    \/ StartSend(r) \/ SendFails(r) \/ QueueCancelled(r)
    \/ PublishSettled(r) \/ PublishGivenUp(r)
    \/ ResponseSettled(r) \/ ResponseGivenUp(r) \/ WaitCancelled(r)
    \/ Drained(r) \/ DrainCancelled(r)
    \/ Unsubscribed(r) \/ UnsubscribeCancelled(r)

Environment(r) ==
    \/ SubackArrives(r) \/ BrokerDecides(r) \/ PubackArrives(r)
    \/ RemoteAnswers(r) \/ ReceiveResponse(r)

Next ==
    \/ Close \/ CloseReturns \/ Disconnect \/ Reconnect
    \/ \E r \in Requests : \/ Send(r) \/ SendRefused(r) \/ Cancel(r)
                           \/ Progress(r) \/ Environment(r)

Spec == Init /\ [][Next]_vars
(* Every await of send() has a timeout or is a step of the event loop.     *)
FairSpec == Spec /\ \A r \in Requests : WF_vars(Progress(r))

----------------------------------------------------------------------------
(* send() tells the truth about delivery, however loss, timeout,           *)
(* cancellation and close interleave: see DeliveryContract.                *)
Contract == INSTANCE DeliveryContract WITH
    told <- [r \in Requests |-> IF pc[r] = "done" THEN verdict[r] ELSE "none"]
HonoursContract == Contract!Spec

(* A retry is safe: what ended as not sent, or as an ordinary cancellation,*)
(* never left the client; an unknown outcome is only reported of what did. *)
RetrySafety == \A r \in Requests : pc[r] = "done" =>
    /\ verdict[r] \in {"not_sent", "cancelled", "limit"} => fate[r] = "local"
    /\ verdict[r] = "unknown" => fate[r] # "local"

(* A response that the client holds when the PUBACK wait or the response   *)
(* wait is abandoned is never thrown away for an unknown outcome.          *)
ResponseNotLost ==
    [][\A r \in Requests :
          (/\ pc[r] \in {"puback", "waiting"} /\ pc'[r] = "draining"
           /\ future[r] = "value" /\ ack[r] # "refused")
          => verdict'[r] \in {"response", "interrupted"}]_vars

(* When close() has returned nothing is left behind: no future anybody     *)
(* waits on and no response subscription, in particular none opened by a   *)
(* send that was still subscribing when close began.                       *)
CloseReleases == closeDone => pending = {} /\ subs = {}

(* Every send ends.                                                        *)
EverySendEnds == \A r \in Requests : (pc[r] # "idle") ~> (pc[r] = "done")

(* "A timeout or caller cancellation removes the local response            *)
(* subscription" (docs/how-to/dispatch-mesh-tasks.md): once send() has     *)
(* ended, on a service that stays open, its subscription is gone.          *)
SubscriptionRemoved ==
    ~closed => \A r \in Requests : pc[r] = "done" => r \notin subs
============================================================================
