----------------------- MODULE RequestedTasks_proofs -----------------------
(***************************************************************************)
(* The requester's side of a task, from the operator who reviews it to the *)
(* verdict about it: first TaskDispatch, the client's send, then            *)
(* OperatorTasks, the application that hands reviewed tasks to it.          *)
(*                                                                         *)
(* TaskDispatch, for any set of sends and any capacity: the types, that     *)
(* send() implements DeliveryContract, that a retry is safe, and what close *)
(* leaves behind.  The inductive invariant relates what the client has      *)
(* recorded about a request (its phase, its PUBACK, its response) to what   *)
(* has really happened to it, and the verdict a send carries through its    *)
(* cleanup to what its fate supports when the send ends.                    *)
(*                                                                         *)
(* OperatorTasks, for any tokens, views, generations, sockets and limits:   *)
(* that its leases and tables agree, that an acknowledged discard is final, *)
(* and that what is handed to send() is what was reviewed.  The inductive   *)
(* invariant says where a token may be held at each point of its call, and  *)
(* what of the world it was reviewed against must still hold meanwhile.     *)
(***************************************************************************)
EXTENDS TaskDispatch, OperatorTasks, FiniteSetTheorems, FunctionTheorems, SequenceTheorems,
        TLAPS


(* What the client recorded never runs ahead of the fate.                  *)
Evidence(r) ==
    /\ phase[r] = "NOT_SENT" <=> fate[r] = "local"
    /\ phase[r] \in {"BROKER_ACCEPTED", "RESPONSE_PENDING"} =>
           fate[r] \in {"accepted", "answered"}
    /\ ack[r] = "accepted" => fate[r] \in {"accepted", "answered"}
    /\ ack[r] = "refused" => fate[r] = "refused"
    /\ future[r] \in {"value", "invalid"} => fate[r] = "answered"
    /\ future[r] = "failed" => fate[r] # "local"

(* Where a send stands: not yet sent, sent, cleaning up, or done.          *)
Unsent == {"idle", "subscribing", "suback", "queued"}
Cleanup == {"draining", "redraining", "unsubscribing"}
Position(r) ==
    /\ pc[r] \in Unsent => fate[r] = "local"
    /\ pc[r] \in {"puback", "waiting"} => fate[r] # "local"
    /\ pc[r] \notin Cleanup \cup {"done"} => verdict[r] = "none"
    /\ pc[r] \in Cleanup =>
           verdict[r] \in {"interrupted"} \cup Contract!Supports(fate[r])
    /\ pc[r] = "done" => verdict[r] \in Contract!Supports(fate[r])

Truth == \A r \in Requests : Evidence(r) /\ Position(r)

(* Why close leaves nothing: no future and no subscription is added to a   *)
(* closed service.                                                         *)
Closing == /\ closeDone => closed /\ subs = {}
           /\ closed => pending = {}

----------------------------------------------------------------------------
(* The types.                                                              *)
PCs == [Requests -> {"idle", "subscribing", "suback", "queued", "puback",
                     "waiting", "draining", "redraining", "unsubscribing",
                     "done"}]
Verdicts == {"none", "interrupted", "response", "receipt", "unknown",
             "rejected", "not_sent", "cancelled", "limit"}
Futures == [Requests -> {"none", "pending", "value", "invalid", "failed",
                         "cancelled"}]
Phases == [Requests -> {"NOT_SENT", "BROKER_ACKNOWLEDGMENT_PENDING",
                        "BROKER_ACCEPTED", "RESPONSE_PENDING"}]

LEMMA ReturnType ==
    ASSUME Types, NEW r \in Requests, NEW v \in Verdicts, Return(r, v)
    PROVE  pc' \in PCs /\ verdict' \in [Requests -> Verdicts]
<1>1. AfterCancel(r) \in Verdicts
    BY DEF AfterCancel, ResponseResult, Verdicts
<1>2. QED
    BY <1>1 DEF Return, Types, PCs, Verdicts

LEMMA LeaveType ==
    ASSUME Types, NEW r \in Requests, NEW v \in Verdicts, Leave(r, v)
    PROVE  pc' \in PCs /\ verdict' \in [Requests -> Verdicts]
<1>1. CASE r \in subs
    BY <1>1 DEF Leave, Types, PCs, Verdicts
<1>2. CASE r \notin subs
    BY <1>2, ReturnType DEF Leave
<1>3. QED
    BY <1>1, <1>2

LEMMA DropType ==
    ASSUME Types, NEW r \in Requests, DropFuture(r)
    PROVE  pending' \subseteq Requests /\ future' \in Futures
BY DEF DropFuture, Types, Futures

LEMMA ResultType ==
    ASSUME NEW r \in Requests PROVE ResponseResult(r) \in Verdicts
BY DEF ResponseResult, Verdicts

(* What publish() leads to when it returned, and when it raised.           *)
LEMMA PublishedType ==
    ASSUME Types, NEW r \in Requests, NEW b \in BOOLEAN, Published(r, b)
    PROVE  /\ pc' \in PCs /\ verdict' \in [Requests -> Verdicts]
           /\ phase' \in Phases
<1>1. "receipt" \in Verdicts /\ "unknown" \in Verdicts /\ ResponseResult(r) \in Verdicts
    BY ResultType DEF Verdicts
<1>2. phase' \in Phases
    BY DEF Published, Types, Phases
<1>3. CASE pc' = [pc EXCEPT ![r] = "waiting"] /\ UNCHANGED verdict
    BY <1>2, <1>3 DEF Types, PCs, Verdicts
<1>4. CASE \E v \in Verdicts : Leave(r, v)
    BY <1>2, <1>4, LeaveType
<1>5. QED
    BY <1>1, <1>3, <1>4 DEF Published

LEMMA UnacknowledgedType ==
    ASSUME Types, NEW r \in Requests, Unacknowledged(r)
    PROVE  pc' \in PCs /\ verdict' \in [Requests -> Verdicts] /\ phase' \in Phases
<1>1. "unknown" \in Verdicts /\ ResponseResult(r) \in Verdicts
    BY ResultType DEF Verdicts
<1>2. QED
    BY <1>1, LeaveType DEF Unacknowledged, Types, Phases

LEMMA TypeStep == Types /\ [Next]_vars => Types'
<1> SUFFICES ASSUME Types, [Next]_vars PROVE Types'
    OBVIOUS
<1> USE DEF service, resources
<1>1. CASE Close
    BY <1>1 DEF Types, Close
<1>2. CASE CloseReturns \/ Disconnect \/ Reconnect
    <2>1. CASE CloseReturns
        BY <2>1 DEF Types, CloseReturns
    <2>2. CASE Disconnect
        <3>1. lost' \in [Requests -> BOOLEAN]
            BY <2>2 DEF Types, Disconnect
        <3>2. ack' \in [Requests -> {"none", "waiting", "accepted", "refused", "failed"}]
            BY <2>2 DEF Types, Disconnect
        <3>3. QED
            BY <2>2, <3>1, <3>2 DEF Types, Disconnect
    <2>3. CASE Reconnect
        BY <2>3 DEF Types, Reconnect
    <2>4. QED
        BY <1>2, <2>1, <2>2, <2>3
<1>3. ASSUME NEW r \in Requests, Send(r) \/ Cancel(r) PROVE Types'
    <2>1. CASE Send(r)
        <3>1. pc' \in PCs /\ pending' \subseteq Requests /\ future' \in Futures
            BY <2>1 DEF Types, Send, PCs, Futures
        <3>2. QED
            BY <2>1, <3>1 DEF Types, Send, PCs, Futures
    <2>2. CASE Cancel(r)
        BY <2>2 DEF Types, Cancel
    <2>3. QED
        BY <1>3, <2>1, <2>2
<1>4. ASSUME NEW r \in Requests, SendRefused(r) PROVE Types'
    <2>1. PICK v \in Verdicts : Return(r, v)
        BY <1>4 DEF SendRefused, Verdicts
    <2>2. QED
        BY <1>4, <2>1, ReturnType DEF Types, SendRefused, PCs, Verdicts
<1>5. ASSUME NEW r \in Requests, SubscribeFails(r) \/ SubscribeCancelled(r)
      PROVE Types'
    <2>1. (\E v \in Verdicts : Return(r, v)) /\ DropFuture(r)
        BY <1>5 DEF SubscribeFails, SubscribeCancelled, Verdicts
    <2>2. /\ pc' \in PCs /\ verdict' \in [Requests -> Verdicts]
          /\ pending' \subseteq Requests /\ future' \in Futures
        BY <2>1, ReturnType, DropType
    <2>3. /\ cancel' \in [Requests -> BOOLEAN]
          /\ UNCHANGED <<connected, closed, closeDone, mode, phase, ack, lost, subs, fate>>
        BY <1>5 DEF Types, SubscribeFails, SubscribeCancelled, Consume
    <2>4. QED
        BY <2>2, <2>3 DEF Types, PCs, Verdicts, Futures
<1>6. ASSUME NEW r \in Requests, SubscribeReturns(r) PROVE Types'
    <2>1. CASE closed
        <3>1. Return(r, "not_sent") /\ "not_sent" \in Verdicts /\ DropFuture(r)
            BY <1>6, <2>1 DEF SubscribeReturns, Verdicts
        <3>2. /\ pc' \in PCs /\ verdict' \in [Requests -> Verdicts]
              /\ pending' \subseteq Requests /\ future' \in Futures
            BY <3>1, ReturnType, DropType
        <3>3. QED
            BY <1>6, <2>1, <3>2 DEF Types, SubscribeReturns, PCs, Verdicts, Futures
    <2>2. CASE ~closed
        BY <1>6, <2>2 DEF Types, SubscribeReturns
    <2>3. QED
        BY <2>1, <2>2
<1>7. ASSUME NEW r \in Requests, SubackArrives(r) \/ StartSend(r) PROVE Types'
    BY <1>7 DEF Types, SubackArrives, StartSend
<1>8. ASSUME NEW r \in Requests,
             \/ SendFails(r) \/ QueueCancelled(r) \/ ResponseSettled(r)
             \/ ResponseGivenUp(r) \/ WaitCancelled(r)
      PROVE Types'
    <2>1. PICK v \in Verdicts : Leave(r, v)
        BY <1>8, ResultType
        DEF SendFails, QueueCancelled, ResponseSettled, ResponseGivenUp,
            WaitCancelled, Verdicts
    <2>2. pc' \in PCs /\ verdict' \in [Requests -> Verdicts]
        BY <2>1, LeaveType
    <2>3. cancel' \in [Requests -> BOOLEAN]
        BY <1>8 DEF SendFails, QueueCancelled, ResponseSettled, ResponseGivenUp,
                    WaitCancelled, Consume, Types
    <2>4. UNCHANGED <<connected, closed, closeDone, mode, phase, future, ack, lost,
                      pending, subs, fate>>
        BY <1>8 DEF SendFails, QueueCancelled, ResponseSettled, ResponseGivenUp,
                    WaitCancelled
    <2>5. QED
        BY <2>2, <2>3, <2>4 DEF Types, PCs, Verdicts
<1>9. ASSUME NEW r \in Requests, PublishSettled(r) \/ PublishGivenUp(r)
      PROVE Types'
    <2>1. /\ pc' \in PCs /\ verdict' \in [Requests -> Verdicts]
          /\ phase' \in Phases
        <3>1. CASE Published(r, cancel[r])
            BY <3>1, PublishedType DEF Types
        <3>2. CASE Leave(r, "rejected") /\ UNCHANGED phase
            <4>1. "rejected" \in Verdicts
                BY DEF Verdicts
            <4>2. QED
                BY <3>2, <4>1, LeaveType DEF Types, Phases
        <3>3. CASE Unacknowledged(r)
            BY <3>3, UnacknowledgedType
        <3>4. QED
            BY <1>9, <3>1, <3>2, <3>3 DEF PublishSettled, PublishGivenUp
    <2>2. cancel' \in [Requests -> BOOLEAN]
        BY <1>9 DEF PublishSettled, PublishGivenUp, Consume, Types
    <2>3. UNCHANGED <<connected, closed, closeDone, mode, future, ack, lost,
                      pending, subs, fate>>
        BY <1>9 DEF PublishSettled, PublishGivenUp
    <2>4. QED
        BY <2>1, <2>2, <2>3 DEF Types, PCs, Verdicts, Phases
<1>10. ASSUME NEW r \in Requests, Drained(r) PROVE Types'
    <2>1. pending' \subseteq Requests /\ future' \in Futures
        BY <1>10, DropType DEF Drained
    <2>2. QED
        BY <1>10, <2>1 DEF Types, Drained, Futures
<1>11. ASSUME NEW r \in Requests,
              DrainCancelled(r) \/ Unsubscribed(r) \/ UnsubscribeCancelled(r)
       PROVE Types'
    <2>1. pc' \in PCs /\ verdict' \in [Requests -> Verdicts]
        <3>1. CASE pc' = [pc EXCEPT ![r] = "redraining"] /\ UNCHANGED verdict
            BY <3>1 DEF Types, PCs, Verdicts
        <3>2. CASE \E v \in Verdicts : Return(r, v)
            BY <3>2, ReturnType
        <3>3. "interrupted" \in Verdicts /\ "rejected" \in Verdicts /\ verdict[r] \in Verdicts
            BY DEF Types, Verdicts
        <3>4. QED
            BY <1>11, <3>1, <3>2, <3>3
            DEF DrainCancelled, Unsubscribed, UnsubscribeCancelled
    <2>2. cancel' \in [Requests -> BOOLEAN]
        BY <1>11 DEF DrainCancelled, Unsubscribed, UnsubscribeCancelled, Consume, Types
    <2>3. UNCHANGED <<connected, closed, closeDone, mode, phase, future, ack, lost,
                      pending, subs, fate>>
        BY <1>11 DEF DrainCancelled, Unsubscribed, UnsubscribeCancelled
    <2>4. QED
        BY <2>1, <2>2, <2>3 DEF Types, PCs, Verdicts
<1>12. ASSUME NEW r \in Requests,
              \/ BrokerDecides(r) \/ PubackArrives(r) \/ RemoteAnswers(r)
              \/ ReceiveResponse(r)
       PROVE Types'
    BY <1>12 DEF Types, BrokerDecides, PubackArrives, RemoteAnswers, ReceiveResponse
<1>13. CASE UNCHANGED vars
    BY <1>13 DEF Types, vars
<1>14. QED
    BY <1>1, <1>2, <1>3, <1>4, <1>5, <1>6, <1>7, <1>8, <1>9, <1>10, <1>11, <1>12,
       <1>13 DEF Next, Progress, Environment

LEMMA TypeInit == Init => Types
<1> SUFFICES ASSUME Init PROVE Types
    OBVIOUS
<1>1. pc \in PCs /\ future \in Futures /\ phase \in Phases
    BY DEF Init, PCs, Futures, Phases
<1>2. /\ ack \in [Requests -> {"none", "waiting", "accepted", "refused", "failed"}]
      /\ verdict \in [Requests -> Verdicts]
    BY DEF Init, Verdicts
<1>3. fate \in [Requests -> {"local", "sent", "accepted", "refused", "answered"}]
    BY DEF Init
<1>4. cancel \in [Requests -> BOOLEAN] /\ lost \in [Requests -> BOOLEAN]
    BY DEF Init
<1>5. QED
    BY <1>1, <1>2, <1>3, <1>4 DEF Init, Types, PCs, Futures, Phases, Verdicts

LEMMA TypeInvariant == Spec => []Types
BY TypeInit, TypeStep, PTL DEF Spec

----------------------------------------------------------------------------
(* Lemmas on the ways a send moves.  A send that nothing touches stays as  *)
(* it was.                                                                 *)
Untouched(q) ==
    /\ pc'[q] = pc[q] /\ verdict'[q] = verdict[q] /\ fate'[q] = fate[q]
    /\ phase'[q] = phase[q] /\ ack'[q] = ack[q] /\ future'[q] = future[q]

LEMMA Frame ==
    ASSUME NEW q \in Requests, Evidence(q) /\ Position(q), Untouched(q)
    PROVE  Evidence(q)' /\ Position(q)'
BY DEF Untouched, Evidence, Position

(* The verdict of the handler of CancelledError is supported by the fate.  *)
LEMMA AfterCancelSound ==
    ASSUME Types, NEW r \in Requests, Evidence(r)
    PROVE  AfterCancel(r) \in Contract!Supports(fate[r])
<1>1. fate[r] \in {"local", "sent", "accepted", "refused", "answered"}
    BY DEF Types
<1>2. CASE Answered(r)
    <2>1. CASE future[r] = "value"
        BY <1>2, <2>1 DEF Evidence, AfterCancel, ResponseResult, Contract!Supports
    <2>2. CASE future[r] # "value"
        BY <1>1, <1>2, <2>2
        DEF Evidence, AfterCancel, ResponseResult, Answered, Contract!Supports
    <2>3. QED
        BY <2>1, <2>2
<1>3. CASE ~Answered(r)
    BY <1>1, <1>3 DEF Evidence, AfterCancel, Contract!Supports
<1>4. QED
    BY <1>2, <1>3

LEMMA ResultSound ==
    ASSUME Types, NEW r \in Requests, Evidence(r), Answered(r)
    PROVE  ResponseResult(r) \in Contract!Supports(fate[r])
<1>1. fate[r] \in {"local", "sent", "accepted", "refused", "answered"}
    BY DEF Types
<1>2. QED
    BY <1>1 DEF Evidence, ResponseResult, Answered, Contract!Supports

(* Leaving the body of send(), or ending, with a supported verdict.        *)
LEMMA LeaveSound ==
    ASSUME Types, NEW r \in Requests, Evidence(r),
           NEW v \in {"interrupted"} \cup Contract!Supports(fate[r]),
           Leave(r, v) \/ Return(r, v), UNCHANGED fate
    PROVE  /\ \A q \in Requests : q # r => pc'[q] = pc[q] /\ verdict'[q] = verdict[q]
           /\ Position(r)'
           /\ pc'[r] \in {"draining", "done"}
<1>1. CASE Return(r, v)
    <2>1. verdict'[r] \in Contract!Supports(fate[r])
        BY <1>1, AfterCancelSound DEF Return, Types
    <2>2. pc'[r] = "done"
        BY <1>1 DEF Return, Types
    <2>3. QED
        BY <1>1, <2>1, <2>2 DEF Return, Types, Position, Unsent, Cleanup
<1>2. CASE Leave(r, v) /\ r \in subs
    <2>1. pc'[r] = "draining" /\ verdict'[r] = v
        BY <1>2 DEF Leave, Types
    <2>2. QED
        BY <1>2, <2>1 DEF Leave, Types, Position, Unsent, Cleanup
<1>3. QED
    BY <1>1, <1>2 DEF Leave

LEMMA DropSound ==
    ASSUME Types, NEW r \in Requests, DropFuture(r)
    PROVE  /\ \A q \in Requests : q # r => future'[q] = future[q]
           /\ future'[r] \in {"cancelled", future[r]}
BY DEF DropFuture, Types

----------------------------------------------------------------------------
(* The record stays true.                                                  *)
LEMMA PublishedSound ==
    ASSUME Types, Truth, NEW r \in Requests, NEW b \in BOOLEAN, Published(r, b),
           pc[r] = "puback", ack[r] = "accepted", UNCHANGED <<future, ack, fate>>
    PROVE  Truth'
<1>1. Evidence(r) /\ Position(r) /\ fate[r] \in {"accepted", "answered"}
    BY DEF Truth, Evidence
<1>2. phase'[r] \in {"BROKER_ACCEPTED", "RESPONSE_PENDING"}
      /\ \A q \in Requests : q # r => phase'[q] = phase[q]
    BY DEF Published, Types
<1>3. Evidence(r)'
    BY <1>1, <1>2 DEF Evidence
<1>4. /\ \A q \in Requests : q # r => pc'[q] = pc[q] /\ verdict'[q] = verdict[q]
      /\ Position(r)'
    <2>1. CASE \E v \in Contract!Supports(fate[r]) : Leave(r, v)
        BY <1>1, <2>1, LeaveSound
    <2>2. CASE pc' = [pc EXCEPT ![r] = "waiting"] /\ UNCHANGED verdict
        BY <1>1, <2>2 DEF Types, Position, Unsent, Cleanup
    <2>3. {"receipt", "unknown"} \subseteq Contract!Supports(fate[r])
        BY <1>1 DEF Contract!Supports
    <2>4. Answered(r) => ResponseResult(r) \in Contract!Supports(fate[r])
        BY <1>1, ResultSound
    <2>5. QED
        BY <2>1, <2>2, <2>3, <2>4 DEF Published
<1>5. ASSUME NEW q \in Requests, q # r PROVE Evidence(q)' /\ Position(q)'
    BY <1>2, <1>4, <1>5, Frame DEF Truth, Untouched
<1>6. QED
    BY <1>3, <1>4, <1>5 DEF Truth

(* Every other way to leave the body of send() keeps the record.           *)
LEMMA LeavingKeepsTruth ==
    ASSUME Types, Truth, NEW r \in Requests,
           NEW v \in {"interrupted"} \cup Contract!Supports(fate[r]),
           Leave(r, v) \/ Return(r, v), UNCHANGED <<phase, ack, fate>>,
           DropFuture(r) \/ UNCHANGED future
    PROVE  Truth'
<1>1. /\ \A q \in Requests : q # r => pc'[q] = pc[q] /\ verdict'[q] = verdict[q]
      /\ Position(r)'
    BY LeaveSound DEF Truth
<1>2. /\ \A q \in Requests : q # r => future'[q] = future[q]
      /\ future'[r] \in {"cancelled", future[r]}
    BY DropSound
<1>3. Evidence(r)'
    BY <1>2 DEF Truth, Evidence
<1>4. ASSUME NEW q \in Requests, q # r PROVE Evidence(q)' /\ Position(q)'
    BY <1>1, <1>2, <1>4, Frame DEF Truth, Untouched
<1>5. QED
    BY <1>1, <1>3, <1>4 DEF Truth

LEMMA TruthStep == Types /\ Truth /\ [Next]_vars => Truth'
<1> SUFFICES ASSUME Types, Truth, [Next]_vars PROVE Truth'
    OBVIOUS
<1> USE DEF service, resources
<1>1. CASE Close
    <2>1. UNCHANGED <<pc, phase, ack, verdict, fate>>
        BY <1>1 DEF Close
    <2>2. ASSUME NEW q \in Requests
          PROVE  \/ future'[q] \in {"cancelled", future[q]}
                 \/ future'[q] = "failed" /\ phase[q] # "NOT_SENT"
        BY <1>1 DEF Close, Types
    <2>3. QED
        BY <2>1, <2>2 DEF Truth, Evidence, Position
<1>2. CASE CloseReturns \/ Reconnect \/ (\E r \in Requests : Cancel(r)) \/ UNCHANGED vars
    <2>1. UNCHANGED <<pc, phase, ack, verdict, fate, future>>
        BY <1>2 DEF CloseReturns, Reconnect, Cancel, vars
    <2>2. QED
        BY <2>1 DEF Truth, Evidence, Position
<1>3. CASE Disconnect
    <2>1. UNCHANGED <<pc, phase, verdict, fate, future>>
        BY <1>3 DEF Disconnect
    <2>2. \A q \in Requests : ack'[q] \in {"failed", ack[q]}
        BY <1>3 DEF Disconnect, Types
    <2>3. QED
        BY <2>1, <2>2 DEF Truth, Evidence, Position
<1>4. ASSUME NEW r \in Requests, Send(r) \/ SubackArrives(r) PROVE Truth'
    <2>1. /\ UNCHANGED <<phase, ack, verdict, fate>>
          /\ \A q \in Requests : q # r => pc'[q] = pc[q] /\ future'[q] = future[q]
          /\ pc[r] \in Unsent /\ pc'[r] \in Unsent
          /\ future'[r] \in {"pending", future[r]}
        BY <1>4 DEF Send, SubackArrives, Types, Unsent
    <2>2. Evidence(r)' /\ Position(r)'
        BY <2>1 DEF Truth, Evidence, Position, Unsent, Cleanup
    <2>3. ASSUME NEW q \in Requests, q # r PROVE Evidence(q)' /\ Position(q)'
        BY <2>1, <2>3, Frame DEF Truth, Untouched
    <2>4. QED
        BY <2>2, <2>3 DEF Truth
<1>5. ASSUME NEW r \in Requests,
             \/ SendRefused(r) \/ SubscribeFails(r) \/ SubscribeCancelled(r)
             \/ SendFails(r) \/ QueueCancelled(r)
      PROVE Truth'
    <2>1. fate[r] = "local"
        BY <1>5 DEF SendRefused, SubscribeFails, SubscribeCancelled, SendFails,
                    QueueCancelled, Truth, Position, Unsent
    <2>2. {"limit", "not_sent", "rejected"} \subseteq Contract!Supports(fate[r])
        BY <2>1 DEF Contract!Supports
    <2>3. PICK v \in {"interrupted", "limit", "not_sent", "rejected"} :
              Leave(r, v) \/ Return(r, v)
        BY <1>5 DEF SendRefused, SubscribeFails, SubscribeCancelled, SendFails,
                    QueueCancelled
    <2>4. UNCHANGED <<phase, ack, fate>> /\ (DropFuture(r) \/ UNCHANGED future)
        BY <1>5 DEF SendRefused, SubscribeFails, SubscribeCancelled, SendFails,
                    QueueCancelled
    <2>5. QED
        BY <2>2, <2>3, <2>4, LeavingKeepsTruth
<1>6. ASSUME NEW r \in Requests, SubscribeReturns(r) PROVE Truth'
    <2>1. fate[r] = "local" /\ pc[r] = "suback"
        BY <1>6 DEF SubscribeReturns, Truth, Position, Unsent
    <2>2. "not_sent" \in Contract!Supports(fate[r])
        BY <2>1 DEF Contract!Supports
    <2>3. CASE closed
        BY <1>6, <2>2, <2>3, LeavingKeepsTruth DEF SubscribeReturns
    <2>4. CASE ~closed
        <3>1. /\ UNCHANGED <<phase, ack, fate, future>>
              /\ \A q \in Requests : q # r => pc'[q] = pc[q] /\ verdict'[q] = verdict[q]
              /\ \/ pc'[r] = "draining" /\ verdict'[r] = "not_sent"
                 \/ pc'[r] = "queued" /\ verdict'[r] = verdict[r]
            BY <1>6, <2>4 DEF SubscribeReturns, Types
        <3>2. Evidence(r)' /\ Position(r)'
            BY <2>1, <2>2, <3>1 DEF Truth, Evidence, Position, Unsent, Cleanup
        <3>3. ASSUME NEW q \in Requests, q # r PROVE Evidence(q)' /\ Position(q)'
            BY <3>1, <3>3, Frame DEF Truth, Untouched
        <3>4. QED
            BY <3>2, <3>3 DEF Truth
    <2>5. QED
        BY <2>3, <2>4
<1>7. ASSUME NEW r \in Requests, StartSend(r) PROVE Truth'
    <2>1. /\ UNCHANGED <<verdict, future>>
          /\ \A q \in Requests : q # r => /\ pc'[q] = pc[q] /\ phase'[q] = phase[q]
                                         /\ ack'[q] = ack[q] /\ fate'[q] = fate[q]
          /\ pc[r] = "queued" /\ pc'[r] = "puback" /\ fate'[r] = "sent"
          /\ phase'[r] = "BROKER_ACKNOWLEDGMENT_PENDING" /\ ack'[r] = "waiting"
        BY <1>7 DEF StartSend, Types
    <2>2. Evidence(r)' /\ Position(r)'
        BY <2>1 DEF Truth, Evidence, Position, Unsent, Cleanup
    <2>3. ASSUME NEW q \in Requests, q # r PROVE Evidence(q)' /\ Position(q)'
        BY <2>1, <2>3, Frame DEF Truth, Untouched
    <2>4. QED
        BY <2>2, <2>3 DEF Truth
<1>8. ASSUME NEW r \in Requests, PublishSettled(r) PROVE Truth'
    <2>1. /\ pc[r] = "puback" /\ UNCHANGED <<future, ack, fate>>
          /\ \/ ack[r] = "accepted" /\ Published(r, cancel[r])
             \/ ack[r] = "refused" /\ Leave(r, "rejected") /\ UNCHANGED phase
             \/ ack[r] = "failed" /\ Unacknowledged(r)
        BY <1>8 DEF PublishSettled
    <2>2. fate[r] # "local" /\ Evidence(r)
          /\ fate[r] \in {"local", "sent", "accepted", "refused", "answered"}
        BY <2>1 DEF Truth, Position, Types
    <2>3. CASE ack[r] = "accepted" /\ Published(r, cancel[r])
        BY <2>1, <2>3, PublishedSound DEF Types
    <2>4. CASE ack[r] = "refused" /\ Leave(r, "rejected") /\ UNCHANGED phase
        <3>1. "rejected" \in Contract!Supports(fate[r])
            BY <2>2, <2>4 DEF Evidence, Contract!Supports
        <3>2. QED
            BY <2>1, <2>4, <3>1, LeavingKeepsTruth
    <2>5. CASE Unacknowledged(r)
        <3>1. "unknown" \in Contract!Supports(fate[r])
            BY <2>2 DEF Contract!Supports
        <3>2. QED
            BY <2>1, <2>2, <2>5, <3>1, ResultSound, LeavingKeepsTruth DEF Unacknowledged
    <2>6. QED
        BY <2>1, <2>3, <2>4, <2>5
<1>9. ASSUME NEW r \in Requests,
             PublishGivenUp(r) \/ ResponseSettled(r) \/ ResponseGivenUp(r) \/ WaitCancelled(r)
      PROVE Truth'
    <2>1. /\ pc[r] \in {"puback", "waiting"} /\ UNCHANGED <<phase, future, ack, fate>>
          /\ \/ Leave(r, "unknown") \/ Leave(r, "interrupted")
             \/ Answered(r) /\ Leave(r, ResponseResult(r))
        BY <1>9 DEF PublishGivenUp, ResponseSettled, ResponseGivenUp, WaitCancelled,
                    Unacknowledged
    <2>2. fate[r] # "local" /\ Evidence(r)
          /\ fate[r] \in {"local", "sent", "accepted", "refused", "answered"}
        BY <2>1 DEF Truth, Position, Types
    <2>3. "unknown" \in Contract!Supports(fate[r])
        BY <2>2 DEF Contract!Supports
    <2>4. QED
        BY <2>1, <2>2, <2>3, ResultSound, LeavingKeepsTruth
<1>10. ASSUME NEW r \in Requests, Drained(r) PROVE Truth'
    <2>1. /\ UNCHANGED <<phase, ack, fate, verdict>> /\ DropFuture(r)
          /\ \A q \in Requests : q # r => pc'[q] = pc[q]
          /\ pc[r] \in Cleanup /\ pc'[r] \in Cleanup
        BY <1>10 DEF Drained, Types, Cleanup
    <2>2. /\ \A q \in Requests : q # r => future'[q] = future[q]
          /\ future'[r] \in {"cancelled", future[r]}
        BY <2>1, DropSound
    <2>3. Evidence(r)' /\ Position(r)'
        BY <2>1, <2>2 DEF Truth, Evidence, Position, Unsent, Cleanup
    <2>4. ASSUME NEW q \in Requests, q # r PROVE Evidence(q)' /\ Position(q)'
        BY <2>1, <2>2, <2>4, Frame DEF Truth, Untouched
    <2>5. QED
        BY <2>3, <2>4 DEF Truth
<1>11. ASSUME NEW r \in Requests,
              DrainCancelled(r) \/ Unsubscribed(r) \/ UnsubscribeCancelled(r)
       PROVE Truth'
    <2>1. /\ UNCHANGED <<phase, ack, fate, future>> /\ pc[r] \in Cleanup
          /\ verdict[r] \in {"interrupted"} \cup Contract!Supports(fate[r])
        BY <1>11 DEF DrainCancelled, Unsubscribed, UnsubscribeCancelled, Cleanup,
                     Truth, Position
    <2>2. CASE \E v \in {"interrupted"} \cup Contract!Supports(fate[r]) : Return(r, v)
        BY <2>1, <2>2, LeavingKeepsTruth
    <2>3. CASE pc' = [pc EXCEPT ![r] = "redraining"] /\ UNCHANGED verdict
        <3>1. Evidence(r)' /\ Position(r)'
            BY <2>1, <2>3 DEF Types, Truth, Evidence, Position, Unsent, Cleanup
        <3>2. ASSUME NEW q \in Requests, q # r PROVE Evidence(q)' /\ Position(q)'
            BY <2>1, <2>3, <3>2, Frame DEF Types, Truth, Untouched
        <3>3. QED
            BY <3>1, <3>2 DEF Truth
    <2>4. QED
        BY <1>11, <2>1, <2>2, <2>3
        DEF DrainCancelled, Unsubscribed, UnsubscribeCancelled
<1>12. ASSUME NEW r \in Requests,
              \/ BrokerDecides(r) \/ PubackArrives(r) \/ RemoteAnswers(r)
              \/ ReceiveResponse(r)
       PROVE Truth'
    <2>1. /\ UNCHANGED <<pc, phase, verdict>>
          /\ \A q \in Requests : q # r => /\ ack'[q] = ack[q] /\ fate'[q] = fate[q]
                                         /\ future'[q] = future[q]
        BY <1>12 DEF BrokerDecides, PubackArrives, RemoteAnswers, ReceiveResponse, Types
    <2>2. Evidence(r) /\ Position(r)
        BY DEF Truth
    <2>3. \/ /\ fate[r] = "sent" /\ fate'[r] \in {"accepted", "refused"}
             /\ ack'[r] = ack[r] /\ future'[r] = future[r]
          \/ /\ fate[r] = "accepted" /\ fate'[r] = "answered"
             /\ ack'[r] = ack[r] /\ future'[r] = future[r]
          \/ /\ fate'[r] = fate[r] /\ future'[r] = future[r]
             /\ \/ ack'[r] = "refused" /\ fate[r] = "refused"
                \/ ack'[r] = "accepted" /\ fate[r] \in {"accepted", "answered"}
          \/ /\ fate[r] = "answered" /\ fate'[r] = fate[r] /\ ack'[r] = ack[r]
        BY <1>12 DEF BrokerDecides, PubackArrives, RemoteAnswers, ReceiveResponse, Types
    <2>4. Evidence(r)'
        BY <2>1, <2>2, <2>3 DEF Evidence
    <2>5. Position(r)'
        BY <2>1, <2>2, <2>3 DEF Position, Contract!Supports, Unsent, Cleanup
    <2>6. ASSUME NEW q \in Requests, q # r PROVE Evidence(q)' /\ Position(q)'
        BY <2>1, <2>6, Frame DEF Truth, Untouched
    <2>7. QED
        BY <2>4, <2>5, <2>6 DEF Truth
<1>13. QED
    BY <1>1, <1>2, <1>3, <1>4, <1>5, <1>6, <1>7, <1>8, <1>9, <1>10, <1>11, <1>12
    DEF Next, Progress, Environment

LEMMA TruthInit == Init => Truth
BY DEF Init, Truth, Evidence, Position, Unsent, Cleanup

LEMMA TruthInvariant == Spec => []Truth
BY TruthInit, TruthStep, TypeInvariant, PTL DEF Spec

(* Every variable keeps its type in every interleaving, and no send ends   *)
(* without a definite verdict.                                             *)
THEOREM TypeCorrect == Spec => []TypeOK
<1>1. Types /\ Truth => TypeOK
    <2> SUFFICES ASSUME Types, Truth, NEW r \in Requests, pc[r] = "done"
                 PROVE  verdict[r] \notin {"none", "interrupted"}
        BY DEF TypeOK
    <2>1. verdict[r] \in Contract!Supports(fate[r])
        BY DEF Truth, Position
    <2>2. fate[r] \in {"local", "sent", "accepted", "refused", "answered"}
        BY DEF Types
    <2>3. QED
        BY <2>1, <2>2 DEF Contract!Supports
<1>2. QED
    BY <1>1, TypeInvariant, TruthInvariant, PTL

(* What send() ended with as not sent, or as an ordinary cancellation,     *)
(* never left the client; what it reports as unknown did.                  *)
THEOREM RetryIsSafe == Spec => []RetrySafety
<1>1. Types /\ Truth => RetrySafety
    <2> SUFFICES ASSUME Types, Truth, NEW r \in Requests, pc[r] = "done"
                 PROVE  /\ verdict[r] \in {"not_sent", "cancelled", "limit"} => fate[r] = "local"
                        /\ verdict[r] = "unknown" => fate[r] # "local"
        BY DEF RetrySafety
    <2>1. verdict[r] \in Contract!Supports(fate[r])
        BY DEF Truth, Position
    <2>2. fate[r] \in {"local", "sent", "accepted", "refused", "answered"}
        BY DEF Types
    <2>3. QED
        BY <2>1, <2>2 DEF Contract!Supports
<1>2. QED
    BY <1>1, TypeInvariant, TruthInvariant, PTL

----------------------------------------------------------------------------
(* send() implements its contract.  In one step, one fate moves on, or one *)
(* send concludes, or the contract does not notice.                        *)
Told == [r \in Requests |-> IF pc[r] = "done" THEN verdict[r] ELSE "none"]

(* The moves of a single send towards its end.                             *)
Ends(r) ==
    /\ UNCHANGED fate /\ pc[r] # "done"
    /\ \A q \in Requests : q # r => pc'[q] = pc[q] /\ verdict'[q] = verdict[q]

LEMMA ReturnMoves ==
    ASSUME Types, NEW r \in Requests, NEW v, Leave(r, v) \/ Return(r, v)
    PROVE  \A q \in Requests : q # r => pc'[q] = pc[q] /\ verdict'[q] = verdict[q]
BY DEF Leave, Return, Types

LEMMA OneMoves ==
    ASSUME Types, Truth, [Next]_vars
    PROVE  \/ UNCHANGED <<pc, verdict, fate>>
           \/ \E r \in Requests : Ends(r)
           \/ \E r \in Requests :
                 /\ \E f \in Contract!Follows[fate[r]] : fate' = [fate EXCEPT ![r] = f]
                 /\ fate[r] # "local" /\ UNCHANGED <<pc, verdict>>
           \/ \E r \in Requests : StartSend(r)
<1> USE DEF service, resources
<1>1. CASE Close \/ CloseReturns \/ Disconnect \/ Reconnect \/ UNCHANGED vars
    BY <1>1 DEF Close, CloseReturns, Disconnect, Reconnect, vars
<1>2. ASSUME NEW r \in Requests,
             Cancel(r) \/ PubackArrives(r) \/ ReceiveResponse(r)
      PROVE  UNCHANGED <<pc, verdict, fate>>
    BY <1>2 DEF Cancel, PubackArrives, ReceiveResponse
<1>3. ASSUME NEW r \in Requests, BrokerDecides(r) \/ RemoteAnswers(r)
      PROVE  /\ \E f \in Contract!Follows[fate[r]] : fate' = [fate EXCEPT ![r] = f]
             /\ fate[r] # "local" /\ UNCHANGED <<pc, verdict>>
    BY <1>3 DEF BrokerDecides, RemoteAnswers, Contract!Follows
<1>4. ASSUME NEW r \in Requests,
             \/ Send(r) \/ SubackArrives(r) \/ Drained(r) \/ SubscribeReturns(r)
      PROVE  Ends(r)
    <2>1. UNCHANGED fate /\ pc[r] # "done"
        BY <1>4 DEF Send, SubackArrives, Drained, SubscribeReturns
    <2>2. CASE Return(r, "not_sent")
        BY <2>1, <2>2, ReturnMoves DEF Ends
    <2>3. CASE ~Return(r, "not_sent")
        BY <1>4, <2>1, <2>3
        DEF Send, SubackArrives, Drained, SubscribeReturns, Ends, Types
    <2>4. QED
        BY <2>2, <2>3
<1>5. ASSUME NEW r \in Requests,
             \/ SendRefused(r) \/ SubscribeFails(r) \/ SubscribeCancelled(r)
             \/ SendFails(r) \/ QueueCancelled(r) \/ PublishGivenUp(r)
             \/ ResponseSettled(r) \/ ResponseGivenUp(r) \/ WaitCancelled(r)
             \/ Unsubscribed(r) \/ UnsubscribeCancelled(r)
      PROVE  Ends(r)
    <2>1. UNCHANGED fate /\ pc[r] # "done"
        BY <1>5 DEF SendRefused, SubscribeFails, SubscribeCancelled, SendFails,
                    QueueCancelled, PublishGivenUp, ResponseSettled, ResponseGivenUp,
                    WaitCancelled, Unsubscribed, UnsubscribeCancelled
    <2>2. \E v : Leave(r, v) \/ Return(r, v)
        BY <1>5 DEF SendRefused, SubscribeFails, SubscribeCancelled, SendFails,
                    QueueCancelled, PublishGivenUp, Unacknowledged, ResponseSettled,
                    ResponseGivenUp, WaitCancelled, Unsubscribed, UnsubscribeCancelled
    <2>3. QED
        BY <2>1, <2>2, ReturnMoves DEF Ends
<1>6. ASSUME NEW r \in Requests, PublishSettled(r) \/ DrainCancelled(r)
      PROVE  Ends(r)
    <2>1. UNCHANGED fate /\ pc[r] # "done"
        BY <1>6 DEF PublishSettled, DrainCancelled
    <2>2. \/ \E v : Leave(r, v) \/ Return(r, v)
          \/ \E s \in {"waiting", "redraining"} :
                pc' = [pc EXCEPT ![r] = s] /\ UNCHANGED verdict
        BY <1>6 DEF PublishSettled, Published, Unacknowledged, DrainCancelled
    <2>3. QED
        BY <2>1, <2>2, ReturnMoves DEF Ends, Types
<1>7. QED
    BY <1>1, <1>2, <1>3, <1>4, <1>5, <1>6 DEF Next, Progress, Environment

LEMMA ContractInit == Init => Contract!Init
BY DEF Init, Contract!Init

LEMMA ContractStep ==
    Types /\ Truth /\ Truth' /\ [Next]_vars => [Contract!Next]_(Contract!vars)
<1> SUFFICES ASSUME Types, Truth, Truth', [Next]_vars
             PROVE  Contract!Next \/ UNCHANGED <<fate, Told>>
    BY DEF Contract!vars, Told
<1>1. CASE UNCHANGED <<pc, verdict, fate>>
    BY <1>1 DEF Told
<1>2. ASSUME NEW r \in Requests, Ends(r)
      PROVE  Contract!Next \/ UNCHANGED <<fate, Told>>
    <2>1. CASE pc'[r] # "done"
        <3>1. \A q \in Requests : Told'[q] = Told[q]
            BY <1>2, <2>1 DEF Ends, Told
        <3>2. Told' = Told
            BY <3>1 DEF Told
        <3>3. QED
            BY <1>2, <3>2 DEF Ends
    <2>2. CASE pc'[r] = "done"
        <3>1. verdict'[r] \in Contract!Supports(fate[r])
            BY <1>2, <2>2 DEF Ends, Truth, Position, Contract!Supports
        <3>2. Told[r] = "none" /\ Told'[r] = verdict'[r]
              /\ \A q \in Requests : q # r => Told'[q] = Told[q]
            BY <1>2, <2>2 DEF Ends, Told
        <3>3. Told' = [Told EXCEPT ![r] = verdict'[r]]
            BY <3>2 DEF Told
        <3>4. Contract!Conclude(r)
            BY <1>2, <3>1, <3>2, <3>3 DEF Ends, Told, Contract!Conclude
        <3>5. QED
            BY <3>4 DEF Contract!Next
    <2>3. QED
        BY <2>1, <2>2
<1>3. ASSUME NEW r \in Requests, NEW f \in Contract!Follows[fate[r]],
             fate' = [fate EXCEPT ![r] = f], fate[r] # "local",
             UNCHANGED <<pc, verdict>>
      PROVE  Contract!Next
    BY <1>3 DEF Contract!Proceed, Contract!Next
<1>4. ASSUME NEW r \in Requests, StartSend(r) PROVE Contract!Next
    <2>1. fate[r] = "local" /\ pc[r] = "queued" /\ fate' = [fate EXCEPT ![r] = "sent"]
        BY <1>4 DEF StartSend, Truth, Position, Unsent
    <2>2. /\ UNCHANGED verdict /\ pc'[r] = "puback"
          /\ \A q \in Requests : q # r => pc'[q] = pc[q]
        BY <1>4 DEF StartSend, Types
    <2>3. Told' = Told /\ Told[r] = "none"
        BY <2>1, <2>2 DEF Told
    <2>4. "sent" \in Contract!Follows[fate[r]]
        BY <2>1 DEF Contract!Follows
    <2>5. QED
        BY <2>1, <2>3, <2>4 DEF Told, Contract!Proceed, Contract!Next
<1>5. QED
    BY <1>1, <1>2, <1>3, <1>4, OneMoves

(* send() never claims more than the fate of its request supports, tells   *)
(* it once, and never sends a request whose caller was told it is gone.    *)
THEOREM ImplementsContract == Spec => HonoursContract
<1>1. Spec => Contract!Init /\ [][Contract!Next]_(Contract!vars)
    BY ContractInit, ContractStep, TypeInvariant, TruthInvariant, PTL DEF Spec
<1>2. QED
    BY <1>1 DEF HonoursContract, Contract!Spec

----------------------------------------------------------------------------
(* What close leaves behind.                                               *)
LEMMA ClosingStep == Types /\ Closing /\ [Next]_vars => Closing'
<1> SUFFICES ASSUME Types, Closing, [Next]_vars PROVE Closing'
    OBVIOUS
<1> USE DEF service, resources, Closing
<1>1. CASE Close \/ CloseReturns \/ Disconnect \/ Reconnect \/ UNCHANGED vars
    BY <1>1 DEF Close, CloseReturns, Disconnect, Reconnect, vars
<1>2. ASSUME NEW r \in Requests, Send(r) \/ SendRefused(r) \/ Cancel(r) \/ Environment(r)
      PROVE Closing'
    BY <1>2 DEF Send, SendRefused, Cancel, Environment, SubackArrives, BrokerDecides,
                PubackArrives, RemoteAnswers, ReceiveResponse
<1>3. ASSUME NEW r \in Requests, Progress(r) PROVE Closing'
    <2>1. /\ UNCHANGED <<closed, closeDone>> /\ pending' \subseteq pending
          /\ subs' \subseteq subs \/ (~closed /\ SubscribeReturns(r))
        BY <1>3 DEF Progress, SubscribeFails, SubscribeCancelled, SubscribeReturns,
            StartSend, SendFails, QueueCancelled, PublishSettled, PublishGivenUp,
            ResponseSettled, ResponseGivenUp, WaitCancelled, Drained, DrainCancelled,
            Unsubscribed, UnsubscribeCancelled, DropFuture
    <2>2. QED
        BY <2>1
<1>4. QED
    BY <1>1, <1>2, <1>3 DEF Next

(* When close() has returned no future and no subscription is left, also   *)
(* not one of a send that was still subscribing when close began.          *)
THEOREM CloseLeavesNothing == Spec => []CloseReleases
<1>1. Init => Closing
    BY DEF Init, Closing
<1>2. Closing => CloseReleases
    BY DEF Closing, CloseReleases
<1>3. QED
    BY <1>1, <1>2, ClosingStep, TypeInvariant, PTL DEF Spec

----------------------------------------------------------------------------
(* A request without response has no response future.                      *)
FutureNeedsReply ==
    \A r \in Requests : mode[r] = "FIRE_AND_FORGET" => future[r] = "none" /\ r \notin pending

LEMMA FutureStep == Types /\ Truth /\ FutureNeedsReply /\ [Next]_vars => FutureNeedsReply'
<1> SUFFICES ASSUME Types, Truth, FutureNeedsReply, [Next]_vars PROVE FutureNeedsReply'
    OBVIOUS
<1> USE DEF service, resources, FutureNeedsReply
<1>1. CASE Close
    BY <1>1 DEF Close, Types
<1>2. CASE CloseReturns \/ Disconnect \/ Reconnect \/ UNCHANGED vars
    BY <1>2 DEF CloseReturns, Disconnect, Reconnect, vars
<1>3. ASSUME NEW r \in Requests, Send(r) \/ SendRefused(r) \/ Cancel(r)
      PROVE FutureNeedsReply'
    BY <1>3 DEF Send, SendRefused, Cancel, Types
<1>4. ASSUME NEW r \in Requests, Environment(r) PROVE FutureNeedsReply'
    BY <1>4 DEF Environment, SubackArrives, BrokerDecides, PubackArrives, RemoteAnswers,
                ReceiveResponse, Types
<1>5. ASSUME NEW r \in Requests, Progress(r) PROVE FutureNeedsReply'
    <2>1. UNCHANGED mode /\ (DropFuture(r) \/ UNCHANGED <<future, pending>>)
        BY <1>5 DEF Progress, SubscribeFails, SubscribeCancelled, SubscribeReturns,
            StartSend, SendFails, QueueCancelled, PublishSettled, PublishGivenUp,
            ResponseSettled, ResponseGivenUp, WaitCancelled, Drained, DrainCancelled,
            Unsubscribed, UnsubscribeCancelled
    <2>2. QED
        BY <2>1 DEF DropFuture, Types
<1>6. QED
    BY <1>1, <1>2, <1>3, <1>4, <1>5 DEF Next

(* A send that holds the response when it gives up waiting reports it.     *)
THEOREM ResponseIsKept == Spec => ResponseNotLost
<1> USE DEF service, resources
<1>1. Init => FutureNeedsReply
    BY DEF Init, FutureNeedsReply
<1>2. Types /\ Truth /\ FutureNeedsReply /\ [Next]_vars =>
        [\A r \in Requests :
            (/\ pc[r] \in {"puback", "waiting"} /\ pc'[r] = "draining"
             /\ future[r] = "value" /\ ack[r] # "refused")
            => verdict'[r] \in {"response", "interrupted"}]_vars
    <2> SUFFICES ASSUME Types, FutureNeedsReply, Next, NEW r \in Requests,
                        pc[r] \in {"puback", "waiting"}, pc'[r] = "draining",
                        future[r] = "value", ack[r] # "refused"
                 PROVE  verdict'[r] \in {"response", "interrupted"}
        BY DEF vars
    <2>1. Answered(r) /\ ResponseResult(r) = "response" /\ mode[r] # "FIRE_AND_FORGET"
        BY DEF Answered, ResponseResult, FutureNeedsReply
    <2>2. \A v : Leave(r, v) => verdict'[r] = v
        BY DEF Leave, Return, Types
    <2>3. CASE PublishSettled(r) \/ PublishGivenUp(r)
        BY <2>1, <2>2, <2>3
        DEF PublishSettled, PublishGivenUp, Published, Unacknowledged, Types
    <2>4. CASE ResponseSettled(r) \/ ResponseGivenUp(r) \/ WaitCancelled(r)
        BY <2>1, <2>2, <2>4 DEF ResponseSettled, ResponseGivenUp, WaitCancelled
    <2>5. ASSUME NEW q \in Requests, q # r, Progress(q) PROVE FALSE
        <3>1. \/ \E v : Leave(q, v) \/ Return(q, v)
              \/ \E s : pc' = [pc EXCEPT ![q] = s]
            BY <2>5
            DEF Progress, SubscribeFails, SubscribeCancelled, SubscribeReturns,
                StartSend, SendFails, QueueCancelled, PublishSettled, Published,
                Unacknowledged, PublishGivenUp, ResponseSettled, ResponseGivenUp,
                WaitCancelled, Drained, DrainCancelled, Unsubscribed,
                UnsubscribeCancelled
        <3>2. pc'[r] = pc[r]
            BY <2>5, <3>1, ReturnMoves DEF Types
        <3>3. QED
            BY <3>2
    <2>6. QED
        BY <2>3, <2>4, <2>5, SMTT(30)
        DEF Next, Progress, Environment, Close, CloseReturns, Disconnect, Reconnect,
            Send, SendRefused, Cancel, Return, SubackArrives, BrokerDecides, PubackArrives,
            RemoteAnswers, ReceiveResponse, SubscribeFails, SubscribeCancelled,
            SubscribeReturns, StartSend, SendFails, QueueCancelled, Drained,
            DrainCancelled, Unsubscribed, UnsubscribeCancelled, Types
<1>3. QED
    BY <1>1, <1>2, FutureStep, TypeInvariant, TruthInvariant, PTL DEF Spec, ResponseNotLost

----------------------------------------------------------------------------
(* OperatorTasks: the types, and the inductive invariant                   *)

(* What each variable holds.                                               *)
Status == [ready : BOOLEAN, gen : Nat]
SocketStates == {[at |-> "idle"], [at |-> "closed"]}
                \cup [at : {"active"}, view : Views, gen : Generations]
Leases == [gen : Generations \cup {"none"}, connected : BOOLEAN, mutations : Nat]
Underway == {"inserting", "verifying", "returned"}
Calls == {NoCall, [at |-> "refused"]}
         \cup [at : Underway, view : Views, gen : Generations, target : Targets, conn : Nat]

WorldTypes ==
    /\ records \in Seq(Entities) /\ entity \in [Entities -> {"fresh", "stale", "none"}]
    /\ connection \in Status /\ seen \in Status
    /\ watchers \in {"on", "failed", "over"} /\ stage \in {"on", "stopping", "off"}
ViewTypes ==
    /\ socket \in [Sockets -> SocketStates] /\ lease \in [Views -> Leases]
    /\ retired \in Seq(Views \X Generations) /\ gone \subseteq Views \X Generations
TokenTypes ==
    /\ call \in [Tokens -> Calls]
    /\ prepared \in Seq(Tokens) /\ proofs \in Seq(Tokens)
    /\ sending \subseteq Tokens /\ sends \in [Tokens -> Nat]
    /\ discarded \subseteq Tokens /\ spoiled \subseteq Held
    /\ due \subseteq Held \cup ToSet(proofs)
WithinLimits ==
    /\ Len(records) <= MaxEntities /\ Len(prepared) <= MaxPrepared
    /\ Len(proofs) <= MaxPrepared /\ Len(retired) <= MaxClients
TableTypes == WorldTypes /\ ViewTypes /\ TokenTypes /\ WithinLimits

(* A token is held, proven retired or neither, and what was handed over or *)
(* acknowledged as discarded is held no more.                              *)
TokenInv ==
    \A t \in Tokens :
        /\ t \in Held => call[t].at \in {"verifying", "returned"} /\ t \notin ToSet(proofs)
        /\ t \in ToSet(proofs) => call[t].at \in {"verifying", "returned", "refused"}
        /\ t \in sending => call[t].at = "returned" /\ sends[t] > 0
        /\ sends[t] > 0 => call[t].at = "returned" /\ t \notin Held \cup ToSet(proofs)
        /\ t \in discarded => call[t].at = "returned" /\ t \notin Held /\ sends[t] = 0

(* Whom a lease is there for.                                              *)
HeldForAView == \A t \in Held : Live(call[t].view, call[t].gen)
RunsOnALease ==
    stage # "off" =>
        /\ \A t \in Running : lease[call[t].view].gen = call[t].gen
        /\ \A v \in Views : IsFiniteSet(Using(v)) /\ lease[v].mutations = Cardinality(Using(v))
LeaseIsFor(v) ==
    lease[v] = NoLease \/ (lease[v].gen # "none" /\ (lease[v].connected \/ lease[v].mutations > 0))
ConnectedBySocket ==
    \A v \in Views : lease[v].connected =>
        \E s \in Sockets : socket[s] = [at |-> "active", view |-> v, gen |-> lease[v].gen]
AfterStop ==
    stage = "off" => /\ lease = [v \in Views |-> NoLease]
                     /\ ToSet(retired) \cup Held \cup ToSet(proofs) = {}
LeaseInv ==
    /\ HeldForAView /\ RunsOnALease /\ ConnectedBySocket /\ AfterStop
    /\ \A v \in Views : LeaseIsFor(v)

(* The generation of a retired view is gone from the lease and the calls.  *)
IsOf(t, vg) == call[t].view = vg[1] /\ call[t].gen = vg[2]
GoneInv ==
    \A vg \in gone : /\ lease[vg[1]].gen # vg[2]
                     /\ \A t \in Held \cup Running : ~IsOf(t, vg)

(* What should be refused still shows why.                                 *)
Refusable(t) ==
    \/ ~Eligible(call[t].target) \/ t \in due \/ watchers # "on"
    \/ ~connection.ready \/ connection.gen # call[t].conn
SpoiledInv == \A t \in spoiled : Refusable(t)
Preceded == \A t \in Tokens : call[t].at \in Underway => call[t].conn <= connection.gen

IInv == TableTypes /\ TokenInv /\ LeaseInv /\ GoneInv /\ SpoiledInv /\ Preceded
----------------------------------------------------------------------------
(* Sequences: what is picked, the newest of it, and the elements of both.   *)
LEMMA Elements ==
    ASSUME NEW T, NEW seq \in Seq(T)
    PROVE  ToSet(seq) = {seq[i] : i \in 1..Len(seq)} /\ ToSet(seq) \subseteq T
BY DEF ToSet

(* Each of the positions has a rank, and each rank a position.             *)
Rank(i, P) == Cardinality({j \in P : j <= i})
LEMMA EveryRankIsTaken ==
    ASSUME NEW m \in Nat, NEW P \in SUBSET (1..m)
    PROVE  /\ Cardinality(P) \in 0..m
           /\ \A i \in P : Rank(i, P) \in 1..Cardinality(P)
           /\ \A i, k \in P : Rank(i, P) = Rank(k, P) => i = k
           /\ \A n \in 1..Cardinality(P) : \E i \in P : Rank(i, P) = n
<1> DEFINE upTo(i) == {j \in P : j <= i}
           rank == [i \in P |-> Cardinality(upTo(i))]
<1>1. IsFiniteSet(P) /\ Cardinality(P) \in Nat /\ Cardinality(P) <= m
  <2>1. IsFiniteSet(1..m) /\ Cardinality(1..m) = m
    BY FS_Interval
  <2>2. IsFiniteSet(P) /\ Cardinality(P) <= m
    BY <2>1, FS_Subset
  <2>3. QED
    BY <2>2, FS_CardinalityType
<1>0. \A i \in P : i \in Int
    OBVIOUS
<1>2. \A i \in P : IsFiniteSet(upTo(i)) /\ Cardinality(upTo(i)) \in 1..Cardinality(P)
  <2>1. SUFFICES ASSUME NEW i \in P
                 PROVE  IsFiniteSet(upTo(i)) /\ Cardinality(upTo(i)) \in 1..Cardinality(P)
    OBVIOUS
  <2>2. upTo(i) \in SUBSET P /\ i \in upTo(i)
    OBVIOUS
  <2>3. IsFiniteSet(upTo(i)) /\ Cardinality(upTo(i)) <= Cardinality(P)
    BY <1>1, <2>2, FS_Subset
  <2>4. Cardinality(upTo(i)) \in Nat /\ Cardinality(upTo(i)) # 0
    BY <2>2, <2>3, FS_CardinalityType, FS_EmptySet
  <2>5. QED
    BY <1>1, <2>3, <2>4
<1>3. ASSUME NEW i \in P, NEW k \in P, i < k PROVE rank[i] # rank[k]
  <2>1. i \in Int /\ k \in Int
    BY <1>0
  <2>2. \A j \in P : j <= i => j <= k
    BY <1>0, <1>3, <2>1
  <2>3. upTo(i) \in SUBSET upTo(k)
    BY <2>2
  <2>4. k \in upTo(k) /\ k \notin upTo(i)
    BY <1>3, <2>1
  <2>5. QED
    BY <1>2, <2>3, <2>4, FS_Subset
<1>4. rank \in [P -> 1..Cardinality(P)]
    BY <1>2
<1>5. \A i, k \in P : rank[i] = rank[k] => i = k
  <2> HIDE DEF rank
  <2>1. QED
    BY <1>3
<1>10. rank \in Injection(P, 1..Cardinality(P))
    BY <1>4, <1>5 DEF Injection, IsInjective
<1>6. IsFiniteSet(1..Cardinality(P)) /\ Cardinality(1..Cardinality(P)) = Cardinality(P)
    BY <1>1, FS_Interval
<1>7. rank \in Surjection(P, 1..Cardinality(P))
    BY <1>10, <1>6, FS_Injection
<1>8. \A n \in 1..Cardinality(P) : \E i \in P : rank[i] = n
    BY <1>7 DEF Surjection
<1>9. QED
    BY <1>1, <1>2, <1>5, <1>8 DEF Rank

LEMMA PickedOnes ==
    ASSUME NEW T, NEW seq \in Seq(T), NEW P \in SUBSET (1..Len(seq))
    PROVE  /\ Picked(seq, P) \in Seq(T) /\ Len(Picked(seq, P)) <= Len(seq)
           /\ ToSet(Picked(seq, P)) = {seq[i] : i \in P}
<1> DEFINE at(n) == CHOOSE i \in P : Rank(i, P) = n
           p == Picked(seq, P)
<1>0. Len(seq) \in Nat
    OBVIOUS
<1>1. Cardinality(P) \in Nat /\ Cardinality(P) <= Len(seq)
    BY <1>0, EveryRankIsTaken
<1>2. \A n \in 1..Cardinality(P) : at(n) \in P /\ Rank(at(n), P) = n
    BY <1>0, EveryRankIsTaken
<1>3. p = [n \in 1..Cardinality(P) |-> seq[at(n)]]
    BY DEF Picked, Rank
<1>8. \A i \in P : seq[i] \in T
    BY ElementOfSeq
<1>4. p \in Seq(T) /\ Len(p) = Cardinality(P)
  <2> HIDE DEF at, p
  <2>1. \A n \in 1..Cardinality(P) : seq[at(n)] \in T
    BY <1>2, <1>8
  <2>2. QED
    BY <1>1, <1>3, <2>1, IsASeq
<1>5. ToSet(p) \subseteq {seq[i] : i \in P}
  <2> HIDE DEF at, p
  <2>1. ToSet(p) = {p[n] : n \in 1..Cardinality(P)}
    BY <1>4, Elements
  <2>2. \A n \in 1..Cardinality(P) : p[n] = seq[at(n)]
    BY <1>3
  <2>3. QED
    BY <1>2, <2>1, <2>2
<1>6. \A i \in P : seq[i] \in ToSet(p)
  <2>1. SUFFICES ASSUME NEW i \in P PROVE seq[i] \in ToSet(p)
    OBVIOUS
  <2>2. Rank(i, P) \in 1..Cardinality(P)
    BY <1>0, EveryRankIsTaken
  <2>4. at(Rank(i, P)) = i
    BY <1>0, <1>2, <2>2, EveryRankIsTaken
  <2> HIDE DEF at, p
  <2>3. ToSet(p) = {p[n] : n \in 1..Cardinality(P)}
    BY <1>4, Elements
  <2>5. p[Rank(i, P)] = seq[i]
    BY <1>3, <2>2, <2>4
  <2>6. QED
    BY <2>2, <2>3, <2>5
<1>7. QED
    BY <1>1, <1>4, <1>5, <1>6

LEMMA DroppedAndKept ==
    ASSUME NEW T, NEW seq \in Seq(T), NEW S
    PROVE  /\ Dropping(seq, S) \in Seq(T) /\ Len(Dropping(seq, S)) <= Len(seq)
           /\ ToSet(Dropping(seq, S)) = ToSet(seq) \ S
           /\ Keeping(seq, S) \in Seq(T) /\ Len(Keeping(seq, S)) <= Len(seq)
           /\ ToSet(Keeping(seq, S)) = ToSet(seq) \cap S
<1> DEFINE D == {i \in DOMAIN seq : seq[i] \notin S}
           K == {i \in DOMAIN seq : seq[i] \in S}
<1>1. D \in SUBSET (1..Len(seq)) /\ K \in SUBSET (1..Len(seq))
    OBVIOUS
<1>2. ToSet(seq) \ S = {seq[i] : i \in D} /\ ToSet(seq) \cap S = {seq[i] : i \in K}
    BY DEF ToSet
<1> HIDE DEF D, K
<1>3. /\ Picked(seq, D) \in Seq(T) /\ Len(Picked(seq, D)) <= Len(seq)
      /\ ToSet(Picked(seq, D)) = {seq[i] : i \in D}
    BY <1>1, PickedOnes
<1>4. /\ Picked(seq, K) \in Seq(T) /\ Len(Picked(seq, K)) <= Len(seq)
      /\ ToSet(Picked(seq, K)) = {seq[i] : i \in K}
    BY <1>1, PickedOnes
<1>5. QED
    BY <1>2, <1>3, <1>4 DEF Dropping, Keeping, D, K

LEMMA NewestOnes ==
    ASSUME NEW T, NEW seq \in Seq(T), NEW limit \in Nat \ {0}
    PROVE  /\ Newest(seq, limit) \in Seq(T) /\ Len(Newest(seq, limit)) <= limit
           /\ ToSet(Newest(seq, limit)) \subseteq ToSet(seq)
           /\ seq # <<>> => seq[Len(seq)] \in ToSet(Newest(seq, limit))
<1> DEFINE first == IF Len(seq) > limit THEN Len(seq) - limit + 1 ELSE 1
           w == Newest(seq, limit)
<1>1. Len(seq) \in Nat /\ first \in Nat \ {0} /\ Len(seq) - first + 1 <= limit
    OBVIOUS
<1>2. w = SubSeq(seq, first, Len(seq))
    BY DEF Newest
<1>3. first <= Len(seq) + 1
    BY <1>1
<1> HIDE DEF first, w
<1>4. \A i \in first..Len(seq) : i \in 1..Len(seq) /\ seq[i] \in T
    BY <1>1, ElementOfSeq
<1>5. /\ w \in Seq(T) /\ Len(w) = IF first <= Len(seq) THEN Len(seq) - first + 1 ELSE 0
      /\ \A i \in 1..(Len(seq) - first + 1) : w[i] = seq[first + i - 1]
    BY <1>1, <1>2, <1>4, SubSeqProperties
<1>6. Len(w) = Len(seq) - first + 1 /\ Len(w) <= limit
    BY <1>1, <1>3, <1>5
<1>7. \A i \in 1..Len(w) : first + i - 1 \in 1..Len(seq)
    BY <1>1, <1>6
<1>8. ToSet(w) \subseteq ToSet(seq)
  <2>1. ToSet(w) = {w[i] : i \in 1..Len(w)} /\ ToSet(seq) = {seq[i] : i \in 1..Len(seq)}
    BY <1>5, Elements
  <2>2. \A i \in 1..Len(w) : w[i] = seq[first + i - 1]
    BY <1>5, <1>6
  <2>3. QED
    BY <1>7, <2>1, <2>2
<1>9. ASSUME seq # <<>> PROVE seq[Len(seq)] \in ToSet(w)
  <2>1. Len(seq) # 0 /\ first <= Len(seq)
    BY <1>9, <1>1, EmptySeq DEF first
  <2>2. Len(w) \in 1..Len(w) /\ w[Len(w)] = seq[first + Len(w) - 1] /\ first + Len(w) - 1 = Len(seq)
    BY <1>1, <1>5, <1>6, <2>1
  <2>3. ToSet(w) = {w[i] : i \in 1..Len(w)}
    BY <1>5, Elements
  <2>4. QED
    BY <2>2, <2>3
<1>10. QED
    BY <1>5, <1>6, <1>8, <1>9 DEF w

LEMMA Joined ==
    ASSUME NEW T, NEW one \in Seq(T), NEW other \in Seq(T)
    PROVE  one \o other \in Seq(T) /\ ToSet(one \o other) = ToSet(one) \cup ToSet(other)
<1> DEFINE j == one \o other
<1>1. /\ j \in Seq(T) /\ Len(j) = Len(one) + Len(other)
      /\ \A i \in 1..(Len(one) + Len(other)) :
            j[i] = IF i <= Len(one) THEN one[i] ELSE other[i - Len(one)]
    BY ConcatProperties
<1>2. Len(one) \in Nat /\ Len(other) \in Nat
    OBVIOUS
<1> HIDE DEF j
<1>3. /\ ToSet(j) = {j[i] : i \in 1..Len(j)}
      /\ ToSet(one) = {one[i] : i \in 1..Len(one)} /\ ToSet(other) = {other[i] : i \in 1..Len(other)}
    BY <1>1, Elements
<1>4. \A i \in 1..Len(j) : j[i] \in ToSet(one) \cup ToSet(other)
    BY <1>1, <1>2, <1>3
<1>5. \A i \in 1..Len(one) : i \in 1..Len(j) /\ j[i] = one[i]
    BY <1>1, <1>2
<1>6. ASSUME NEW i \in 1..Len(other)
      PROVE  Len(one) + i \in 1..Len(j) /\ j[Len(one) + i] = other[i]
  <2>1. Len(one) + i \in 1..(Len(one) + Len(other)) /\ ~(Len(one) + i <= Len(one))
    BY <1>2
  <2>2. (Len(one) + i) - Len(one) = i
    BY <1>2
  <2>3. QED
    BY <1>1, <2>1, <2>2
<1>7. QED
  <2>1. ToSet(j) \subseteq ToSet(one) \cup ToSet(other)
    BY <1>3, <1>4
  <2>2. ToSet(one) \subseteq ToSet(j)
    BY <1>3, <1>5
  <2>3. ToSet(other) \subseteq ToSet(j)
    BY <1>3, <1>6
  <2>4. QED
    BY <1>1, <2>1, <2>2, <2>3 DEF j

LEMMA Appended ==
    ASSUME NEW T, NEW seq \in Seq(T), NEW x \in T
    PROVE  /\ Append(seq, x) \in Seq(T) /\ ToSet(Append(seq, x)) = ToSet(seq) \cup {x}
           /\ Append(seq, x) # <<>> /\ Append(seq, x)[Len(Append(seq, x))] = x
<1> DEFINE a == Append(seq, x)
<1>1. /\ a \in Seq(T) /\ a # <<>> /\ Len(a) = Len(seq) + 1 /\ a[Len(seq) + 1] = x
      /\ \A i \in 1..Len(seq) : a[i] = seq[i]
    BY AppendProperties
<1>2. Len(seq) \in Nat
    OBVIOUS
<1> HIDE DEF a
<1>3. ToSet(a) = {a[i] : i \in 1..Len(a)} /\ ToSet(seq) = {seq[i] : i \in 1..Len(seq)}
    BY <1>1, Elements
<1>4. \A i \in 1..Len(a) : i \in 1..Len(seq) \/ i = Len(seq) + 1
    BY <1>1, <1>2
<1>5. \A i \in 1..Len(seq) : i \in 1..Len(a)
    BY <1>1, <1>2
<1>6. Len(seq) + 1 \in 1..Len(a)
    BY <1>1, <1>2
<1>7. QED
    BY <1>1, <1>3, <1>4, <1>5, <1>6 DEF a

----------------------------------------------------------------------------
(* Calls, and the tables of tokens.                                        *)
LEMMA PartsOfACall ==
    ASSUME NEW c \in Calls, c.at \in Underway
    PROVE  c.view \in Views /\ c.gen \in Generations /\ c.target \in Targets /\ c.conn \in Nat
BY DEF Calls, Underway, NoCall

LEMMA Moved ==
    ASSUME call \in [Tokens -> Calls], NEW t \in Tokens, call[t].at \in Underway,
           NEW where \in Underway, Goes(t, where)
    PROVE  /\ call' \in [Tokens -> Calls] /\ call'[t].at = where
           /\ call'[t].view = call[t].view /\ call'[t].gen = call[t].gen
           /\ call'[t].target = call[t].target /\ call'[t].conn = call[t].conn
           /\ \A u \in Tokens \ {t} : call'[u] = call[u]
<1>1. call[t] \in [at : Underway, view : Views, gen : Generations, target : Targets, conn : Nat]
    BY DEF Calls, Underway, NoCall
<1>2. call' = [call EXCEPT ![t] = [call[t] EXCEPT !.at = where]]
    BY DEF Goes
<1> DEFINE c == [call[t] EXCEPT !.at = where]
<1>3. /\ c \in [at : Underway, view : Views, gen : Generations, target : Targets, conn : Nat]
      /\ c.at = where /\ c.view = call[t].view /\ c.gen = call[t].gen
      /\ c.target = call[t].target /\ c.conn = call[t].conn
    BY <1>1
<1> HIDE DEF c
<1>4. c \in Calls
    BY <1>3 DEF Calls
<1>5. call' = [call EXCEPT ![t] = c]
    BY <1>2 DEF c
<1>6. QED
    BY <1>3, <1>4, <1>5

LEMMA TurnedAway ==
    ASSUME call \in [Tokens -> Calls], NEW t \in Tokens, Refused(t)
    PROVE  /\ call' \in [Tokens -> Calls] /\ call'[t].at = "refused"
           /\ \A u \in Tokens \ {t} : call'[u] = call[u]
BY DEF Refused, Calls

(* The tables change, and nothing new is held.                             *)
Shrinks ==
    /\ prepared' \in Seq(Tokens) /\ proofs' \in Seq(Tokens)
    /\ Len(prepared') <= MaxPrepared /\ Len(proofs') <= MaxPrepared
    /\ Held' \subseteq Held /\ ToSet(proofs') \subseteq ToSet(proofs) \cup (Held \ Held')
    /\ due' \subseteq Held' \cup ToSet(proofs') /\ due \cap Held' \subseteq due'

LEMMA Limits == /\ MaxEntities \in Nat \ {0} /\ MaxPrepared \in Nat \ {0}
                /\ MaxClients \in Nat \ {0} /\ MaxConnections \in Nat \ {0}
BY LimitsArePositive

LEMMA RetiringFrom ==
    ASSUME TableTypes, NEW S, NEW old \in Seq(Tokens), ToSet(old) \subseteq ToSet(proofs),
           RetireFrom(old, S)
    PROVE  Shrinks /\ Held' = Held \ S
<1>1. prepared \in Seq(Tokens) /\ Len(prepared) <= MaxPrepared
    BY DEF TableTypes, TokenTypes, WithinLimits
<1>2. /\ prepared' \in Seq(Tokens) /\ Len(prepared') <= Len(prepared) /\ Held' = Held \ S
      /\ Keeping(prepared, S) \in Seq(Tokens) /\ ToSet(Keeping(prepared, S)) = Held \cap S
    BY <1>1, DroppedAndKept DEF RetireFrom, Held
<1>3. Len(prepared') <= MaxPrepared
    BY <1>1, <1>2, Limits
<1> DEFINE all == old \o Keeping(prepared, S)
<1>4. all \in Seq(Tokens) /\ ToSet(all) = ToSet(old) \cup (Held \cap S)
    BY <1>2, Joined
<1>5. proofs' = Newest(all, MaxPrepared)
    BY DEF RetireFrom
<1> HIDE DEF all
<1>6. /\ proofs' \in Seq(Tokens) /\ Len(proofs') <= MaxPrepared
      /\ ToSet(proofs') \subseteq ToSet(old) \cup (Held \cap S)
    BY <1>4, <1>5, NewestOnes, Limits
<1>7. due' = (due \ S) \cap (Held' \cup ToSet(proofs'))
    BY DEF RetireFrom, Held
<1>8. QED
    BY <1>2, <1>3, <1>6, <1>7 DEF Shrinks

LEMMA Unexpireds ==
    ASSUME TableTypes
    PROVE  Unexpired \in Seq(Tokens) /\ ToSet(Unexpired) = ToSet(proofs) \ due
BY DroppedAndKept DEF Unexpired, TableTypes, TokenTypes

LEMMA Retiring ==
    ASSUME TableTypes, NEW S, Retire(S)
    PROVE  Shrinks /\ Held' = Held \ S
BY RetiringFrom DEF Retire, TableTypes, TokenTypes

LEMMA Expiring ==
    ASSUME TableTypes, NEW S, RetireFrom(Unexpired, S)
    PROVE  Shrinks /\ Held' = Held \ S
BY RetiringFrom, Unexpireds

LEMMA Resting ==
    ASSUME TableTypes, UNCHANGED tokens
    PROVE  Shrinks /\ Held' = Held
BY DEF Shrinks, tokens, Held, TableTypes, TokenTypes, WithinLimits

(* While no call moves.                                                    *)
LEMMA TokensRest ==
    ASSUME IInv, Shrinks, UNCHANGED <<call, sending, sends, discarded>>,
           spoiled' \subseteq Held'
    PROVE  TokenTypes' /\ TokenInv'
<1>1. TokenTypes'
    BY DEF IInv, TableTypes, TokenTypes, Shrinks
<1>2. TokenInv'
  <2>1. \A t \in Tokens : t \in Held' => t \in Held /\ t \notin ToSet(proofs')
    BY DEF IInv, TokenInv, Shrinks
  <2>2. \A t \in Tokens : t \in ToSet(proofs') => t \in ToSet(proofs) \/ t \in Held
    BY DEF Shrinks
  <2>3. QED
    BY <2>1, <2>2 DEF IInv, TokenInv
<1>3. QED
    BY <1>1, <1>2

LEMMA ViewsRest ==
    ASSUME IInv, Shrinks, UNCHANGED <<call, sending, stage, socket, lease, gone>>,
           ToSet(retired') \subseteq ToSet(retired)
    PROVE  LeaseInv' /\ GoneInv'
<1>1. Running' = Running /\ \A v \in Views : Using(v)' = Using(v)
    BY DEF Running, Using
<1>2. Held' \subseteq Held /\ ToSet(proofs') \subseteq ToSet(proofs) \cup Held
    BY DEF Shrinks
<1>3. LeaseInv'
  <2>1. HeldForAView' /\ ConnectedBySocket'
    BY <1>2 DEF IInv, LeaseInv, HeldForAView, ConnectedBySocket, Live
  <2>2. RunsOnALease'
    BY <1>1 DEF IInv, LeaseInv, RunsOnALease
  <2>3. AfterStop' /\ \A v \in Views : LeaseIsFor(v)'
    BY <1>2 DEF IInv, LeaseInv, AfterStop, LeaseIsFor
  <2>4. QED
    BY <2>1, <2>2, <2>3 DEF LeaseInv
<1>4. GoneInv'
    BY <1>1, <1>2 DEF IInv, GoneInv, IsOf
<1>5. QED
    BY <1>3, <1>4

(* While neither a call nor a view moves.                                  *)
LEMMA WorldMoves ==
    ASSUME IInv, Shrinks, UNCHANGED <<stage, views, call, sending, sends, discarded>>,
           WorldTypes', Len(records') <= MaxEntities,
           connection'.gen >= connection.gen, NEW S, Spoils(S),
           \A t \in S \cap Held' : Refusable(t)', \A t \in spoiled \cap Held' : Refusable(t)'
    PROVE  IInv'
<1>1. spoiled' \subseteq Held' /\ SpoiledInv'
    BY DEF Spoils, Held, SpoiledInv
<1>2. TokenTypes' /\ TokenInv'
    BY <1>1, TokensRest
<1>3. LeaseInv' /\ GoneInv'
    BY ViewsRest DEF views
<1>4. TableTypes'
    BY <1>2 DEF IInv, TableTypes, ViewTypes, WithinLimits, Shrinks, views
<1>5. Preceded'
  <2>1. SUFFICES ASSUME NEW t \in Tokens, call'[t].at \in Underway
                 PROVE  call'[t].conn <= connection'.gen
    BY DEF Preceded
  <2>2. call'[t] = call[t] /\ call[t].conn \in Nat
    BY <2>1, PartsOfACall DEF IInv, TableTypes, TokenTypes
  <2>3. connection.gen \in Nat /\ connection'.gen \in Nat
    BY DEF IInv, TableTypes, WorldTypes, Status
  <2>4. QED
    BY <2>1, <2>2, <2>3 DEF IInv, Preceded
<1>6. QED
    BY <1>1, <1>2, <1>3, <1>4, <1>5 DEF IInv

----------------------------------------------------------------------------
(* What is observed                                                        *)
LEMMA Touched ==
    ASSUME records \in Seq(Entities), NEW e \in Entities
    PROVE  /\ Touch(e) \in Seq(Entities) /\ Len(Touch(e)) <= MaxEntities
           /\ e \in ToSet(Touch(e))
<1> DEFINE rest == Dropping(records, {e})
           all == Append(rest, e)
<1>1. rest \in Seq(Entities)
    BY DroppedAndKept
<1> HIDE DEF rest
<1>2. all \in Seq(Entities) /\ all # <<>> /\ all[Len(all)] = e
    BY <1>1, Appended
<1>3. Touch(e) = Newest(all, MaxEntities)
    BY DEF Touch, rest
<1> HIDE DEF all
<1>4. QED
    BY <1>2, <1>3, NewestOnes, Limits

LEMMA HeldAreCalls ==
    ASSUME IInv, NEW t \in Held
    PROVE  /\ t \in Tokens /\ call[t].at \in Underway
           /\ call[t].view \in Views /\ call[t].gen \in Generations
           /\ call[t].target \in Targets /\ call[t].target \in Entities /\ call[t].conn \in Nat
<1>1. t \in Tokens
    BY Elements DEF IInv, TableTypes, TokenTypes, Held
<1>2. call[t].at \in Underway /\ call[t] \in Calls
    BY <1>1 DEF IInv, TokenInv, TableTypes, TokenTypes, Underway
<1>3. QED
    BY <1>1, <1>2, PartsOfACall, TargetsAssumption

LEMMA Observing ==
    ASSUME IInv, NEW e \in Entities, NEW what \in {"fresh", "stale", "none"},
           Observes(e, what)
    PROVE  /\ records' \in Seq(Entities) /\ Len(records') <= MaxEntities
           /\ entity' \in [Entities -> {"fresh", "stale", "none"}] /\ entity'[e] = what
           /\ \A x \in Entities \ {e} : entity'[x] \in {entity[x], "none"}
           /\ \A t \in Evicted(e) : entity'[call[t].target] = "none"
<1>1. /\ records' = Touch(e) /\ Touch(e) \in Seq(Entities) /\ Len(Touch(e)) <= MaxEntities
      /\ e \in ToSet(Touch(e))
    BY Touched DEF Observes, IInv, TableTypes, WorldTypes
<1>2. entity' = [x \in Entities |-> IF x = e THEN what
                                    ELSE IF x \in ToSet(Touch(e)) THEN entity[x] ELSE "none"]
    BY DEF Observes
<1>3. \A t \in Evicted(e) : call[t].target \in Entities \ ToSet(Touch(e))
    BY HeldAreCalls DEF Evicted
<1>4. entity \in [Entities -> {"fresh", "stale", "none"}]
    BY DEF IInv, TableTypes, WorldTypes
<1>5. QED
    BY <1>1, <1>2, <1>3, <1>4

LEMMA EntityStep ==
    ASSUME IInv, NEW e \in Targets, EntityEvent(e)
    PROVE  IInv'
<1> USE DEF EntityEvent
<1>1. Shrinks /\ Held' = Held \ Lapsed(e)
    BY Retiring DEF IInv
<1>2. e \in Entities
    BY TargetsAssumption
<1>3. /\ records' \in Seq(Entities) /\ Len(records') <= MaxEntities
      /\ entity' \in [Entities -> {"fresh", "stale", "none"}]
      /\ \A x \in Entities \ {e} : entity'[x] \in {entity[x], "none"}
      /\ \A t \in Evicted(e) : entity'[call[t].target] = "none"
    BY <1>2, Observing
<1>4. \A t \in Evicted(e) \cap Held' : Refusable(t)'
    BY <1>3 DEF Refusable, Eligible
<1>5. \A t \in spoiled \cap Held' : Refusable(t)'
  <2>1. SUFFICES ASSUME NEW t \in spoiled, t \in Held' PROVE Refusable(t)'
    OBVIOUS
  <2>2. t \in Held /\ t \notin Lapsed(e) /\ call[t].target \in Entities
    BY <1>1, <2>1, HeldAreCalls
  <2>3. CASE ~Eligible(call[t].target)
    <3>1. call[t].target # e
      BY <2>2, <2>3 DEF Lapsed
    <3>2. ~Eligible(call[t].target)'
      BY <1>3, <2>2, <2>3, <3>1 DEF Eligible
    <3>3. QED
      BY <3>2 DEF Refusable
  <2>4. CASE Eligible(call[t].target)
    <3>1. t \in due => t \in due'
      BY <1>1, <2>1 DEF Shrinks
    <3>2. QED
      BY <2>4, <3>1 DEF IInv, SpoiledInv, Refusable
  <2>5. QED
    BY <2>3, <2>4
<1>6. WorldTypes' /\ connection'.gen >= connection.gen
    BY <1>3 DEF IInv, TableTypes, WorldTypes, Status
<1>7. QED
    BY <1>1, <1>3, <1>4, <1>5, <1>6, WorldMoves

(* Where no target becomes eligible again and the connection is the same.  *)
LEMMA StillRefusable ==
    ASSUME IInv, Shrinks, UNCHANGED call,
           \A x \in Entities : entity'[x] = "fresh" => entity[x] = "fresh",
           watchers' = "on" => watchers = "on",
           connection'.ready => connection.ready, connection'.gen = connection.gen
    PROVE  \A t \in spoiled \cap Held' : Refusable(t)'
<1>1. SUFFICES ASSUME NEW t \in spoiled, t \in Held' PROVE Refusable(t)'
    OBVIOUS
<1>2. t \in Held /\ call[t].target \in Entities
    BY <1>1, HeldAreCalls DEF Shrinks
<1>3. t \in due => t \in due'
    BY <1>1 DEF Shrinks
<1>4. Refusable(t)
    BY DEF IInv, SpoiledInv
<1>5. QED
    BY <1>2, <1>3, <1>4 DEF Refusable, Eligible

LEMMA LocationStep ==
    ASSUME IInv, NEW e \in Entities, LocationEvent(e)
    PROVE  IInv'
<1> USE DEF LocationEvent
<1>1. Shrinks /\ Held' = Held
    BY Resting DEF IInv
<1>2. entity[e] \in {"fresh", "stale", "none"}
    BY DEF IInv, TableTypes, WorldTypes
<1>3. /\ records' \in Seq(Entities) /\ Len(records') <= MaxEntities
      /\ entity' \in [Entities -> {"fresh", "stale", "none"}] /\ entity'[e] = entity[e]
      /\ \A x \in Entities \ {e} : entity'[x] \in {entity[x], "none"}
      /\ \A t \in Evicted(e) : entity'[call[t].target] = "none"
    BY <1>2, Observing
<1>4. \A t \in Evicted(e) \cap Held' : Refusable(t)'
    BY <1>3 DEF Refusable, Eligible
<1>5. \A t \in spoiled \cap Held' : Refusable(t)'
    BY <1>1, <1>3, StillRefusable
<1>6. WorldTypes' /\ connection'.gen >= connection.gen
    BY <1>3 DEF IInv, TableTypes, WorldTypes, Status
<1>7. QED
    BY <1>1, <1>3, <1>4, <1>5, <1>6, WorldMoves

LEMMA StaleStep ==
    ASSUME IInv, NEW e \in Targets, GoesStale(e)
    PROVE  IInv'
<1> USE DEF GoesStale
<1>1. Shrinks /\ Held' = Held
    BY Resting DEF IInv
<1>2. /\ entity' \in [Entities -> {"fresh", "stale", "none"}] /\ entity'[e] = "stale"
      /\ \A x \in Entities : entity'[x] = "fresh" => entity[x] = "fresh"
    BY TargetsAssumption DEF IInv, TableTypes, WorldTypes
<1> DEFINE S == {t \in Held : call[t].target = e}
<1>3. \A t \in S \cap Held' : Refusable(t)'
    BY <1>2 DEF Refusable, Eligible
<1>4. \A t \in spoiled \cap Held' : Refusable(t)'
    BY <1>1, <1>2, StillRefusable
<1>5. WorldTypes' /\ connection'.gen >= connection.gen /\ Len(records') <= MaxEntities
    BY <1>2 DEF IInv, TableTypes, WorldTypes, Status, WithinLimits
<1>6. QED
    BY <1>1, <1>3, <1>4, <1>5, WorldMoves

LEMMA TimeStep ==
    ASSUME IInv, NEW t \in Tokens, TimePasses(t)
    PROVE  IInv'
<1> USE DEF TimePasses
<1>1. Shrinks /\ Held' = Held
    BY DEF Shrinks, Held, IInv, TableTypes, TokenTypes, WithinLimits
<1>2. \A u \in ({t} \cap Held) \cap Held' : Refusable(u)'
    BY DEF Refusable
<1>3. \A u \in spoiled \cap Held' : Refusable(u)'
    BY <1>1, StillRefusable DEF world
<1>4. WorldTypes' /\ connection'.gen >= connection.gen /\ Len(records') <= MaxEntities
    BY DEF IInv, TableTypes, WorldTypes, Status, WithinLimits, world
<1>5. QED
    BY <1>1, <1>2, <1>3, <1>4, WorldMoves

LEMMA SweepStep ==
    ASSUME IInv, Sweep
    PROVE  IInv'
<1> USE DEF Sweep
<1>1. Shrinks
    BY Retiring DEF IInv
<1>2. \A u \in spoiled \cap Held' : Refusable(u)'
    BY <1>1, StillRefusable DEF world
<1>3. WorldTypes' /\ connection'.gen >= connection.gen /\ Len(records') <= MaxEntities
    BY DEF IInv, TableTypes, WorldTypes, Status, WithinLimits, world
<1>4. QED
    BY <1>1, <1>2, <1>3, WorldMoves

----------------------------------------------------------------------------
(* The connection and the watchers                                         *)
LEMMA LostStep ==
    ASSUME IInv, ConnectionLost
    PROVE  IInv'
<1> USE DEF ConnectionLost
<1>1. Shrinks
    BY Resting DEF IInv
<1>2. connection' \in Status /\ ~connection'.ready /\ connection'.gen = connection.gen
    BY DEF IInv, TableTypes, WorldTypes, Status
<1>3. WorldTypes' /\ connection'.gen >= connection.gen /\ Len(records') <= MaxEntities
    BY <1>2 DEF IInv, TableTypes, WorldTypes, Status, WithinLimits
<1>4. \A t \in Held \cap Held' : Refusable(t)'
    BY <1>2 DEF Refusable
<1>5. \A t \in spoiled \cap Held' : Refusable(t)'
    BY <1>2 DEF Refusable
<1>6. QED
    BY <1>1, <1>3, <1>4, <1>5, WorldMoves

LEMMA ReadyStep ==
    ASSUME IInv, ConnectionReady
    PROVE  IInv'
<1> USE DEF ConnectionReady
<1>1. Shrinks /\ Held' = Held
    BY Resting DEF IInv
<1>2. connection' \in Status /\ connection.gen \in Nat /\ connection'.gen = connection.gen + 1
    BY DEF IInv, TableTypes, WorldTypes, Status
<1>3. WorldTypes' /\ connection'.gen >= connection.gen /\ Len(records') <= MaxEntities
    BY <1>2 DEF IInv, TableTypes, WorldTypes, Status, WithinLimits
<1>4. \A t \in spoiled \cap Held' : Refusable(t)'
  <2>1. SUFFICES ASSUME NEW t \in spoiled, t \in Held' PROVE Refusable(t)'
    OBVIOUS
  <2>2. t \in Tokens /\ call[t].at \in Underway /\ call[t].conn \in Nat
    BY <1>1, <2>1, HeldAreCalls
  <2>3. call[t].conn <= connection.gen
    BY <2>2 DEF IInv, Preceded
  <2>4. connection'.gen # call'[t].conn
    BY <1>2, <2>2, <2>3
  <2>5. QED
    BY <2>4 DEF Refusable
<1>5. spoiled' = (spoiled \cup {}) \cap ToSet(prepared')
    BY <1>1 DEF IInv, TableTypes, TokenTypes, Held
<1>6. QED
    BY <1>1, <1>3, <1>4, <1>5, WorldMoves DEF Spoils

LEMMA StatusStep ==
    ASSUME IInv, StatusObserved
    PROVE  IInv'
<1> USE DEF StatusObserved
<1>1. Shrinks
    BY Retiring DEF IInv
<1>2. \A u \in spoiled \cap Held' : Refusable(u)'
    BY <1>1, StillRefusable
<1>3. WorldTypes' /\ connection'.gen >= connection.gen /\ Len(records') <= MaxEntities
    BY DEF IInv, TableTypes, WorldTypes, Status, WithinLimits
<1>4. QED
    BY <1>1, <1>2, <1>3, WorldMoves

LEMMA WatcherStep ==
    ASSUME IInv, WatcherEnds
    PROVE  IInv'
<1> USE DEF WatcherEnds
<1>1. Shrinks
    BY Resting DEF IInv
<1>2. WorldTypes' /\ connection'.gen >= connection.gen /\ Len(records') <= MaxEntities
    BY DEF IInv, TableTypes, WorldTypes, Status, WithinLimits
<1>3. \A t \in Held \cap Held' : Refusable(t)'
    BY DEF Refusable
<1>4. \A t \in spoiled \cap Held' : Refusable(t)'
    BY DEF Refusable
<1>5. QED
    BY <1>1, <1>2, <1>3, <1>4, WorldMoves

LEMMA LoopStep ==
    ASSUME IInv, LoopEnds
    PROVE  IInv'
<1> USE DEF LoopEnds
<1>1. Shrinks
    BY Expiring DEF IInv
<1>2. WorldTypes' /\ connection'.gen >= connection.gen /\ Len(records') <= MaxEntities
    BY DEF IInv, TableTypes, WorldTypes, Status, WithinLimits
<1>3. \A t \in spoiled \cap Held' : Refusable(t)'
    BY DEF Refusable
<1>4. QED
    BY <1>1, <1>2, <1>3, WorldMoves

----------------------------------------------------------------------------
(* Views.  What a step leaves of SpoiledInv and Preceded, where the world  *)
(* is the same.                                                            *)
LEMMA SameWorld ==
    ASSUME IInv, UNCHANGED world, NEW S, Spoils(S), S \subseteq {},
           due \cap Held' \subseteq due',
           \A u \in spoiled \cap Held' : call'[u].target = call[u].target /\ call'[u].conn = call[u].conn
    PROVE  SpoiledInv' /\ spoiled' \subseteq Held'
<1>1. spoiled' = spoiled \cap Held'
    BY DEF Spoils, Held
<1>2. QED
    BY <1>1 DEF IInv, SpoiledInv, Refusable, world, Eligible

LEMMA CallsRest ==
    ASSUME IInv, UNCHANGED <<call, connection>>
    PROVE  Preceded'
BY DEF IInv, Preceded

LEMMA WorldRests ==
    ASSUME IInv, UNCHANGED world, stage' \in {"on", "stopping", "off"}
    PROVE  WorldTypes' /\ Len(records') <= MaxEntities
BY DEF IInv, TableTypes, WorldTypes, Status, WithinLimits, world

LEMMA Remembered ==
    ASSUME retired \in Seq(Views \X Generations), NEW v \in Views, NEW g \in Generations,
           Remember(v, g)
    PROVE  retired' \in Seq(Views \X Generations) /\ Len(retired') <= MaxClients
<1> DEFINE rest == Dropping(retired, {<<v, g>>})
           all == Append(rest, <<v, g>>)
<1>1. rest \in Seq(Views \X Generations) /\ <<v, g>> \in Views \X Generations
    BY DroppedAndKept
<1> HIDE DEF rest
<1>2. all \in Seq(Views \X Generations)
    BY <1>1, Appended
<1>3. retired' = Newest(all, MaxClients)
    BY DEF Remember, rest
<1> HIDE DEF all
<1>4. QED
    BY <1>2, <1>3, NewestOnes, Limits

LEMMA ActivateStep ==
    ASSUME IInv, NEW s \in Sockets, NEW v \in Views, NEW g \in Generations,
           Activate(s, v, g)
    PROVE  IInv'
<1> USE DEF Activate
<1>1. /\ lease \in [Views -> Leases] /\ socket \in [Sockets -> SocketStates]
      /\ retired \in Seq(Views \X Generations) /\ Len(retired) <= MaxClients
      /\ MaxClients \in Nat
    BY Limits DEF IInv, TableTypes, ViewTypes, WithinLimits
<1> DEFINE new == [gen |-> g, connected |-> TRUE, mutations |-> 0]
           open == [at |-> "active", view |-> v, gen |-> g]
<1>2. /\ new \in Leases /\ new.gen = g /\ new.connected /\ new.mutations = 0
      /\ open \in SocketStates
    BY DEF Leases, SocketStates
<1>3. /\ lease' = [lease EXCEPT ![v] = new] /\ socket' = [socket EXCEPT ![s] = open]
      /\ lease[v] = NoLease /\ socket[s].at = "idle"
    OBVIOUS
<1>4. Shrinks /\ Held' = Held
    BY Resting DEF IInv
<1>5. retired' \in Seq(Views \X Generations) /\ Len(retired') <= MaxClients
    BY <1>1, DroppedAndKept
<1>6. TokenTypes' /\ TokenInv'
  <2>1. spoiled' \subseteq Held'
    BY <1>4 DEF IInv, TableTypes, TokenTypes
  <2>2. QED
    BY <1>4, <2>1, TokensRest
<1>7. ViewTypes'
  <2>1. lease' \in [Views -> Leases] /\ socket' \in [Sockets -> SocketStates]
    <3> HIDE DEF new, open, Activate
    <3>1. lease' \in [Views -> Leases]
      BY ONLY <1>1, <1>2, <1>3, v \in Views
    <3>2. socket' \in [Sockets -> SocketStates]
      BY ONLY <1>1, <1>2, <1>3, s \in Sockets
    <3>3. QED
      BY <3>1, <3>2
  <2>2. QED
    BY <1>5, <2>1 DEF IInv, TableTypes, ViewTypes
<1>8. TableTypes'
    BY <1>4, <1>5, <1>6, <1>7, WorldRests DEF TableTypes, WithinLimits, Shrinks, IInv, WorldTypes
<1>9. Running' = Running /\ \A w \in Views : Using(w)' = Using(w)
    BY DEF Running, Using
<1>10. NoLease.gen = "none" /\ ~NoLease.connected /\ NoLease.mutations = 0
    BY DEF NoLease
<1>11. /\ lease'[v] = new /\ \A w \in Views \ {v} : lease'[w] = lease[w]
    BY <1>1, <1>3
<1> HIDE DEF new
<1>12. \A t \in Held \cup Running : t \in Tokens /\ call[t].gen \in Generations
  <2>1. \A t \in Running : t \in Tokens /\ call[t].at \in Underway
    BY DEF Running, IInv, TableTypes, TokenTypes, TokenInv, Underway
  <2>2. QED
    BY <2>1, HeldAreCalls, PartsOfACall DEF IInv, TableTypes, TokenTypes
<1>13. \A t \in Held \cup Running : call[t].view # v
  <2>1. \A t \in Held : call[t].view # v
    BY <1>3, <1>10 DEF IInv, LeaseInv, HeldForAView, Live
  <2>2. \A t \in Running : call[t].view # v
    BY <1>3, <1>10, <1>12, GenerationsAssumption DEF IInv, LeaseInv, RunsOnALease
  <2>3. QED
    BY <2>1, <2>2
<1>14. LeaseInv'
  <2>1. HeldForAView'
    BY <1>4, <1>11, <1>13, HeldAreCalls DEF IInv, LeaseInv, HeldForAView, Live
  <2>2. RunsOnALease'
    <3>1. \A t \in Running : call[t].view \in Views \ {v}
      <4>1. \A t \in Running : t \in Tokens /\ call[t].at \in Underway
        BY DEF Running, IInv, TableTypes, TokenTypes, TokenInv, Underway
      <4>2. QED
        BY <1>13, <4>1, PartsOfACall DEF IInv, TableTypes, TokenTypes
    <3>2. \A t \in Running : lease'[call[t].view].gen = call[t].gen
      BY <1>11, <3>1 DEF IInv, LeaseInv, RunsOnALease
    <3>3. lease'[v].mutations = lease[v].mutations
      BY <1>2, <1>3, <1>10, <1>11
    <3>4. QED
      BY <1>9, <1>11, <3>2, <3>3 DEF IInv, LeaseInv, RunsOnALease
  <2>3. ConnectedBySocket'
    <3>1. \A w \in Views \ {v} : lease'[w].connected =>
              \E z \in Sockets : socket'[z] = [at |-> "active", view |-> w, gen |-> lease'[w].gen]
      <4>1. SUFFICES ASSUME NEW w \in Views \ {v}, lease'[w].connected
                     PROVE \E z \in Sockets : socket'[z] = [at |-> "active", view |-> w, gen |-> lease'[w].gen]
        OBVIOUS
      <4>2. PICK z \in Sockets : socket[z] = [at |-> "active", view |-> w, gen |-> lease[w].gen]
        BY <1>11, <4>1 DEF IInv, LeaseInv, ConnectedBySocket
      <4>3. z # s
        BY <1>3, <4>2
      <4>4. socket'[z] = socket[z]
        BY <1>1, <1>3, <4>3
      <4>5. QED
        BY <1>11, <4>2, <4>4
    <3>2. socket'[s] = [at |-> "active", view |-> v, gen |-> lease'[v].gen]
      BY <1>1, <1>2, <1>3, <1>11
    <3>3. QED
      BY <3>1, <3>2 DEF ConnectedBySocket
  <2>4. AfterStop' /\ \A w \in Views : LeaseIsFor(w)'
    <3>1. LeaseIsFor(v)'
      BY <1>2, <1>11, GenerationsAssumption DEF LeaseIsFor
    <3>2. \A w \in Views \ {v} : LeaseIsFor(w)'
      BY <1>11 DEF IInv, LeaseInv, LeaseIsFor
    <3>3. QED
      BY <3>1, <3>2 DEF AfterStop
  <2>5. QED
    BY <2>1, <2>2, <2>3, <2>4 DEF LeaseInv
<1>15. GoneInv'
  <2>1. SUFFICES ASSUME NEW vg \in gone, vg # <<v, g>>
                 PROVE  /\ lease'[vg[1]].gen # vg[2]
                        /\ \A t \in Held' \cup Running' : ~IsOf(t, vg)'
    BY DEF GoneInv
  <2>2. vg[1] \in Views /\ vg = <<vg[1], vg[2]>>
    BY DEF IInv, TableTypes, ViewTypes
  <2>3. lease'[vg[1]].gen # vg[2]
    <3>1. CASE vg[1] = v
      BY <1>2, <1>11, <2>1, <2>2, <3>1
    <3>2. CASE vg[1] # v
      BY <1>11, <2>2, <3>2 DEF IInv, GoneInv
    <3>3. QED
      BY <3>1, <3>2
  <2>4. QED
    BY <1>4, <1>9, <2>3 DEF IInv, GoneInv, IsOf
<1>16. SpoiledInv' /\ Preceded'
    BY <1>4, CallsRest DEF world, IInv, SpoiledInv, Refusable, Eligible, tokens
<1>17. QED
    BY <1>6, <1>8, <1>14, <1>15, <1>16 DEF IInv

LEMMA RunningAreCalls ==
    ASSUME IInv, NEW t \in Running
    PROVE  /\ t \in Tokens /\ call[t].at \in Underway
           /\ call[t].view \in Views /\ call[t].gen \in Generations
<1>1. t \in Tokens /\ call[t].at \in Underway
    BY DEF Running, IInv, TableTypes, TokenTypes, TokenInv, Underway
<1>2. QED
    BY <1>1, PartsOfACall DEF IInv, TableTypes, TokenTypes

LEMMA Leased ==
    ASSUME IInv, NEW v \in Views
    PROVE  /\ lease[v] \in Leases /\ lease[v].mutations \in Nat
           /\ lease[v].gen \in Generations \cup {"none"} /\ lease[v].connected \in BOOLEAN
           /\ stage # "off" /\ lease[v].mutations = 0 => Using(v) = {}
           /\ lease[v].gen = "none" => lease[v] = NoLease
           /\ NoLease.gen = "none" /\ ~NoLease.connected /\ NoLease.mutations = 0
           /\ NoLease \in Leases
<1>1. lease[v] \in Leases
    BY DEF IInv, TableTypes, ViewTypes
<1>2. stage # "off" /\ lease[v].mutations = 0 => Using(v) = {}
    BY FS_EmptySet DEF IInv, LeaseInv, RunsOnALease
<1>3. lease[v].gen = "none" => lease[v] = NoLease
    BY DEF IInv, LeaseInv, LeaseIsFor
<1>4. QED
    BY <1>1, <1>2, <1>3 DEF Leases, NoLease

LEMMA ViewEnds ==
    ASSUME IInv, NEW v \in Views, NEW g \in Generations, lease[v].gen = g,
           Retire(Of(v, g)), lease' = [lease EXCEPT ![v] = Disconnected(@)],
           UNCHANGED <<call, sending, stage>>,
           \A w \in Views \ {v}, z \in Sockets :
              socket[z] = [at |-> "active", view |-> w, gen |-> lease[w].gen] => socket'[z] = socket[z]
    PROVE  /\ Shrinks /\ lease' \in [Views -> Leases] /\ stage # "off" /\ LeaseInv'
           /\ \A w \in Views : lease'[w].gen \in {lease[w].gen, "none"}
           /\ ~lease'[v].connected
<1>1. Shrinks /\ Held' = Held \ Of(v, g)
    BY Retiring DEF IInv
<1> DEFINE d == Disconnected(lease[v])
<1>2. /\ d \in Leases /\ ~d.connected /\ d.mutations = lease[v].mutations
      /\ lease[v].mutations # 0 => d.gen = g /\ d.mutations > 0
      /\ lease[v].mutations = 0 => d = NoLease /\ d.gen = "none"
  <2>1. CASE lease[v].mutations = 0
    BY <2>1, Leased DEF Disconnected
  <2>2. CASE lease[v].mutations # 0
    <3>1. d = [lease[v] EXCEPT !.connected = FALSE]
      BY <2>2 DEF Disconnected
    <3>2. lease[v] \in Leases /\ lease[v].mutations > 0
      BY <2>2, Leased
    <3>3. d \in Leases /\ d.gen = g /\ d.mutations = lease[v].mutations /\ d.connected = FALSE
      BY <3>1, <3>2 DEF Leases
    <3>4. QED
      BY <2>2, <3>2, <3>3
  <2>3. QED
    BY <2>1, <2>2
<1>3. lease \in [Views -> Leases] /\ lease' = [lease EXCEPT ![v] = d]
    BY DEF IInv, TableTypes, ViewTypes
<1> HIDE DEF d
<1>4. lease' \in [Views -> Leases] /\ lease'[v] = d /\ \A w \in Views \ {v} : lease'[w] = lease[w]
    BY <1>2, <1>3
<1>5. stage # "off"
    BY GenerationsAssumption DEF IInv, LeaseInv, AfterStop, NoLease
<1>6. Running' = Running /\ \A w \in Views : Using(w)' = Using(w)
    BY DEF Running, Using
<1>7. HeldForAView'
  <2>1. SUFFICES ASSUME NEW t \in Held' PROVE Live(call[t].view, call[t].gen)'
    BY DEF HeldForAView
  <2>2. t \in Held /\ t \notin Of(v, g) /\ call[t].view \in Views
    BY <1>1, <2>1, HeldAreCalls
  <2>3. Live(call[t].view, call[t].gen)
    BY <2>2 DEF IInv, LeaseInv, HeldForAView
  <2>4. call[t].view # v
    BY <2>2, <2>3 DEF Of, Live
  <2>5. QED
    BY <1>4, <2>2, <2>3, <2>4 DEF Live
<1>8. RunsOnALease'
  <2>1. \A t \in Running : lease'[call[t].view].gen = call[t].gen
    <3>1. SUFFICES ASSUME NEW t \in Running PROVE lease'[call[t].view].gen = call[t].gen
      OBVIOUS
    <3>2. call[t].view \in Views /\ lease[call[t].view].gen = call[t].gen
      BY <1>5, RunningAreCalls DEF IInv, LeaseInv, RunsOnALease
    <3>3. CASE call[t].view = v
      <4>1. t \in Using(v)
        BY <3>3 DEF Using
      <4>2. lease[v].mutations # 0
        BY <1>5, <4>1, Leased
      <4>3. QED
        BY <1>2, <1>4, <3>2, <3>3, <4>2
    <3>4. QED
      BY <1>4, <3>2, <3>3
  <2>2. \A w \in Views : lease'[w].mutations = lease[w].mutations
    BY <1>2, <1>4
  <2>3. QED
    BY <1>5, <1>6, <2>1, <2>2 DEF IInv, LeaseInv, RunsOnALease
<1>9. ConnectedBySocket'
    BY <1>2, <1>4 DEF IInv, LeaseInv, ConnectedBySocket
<1>10. \A w \in Views : LeaseIsFor(w)'
  <2>1. LeaseIsFor(v)'
    BY <1>2, <1>4, GenerationsAssumption DEF LeaseIsFor
  <2>2. \A w \in Views \ {v} : LeaseIsFor(w)'
    BY <1>4 DEF IInv, LeaseInv, LeaseIsFor
  <2>3. QED
    BY <2>1, <2>2
<1>11. AfterStop'
    BY <1>5 DEF AfterStop
<1>12. \A w \in Views : lease'[w].gen \in {lease[w].gen, "none"}
    BY <1>2, <1>4
<1>13. QED
    BY <1>1, <1>2, <1>4, <1>5, <1>7, <1>8, <1>9, <1>10, <1>11, <1>12 DEF LeaseInv

(* The parts that say nothing of views, when only views move.              *)
LEMMA OnlyViewsMove ==
    ASSUME IInv, Shrinks, UNCHANGED <<world, stage, call, sending, sends, discarded>>,
           Spoils({}), ViewTypes', Len(retired') <= MaxClients
    PROVE  TableTypes' /\ TokenInv' /\ SpoiledInv' /\ Preceded'
<1>1. SpoiledInv' /\ spoiled' \subseteq Held'
    BY SameWorld DEF Shrinks
<1>2. TokenTypes' /\ TokenInv'
    BY <1>1, TokensRest
<1>3. stage' \in {"on", "stopping", "off"}
    BY DEF IInv, TableTypes, WorldTypes
<1>4. WorldTypes' /\ Len(records') <= MaxEntities
    BY <1>3, WorldRests
<1>5. Preceded'
    BY CallsRest DEF world
<1>6. QED
    BY <1>1, <1>2, <1>4, <1>5 DEF TableTypes, WithinLimits, Shrinks

LEMMA DeactivateStep ==
    ASSUME IInv, NEW s \in Sockets, Deactivate(s)
    PROVE  IInv'
<1> DEFINE v == socket[s].view
           g == socket[s].gen
<1>1. /\ socket \in [Sockets -> SocketStates] /\ socket[s].at = "active"
      /\ retired \in Seq(Views \X Generations) /\ Len(retired) <= MaxClients
      /\ gone \subseteq Views \X Generations /\ lease \in [Views -> Leases]
    BY DEF Deactivate, IInv, TableTypes, ViewTypes, WithinLimits
<1>2. v \in Views /\ g \in Generations /\ socket[s] = [at |-> "active", view |-> v, gen |-> g]
    BY <1>1 DEF SocketStates
<1>3. /\ socket' = [socket EXCEPT ![s] = [at |-> "closed"]] /\ Spoils({})
      /\ UNCHANGED <<world, stage, gone, call, sending, sends, discarded>>
    BY DEF Deactivate
<1>4. socket' \in [Sockets -> SocketStates] /\ \A z \in Sockets \ {s} : socket'[z] = socket[z]
    BY <1>1, <1>3 DEF SocketStates
<1>5. CASE Live(v, g)
  <2>1. lease' = [lease EXCEPT ![v] = Disconnected(@)] /\ Retire(Of(v, g)) /\ Remember(v, g)
    BY <1>5 DEF Deactivate
  <2>2. lease[v].gen = g
    BY <1>5 DEF Live
  <2> HIDE DEF v, g
  <2>3. \A w \in Views \ {v}, z \in Sockets :
           socket[z] = [at |-> "active", view |-> w, gen |-> lease[w].gen] => socket'[z] = socket[z]
    BY <1>2, <1>4
  <2>4. /\ Shrinks /\ lease' \in [Views -> Leases] /\ stage # "off" /\ LeaseInv'
        /\ \A w \in Views : lease'[w].gen \in {lease[w].gen, "none"}
    BY <1>2, <1>3, <2>1, <2>2, <2>3, ViewEnds
  <2>5. retired' \in Seq(Views \X Generations) /\ Len(retired') <= MaxClients
    BY <1>1, <1>2, <2>1, Remembered
  <2>6. ViewTypes'
    BY <1>1, <1>3, <1>4, <2>4, <2>5 DEF ViewTypes
  <2>7. TableTypes' /\ TokenInv' /\ SpoiledInv' /\ Preceded'
    BY <1>3, <2>4, <2>5, <2>6, OnlyViewsMove
  <2>8. GoneInv'
    <3>1. SUFFICES ASSUME NEW vg \in gone
                   PROVE  /\ lease'[vg[1]].gen # vg[2]
                          /\ \A t \in Held' \cup Running' : ~IsOf(t, vg)'
      BY <1>3 DEF GoneInv
    <3>2. vg[1] \in Views /\ vg[2] \in Generations
      BY <1>1
    <3>3. lease'[vg[1]].gen # vg[2]
      BY <2>4, <3>2, GenerationsAssumption DEF IInv, GoneInv
    <3>4. Held' \subseteq Held /\ Running' = Running
      BY <1>3, <2>4 DEF Shrinks, Running
    <3>5. QED
      BY <1>3, <3>3, <3>4 DEF IInv, GoneInv, IsOf
  <2>9. QED
    BY <2>4, <2>7, <2>8 DEF IInv
<1>6. CASE ~Live(v, g)
  <2>1. UNCHANGED <<lease, tokens, retired>>
    BY <1>6 DEF Deactivate
  <2> HIDE DEF v, g
  <2>2. Shrinks
    BY <2>1, Resting DEF IInv
  <2>3. ViewTypes'
    BY <1>1, <1>3, <1>4, <2>1 DEF ViewTypes
  <2>4. TableTypes' /\ TokenInv' /\ SpoiledInv' /\ Preceded'
    BY <1>1, <1>3, <2>1, <2>2, <2>3, OnlyViewsMove
  <2>5. GoneInv' /\ HeldForAView' /\ RunsOnALease' /\ AfterStop' /\ \A w \in Views : LeaseIsFor(w)'
    <3>1. Held' = Held /\ Running' = Running /\ \A w \in Views : Using(w)' = Using(w)
      BY <1>3, <2>1 DEF Running, Using, Held, tokens
    <3>2. GoneInv' /\ HeldForAView'
      BY <1>3, <2>1, <3>1 DEF IInv, GoneInv, IsOf, LeaseInv, HeldForAView, Live
    <3>3. RunsOnALease'
      BY <1>3, <2>1, <3>1 DEF IInv, LeaseInv, RunsOnALease
    <3>4. AfterStop' /\ \A w \in Views : LeaseIsFor(w)'
      BY <1>3, <2>1 DEF IInv, LeaseInv, AfterStop, LeaseIsFor, tokens, Held
    <3>5. QED
      BY <3>2, <3>3, <3>4
  <2>6. ConnectedBySocket'
    <3>1. SUFFICES ASSUME NEW w \in Views, lease[w].connected
                   PROVE  \E z \in Sockets : socket'[z] = [at |-> "active", view |-> w, gen |-> lease[w].gen]
      BY <2>1 DEF ConnectedBySocket
    <3>2. PICK z \in Sockets : socket[z] = [at |-> "active", view |-> w, gen |-> lease[w].gen]
      BY <3>1 DEF IInv, LeaseInv, ConnectedBySocket
    <3>3. z # s
      BY <1>2, <1>6, <3>1, <3>2 DEF Live
    <3>4. QED
      BY <1>4, <3>2, <3>3
  <2>7. QED
    BY <2>4, <2>5, <2>6 DEF IInv, LeaseInv
<1>7. QED
    BY <1>5, <1>6

LEMMA RetireStep ==
    ASSUME IInv, NEW v \in Views, NEW g \in Generations, RetireView(v, g)
    PROVE  IInv'
<1>1. /\ gone' = gone \cup {<<v, g>>} /\ Spoils({}) /\ Remember(v, g)
      /\ UNCHANGED <<world, stage, socket, call, sending, sends, discarded>>
    BY DEF RetireView
<1>2. /\ retired \in Seq(Views \X Generations) /\ gone \subseteq Views \X Generations
      /\ lease \in [Views -> Leases] /\ socket \in [Sockets -> SocketStates]
    BY DEF IInv, TableTypes, ViewTypes
<1>3. retired' \in Seq(Views \X Generations) /\ Len(retired') <= MaxClients
    BY <1>1, <1>2, Remembered
<1>4. Running' = Running
    BY <1>1 DEF Running
<1>5. /\ Shrinks /\ LeaseInv' /\ lease' \in [Views -> Leases] /\ stage # "off"
      /\ \A w \in Views : lease'[w].gen \in {lease[w].gen, "none"}
      /\ lease'[v].gen = "none" /\ ~lease'[v].connected /\ Using(v) = {}
  <2>1. CASE lease[v] = NoLease /\ <<v, g>> \in ToSet(retired) /\ UNCHANGED <<lease, tokens>>
    <3>1. stage # "off"
      BY <2>1 DEF IInv, LeaseInv, AfterStop
    <3>2. Shrinks /\ Held' = Held
      BY <2>1, Resting DEF IInv
    <3>3. Running' = Running /\ \A w \in Views : Using(w)' = Using(w)
      BY <1>1 DEF Running, Using
    <3>4. HeldForAView' /\ RunsOnALease' /\ ConnectedBySocket'
      BY <1>1, <2>1, <3>2, <3>3
      DEF IInv, LeaseInv, HeldForAView, Live, RunsOnALease, ConnectedBySocket
    <3>5. AfterStop' /\ \A w \in Views : LeaseIsFor(w)'
      BY <1>1, <2>1, <3>1 DEF IInv, LeaseInv, AfterStop, LeaseIsFor
    <3>6. Using(v) = {}
      BY <2>1, <3>1, Leased
    <3>7. QED
      BY <1>2, <2>1, <3>1, <3>2, <3>4, <3>5, <3>6, Leased DEF LeaseInv
  <2>2. CASE /\ lease[v].gen = g /\ lease[v].mutations = 0
             /\ lease' = [lease EXCEPT ![v] = NoLease] /\ Retire(Of(v, g))
    <3>1. lease' = [lease EXCEPT ![v] = Disconnected(@)]
      BY <2>2 DEF Disconnected
    <3>2. /\ Shrinks /\ lease' \in [Views -> Leases] /\ stage # "off" /\ LeaseInv'
          /\ \A w \in Views : lease'[w].gen \in {lease[w].gen, "none"}
          /\ ~lease'[v].connected
      BY <1>1, <2>2, <3>1, ViewEnds
    <3>3. lease'[v].gen = "none"
      BY <1>2, <2>2, Leased
    <3>4. QED
      BY <2>2, <3>2, <3>3, Leased
  <2>3. QED
    BY <2>1, <2>2 DEF RetireView
<1>6. ViewTypes'
    BY <1>1, <1>2, <1>3, <1>5 DEF ViewTypes
<1>7. TableTypes' /\ TokenInv' /\ SpoiledInv' /\ Preceded'
    BY <1>1, <1>3, <1>5, <1>6, OnlyViewsMove
<1>8. GoneInv'
  <2>1. SUFFICES ASSUME NEW vg \in gone'
                 PROVE  /\ lease'[vg[1]].gen # vg[2]
                        /\ \A t \in Held' \cup Running' : ~IsOf(t, vg)'
    BY DEF GoneInv
  <2>2. Held' \subseteq Held
    BY <1>5 DEF Shrinks
  <2>3. CASE vg = <<v, g>>
    <3>1. lease'[v].gen # g
      BY <1>5, GenerationsAssumption
    <3>2. \A t \in Held' : call'[t].view # v
      BY <1>5 DEF LeaseInv, HeldForAView, Live
    <3>3. \A t \in Running : call[t].view # v
      BY <1>5 DEF Using
    <3>4. QED
      BY <1>1, <1>4, <2>3, <3>1, <3>2, <3>3 DEF IsOf
  <2>4. CASE vg \in gone
    <3>1. vg[1] \in Views /\ vg[2] \in Generations
      BY <1>2, <2>4
    <3>2. lease'[vg[1]].gen # vg[2]
      BY <1>5, <2>4, <3>1, GenerationsAssumption DEF IInv, GoneInv
    <3>3. QED
      BY <1>1, <1>4, <2>2, <2>4, <3>2 DEF IInv, GoneInv, IsOf
  <2>5. QED
    BY <1>1, <2>1, <2>3, <2>4
<1>9. QED
    BY <1>5, <1>7, <1>8 DEF IInv

----------------------------------------------------------------------------
(* A call enters its view's lease, and leaves it                           *)
Standing(u) == call'[u].view = call[u].view /\ call'[u].gen = call[u].gen

LEMMA OneMore ==
    ASSUME NEW l \in Leases
    PROVE  /\ [l EXCEPT !.mutations = @ + 1] \in Leases
           /\ [l EXCEPT !.mutations = @ + 1].gen = l.gen
           /\ [l EXCEPT !.mutations = @ + 1].connected = l.connected
           /\ [l EXCEPT !.mutations = @ + 1].mutations = l.mutations + 1
           /\ l.mutations \in Nat
BY DEF Leases

LEMMA Entering ==
    ASSUME IInv, NEW v \in Views, NEW g \in Generations, Live(v, g), Enters(v),
           NEW t \in Tokens, t \notin Running, Running' = Running \cup {t},
           call'[t].view = v, call'[t].gen = g, \A u \in Running : Standing(u),
           UNCHANGED <<stage, socket>>
    PROVE  /\ lease' \in [Views -> Leases] /\ stage # "off"
           /\ \A w \in Views : lease'[w].gen = lease[w].gen /\ lease'[w].connected = lease[w].connected
           /\ RunsOnALease' /\ ConnectedBySocket' /\ \A w \in Views : LeaseIsFor(w)'
<1> DEFINE l == [lease[v] EXCEPT !.mutations = @ + 1]
<1>1. /\ l \in Leases /\ l.gen = g /\ l.connected = lease[v].connected /\ l.connected
      /\ l.mutations = lease[v].mutations + 1 /\ lease[v].gen = g /\ lease[v].mutations \in Nat
  <2>1. lease[v] \in Leases /\ lease[v].gen = g /\ lease[v].connected
    BY Leased DEF Live
  <2>2. QED
    BY <2>1, OneMore
<1>2. lease \in [Views -> Leases] /\ lease' = [lease EXCEPT ![v] = l]
    BY DEF IInv, TableTypes, ViewTypes, Enters
<1> HIDE DEF l
<1>3. lease' \in [Views -> Leases] /\ lease'[v] = l /\ \A w \in Views \ {v} : lease'[w] = lease[w]
    BY <1>1, <1>2
<1>4. stage # "off"
    BY <1>1, GenerationsAssumption DEF IInv, LeaseInv, AfterStop, NoLease
<1>5. \A w \in Views : lease'[w].gen = lease[w].gen /\ lease'[w].connected = lease[w].connected
    BY <1>1, <1>3
<1>6. Using(v)' = Using(v) \cup {t} /\ t \notin Using(v) /\ \A w \in Views \ {v} : Using(w)' = Using(w)
  <2>1. \A w : Using(w)' = {u \in Running \cup {t} : call'[u].view = w}
    BY DEF Using
  <2>2. QED
    BY <2>1 DEF Using, Standing
<1>7. RunsOnALease'
  <2>1. \A u \in Running' : lease'[call'[u].view].gen = call'[u].gen
    <3>1. \A u \in Running : call[u].view \in Views /\ lease[call[u].view].gen = call[u].gen
      BY <1>4, RunningAreCalls DEF IInv, LeaseInv, RunsOnALease
    <3>2. QED
      BY <1>1, <1>3, <1>5, <3>1 DEF Standing
  <2>2. IsFiniteSet(Using(v)) /\ lease[v].mutations = Cardinality(Using(v))
    BY <1>4 DEF IInv, LeaseInv, RunsOnALease
  <2>3. IsFiniteSet(Using(v)') /\ l.mutations = Cardinality(Using(v)')
    BY <1>1, <1>6, <2>2, FS_AddElement
  <2>4. QED
    BY <1>3, <1>4, <1>6, <2>1, <2>3 DEF IInv, LeaseInv, RunsOnALease
<1>8. ConnectedBySocket'
    BY <1>5 DEF IInv, LeaseInv, ConnectedBySocket
<1>9. \A w \in Views : LeaseIsFor(w)'
  <2>1. LeaseIsFor(v)'
    BY <1>1, <1>3, GenerationsAssumption DEF LeaseIsFor
  <2>2. \A w \in Views \ {v} : LeaseIsFor(w)'
    BY <1>3 DEF IInv, LeaseInv, LeaseIsFor
  <2>3. QED
    BY <2>1, <2>2
<1>10. QED
    BY <1>3, <1>4, <1>5, <1>7, <1>8, <1>9

LEMMA Leaving ==
    ASSUME IInv, NEW t \in Running, NEW v, NEW g, call[t].view = v, call[t].gen = g,
           Leaves(v, g), Running' = Running \ {t}, \A u \in Running' : Standing(u),
           UNCHANGED <<stage, socket>>
    PROVE  /\ lease' \in [Views -> Leases]
           /\ \A w \in Views : lease'[w].gen \in {lease[w].gen, "none"}
           /\ \A w \in Views : lease[w].connected => lease'[w].connected /\ lease'[w].gen = lease[w].gen
           /\ RunsOnALease' /\ ConnectedBySocket' /\ \A w \in Views : LeaseIsFor(w)'
           /\ stage = "off" => lease' = lease
<1>1. v \in Views /\ g \in Generations /\ lease \in [Views -> Leases]
    BY RunningAreCalls DEF IInv, TableTypes, ViewTypes
<1>2. CASE stage = "off"
  <2>1. lease[v].gen = "none"
    BY <1>1, <1>2 DEF IInv, LeaseInv, AfterStop, NoLease
  <2>2. lease' = lease
    BY <1>1, <2>1, GenerationsAssumption DEF Leaves
  <2>3. QED
    BY <1>1, <1>2, <2>2
    DEF IInv, LeaseInv, RunsOnALease, ConnectedBySocket, LeaseIsFor
<1>3. CASE stage # "off"
  <2> DEFINE l == After(lease[v])
  <2>1. lease[v].gen = g /\ IsFiniteSet(Using(v)) /\ lease[v].mutations = Cardinality(Using(v))
    BY <1>1, <1>3 DEF IInv, LeaseInv, RunsOnALease
  <2>2. t \in Using(v) /\ lease[v].mutations \in Nat \ {0}
    <3>1. t \in Using(v)
      BY DEF Using
    <3>2. QED
      BY <1>1, <1>3, <3>1, Leased
  <2>3. /\ l \in Leases /\ l.mutations = lease[v].mutations - 1
        /\ l = NoLease \/ (l.gen = g /\ l.connected = lease[v].connected
                           /\ (l.connected \/ l.mutations > 0))
        /\ lease[v].connected => l.gen = g /\ l.connected
    <3>1. lease[v] \in Leases
      BY <1>1
    <3>2. CASE lease[v].mutations = 1 /\ ~lease[v].connected
      BY <1>1, <3>2, Leased DEF After
    <3>3. CASE ~(lease[v].mutations = 1 /\ ~lease[v].connected)
      <4>1. l = [lease[v] EXCEPT !.mutations = @ - 1]
        BY <3>3 DEF After
      <4>2. /\ l \in Leases /\ l.mutations = lease[v].mutations - 1
            /\ l.gen = lease[v].gen /\ l.connected = lease[v].connected
        BY <2>2, <3>1, <4>1 DEF Leases
      <4>3. QED
        BY <1>1, <2>1, <2>2, <3>3, <4>2, Leased
    <3>4. QED
      BY <3>2, <3>3
  <2>4. lease' = [lease EXCEPT ![v] = l]
    BY <2>1 DEF Leaves
  <2> HIDE DEF l
  <2>5. lease' \in [Views -> Leases] /\ lease'[v] = l /\ \A w \in Views \ {v} : lease'[w] = lease[w]
    BY <1>1, <2>3, <2>4
  <2>6. Using(v)' = Using(v) \ {t} /\ \A w \in Views \ {v} : Using(w)' = Using(w)
    <3>1. \A w : Using(w)' = {u \in Running \ {t} : call[u].view = w}
      BY DEF Using, Standing
    <3>2. QED
      BY <3>1 DEF Using
  <2>7. RunsOnALease'
    <3>1. IsFiniteSet(Using(v)') /\ l.mutations = Cardinality(Using(v)')
      BY <2>1, <2>2, <2>3, <2>6, FS_RemoveElement
    <3>2. ASSUME NEW u \in Running' PROVE lease'[call'[u].view].gen = call'[u].gen
      <4>1. /\ u \in Running /\ u # t /\ call[u].view \in Views
            /\ lease[call[u].view].gen = call[u].gen
            /\ call'[u].view = call[u].view /\ call'[u].gen = call[u].gen
        BY <1>3, RunningAreCalls DEF IInv, LeaseInv, RunsOnALease, Standing
      <4>2. CASE call[u].view = v
        <5>1. u \in Using(v)'
          BY <4>1, <4>2 DEF Using
        <5>2. l.mutations # 0
          BY <3>1, <5>1, FS_EmptySet
        <5>3. l # NoLease
          BY <1>1, <5>2, Leased
        <5>4. QED
          BY <2>1, <2>3, <2>5, <4>1, <4>2, <5>3
      <4>3. QED
        BY <2>5, <4>1, <4>2
    <3>3. \A w \in Views : IsFiniteSet(Using(w)') /\ lease'[w].mutations = Cardinality(Using(w)')
      BY <1>3, <2>5, <2>6, <3>1 DEF IInv, LeaseInv, RunsOnALease
    <3>4. QED
      BY <3>2, <3>3 DEF RunsOnALease
  <2>8. NoLease.gen = "none" /\ ~NoLease.connected
    BY DEF NoLease
  <2>9. \A w \in Views : lease[w].connected => lease'[w].connected /\ lease'[w].gen = lease[w].gen
    BY <2>1, <2>3, <2>5
  <2>10. \A w \in Views : lease'[w].gen \in {lease[w].gen, "none"}
    BY <2>1, <2>3, <2>5, <2>8
  <2>11. ConnectedBySocket'
    <3>1. \A w \in Views : lease'[w].connected => lease[w].connected /\ lease'[w].gen = lease[w].gen
      BY <2>1, <2>3, <2>5, <2>8
    <3>2. QED
      BY <3>1 DEF IInv, LeaseInv, ConnectedBySocket
  <2>12. \A w \in Views : LeaseIsFor(w)'
    <3>1. LeaseIsFor(v)'
      BY <1>1, <2>3, <2>5, GenerationsAssumption DEF LeaseIsFor
    <3>2. \A w \in Views \ {v} : LeaseIsFor(w)'
      BY <2>5 DEF IInv, LeaseInv, LeaseIsFor
    <3>3. QED
      BY <3>1, <3>2
  <2>13. QED
    BY <1>3, <2>5, <2>7, <2>9, <2>10, <2>11, <2>12
<1>4. QED
    BY <1>2, <1>3

(* A call that leaves, with what it does to the tables                     *)
LEMMA CallEnds ==
    ASSUME IInv, Shrinks, NEW t \in Running, NEW v, NEW g, call[t].view = v, call[t].gen = g,
           Leaves(v, g),
           Running' = Running \ {t}, \A u \in Running' \cup Held' : Standing(u),
           UNCHANGED <<stage, socket, retired, gone>>
    PROVE  lease' \in [Views -> Leases] /\ LeaseInv' /\ GoneInv'
<1>1. /\ lease' \in [Views -> Leases]
      /\ \A w \in Views : lease'[w].gen \in {lease[w].gen, "none"}
      /\ \A w \in Views : lease[w].connected => lease'[w].connected /\ lease'[w].gen = lease[w].gen
      /\ RunsOnALease' /\ ConnectedBySocket' /\ \A w \in Views : LeaseIsFor(w)'
      /\ stage = "off" => lease' = lease
    BY Leaving
<1>2. Held' \subseteq Held
    BY DEF Shrinks
<1>3. HeldForAView'
  <2>1. SUFFICES ASSUME NEW u \in Held' PROVE Live(call[u].view, call[u].gen)'
    BY DEF HeldForAView
  <2>2. u \in Held /\ call[u].view \in Views /\ Standing(u)
    BY <1>2, <2>1, HeldAreCalls
  <2>3. Live(call[u].view, call[u].gen)
    BY <2>2 DEF IInv, LeaseInv, HeldForAView
  <2>4. QED
    BY <1>1, <2>2, <2>3 DEF Live, Standing
<1>4. AfterStop'
    BY <1>1, <1>2 DEF IInv, LeaseInv, AfterStop, Shrinks
<1>5. GoneInv'
  <2>1. SUFFICES ASSUME NEW vg \in gone
                 PROVE  /\ lease'[vg[1]].gen # vg[2]
                        /\ \A u \in Held' \cup Running' : ~IsOf(u, vg)'
    BY DEF GoneInv
  <2>2. vg[1] \in Views /\ vg[2] \in Generations
    BY DEF IInv, TableTypes, ViewTypes
  <2>3. lease'[vg[1]].gen # vg[2]
    BY <1>1, <2>2, GenerationsAssumption DEF IInv, GoneInv
  <2>4. QED
    BY <1>2, <2>3 DEF IInv, GoneInv, IsOf, Standing
<1>6. QED
    BY <1>1, <1>3, <1>4, <1>5 DEF LeaseInv

LEMMA CallEnters ==
    ASSUME IInv, Shrinks, NEW v \in Views, NEW g \in Generations, Live(v, g), Enters(v),
           NEW t \in Tokens, t \notin Running \cup Held', Running' = Running \cup {t},
           call'[t].view = v, call'[t].gen = g, \A u \in Running \cup Held' : Standing(u),
           UNCHANGED <<stage, socket, retired, gone>>
    PROVE  lease' \in [Views -> Leases] /\ LeaseInv' /\ GoneInv'
<1>1. /\ lease' \in [Views -> Leases] /\ stage # "off"
      /\ \A w \in Views : lease'[w].gen = lease[w].gen /\ lease'[w].connected = lease[w].connected
      /\ RunsOnALease' /\ ConnectedBySocket' /\ \A w \in Views : LeaseIsFor(w)'
    BY Entering
<1>2. Held' \subseteq Held
    BY DEF Shrinks
<1>3. HeldForAView'
  <2>1. SUFFICES ASSUME NEW u \in Held' PROVE Live(call[u].view, call[u].gen)'
    BY DEF HeldForAView
  <2>2. u \in Held /\ call[u].view \in Views /\ Standing(u)
    BY <1>2, <2>1, HeldAreCalls
  <2>3. Live(call[u].view, call[u].gen)
    BY <2>2 DEF IInv, LeaseInv, HeldForAView
  <2>4. QED
    BY <1>1, <2>2, <2>3 DEF Live, Standing
<1>4. GoneInv'
  <2>1. SUFFICES ASSUME NEW vg \in gone
                 PROVE  /\ lease'[vg[1]].gen # vg[2]
                        /\ \A u \in Held' \cup Running' : ~IsOf(u, vg)'
    BY DEF GoneInv
  <2>2. vg[1] \in Views /\ lease[vg[1]].gen # vg[2]
    BY DEF IInv, TableTypes, ViewTypes, GoneInv
  <2>3. ~IsOf(t, vg)'
    BY <2>2 DEF IsOf, Live
  <2>4. \A u \in Held' \cup Running : ~IsOf(u, vg)'
    BY <1>2 DEF IInv, GoneInv, IsOf, Standing
  <2>5. QED
    BY <1>1, <2>2, <2>3, <2>4
<1>5. AfterStop'
    BY <1>1 DEF AfterStop
<1>6. QED
    BY <1>1, <1>3, <1>4, <1>5 DEF LeaseInv

(* The parts that say nothing of leases, when only calls move.             *)
LEMMA OnlyCallsMove ==
    ASSUME IInv, UNCHANGED <<world, stage, socket, retired, gone>>, lease' \in [Views -> Leases],
           call' \in [Tokens -> Calls], prepared' \in Seq(Tokens), proofs' \in Seq(Tokens),
           Len(prepared') <= MaxPrepared, Len(proofs') <= MaxPrepared,
           due' \subseteq Held' \cup ToSet(proofs'), due \cap Held' \subseteq due',
           sending' \subseteq Tokens, sends' \in [Tokens -> Nat], discarded' \subseteq Tokens,
           NEW S, S \subseteq {}, Spoils(S),
           \A u \in spoiled \cap Held' : call'[u].target = call[u].target /\ call'[u].conn = call[u].conn,
           \A u \in Tokens : call'[u].at \in Underway => call'[u].conn <= connection.gen
    PROVE  TableTypes' /\ SpoiledInv' /\ Preceded'
<1>1. SpoiledInv' /\ spoiled' \subseteq Held'
    BY SameWorld
<1>2. TokenTypes'
    BY <1>1 DEF TokenTypes
<1>3. WorldTypes' /\ Len(records') <= MaxEntities
    BY WorldRests DEF IInv, TableTypes, WorldTypes
<1>4. ViewTypes' /\ Len(retired') <= MaxClients
    BY DEF IInv, TableTypes, ViewTypes, WithinLimits
<1>5. Preceded'
    BY DEF Preceded, world
<1>6. QED
    BY <1>1, <1>2, <1>3, <1>4, <1>5 DEF TableTypes, WithinLimits

----------------------------------------------------------------------------
(* Each step of a call                                                     *)
LEMMA PrepareStep ==
    ASSUME IInv, NEW t \in Tokens, NEW v \in Views, NEW g \in Generations, NEW e \in Targets,
           Prepare(t, v, g, e)
    PROVE  IInv'
<1> USE DEF Prepare
<1> DEFINE c == [at |-> "inserting", view |-> v, gen |-> g, target |-> e, conn |-> connection.gen]
<1>1. /\ call \in [Tokens -> Calls] /\ call' = [call EXCEPT ![t] = c] /\ call[t].at = "none"
      /\ connection.gen \in Nat
    BY DEF IInv, TableTypes, TokenTypes, WorldTypes, Status, NoCall
<1>2. /\ c \in Calls /\ c.at = "inserting" /\ c.view = v /\ c.gen = g
      /\ c.conn = connection.gen
    BY <1>1 DEF Calls, Underway
<1> HIDE DEF c
<1>3. call' \in [Tokens -> Calls] /\ call'[t] = c /\ \A u \in Tokens \ {t} : call'[u] = call[u]
    BY <1>1, <1>2
<1>4. Shrinks /\ Held' = Held
    BY Resting DEF IInv
<1>5. /\ t \notin Held \cup ToSet(proofs) \cup sending \cup discarded /\ ~(sends[t] > 0)
    BY <1>1 DEF IInv, TokenInv
<1>6. t \notin Running /\ Running' = Running \cup {t}
    BY <1>1, <1>2, <1>3, <1>5 DEF Running
<1>7. \A u \in Running \cup Held' : u \in Tokens \ {t}
    BY <1>4, <1>5, <1>6, RunningAreCalls, HeldAreCalls
<1>8. lease' \in [Views -> Leases] /\ LeaseInv' /\ GoneInv'
  <2>1. \A u \in Running \cup Held' : Standing(u)
    BY <1>3, <1>7 DEF Standing
  <2>2. QED
    BY <1>2, <1>3, <1>6, <1>7, <1>4, <2>1, CallEnters
<1>9. TokenInv'
    BY <1>3, <1>4, <1>5 DEF IInv, TokenInv, tokens
<1>10. \A u \in Tokens : call'[u].at \in Underway => call'[u].conn <= connection.gen
  <2>1. \A u \in Tokens \ {t} : call'[u].at \in Underway => call'[u].conn <= connection.gen
    BY <1>3 DEF IInv, Preceded
  <2>2. QED
    BY <1>1, <1>2, <1>3, <2>1
<1>11. TableTypes' /\ SpoiledInv' /\ Preceded'
  <2>1. Spoils({})
    BY <1>4 DEF Spoils, Held, IInv, TableTypes, TokenTypes
  <2>2. /\ sending' \subseteq Tokens /\ sends' \in [Tokens -> Nat] /\ discarded' \subseteq Tokens
    BY DEF IInv, TableTypes, TokenTypes
  <2>3. \A u \in spoiled \cap Held' : call'[u] = call[u]
    BY <1>3, <1>7
  <2>4. QED
    BY <1>3, <1>4, <1>8, <1>10, <2>1, <2>2, <2>3, OnlyCallsMove DEF Shrinks
<1>12. QED
    BY <1>8, <1>9, <1>11 DEF IInv

(* A call that is turned away is not in the tables.                        *)
LEMMA TurnedAwayStep ==
    ASSUME IInv, Shrinks, NEW t \in Tokens, call[t].at \in {"inserting", "verifying"},
           t \notin Held', Refused(t), Leaves(call[t].view, call[t].gen), Spoils({}),
           UNCHANGED <<world, stage, socket, retired, gone, sending, sends, discarded>>
    PROVE  IInv'
<1>1. /\ call' \in [Tokens -> Calls] /\ call'[t].at = "refused"
      /\ \A u \in Tokens \ {t} : call'[u] = call[u]
    BY TurnedAway DEF IInv, TableTypes, TokenTypes
<1>2. t \notin sending /\ t \notin discarded /\ ~(sends[t] > 0)
    BY DEF IInv, TokenInv
<1>3. t \in Running /\ Running' = Running \ {t}
    BY <1>1, <1>2 DEF Running
<1>4. \A u \in Running' \cup Held' : u \in Tokens \ {t} /\ call'[u] = call[u]
    BY <1>1, <1>3, RunningAreCalls, HeldAreCalls DEF Shrinks
<1>5. lease' \in [Views -> Leases] /\ LeaseInv' /\ GoneInv'
  <2>1. \A u \in Running' \cup Held' : Standing(u)
    BY <1>4 DEF Standing
  <2>2. QED
    BY <1>3, <2>1, CallEnds
<1>6. TokenInv'
  <2>1. \A u \in Tokens : u \in Held' => u \in Held /\ u \notin ToSet(proofs')
    BY DEF IInv, TokenInv, Shrinks
  <2>2. \A u \in Tokens : u \in ToSet(proofs') => u \in ToSet(proofs) \/ u \in Held
    BY DEF Shrinks
  <2>3. QED
    BY <1>1, <1>2, <2>1, <2>2 DEF IInv, TokenInv
<1>7. TableTypes' /\ SpoiledInv' /\ Preceded'
  <2>1. sending' \subseteq Tokens /\ sends' \in [Tokens -> Nat] /\ discarded' \subseteq Tokens
    BY DEF IInv, TableTypes, TokenTypes
  <2>2. \A u \in Tokens : call'[u].at \in Underway => call'[u].conn <= connection.gen
    BY <1>1 DEF IInv, Preceded, Underway
  <2>3. QED
    BY <1>1, <1>4, <1>5, <2>1, <2>2, OnlyCallsMove DEF Shrinks
<1>8. QED
    BY <1>5, <1>6, <1>7 DEF IInv

LEMMA InsertStep ==
    ASSUME IInv, NEW t \in Tokens, Insert(t)
    PROVE  IInv'
<1> DEFINE left == Dropping(prepared, due)
           kept == Newest(Append(left, t), MaxPrepared)
           out == ToSet(left) \ ToSet(kept)
<1>1. /\ call[t].at = "inserting" /\ Spoils({})
      /\ UNCHANGED <<world, stage, socket, retired, gone, sending, sends, discarded>>
    BY DEF Insert
<1>2. t \notin Held /\ t \notin ToSet(proofs) /\ t \notin sending /\ t \notin discarded /\ ~(sends[t] > 0)
    BY <1>1 DEF IInv, TokenInv
<1>3. CASE ~(Unchanged(t) /\ StillLive(t))
  <2>1. Refused(t) /\ Leaves(call[t].view, call[t].gen) /\ UNCHANGED tokens
    BY <1>3 DEF Insert
  <2>2. Shrinks /\ Held' = Held
    BY <2>1, Resting DEF IInv
  <2>3. QED
    BY <1>1, <1>2, <2>1, <2>2, TurnedAwayStep
<1>4. CASE Unchanged(t) /\ StillLive(t)
  <2>1. /\ Goes(t, "verifying") /\ prepared' = kept /\ due' = {} /\ UNCHANGED lease
        /\ proofs' = Newest(Unexpired \o Keeping(prepared, due \cup out), MaxPrepared)
    BY <1>4 DEF Insert
  <2>2. prepared \in Seq(Tokens) /\ call \in [Tokens -> Calls] /\ MaxPrepared \in Nat \ {0}
    BY Limits DEF IInv, TableTypes, TokenTypes
  <2>3. left \in Seq(Tokens) /\ ToSet(left) = Held \ due
    BY <2>2, DroppedAndKept DEF Held
  <2> HIDE DEF left
  <2>4. Append(left, t) \in Seq(Tokens) /\ ToSet(Append(left, t)) = ToSet(left) \cup {t}
    BY <2>3, Appended
  <2>5. kept \in Seq(Tokens) /\ Len(kept) <= MaxPrepared /\ ToSet(kept) \subseteq ToSet(left) \cup {t}
    BY <2>2, <2>4, NewestOnes
  <2> HIDE DEF kept
  <2>6. Held' = ToSet(kept)
    BY <2>1 DEF Held
  <2>7. /\ proofs' \in Seq(Tokens) /\ Len(proofs') <= MaxPrepared
        /\ ToSet(proofs') \subseteq (ToSet(proofs) \ due) \cup (Held \cap (due \cup out))
    <3>1. Unexpired \in Seq(Tokens) /\ ToSet(Unexpired) = ToSet(proofs) \ due
      BY Unexpireds DEF IInv
    <3> HIDE DEF out
    <3>2. /\ Keeping(prepared, due \cup out) \in Seq(Tokens)
          /\ ToSet(Keeping(prepared, due \cup out)) = Held \cap (due \cup out)
      BY <2>2, DroppedAndKept DEF Held
    <3> DEFINE more == Keeping(prepared, due \cup out)
               all == Unexpired \o more
    <3>3. all \in Seq(Tokens) /\ ToSet(all) = ToSet(Unexpired) \cup ToSet(more)
      <4> HIDE DEF more
      <4>1. more \in Seq(Tokens)
        BY <3>2 DEF more
      <4>2. QED
        BY <3>1, <4>1, Joined
    <3>4. proofs' = Newest(all, MaxPrepared)
      BY <2>1
    <3> HIDE DEF all
    <3>5. /\ proofs' \in Seq(Tokens) /\ Len(proofs') <= MaxPrepared
          /\ ToSet(proofs') \subseteq ToSet(all)
      BY <2>2, <3>3, <3>4, NewestOnes
    <3>6. QED
      BY <3>1, <3>2, <3>3, <3>5
  <2>8. /\ call' \in [Tokens -> Calls] /\ call'[t].at = "verifying"
        /\ call'[t].view = call[t].view /\ call'[t].gen = call[t].gen
        /\ call'[t].target = call[t].target /\ call'[t].conn = call[t].conn
        /\ \A u \in Tokens \ {t} : call'[u] = call[u]
    BY <1>1, <2>1, <2>2, Moved DEF Underway
  <2>9. \A u \in Tokens : /\ Standing(u) /\ call'[u].target = call[u].target
                          /\ call'[u].conn = call[u].conn
    BY <2>8 DEF Standing
  <2>10. Held' \subseteq (Held \ due) \cup {t} /\ Held' \cap ToSet(proofs') = {}
    <3>1. Held' \subseteq (Held \ due) \cup {t}
      BY <2>3, <2>5, <2>6
    <3>2. ASSUME NEW u \in Held', u \in ToSet(proofs') PROVE FALSE
      <4>1. u # t
        BY <1>2, <2>7, <3>2
      <4>2. u \in Held /\ u \notin due /\ u \notin out
        BY <2>6, <3>1, <3>2, <4>1
      <4>3. u \in ToSet(proofs) /\ u \in Tokens
        BY <2>7, <3>2, <4>2, HeldAreCalls
      <4>4. QED
        BY <4>2, <4>3 DEF IInv, TokenInv
    <3>3. QED
      BY <3>1, <3>2
  <2>11. ToSet(proofs') \subseteq ToSet(proofs) \cup Held
    BY <2>7
  <2>12. TokenInv'
    <3>1. SUFFICES ASSUME NEW u \in Tokens
          PROVE /\ u \in Held' => call'[u].at \in {"verifying", "returned"} /\ u \notin ToSet(proofs')
                /\ u \in ToSet(proofs') => call'[u].at \in {"verifying", "returned", "refused"}
                /\ u \in sending' => call'[u].at = "returned" /\ sends'[u] > 0
                /\ sends'[u] > 0 => call'[u].at = "returned" /\ u \notin Held' \cup ToSet(proofs')
                /\ u \in discarded' => call'[u].at = "returned" /\ u \notin Held' /\ sends'[u] = 0
      BY DEF TokenInv
    <3>2. CASE u = t
      BY <1>1, <1>2, <2>8, <2>10, <2>11, <3>2
    <3>3. CASE u # t
      BY <1>1, <2>8, <2>10, <2>11, <3>3 DEF IInv, TokenInv
    <3>4. QED
      BY <3>2, <3>3
  <2>13. Running' = Running /\ t \in Running
    BY <1>1, <2>8 DEF Running
  <2>14. stage # "off" /\ Live(call[t].view, call[t].gen)
    BY <1>4 DEF Unchanged, Watching, StillLive
  <2>15. LeaseInv'
    <3>1. HeldForAView'
      <4>1. \A u \in Held' : u \in Tokens /\ Live(call[u].view, call[u].gen)
        BY <2>10, <2>14, HeldAreCalls DEF IInv, LeaseInv, HeldForAView
      <4>2. QED
        BY <2>1, <2>9, <4>1 DEF HeldForAView, Live, Standing
    <3>2. RunsOnALease'
      <4>1. \A u \in Running : u \in Tokens
        BY RunningAreCalls
      <4>2. \A v \in Views : Using(v)' = Using(v)
        BY <2>9, <2>13, <4>1 DEF Using, Standing
      <4>3. QED
        BY <1>1, <2>1, <2>9, <2>13, <4>1, <4>2 DEF IInv, LeaseInv, RunsOnALease, Standing
    <3>3. ConnectedBySocket' /\ AfterStop' /\ \A v \in Views : LeaseIsFor(v)'
      BY <1>1, <2>1, <2>14 DEF IInv, LeaseInv, ConnectedBySocket, AfterStop, LeaseIsFor
    <3>4. QED
      BY <3>1, <3>2, <3>3 DEF LeaseInv
  <2>16. GoneInv'
    <3>1. Held' \cup Running' \subseteq Held \cup Running /\ \A u \in Held' \cup Running' : u \in Tokens
      BY <2>10, <2>13, HeldAreCalls, RunningAreCalls
    <3>2. QED
      BY <1>1, <2>1, <2>9, <3>1 DEF IInv, GoneInv, IsOf, Standing
  <2>17. TableTypes' /\ SpoiledInv' /\ Preceded'
    <3>1. /\ sending' \subseteq Tokens /\ sends' \in [Tokens -> Nat] /\ discarded' \subseteq Tokens
          /\ lease' \in [Views -> Leases] /\ due \subseteq Held \cup ToSet(proofs)
          /\ spoiled \subseteq Tokens
      BY <1>1, <2>1, HeldAreCalls DEF IInv, TableTypes, TokenTypes, ViewTypes
    <3>2. \A u \in Tokens : call'[u].at \in Underway => call'[u].conn <= connection.gen
      BY <1>1, <2>8, <2>9 DEF IInv, Preceded, Underway
    <3>3. due \cap Held' \subseteq due' /\ due' \subseteq Held' \cup ToSet(proofs')
      BY <1>2, <2>1, <2>10, <3>1
    <3>4. \A u \in spoiled \cap Held' : call'[u].target = call[u].target /\ call'[u].conn = call[u].conn
      BY <2>9, <3>1
    <3>5. /\ prepared' \in Seq(Tokens) /\ Len(prepared') <= MaxPrepared
      BY <2>1, <2>5
    <3>6. QED
      BY <1>1, <2>7, <2>8, <3>1, <3>2, <3>3, <3>4, <3>5, OnlyCallsMove
  <2>18. QED
    BY <2>12, <2>15, <2>16, <2>17 DEF IInv
<1>5. QED
    BY <1>3, <1>4

LEMMA VerifyStep ==
    ASSUME IInv, NEW t \in Tokens, Verify(t)
    PROVE  IInv'
<1>1. /\ call[t].at = "verifying" /\ Leaves(call[t].view, call[t].gen) /\ Spoils({})
      /\ UNCHANGED <<world, stage, socket, retired, gone, sending, sends, discarded>>
    BY DEF Verify
<1>2. CASE ~(t \in Held /\ Eligible(call[t].target) /\ Unchanged(t) /\ StillLive(t))
  <2>1. Refused(t) /\ Retire({t})
    BY <1>2 DEF Verify
  <2>2. Shrinks /\ Held' = Held \ {t}
    BY <2>1, Retiring DEF IInv
  <2>3. QED
    BY <1>1, <2>1, <2>2, TurnedAwayStep
<1>3. CASE t \in Held /\ Eligible(call[t].target) /\ Unchanged(t) /\ StillLive(t)
  <2>1. Goes(t, "returned") /\ UNCHANGED tokens
    BY <1>3 DEF Verify
  <2>2. Shrinks /\ Held' = Held
    BY <2>1, Resting DEF IInv
  <2>3. /\ call' \in [Tokens -> Calls] /\ call'[t].at = "returned"
        /\ call'[t].view = call[t].view /\ call'[t].gen = call[t].gen
        /\ call'[t].target = call[t].target /\ call'[t].conn = call[t].conn
        /\ \A u \in Tokens \ {t} : call'[u] = call[u]
    BY <1>1, <2>1, Moved DEF IInv, TableTypes, TokenTypes, Underway
  <2>4. t \notin sending
    BY <1>1 DEF IInv, TokenInv
  <2>5. t \in Running /\ Running' = Running \ {t}
    BY <1>1, <2>3, <2>4 DEF Running
  <2>6. \A u \in Tokens : /\ Standing(u) /\ call'[u].target = call[u].target
                          /\ call'[u].conn = call[u].conn
    BY <2>3 DEF Standing
  <2>7. \A u \in Running' \cup Held' : u \in Tokens
    BY <2>2, <2>5, RunningAreCalls, HeldAreCalls
  <2>8. lease' \in [Views -> Leases] /\ LeaseInv' /\ GoneInv'
    BY <1>1, <2>2, <2>5, <2>6, <2>7, CallEnds
  <2>9. TokenInv'
    BY <1>1, <2>1, <2>2, <2>3, <2>4 DEF IInv, TokenInv, tokens
  <2>10. TableTypes' /\ SpoiledInv' /\ Preceded'
    <3>1. sending' \subseteq Tokens /\ sends' \in [Tokens -> Nat] /\ discarded' \subseteq Tokens
      BY <1>1 DEF IInv, TableTypes, TokenTypes
    <3>2. \A u \in Tokens : call'[u].at \in Underway => call'[u].conn <= connection.gen
      BY <1>1, <2>3, <2>6 DEF IInv, Preceded, Underway
    <3>3. \A u \in spoiled \cap Held' : call'[u].target = call[u].target /\ call'[u].conn = call[u].conn
      BY <2>6, <2>7
    <3>4. QED
      BY <1>1, <2>2, <2>3, <2>8, <3>1, <3>2, <3>3, OnlyCallsMove DEF Shrinks
  <2>11. QED
    BY <2>8, <2>9, <2>10 DEF IInv
<1>4. QED
    BY <1>2, <1>3

(* Only the tables move: a token that is looked at and refused.            *)
LEMMA TablesMove ==
    ASSUME IInv, Shrinks, Spoils({}),
           UNCHANGED <<world, stage, views, call, sending, sends, discarded>>
    PROVE  IInv'
<1>1. ViewTypes' /\ Len(retired') <= MaxClients
    BY DEF IInv, TableTypes, ViewTypes, WithinLimits, views
<1>2. TableTypes' /\ TokenInv' /\ SpoiledInv' /\ Preceded'
    BY <1>1, OnlyViewsMove DEF views
<1>3. LeaseInv' /\ GoneInv'
    BY ViewsRest DEF views
<1>4. QED
    BY <1>2, <1>3 DEF IInv

LEMMA Consuming ==
    ASSUME IInv, NEW t \in Held, t \notin due, Consumes(due \cap Held, t)
    PROVE  Shrinks /\ t \notin Held' \cup ToSet(proofs')
<1> DEFINE S == due \cap Held
<1>1. /\ prepared \in Seq(Tokens) /\ Len(prepared) <= MaxPrepared /\ t \in Tokens
      /\ MaxPrepared \in Nat \ {0}
    BY Limits, HeldAreCalls DEF IInv, TableTypes, TokenTypes, WithinLimits
<1>2. /\ prepared' = Dropping(prepared, S \cup {t}) /\ due' = {}
      /\ proofs' = Newest(Unexpired \o Keeping(prepared, S), MaxPrepared)
    BY DEF Consumes
<1> HIDE DEF S
<1>3. prepared' \in Seq(Tokens) /\ Len(prepared') <= Len(prepared) /\ Held' = Held \ (S \cup {t})
    BY <1>1, <1>2, DroppedAndKept DEF Held
<1> DEFINE more == Keeping(prepared, S)
           all == Unexpired \o more
<1>4. more \in Seq(Tokens) /\ ToSet(more) = Held \cap S
    BY <1>1, DroppedAndKept DEF Held
<1>5. Unexpired \in Seq(Tokens) /\ ToSet(Unexpired) = ToSet(proofs) \ due
    BY Unexpireds DEF IInv
<1>6. proofs' = Newest(all, MaxPrepared)
    BY <1>2
<1> HIDE DEF more
<1>7. all \in Seq(Tokens) /\ ToSet(all) = ToSet(Unexpired) \cup ToSet(more)
    BY <1>4, <1>5, Joined
<1> HIDE DEF all
<1>8. proofs' \in Seq(Tokens) /\ Len(proofs') <= MaxPrepared /\ ToSet(proofs') \subseteq ToSet(all)
    BY <1>1, <1>6, <1>7, NewestOnes
<1>9. Len(prepared') <= MaxPrepared
    BY <1>1, <1>3
<1>10. ToSet(proofs') \subseteq (ToSet(proofs) \ due) \cup (Held \cap due)
    BY <1>4, <1>5, <1>7, <1>8 DEF S
<1>11. t \notin ToSet(proofs)
    BY <1>1 DEF IInv, TokenInv
<1>12. QED
    BY <1>2, <1>3, <1>8, <1>9, <1>10, <1>11 DEF Shrinks, S

(* Which confirmations hand the task over                                  *)
HandsOver(t, v, g) ==
    /\ t \in Of(v, g) \ due /\ SameConnection(t) /\ Eligible(call[t].target)
    /\ Watching /\ stage = "on"

LEMMA ConfirmStep ==
    ASSUME IInv, NEW t \in Tokens, NEW v \in Views, NEW g \in Generations, Confirm(t, v, g)
    PROVE  IInv'
<1>1. /\ call[t].at = "returned" /\ Live(v, g) /\ Spoils({})
      /\ UNCHANGED <<world, stage, socket, retired, gone, call, discarded>>
    BY DEF Confirm
<1>2. Shrinks
  <2>1. CASE t \notin Of(v, g) \ due
    <3>1. RetireFrom(Unexpired, (due \cap Held) \cup {})
      BY <2>1 DEF Confirm, ExpireAndRetire
    <3>2. QED
      BY <3>1, Expiring DEF IInv
  <2>2. CASE t \in Of(v, g) \ due /\ ~SameConnection(t)
    <3>1. RetireFrom(Unexpired, (due \cap Held) \cup {t})
      BY <2>2 DEF Confirm, ExpireAndRetire
    <3>2. QED
      BY <3>1, Expiring DEF IInv
  <2>3. CASE t \in Of(v, g) \ due /\ SameConnection(t)
    <3>1. Consumes(due \cap Held, t) /\ t \in Held /\ t \notin due
      BY <2>3 DEF Confirm, Of
    <3>2. QED
      BY <3>1, Consuming
  <2>4. QED
    BY <2>1, <2>2, <2>3
<1>3. CASE ~HandsOver(t, v, g)
  <2>1. UNCHANGED <<sends, sending, lease>>
    BY <1>3 DEF Confirm, HandsOver
  <2>2. QED
    BY <1>1, <1>2, <2>1, TablesMove DEF views
<1>4. CASE HandsOver(t, v, g)
  <2>1. /\ Consumes(due \cap Held, t) /\ t \in Held /\ t \notin due
        /\ call[t].view = v /\ call[t].gen = g
    BY <1>4 DEF Confirm, HandsOver, Of
  <2>2. sends' = [sends EXCEPT ![t] = @ + 1] /\ sending' = sending \cup {t} /\ Enters(v)
    BY <1>4 DEF Confirm, HandsOver
  <2>3. t \notin Held' \cup ToSet(proofs')
    BY <2>1, Consuming
  <2>4. sends \in [Tokens -> Nat] /\ sending \subseteq Tokens /\ discarded \subseteq Tokens
    BY DEF IInv, TableTypes, TokenTypes
  <2>5. t \notin sending /\ ~(sends[t] > 0) /\ t \notin discarded
    BY <2>1 DEF IInv, TokenInv
  <2>6. /\ sends' \in [Tokens -> Nat] /\ sends'[t] > 0
        /\ \A u \in Tokens \ {t} : sends'[u] = sends[u]
    BY <2>2, <2>4
  <2>7. t \notin Running /\ Running' = Running \cup {t}
    BY <1>1, <2>2, <2>5 DEF Running
  <2>8. lease' \in [Views -> Leases] /\ LeaseInv' /\ GoneInv'
    <3>1. \A u : Standing(u)
      BY <1>1 DEF Standing
    <3>2. QED
      BY <1>1, <1>2, <2>1, <2>2, <2>3, <2>7, <3>1, CallEnters
  <2>9. TokenInv'
    <3>1. \A u \in Tokens : u \in Held' => u \in Held /\ u \notin ToSet(proofs')
      BY <1>2 DEF IInv, TokenInv, Shrinks
    <3>2. \A u \in Tokens : u \in ToSet(proofs') => u \in ToSet(proofs) \/ u \in Held
      BY <1>2 DEF Shrinks
    <3>3. SUFFICES ASSUME NEW u \in Tokens
          PROVE /\ u \in Held' => call'[u].at \in {"verifying", "returned"} /\ u \notin ToSet(proofs')
                /\ u \in ToSet(proofs') => call'[u].at \in {"verifying", "returned", "refused"}
                /\ u \in sending' => call'[u].at = "returned" /\ sends'[u] > 0
                /\ sends'[u] > 0 => call'[u].at = "returned" /\ u \notin Held' \cup ToSet(proofs')
                /\ u \in discarded' => call'[u].at = "returned" /\ u \notin Held' /\ sends'[u] = 0
      BY DEF TokenInv
    <3>4. CASE u = t
      BY <1>1, <2>3, <2>5, <2>6, <3>4
    <3>5. CASE u # t
      BY <1>1, <2>2, <2>6, <3>1, <3>2, <3>5 DEF IInv, TokenInv
    <3>6. QED
      BY <3>4, <3>5
  <2>10. TableTypes' /\ SpoiledInv' /\ Preceded'
    <3>1. call' \in [Tokens -> Calls] /\ sending' \subseteq Tokens /\ discarded' \subseteq Tokens
      BY <1>1, <2>2, <2>4 DEF IInv, TableTypes, TokenTypes
    <3>2. \A u \in Tokens : call'[u].at \in Underway => call'[u].conn <= connection.gen
      BY <1>1 DEF IInv, Preceded
    <3>3. QED
      BY <1>1, <1>2, <2>6, <2>8, <3>1, <3>2, OnlyCallsMove DEF Shrinks
  <2>11. QED
    BY <2>8, <2>9, <2>10 DEF IInv
<1>5. QED
    BY <1>3, <1>4

LEMMA SendEndsStep ==
    ASSUME IInv, NEW t \in Tokens, SendEnds(t)
    PROVE  IInv'
<1>1. /\ t \in sending /\ sending' = sending \ {t} /\ Leaves(call[t].view, call[t].gen)
      /\ UNCHANGED <<world, stage, socket, retired, gone, call, tokens, sends, discarded, spoiled>>
    BY DEF SendEnds
<1>2. Shrinks /\ Held' = Held
    BY <1>1, Resting DEF IInv
<1>3. t \in Running /\ Running' = Running \ {t}
  <2>1. call[t].at = "returned"
    BY <1>1 DEF IInv, TokenInv
  <2>2. QED
    BY <1>1, <2>1 DEF Running
<1>4. lease' \in [Views -> Leases] /\ LeaseInv' /\ GoneInv'
  <2>1. \A u : Standing(u)
    BY <1>1 DEF Standing
  <2>2. QED
    BY <1>1, <1>2, <1>3, <2>1, CallEnds
<1>5. TokenInv'
    BY <1>1, <1>2 DEF IInv, TokenInv, tokens
<1>6. TableTypes' /\ SpoiledInv' /\ Preceded'
  <2>1. Spoils({})
    BY <1>1, <1>2 DEF Spoils, Held, IInv, TableTypes, TokenTypes
  <2>2. /\ call' \in [Tokens -> Calls] /\ sending' \subseteq Tokens /\ discarded' \subseteq Tokens
        /\ sends' \in [Tokens -> Nat]
    BY <1>1 DEF IInv, TableTypes, TokenTypes
  <2>3. \A u \in Tokens : call'[u].at \in Underway => call'[u].conn <= connection.gen
    BY <1>1 DEF IInv, Preceded
  <2>4. QED
    BY <1>1, <1>2, <1>4, <2>1, <2>2, <2>3, OnlyCallsMove DEF Shrinks
<1>7. QED
    BY <1>4, <1>5, <1>6 DEF IInv

LEMMA DiscardStep ==
    ASSUME IInv, NEW t \in Tokens, NEW v \in Views, NEW g \in Generations, Discard(t, v, g)
    PROVE  IInv'
<1>1. /\ call[t].at = "returned" /\ RetireFrom(Unexpired, {t} \cap Held) /\ Spoils({})
      /\ discarded' = IF t \in Held \cup ToSet(Unexpired) THEN discarded \cup {t} ELSE discarded
      /\ UNCHANGED <<world, stage, views, call, sending, sends>>
    BY DEF Discard
<1>2. Shrinks /\ Held' = Held \ ({t} \cap Held)
    BY <1>1, Expiring DEF IInv
<1>3. t \in Held \cup ToSet(Unexpired) => ~(sends[t] > 0)
    BY Unexpireds DEF IInv, TokenInv
<1>4. sends \in [Tokens -> Nat] /\ discarded \subseteq Tokens /\ sending \subseteq Tokens
      /\ call \in [Tokens -> Calls] /\ lease \in [Views -> Leases]
    BY DEF IInv, TableTypes, TokenTypes, ViewTypes
<1>5. TokenInv'
  <2>1. \A u \in Tokens : u \in Held' => u \in Held /\ u \notin ToSet(proofs')
    BY <1>2 DEF IInv, TokenInv, Shrinks
  <2>2. \A u \in Tokens : u \in ToSet(proofs') => u \in ToSet(proofs) \/ u \in Held
    BY <1>2 DEF Shrinks
  <2>3. \A u \in Tokens : u \in discarded' =>
            call[u].at = "returned" /\ u \notin Held' /\ sends[u] = 0
    <3>1. t \in discarded' => call[t].at = "returned" /\ t \notin Held' /\ sends[t] = 0
      BY <1>1, <1>2, <1>3, <1>4 DEF IInv, TokenInv
    <3>2. QED
      BY <1>1, <2>1, <3>1 DEF IInv, TokenInv
  <2>4. QED
    BY <1>1, <2>1, <2>2, <2>3 DEF IInv, TokenInv
<1>6. LeaseInv' /\ GoneInv'
    BY <1>1, <1>2, ViewsRest DEF views
<1>7. TableTypes' /\ SpoiledInv' /\ Preceded'
  <2>1. \A u \in Tokens : call'[u].at \in Underway => call'[u].conn <= connection.gen
    BY <1>1 DEF IInv, Preceded
  <2>2. lease' \in [Views -> Leases] /\ call' \in [Tokens -> Calls]
        /\ sending' \subseteq Tokens /\ discarded' \subseteq Tokens /\ sends' \in [Tokens -> Nat]
    BY <1>1, <1>4 DEF views
  <2>3. QED
    BY <1>1, <1>2, <2>1, <2>2, OnlyCallsMove DEF Shrinks, views
<1>8. QED
    BY <1>5, <1>6, <1>7 DEF IInv

----------------------------------------------------------------------------
(* stop                                                                    *)
LEMMA StopStep ==
    ASSUME IInv, Stop
    PROVE  IInv'
<1> USE DEF Stop
<1>1. Shrinks /\ Held' = Held
    BY Resting DEF IInv
<1>2. TokenTypes' /\ TokenInv'
    BY <1>1, TokensRest DEF IInv, TableTypes, TokenTypes
<1>3. TableTypes'
    BY <1>1, <1>2, WorldRests
    DEF IInv, TableTypes, ViewTypes, WithinLimits, Shrinks, views
<1>4. Running' = Running /\ \A v \in Views : Using(v)' = Using(v)
    BY DEF Running, Using
<1>5. LeaseInv'
  <2>1. HeldForAView' /\ ConnectedBySocket' /\ AfterStop' /\ \A v \in Views : LeaseIsFor(v)'
    BY <1>1 DEF IInv, LeaseInv, HeldForAView, Live, ConnectedBySocket, AfterStop, LeaseIsFor, views
  <2>2. RunsOnALease'
    BY <1>4 DEF IInv, LeaseInv, RunsOnALease, views
  <2>3. QED
    BY <2>1, <2>2 DEF LeaseInv
<1>6. GoneInv'
    BY <1>1, <1>4 DEF IInv, GoneInv, IsOf, views
<1>7. SpoiledInv' /\ Preceded'
    BY <1>1 DEF IInv, SpoiledInv, Refusable, Eligible, Preceded, world, tokens
<1>8. QED
    BY <1>2, <1>3, <1>5, <1>6, <1>7 DEF IInv

LEMMA StopClearsStep ==
    ASSUME IInv, StopClears
    PROVE  IInv'
<1> USE DEF StopClears
<1>1. ToSet(<<>>) = {} /\ \A T : <<>> \in Seq(T)
    BY DEF ToSet
<1>2. Held' = {} /\ ToSet(proofs') = {} /\ ToSet(retired') = {} /\ spoiled' = {}
    BY <1>1 DEF Held, Spoils
<1>3. /\ connection' \in Status /\ connection'.gen = connection.gen
      /\ entity' \in [Entities -> {"fresh", "stale", "none"}]
    BY DEF IInv, TableTypes, WorldTypes, Status
<1>4. TableTypes'
  <2>1. WorldTypes'
    BY <1>1, <1>3 DEF WorldTypes
  <2>2. ViewTypes'
    <3>1. NoLease \in Leases
      BY DEF NoLease, Leases
    <3>2. lease' \in [Views -> Leases]
      BY <3>1
    <3>3. QED
      BY <1>1, <3>2 DEF IInv, TableTypes, ViewTypes
  <2>3. TokenTypes'
    BY <1>1, <1>2 DEF IInv, TableTypes, TokenTypes
  <2>4. WithinLimits'
    BY Limits DEF WithinLimits
  <2>5. QED
    BY <2>1, <2>2, <2>3, <2>4 DEF TableTypes
<1>5. TokenInv'
    BY <1>2 DEF IInv, TokenInv
<1>6. NoLease.gen = "none" /\ ~NoLease.connected
    BY DEF NoLease
<1>7. LeaseInv'
    BY <1>2, <1>6 DEF LeaseInv, HeldForAView, RunsOnALease, ConnectedBySocket, AfterStop, LeaseIsFor
<1>8. GoneInv'
  <2>1. Running' = Running
    BY DEF Running
  <2>2. \A vg \in gone : vg[1] \in Views /\ vg[2] \in Generations
    BY DEF IInv, TableTypes, ViewTypes
  <2>3. QED
    BY <1>2, <1>6, <2>1, <2>2, GenerationsAssumption DEF IInv, GoneInv, IsOf
<1>9. SpoiledInv' /\ Preceded'
    BY <1>2, <1>3 DEF IInv, SpoiledInv, Preceded
<1>10. QED
    BY <1>4, <1>5, <1>7, <1>8, <1>9 DEF IInv

----------------------------------------------------------------------------
(* The invariant                                                           *)
LEMMA InitInvariant ==
    ASSUME OperatorInit
    PROVE  IInv
<1> USE DEF OperatorInit
<1>1. ToSet(<<>>) = {} /\ \A T : <<>> \in Seq(T)
    BY DEF ToSet
<1>2. NoLease \in Leases /\ ~NoLease.connected /\ NoLease.gen = "none" /\ NoLease.mutations = 0
    BY DEF NoLease, Leases
<1>3. NoCall \in Calls /\ NoCall.at = "none"
    BY DEF NoCall, Calls
<1>4. Held = {} /\ ToSet(proofs) = {}
    BY <1>1 DEF Held
<1>5. TableTypes
  <2>1. WorldTypes
    BY <1>1 DEF WorldTypes, Status
  <2>2. ViewTypes
    <3>1. lease \in [Views -> Leases]
      BY <1>2
    <3>2. socket \in [Sockets -> SocketStates]
      BY DEF SocketStates
    <3>3. QED
      BY <1>1, <3>1, <3>2 DEF ViewTypes
  <2>3. TokenTypes
    BY <1>1, <1>3, <1>4 DEF TokenTypes
  <2>4. WithinLimits
    BY Limits DEF WithinLimits
  <2>5. QED
    BY <2>1, <2>2, <2>3, <2>4 DEF TableTypes
<1>6. TokenInv
    BY <1>3, <1>4 DEF TokenInv
<1>7. Running = {}
    BY <1>3 DEF Running
<1>8. LeaseInv
  <2>1. \A v \in Views : IsFiniteSet(Using(v)) /\ lease[v].mutations = Cardinality(Using(v))
    BY <1>2, <1>7, FS_EmptySet DEF Using
  <2>2. QED
    BY <1>2, <1>4, <1>7, <2>1
    DEF LeaseInv, HeldForAView, RunsOnALease, ConnectedBySocket, AfterStop, LeaseIsFor
<1>9. GoneInv /\ SpoiledInv /\ Preceded
    BY <1>3 DEF GoneInv, SpoiledInv, Preceded, Underway
<1>10. QED
    BY <1>5, <1>6, <1>8, <1>9 DEF IInv

LEMMA StepInvariant ==
    ASSUME IInv, [OperatorNext]_operatorVars
    PROVE  IInv'
<1>1. CASE UNCHANGED operatorVars
  <2>1. TableTypes' /\ TokenInv' /\ GoneInv' /\ SpoiledInv' /\ Preceded'
    BY <1>1
    DEF IInv, TableTypes, WorldTypes, ViewTypes, TokenTypes, WithinLimits, TokenInv, GoneInv, IsOf,
        SpoiledInv, Refusable, Eligible, Preceded, Held, Running, operatorVars, world, views, tokens
  <2>2. HeldForAView' /\ ConnectedBySocket' /\ AfterStop' /\ \A v \in Views : LeaseIsFor(v)'
    BY <1>1
    DEF IInv, LeaseInv, HeldForAView, Live, ConnectedBySocket, AfterStop, LeaseIsFor, Held,
        operatorVars, world, views, tokens
  <2>3. RunsOnALease'
    <3>1. Running' = Running /\ \A v \in Views : Using(v)' = Using(v)
      BY <1>1 DEF Running, Using, operatorVars
    <3>2. UNCHANGED <<call, lease, stage>>
      BY <1>1 DEF operatorVars, views
    <3>3. QED
      BY <3>1, <3>2 DEF IInv, LeaseInv, RunsOnALease
  <2>4. QED
    BY <2>1, <2>2, <2>3 DEF IInv, LeaseInv
<1>2. CASE OperatorNext
  <2>1. CASE \E e \in Entities : LocationEvent(e)
    BY <2>1, LocationStep
  <2>2. CASE \E e \in Targets : EntityEvent(e) \/ GoesStale(e)
    BY <2>2, EntityStep, StaleStep
  <2>3. CASE \E t \in Tokens : TimePasses(t) \/ Insert(t) \/ Verify(t) \/ SendEnds(t)
    BY <2>3, TimeStep, InsertStep, VerifyStep, SendEndsStep
  <2>4. CASE Sweep \/ ConnectionLost \/ ConnectionReady \/ StatusObserved
    BY <2>4, SweepStep, LostStep, ReadyStep, StatusStep
  <2>5. CASE WatcherEnds \/ LoopEnds \/ Stop \/ StopClears
    BY <2>5, WatcherStep, LoopStep, StopStep, StopClearsStep
  <2>6. CASE \E s \in Sockets : Deactivate(s)
    BY <2>6, DeactivateStep
  <2>7. CASE \E v \in Views, g \in Generations : RetireView(v, g)
    BY <2>7, RetireStep
  <2>8. CASE \E v \in Views, g \in Generations, s \in Sockets : Activate(s, v, g)
    BY <2>8, ActivateStep
  <2>9. CASE \E v \in Views, g \in Generations, t \in Tokens : Confirm(t, v, g) \/ Discard(t, v, g)
    BY <2>9, ConfirmStep, DiscardStep
  <2>10. CASE \E v \in Views, g \in Generations, t \in Tokens, e \in Targets : Prepare(t, v, g, e)
    BY <2>10, PrepareStep
  <2>11. QED
    BY <1>2, <2>1, <2>2, <2>3, <2>4, <2>5, <2>6, <2>7, <2>8, <2>9, <2>10 DEF OperatorNext
<1>3. QED
    BY <1>1, <1>2

(* IInv holds in every state: what the tables, the leases, the calls and   *)
(* the sockets of runtime.py say of each other.                            *)
THEOREM OperatorInvariant == OperatorSpec => []IInv
<1>1. OperatorInit => IInv
    BY InitInvariant
<1>2. IInv /\ [OperatorNext]_operatorVars => IInv'
    BY StepInvariant
<1>3. QED
    BY <1>1, <1>2, PTL DEF OperatorSpec

(* The leases of the views, the tables of tokens and the sockets agree, and *)
(* no table of runtime.py outgrows its limit.                              *)
THEOREM LeasesAreSound == OperatorSpec => []TablesAgree
<1>1. IInv => TablesAgree
  <2>1. SUFFICES ASSUME IInv PROVE TablesAgree
    OBVIOUS
  <2>2. WithinLimits /\ due \subseteq Held \cup ToSet(proofs)
    BY <2>1 DEF IInv, TableTypes, TokenTypes
  <2>3. Held \cap ToSet(proofs) = {}
    BY <2>1, HeldAreCalls DEF IInv, TokenInv
  <2>4. \A t \in Held : Live(call[t].view, call[t].gen)
    BY <2>1 DEF IInv, LeaseInv, HeldForAView
  <2>5. SUFFICES ASSUME NEW v \in Views
        PROVE  /\ stage \in {"on", "stopping"} => lease[v].mutations = Cardinality(Using(v))
               /\ lease[v] # NoLease => lease[v].connected \/ lease[v].mutations > 0
               /\ lease[v].connected => \E s \in Sockets : /\ socket[s].at = "active"
                                                           /\ socket[s].view = v
                                                           /\ socket[s].gen = lease[v].gen
    BY <2>2, <2>3, <2>4 DEF TablesAgree, WithinLimits
  <2>6. stage \in {"on", "stopping"} => lease[v].mutations = Cardinality(Using(v))
    BY <2>1 DEF IInv, LeaseInv, RunsOnALease
  <2>7. lease[v] # NoLease => lease[v].connected \/ lease[v].mutations > 0
    BY <2>1 DEF IInv, LeaseInv, LeaseIsFor
  <2>8. lease[v].connected => \E s \in Sockets : /\ socket[s].at = "active"
                                                 /\ socket[s].view = v
                                                 /\ socket[s].gen = lease[v].gen
    <3>1. SUFFICES ASSUME lease[v].connected
                   PROVE  \E s \in Sockets : /\ socket[s].at = "active"
                                              /\ socket[s].view = v
                                              /\ socket[s].gen = lease[v].gen
      OBVIOUS
    <3>2. PICK s \in Sockets : socket[s] = [at |-> "active", view |-> v, gen |-> lease[v].gen]
      BY <2>1, <3>1 DEF IInv, LeaseInv, ConnectedBySocket
    <3>3. QED
      BY <3>2
  <2>9. QED
    BY <2>6, <2>7, <2>8
<1>2. QED
    BY <1>1, OperatorInvariant, PTL

(* A token whose discard was acknowledged is never handed to the client, and *)
(* a view generation that was retired holds nothing and runs nothing.       *)
THEOREM AcknowledgedStays == OperatorSpec => []AcknowledgedIsFinal
<1>1. IInv => AcknowledgedIsFinal
  <2>1. SUFFICES ASSUME IInv PROVE AcknowledgedIsFinal
    OBVIOUS
  <2>2. \A t \in discarded : sends[t] = 0
    BY <2>1 DEF IInv, TableTypes, TokenTypes, TokenInv
  <2>3. \A vg \in gone : \A t \in Held \cup Running : ~(call[t].view = vg[1] /\ call[t].gen = vg[2])
    BY <2>1 DEF IInv, GoneInv, IsOf
  <2>4. QED
    BY <2>2, <2>3 DEF AcknowledgedIsFinal
<1>2. QED
    BY <1>1, OperatorInvariant, PTL

(* Only a confirmation hands a task over.                                  *)
LEMMA OthersHandNothingOver ==
    ASSUME [OperatorNext]_operatorVars, UNCHANGED sends => FALSE
    PROVE  \E t \in Tokens, v \in Views, g \in Generations : Confirm(t, v, g)
<1>1. ASSUME UNCHANGED operatorVars PROVE UNCHANGED sends
    BY <1>1 DEF operatorVars
<1>2. ASSUME \E e \in Entities : LocationEvent(e) PROVE UNCHANGED sends
    BY <1>2 DEF LocationEvent
<1>3. ASSUME \E e \in Targets : EntityEvent(e) \/ GoesStale(e) PROVE UNCHANGED sends
    BY <1>3 DEF EntityEvent, GoesStale
<1>4. ASSUME \E t \in Tokens : TimePasses(t) \/ Insert(t) \/ Verify(t) \/ SendEnds(t)
      PROVE UNCHANGED sends
    BY <1>4 DEF TimePasses, Insert, Verify, SendEnds
<1>5. ASSUME Sweep \/ ConnectionLost \/ ConnectionReady \/ StatusObserved PROVE UNCHANGED sends
    BY <1>5 DEF Sweep, ConnectionLost, ConnectionReady, StatusObserved
<1>6. ASSUME WatcherEnds \/ LoopEnds \/ Stop \/ StopClears PROVE UNCHANGED sends
    BY <1>6 DEF WatcherEnds, LoopEnds, Stop, StopClears
<1>7. ASSUME \E s \in Sockets : Deactivate(s) PROVE UNCHANGED sends
    BY <1>7 DEF Deactivate
<1>8. ASSUME NEW v \in Views, NEW g \in Generations,
             RetireView(v, g) \/ (\E s \in Sockets : Activate(s, v, g))
             \/ \E t \in Tokens : Discard(t, v, g) \/ \E e \in Targets : Prepare(t, v, g, e)
      PROVE UNCHANGED sends
    BY <1>8 DEF RetireView, Activate, Discard, Prepare
<1>9. QED
    BY <1>1, <1>2, <1>3, <1>4, <1>5, <1>6, <1>7, <1>8 DEF OperatorNext

(* A task is handed to the client once, and nothing it was reviewed against *)
(* has lapsed since it was prepared, also if it was repaired meanwhile.     *)
THEOREM PublishedWasReviewed == OperatorSpec => PublishedAsReviewed
<1> DEFINE Reviewed == \A t \in Tokens : sends'[t] # sends[t] => sends[t] = 0 /\ t \notin spoiled
<1>1. ASSUME IInv, [OperatorNext]_operatorVars PROVE Reviewed
  <2>1. CASE UNCHANGED sends
    BY <2>1
  <2>2. CASE ~UNCHANGED sends
    <3>1. PICK t \in Tokens, v \in Views, g \in Generations : Confirm(t, v, g)
      BY <1>1, <2>2, OthersHandNothingOver
    <3>2. HandsOver(t, v, g) /\ sends' = [sends EXCEPT ![t] = @ + 1]
      BY <2>2, <3>1 DEF Confirm, HandsOver
    <3>3. sends \in [Tokens -> Nat]
      BY <1>1 DEF IInv, TableTypes, TokenTypes
    <3>4. t \in Held /\ ~(sends[t] > 0)
      BY <1>1, <3>2 DEF HandsOver, Of, IInv, TokenInv
    <3>5. ~Refusable(t)
      BY <3>2 DEF HandsOver, Refusable, SameConnection, Watching
    <3>6. t \notin spoiled
      BY <1>1, <3>5 DEF IInv, SpoiledInv
    <3>7. QED
      BY <3>2, <3>3, <3>4, <3>6
  <2>3. QED
    BY <2>1, <2>2
<1>2. IInv /\ [OperatorNext]_operatorVars => [Reviewed]_operatorVars
    BY <1>1
<1>3. QED
    BY <1>2, OperatorInvariant, PTL DEF OperatorSpec, PublishedAsReviewed
============================================================================
