----------------------------- MODULE AckLedger -----------------------------
(***************************************************************************)
(* The acknowledgement bookkeeping of one MQTT session (_MQTTV5Client in   *)
(* _transport/mqtt.py): publications, subscriptions and unsubscriptions    *)
(* share Paho's 16-bit packet identifier and wait for the packet that      *)
(* carries it back.  An operation that gives up retires its identifier, so *)
(* that the late acknowledgement is recognised; any other acknowledgement  *)
(* that matches nothing invalidates the whole session.  Packets are read   *)
(* by the event loop, so a callback only schedules the completion of the   *)
(* future, and the waiting task runs after that.                           *)
(***************************************************************************)
EXTENDS Integers, FiniteSets

CONSTANTS Ops,           \* the operations of one session
          NoOp,          \* no operation
          MaxMid,        \* the last packet identifier (65535)
          MaxOutgoing,   \* maximum_outstanding_operations
          MaxForged      \* bound: acknowledgements the broker makes up

ASSUME OpsAssumption == IsFiniteSet(Ops) /\ NoOp \notin Ops
ASSUME MaxMidAssumption == MaxMid \in Nat \ {0}
ASSUME MaxOutgoingAssumption == MaxOutgoing \in Nat \ {0}
ASSUME MaxForgedAssumption == MaxForged \in Nat

Mids == 1..MaxMid
Kinds == {"pub0", "pub1", "sub", "unsub"}
Tables == {"pub", "sub", "unsub"}
Table(k) == IF k \in {"pub0", "pub1"} THEN "pub" ELSE k

VARIABLES
    kind,      \* what each operation is
    mid,       \* its packet identifier
    stage,     \* idle, waiting for its acknowledgement, done
    ack,       \* its future: none, read (completion scheduled), value, failed
    got,       \* the operation whose acknowledgement completed it
    cancel,    \* no; early or late: before or after the acknowledgement was read
    outcome,   \* none, answered, unknown, not_sent
    lastMid,   \* Paho's identifier counter
    inUse,     \* _out_messages: QoS 1 publications Paho has not seen answered
    pend,      \* _pending_*_acknowledgements: identifier -> operation
    retired,   \* _retired_*_mids
    owed,      \* acknowledgements still to come, as the broker knows them
    failure,   \* _protocol_failure_error: none, unmatched, reused
    down,      \* _disconnected is done
    forged     \* acknowledgements the broker has made up

ledgerVars == <<kind, mid, stage, ack, got, cancel, outcome, lastMid, inUse, pend,
                retired, owed, failure, down, forged>>
operation == <<kind, mid>>
session == <<failure, down>>

Waiting == {o \in Ops : stage[o] = "waiting"}

(* Every entry of a table belongs to the operation that waits for it, so   *)
(* that no acknowledgement can complete an operation that has ended.       *)
LedgerTypes ==
    /\ kind \in [Ops -> Kinds] /\ mid \in [Ops -> 0..MaxMid]
    /\ stage \in [Ops -> {"idle", "waiting", "done"}]
    /\ ack \in [Ops -> {"none", "read", "value", "failed"}]
    /\ got \in [Ops -> Ops \cup {NoOp}]
    /\ cancel \in [Ops -> {"no", "early", "late"}]
    /\ outcome \in [Ops -> {"none", "answered", "unknown", "not_sent"}]
    /\ lastMid \in 0..MaxMid /\ inUse \subseteq Mids
    /\ pend \in [Tables -> [Mids -> Ops \cup {NoOp}]]
    /\ retired \in [Tables -> SUBSET Mids]
    /\ owed \subseteq [kind : Kinds, mid : Mids, op : Ops]
    /\ failure \in {"none", "unmatched", "reused"} /\ down \in BOOLEAN
    /\ forged \in 0..MaxForged
    /\ \A t \in Tables, m \in Mids : pend[t][m] # NoOp =>
          LET o == pend[t][m] IN
          stage[o] = "waiting" /\ mid[o] = m /\ Table(kind[o]) = t

LedgerInit ==
    /\ kind = [o \in Ops |-> "sub"] /\ mid = [o \in Ops |-> 0]
    /\ stage = [o \in Ops |-> "idle"] /\ ack = [o \in Ops |-> "none"]
    /\ got = [o \in Ops |-> NoOp] /\ cancel = [o \in Ops |-> "no"]
    /\ outcome = [o \in Ops |-> "none"]
    /\ lastMid = 0 /\ inUse = {}
    /\ pend = [t \in Tables |-> [m \in Mids |-> NoOp]]
    /\ retired = [t \in Tables |-> {}]
    /\ owed = {} /\ failure = "none" /\ down = FALSE /\ forged = 0

----------------------------------------------------------------------------
NextMid == IF lastMid = MaxMid THEN 1 ELSE lastMid + 1

(* What an ended operation knew of its future is gone with its frame.      *)
Ended(o, result) ==
    /\ stage' = [stage EXCEPT ![o] = "done"]
    /\ outcome' = [outcome EXCEPT ![o] = result]
    /\ ack' = [ack EXCEPT ![o] = "none"] /\ cancel' = [cancel EXCEPT ![o] = "no"]

(* The call into Paho: the semaphore of outgoing calls, the next           *)
(* identifier, and the packet.                                             *)
Call(o, k) ==
    /\ stage[o] = "idle" /\ Cardinality(Waiting) < MaxOutgoing
    /\ kind' = [kind EXCEPT ![o] = k]
    /\ lastMid' = NextMid /\ mid' = [mid EXCEPT ![o] = NextMid]

(* Named assumption: an operation that waits has ended before 65535 more   *)
(* packets are sent.  Paho itself checks this only for QoS 1.              *)
CycleAssumption(k) ==
    /\ pend[Table(k)][NextMid] = NoOp
    /\ k = "pub0" => NextMid \notin inUse

HandsOver(o, k) ==
    /\ Call(o, k) /\ ~down
    /\ ~(k = "pub1" /\ NextMid \in inUse)
    /\ CycleAssumption(k)

PacketSent(o, k) ==
    /\ owed' = owed \cup {[kind |-> k, mid |-> NextMid, op |-> o]}
    /\ inUse' = IF k = "pub1" THEN inUse \cup {NextMid} ELSE inUse

(* Paho refuses: no connection, or a QoS 1 identifier that is still in     *)
(* use.  An unsubscribe whose packet broke the connection was numbered.    *)
SendRefused(o, k) ==
    /\ Call(o, k)
    /\ down \/ (k = "pub1" /\ NextMid \in inUse)
    /\ Ended(o, "not_sent")
    /\ \/ UNCHANGED retired
       \/ /\ k = "unsub"
          /\ retired' = [retired EXCEPT !["unsub"] = @ \cup {NextMid}]
    /\ UNCHANGED <<got, inUse, pend, owed, session, forged>>

Invalidate(reason) == failure' = IF failure = "none" THEN reason ELSE failure

(* A defect of Reused: retired identifiers are not looked up.              *)
ReusedNever(k) == FALSE
Reused(k) == NextMid \in retired[Table(k)]

(* The packet left, but its acknowledgement could not be told apart.       *)
SendAmbiguous(o, k) ==
    /\ HandsOver(o, k)
    /\ failure # "none" \/ Reused(k)
    /\ PacketSent(o, k)
    /\ Invalidate("reused")
    /\ Ended(o, "unknown")
    /\ UNCHANGED <<got, pend, retired, down, forged>>

SendWaits(o, k) ==
    /\ HandsOver(o, k)
    /\ failure = "none" /\ ~Reused(k)
    /\ PacketSent(o, k)
    /\ pend' = [pend EXCEPT ![Table(k)][NextMid] = o]
    /\ stage' = [stage EXCEPT ![o] = "waiting"]
    /\ UNCHANGED <<ack, got, cancel, outcome, retired, session, forged>>

(* QoS 0: Paho writes the packet and calls _on_publish within the call,    *)
(* unless an earlier one is still stuck in its buffer.                     *)
SendAtOnce(o) ==
    /\ HandsOver(o, "pub0") /\ failure = "none"
    /\ \A a \in owed : a.kind # "pub0"
    /\ retired' = [retired EXCEPT !["pub"] = @ \ {NextMid}]
    /\ got' = [got EXCEPT ![o] = o]
    /\ Ended(o, "answered")
    /\ UNCHANGED <<inUse, pend, owed, session, forged>>

----------------------------------------------------------------------------
(* Defects of Callback: retired identifiers are not recognised.            *)
CallbackPendingOnly(t, m, from) ==
    LET o == pend[t][m] IN
    /\ UNCHANGED retired
    /\ IF o # NoOp /\ ack[o] = "none" /\ failure = "none"
       THEN /\ ack' = [ack EXCEPT ![o] = "read"]
            /\ got' = [got EXCEPT ![o] = from]
            /\ UNCHANGED failure
       ELSE UNCHANGED <<ack, got>> /\ Invalidate("unmatched")

(* _on_publish, _on_subscribe, _on_unsubscribe and the packet guards: a    *)
(* retired identifier first, then a pending one; the rest is a violation.  *)
(* A completion scheduled after the failure comes too late.                *)
Callback(t, m, from) ==
    LET o == pend[t][m] IN
    IF t = "pub" /\ failure # "none" THEN UNCHANGED <<retired, ack, got, failure>>
    ELSE IF m \in retired[t]
    THEN /\ retired' = [retired EXCEPT ![t] = @ \ {m}]
         /\ UNCHANGED <<ack, got, failure>>
    ELSE /\ UNCHANGED retired
         /\ IF o = NoOp
            THEN Invalidate("unmatched") /\ UNCHANGED <<ack, got>>
            ELSE /\ UNCHANGED failure
                 /\ IF ack[o] = "none" /\ failure = "none"
                    THEN /\ ack' = [ack EXCEPT ![o] = "read"]
                         /\ got' = [got EXCEPT ![o] = from]
                    ELSE UNCHANGED <<ack, got>>

(* Paho passes on a PUBACK only for an identifier it has in use.           *)
ReadsAck(t, m, qos1, from) ==
    /\ inUse' = IF qos1 THEN inUse \ {m} ELSE inUse
    /\ IF qos1 /\ m \notin inUse
       THEN Invalidate("unmatched") /\ UNCHANGED <<retired, ack, got>>
       ELSE Callback(t, m, from)

AckRead(a) ==
    /\ a \in owed /\ ~down
    /\ owed' = owed \ {a}
    /\ ReadsAck(Table(a.kind), a.mid, a.kind = "pub1", a.op)
    /\ UNCHANGED <<operation, stage, cancel, outcome, lastMid, pend, down, forged>>

(* A broker that repeats or invents an acknowledgement.                    *)
ForgedAck(t, m) ==
    /\ forged < MaxForged /\ ~down
    /\ forged' = forged + 1
    /\ ReadsAck(t, m, t = "pub", NoOp)
    /\ UNCHANGED <<operation, stage, cancel, outcome, lastMid, pend, owed, down>>

(* The packet guards run before Paho: a packet that is too short, has no   *)
(* reason code or more than one, one that is not listed, or properties     *)
(* that do not parse, invalidates the session; Paho never sees it, so no   *)
(* table changes, whatever identifier it carries.                          *)
MalformedAck ==
    /\ forged < MaxForged /\ ~down
    /\ forged' = forged + 1
    /\ Invalidate("unmatched")
    /\ UNCHANGED <<operation, stage, ack, got, cancel, outcome, lastMid, inUse,
                   pend, retired, owed, down>>

----------------------------------------------------------------------------
(* _complete_acknowledgement.  A cancelled task runs before a completion   *)
(* scheduled after the cancellation; cancelling a subscription's task also *)
(* cancels its future, a publication shields it.                           *)
Complete(o) ==
    /\ stage[o] = "waiting" /\ ack[o] = "read"
    /\ cancel[o] = "no" \/ (cancel[o] = "late" /\ Table(kind[o]) = "pub")
    /\ ack' = [ack EXCEPT ![o] = "value"]
    /\ UNCHANGED <<operation, stage, got, cancel, outcome, lastMid, inUse, pend,
                   retired, owed, session, forged>>

Cancel(o) ==
    /\ stage[o] = "waiting" /\ cancel[o] = "no"
    /\ cancel' = [cancel EXCEPT ![o] = IF ack[o] = "none" THEN "early" ELSE "late"]
    /\ UNCHANGED <<operation, stage, ack, got, outcome, lastMid, inUse, pend,
                   retired, owed, session, forged>>

Forget(o) == pend' = [pend EXCEPT ![Table(kind[o])][mid[o]] = NoOp]

(* A defect of Answered: an answer counts although the session failed.     *)
AnsweredUnchecked(o) ==
    /\ stage[o] = "waiting" /\ ack[o] = "value"
    /\ Forget(o)
    /\ Ended(o, "answered")
    /\ UNCHANGED <<operation, got, lastMid, inUse, retired, owed,
                   session, forged>>

(* The task finds the answer; a publication does not count when the        *)
(* session was invalidated in the meantime.                                *)
Answered(o) ==
    /\ stage[o] = "waiting" /\ ack[o] = "value"
    /\ Forget(o)
    /\ Ended(o, IF Table(kind[o]) = "pub" /\ failure # "none"
                THEN "unknown" ELSE "answered")
    /\ UNCHANGED <<operation, got, lastMid, inUse, retired, owed,
                   session, forged>>

(* A defect of Retire: an unsubscription gives up and leaves no trace.     *)
RetireOther(o) ==
    retired' = IF Table(kind[o]) = "unsub" \/ (Table(kind[o]) # "pub" /\ down) THEN retired
               ELSE [retired EXCEPT ![Table(kind[o])] = @ \cup {mid[o]}]

Retire(o) ==
    retired' = IF Table(kind[o]) # "pub" /\ down THEN retired
               ELSE [retired EXCEPT ![Table(kind[o])] = @ \cup {mid[o]}]

(* A defect of GiveUp: a timeout needs the connection.                     *)
GiveUpOnline(o) ==
    /\ stage[o] = "waiting" /\ ~down
    /\ Forget(o) /\ Retire(o)
    /\ Ended(o, "unknown")
    /\ UNCHANGED <<operation, got, lastMid, inUse, owed, session,
                   forged>>

(* Timeout, cancellation or failure.  A publication prefers an answer that *)
(* is there; a subscription does not, in the way asyncio.wait_for times    *)
(* out and is cancelled (Python 3.12 and later).                           *)
GiveUp(o) ==
    /\ stage[o] = "waiting"
    /\ \/ Table(kind[o]) # "pub"
       \/ ack[o] \in {"none", "failed"}
       \/ ack[o] = "read" /\ cancel[o] = "early"
    /\ Forget(o) /\ Retire(o)
    /\ Ended(o, "unknown")
    /\ UNCHANGED <<operation, got, lastMid, inUse, owed, session,
                   forged>>

----------------------------------------------------------------------------
(* _force_disconnect and _on_disconnect.                                   *)
SessionEnds ==
    /\ ~down /\ down' = TRUE
    /\ ack' = [o \in Ops |-> IF stage[o] = "waiting" /\ ack[o] = "none"
                             THEN "failed" ELSE ack[o]]
    /\ retired' = [retired EXCEPT !["sub"] = {}, !["unsub"] = {}]
    /\ owed' = {}
    /\ UNCHANGED <<operation, stage, got, cancel, outcome, lastMid, inUse, pend,
                   failure, forged>>

ApplyFailure == failure # "none" /\ SessionEnds
Disconnect == SessionEnds

Step(o) == Complete(o) \/ Answered(o) \/ GiveUp(o)

LedgerNext ==
    \/ \E o \in Ops, k \in Kinds :
          SendRefused(o, k) \/ SendAmbiguous(o, k) \/ SendWaits(o, k)
    \/ \E o \in Ops : SendAtOnce(o) \/ Cancel(o) \/ Step(o)
    \/ \E a \in owed : AckRead(a)
    \/ \E t \in Tables, m \in Mids : ForgedAck(t, m)
    \/ MalformedAck \/ ApplyFailure \/ Disconnect

(* Each wait has a timeout, and the event loop runs what is scheduled.     *)
(* Neither the broker nor the callers owe anything.                        *)
LedgerSpec == LedgerInit /\ [][LedgerNext]_ledgerVars
FairLedger == LedgerSpec /\ \A o \in Ops : WF_ledgerVars(Step(o))

----------------------------------------------------------------------------
(* While the session is sound, every acknowledgement that is still to come *)
(* from an honest broker has exactly one home: the operation that waits    *)
(* for it, or the retired identifiers; in particular no retired identifier *)
(* ever shadows a waiting operation.                                       *)
EveryAckHasAHome ==
    forged = 0 /\ failure = "none" =>
        \A a \in owed :
            IF stage[a.op] = "waiting"
            THEN pend[Table(a.kind)][a.mid] = a.op /\ a.mid \notin retired[Table(a.kind)]
            ELSE a.mid \in retired[Table(a.kind)]

(* An operation that was answered was answered by the acknowledgement of   *)
(* its own packet, however late, reordered or reused the identifiers are.  *)
OwnAcknowledgement ==
    forged = 0 => \A o \in Ops : outcome[o] = "answered" => got[o] = o

(* An honest broker's acknowledgement is never taken for a violation of    *)
(* the protocol.                                                           *)
HonestNeverUnmatched == forged = 0 => failure # "unmatched"

(* No publication is reported as accepted once the session was invalidated,*)
(* not even one whose PUBACK was read before.                              *)
NothingAcceptedAfterInvalidation ==
    [][failure # "none" => \A o \in Ops :
          Table(kind[o]) = "pub" /\ outcome'[o] = "answered"
          => outcome[o] = "answered"]_ledgerVars

(* Every operation ends, whatever the broker withholds and whether or not  *)
(* the session it began in lasts.  An operation waits once, so this is the *)
(* leads-to property one would write first.                                *)
EveryOperationEnds == <>[](\A o \in Ops : stage[o] # "waiting")

(* "An unobserved SUBACK is retired until [its] late callback"             *)
(* (tests/unit/test_transport_mqtt.py): while the connection lasts, a      *)
(* retired identifier is one whose acknowledgement is still to come.       *)
RetiredAwaitsAck ==
    forged = 0 /\ failure = "none" /\ ~down =>
        \A m \in retired["sub"] :
            \E a \in owed : a.kind = "sub" /\ a.mid = m
============================================================================
