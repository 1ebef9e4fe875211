------------------------ MODULE Subscriptions_proofs ------------------------
(***************************************************************************)
(* For any calls, filters and number of sessions and cancellations: the    *)
(* types (with the lock's mutual exclusion), and that a session at rest is *)
(* sound.  The inductive invariant says what the supervisor's phase means  *)
(* for the calls, that a request on the wire is the last of the call that  *)
(* holds the lock, what a restore round has achieved so far, and who still *)
(* owes the broker an UNSUBSCRIBE or the transport its readiness.          *)
(***************************************************************************)
EXTENDS Subscriptions, SequenceTheorems, TLAPS

Asking == {"subscribing", "cancelled"}

(* Between sessions nobody holds the lock, and nothing that belongs to a    *)
(* session is left.                                                        *)
SupervisorInv ==
    /\ sup \in {"off", "restoring"} =>
          client = 0 /\ registered \subseteq Durable /\ \A o \in Ops : pc[o] \notin Holding
    /\ sup = "clearing" => ~up
    /\ sup # "off" => session > 0
    /\ sup # "restoring" => task[Sup] = "none" /\ reply[Sup] = "none"

CallInv(o) ==
    /\ pc[o] \in Holding \/ task[o] # "none" => own[o] = session
    /\ pc[o] \in {"idle", "called"} => task[o] = "none" /\ reply[o] = "none"
    /\ pc[o] \in Asking /\ o \in Pinned => seen[o] = own[o]
    /\ pc[o] \in Asking => \A p \in registered : FilterOf[p] # FilterOf[o]
    /\ o \in registered => pc[o] = "open"
    /\ o \in registered \ Durable => own[o] = session /\ (o \in Pinned => seen[o] = session)

WireInv ==
    /\ \A a \in Actors : reply[a] # "none" => task[a] = "none"
    /\ \A i \in DOMAIN wire :
          IF sup = "restoring" THEN wire[i].who = Sup
          ELSE /\ wire[i].who \in Ops /\ wire[i].filter = FilterOf[wire[i].who]
               /\ pc[wire[i].who] \notin {"idle", "called"}

(* What the broker has when the reply of the supervisor's request is known.  *)
Achieved ==
    CASE reply[Sup] = "granted" -> restored \cup asked
      [] reply[Sup] = "removed" -> restored \ asked
      [] OTHER -> restored

RestoringInv ==
    sup = "restoring" /\ up =>
        /\ connected \/ closing
        /\ Len(wire) <= 1
        /\ wire # <<>> => \/ reply[Sup] = "failed"
                          \/ /\ reply[Sup] = "none" /\ task[Sup] = wire[1].kind
                             /\ asked = {wire[1].filter}
        /\ reply[Sup] # "failed" => brokerSubs = Achieved

ServingInv ==
    sup = "serving" /\ up =>
        /\ \A p \in registered : FilterOf[p] \in brokerSubs
        /\ \A i \in DOMAIN wire : wire[i].kind = "unsub" =>
              \A p \in registered : FilterOf[p] # wire[i].filter
        /\ \A o \in Ops : pc[o] \in Asking =>
              /\ \A i \in DOMAIN wire : wire[i].who = o => i = Len(wire) /\ wire[i].kind = "sub"
              /\ reply[o] = "granted" => wire = <<>> /\ FilterOf[o] \in brokerSubs

Usable == sup = "serving" /\ up /\ ~closing

(* Who is to restore readiness, and who is to unsubscribe a filter.          *)
Suspends(o) == pc[o] \in Asking \cup {"undoing"} /\ suspended[o]
Owes(o) == task[o] = "unsub" \/ (pc[o] \in Asking /\ reply[o] \in {"granted", "failed"})

ReadyOwed == ready \/ \E o \in Ops : Suspends(o)

SubsAwaited ==
    \A i \in DOMAIN wire : wire[i].kind = "sub" =>
        /\ pc[wire[i].who] \in Asking
        /\ task[wire[i].who] = "sub" \/ reply[wire[i].who] = "failed"

FiltersOwed ==
    \A f \in brokerSubs : \/ \E p \in registered : FilterOf[p] = f
                          \/ \E o \in Ops : FilterOf[o] = f /\ Owes(o)

UsableInv ==
    Usable =>
        /\ client = session /\ connected
        /\ \A o \in Ops : pc[o] \notin {"compensating", "invalidating"}
        /\ ~escaped => ReadyOwed /\ SubsAwaited /\ FiltersOwed

IInv ==
    /\ TypeOK /\ SupervisorInv /\ (\A o \in Ops : CallInv(o))
    /\ WireInv /\ RestoringInv /\ ServingInv /\ UsableInv
----------------------------------------------------------------------------
(* The pieces of a step.                                                   *)
Places == Holding \cup {"idle", "called", "open", "done"}
Replies == {"none", "granted", "denied", "removed", "failed"}
Requests == [who : Actors, kind : {"sub", "unsub"}, filter : Filters]
Elsewhere(o) == \A p \in Ops \ {o} : pc'[p] = pc[p]

LEMMA GoesTo ==
    ASSUME TypeOK, NEW o \in Ops, NEW where \in Places, Goes(o, where)
    PROVE  /\ pc' \in [Ops -> Places] /\ pc'[o] = where /\ Elsewhere(o)
           /\ cancel' \in [Ops -> BOOLEAN]
BY DEF TypeOK, Goes, Places, Elsewhere

LEMMA WireTypes ==
    ASSUME TypeOK
    PROVE  /\ wire \in Seq(Requests) /\ Len(wire) \in Nat /\ DOMAIN wire = 1..Len(wire)
           /\ wire = <<>> <=> Len(wire) = 0
           /\ \A i \in DOMAIN wire : wire[i] \in Requests
<1>1. wire \in Seq(Requests)
    BY DEF TypeOK, Requests
<1>2. QED
    BY <1>1

LEMMA Requested ==
    ASSUME TypeOK, NEW a \in Actors, NEW k \in {"sub", "unsub"}, NEW f \in Filters,
           Request(a, k, f)
    PROVE  /\ task' \in [Actors -> {"none", "sub", "unsub"}] /\ reply' \in [Actors -> Replies]
           /\ task'[a] = k /\ reply'[a] = "none"
           /\ \A b \in Actors \ {a} : task'[b] = task[b] /\ reply'[b] = reply[b]
           /\ wire' \in Seq(Requests)
           /\ ~up => wire' = wire
           /\ up => /\ Len(wire') = Len(wire) + 1 /\ DOMAIN wire' = 1..(Len(wire) + 1)
                    /\ \A i \in 1..Len(wire) : wire'[i] = wire[i]
                    /\ wire'[Len(wire) + 1] = [who |-> a, kind |-> k, filter |-> f]
<1>1. task' = [task EXCEPT ![a] = k] /\ reply' = [reply EXCEPT ![a] = "none"]
    BY DEF Request
<1>2. /\ task' \in [Actors -> {"none", "sub", "unsub"}] /\ reply' \in [Actors -> Replies]
      /\ task'[a] = k /\ reply'[a] = "none"
      /\ \A b \in Actors \ {a} : task'[b] = task[b] /\ reply'[b] = reply[b]
    BY <1>1 DEF TypeOK, Replies
<1> DEFINE r == [who |-> a, kind |-> k, filter |-> f]
<1>3. r \in Requests
    BY DEF Requests
<1>4. wire' = IF up THEN Append(wire, r) ELSE wire
    BY DEF Request
<1>5. wire \in Seq(Requests)
    BY WireTypes
<1> HIDE DEF r
<1>6. CASE up
    BY <1>2, <1>3, <1>4, <1>5, <1>6 DEF r
<1>7. CASE ~up
    BY <1>2, <1>4, <1>5, <1>7
<1>8. QED
    BY <1>6, <1>7

LEMMA Died ==
    ASSUME SessionDies
    PROVE  ~up' /\ wire' = <<>> /\ brokerSubs' = {} /\ wire' \in Seq(Requests) /\ DOMAIN wire' = {}
BY DEF SessionDies

LEMMA MayDie ==
    ASSUME TypeOK, SessionDies \/ UNCHANGED <<up, broker>>
    PROVE  /\ up' \in BOOLEAN /\ (up' => up) /\ wire' \in Seq(Requests) /\ brokerSubs' \subseteq Filters
           /\ ~up' => wire' = <<>> /\ brokerSubs' = {}
<1>1. CASE SessionDies
    BY <1>1, Died DEF SessionDies
<1>2. CASE UNCHANGED <<up, broker>>
    BY <1>2, WireTypes DEF TypeOK, broker
<1>3. QED
    BY <1>1, <1>2

LEMMA Answered ==
    ASSUME TypeOK, NEW result, Answer(result)
    PROVE  /\ up /\ wire # <<>> /\ wire[1] \in Requests
           /\ wire' \in Seq(Requests) /\ Len(wire') = Len(wire) - 1
           /\ DOMAIN wire' = 1..(Len(wire) - 1)
           /\ \A i \in 1..(Len(wire) - 1) : wire'[i] = wire[i + 1]
           /\ \/ wire[1].kind = "sub" /\ result \in {"granted", "denied", "failed"}
              \/ wire[1].kind = "unsub" /\ result \in {"removed", "failed"}
           /\ result = "granted" => brokerSubs' = brokerSubs \cup {wire[1].filter}
           /\ result = "removed" => brokerSubs' = brokerSubs \ {wire[1].filter}
           /\ result \in {"denied", "failed"} => brokerSubs' = brokerSubs
           /\ \/ /\ task[wire[1].who] = wire[1].kind
                 /\ ~(wire[1].kind = "unsub" /\ result = "failed")
                 /\ task' \in [Actors -> {"none", "sub", "unsub"}] /\ reply' \in [Actors -> Replies]
                 /\ task'[wire[1].who] = "none" /\ reply'[wire[1].who] = result
                 /\ \A b \in Actors \ {wire[1].who} : task'[b] = task[b] /\ reply'[b] = reply[b]
              \/ /\ task[wire[1].who] # wire[1].kind \/ (wire[1].kind = "unsub" /\ result = "failed")
                 /\ UNCHANGED requests
<1>1. wire \in Seq(Requests) /\ wire # <<>> /\ up
    BY WireTypes DEF Answer, TypeOK
<1>2. wire' = Tail(wire) /\ Head(wire) = wire[1] /\ wire[1] \in Requests
    BY <1>1 DEF Answer
<1>3. /\ wire' \in Seq(Requests) /\ Len(wire') = Len(wire) - 1
      /\ DOMAIN wire' = 1..(Len(wire) - 1)
      /\ \A i \in 1..(Len(wire) - 1) : wire'[i] = wire[i + 1]
    BY <1>1, <1>2
<1> DEFINE r == wire[1]
<1>4. /\ \/ r.kind = "sub" /\ result \in {"granted", "denied", "failed"}
         \/ r.kind = "unsub" /\ result \in {"removed", "failed"}
      /\ result = "granted" => brokerSubs' = brokerSubs \cup {r.filter}
      /\ result = "removed" => brokerSubs' = brokerSubs \ {r.filter}
      /\ result \in {"denied", "failed"} => brokerSubs' = brokerSubs
      /\ IF task[r.who] = r.kind /\ ~(r.kind = "unsub" /\ result = "failed")
         THEN /\ task' = [task EXCEPT ![r.who] = "none"]
              /\ reply' = [reply EXCEPT ![r.who] = result]
         ELSE UNCHANGED requests
    BY <1>2 DEF Answer
<1>5. r.who \in Actors /\ result \in Replies
    BY <1>2, <1>4 DEF Requests, Replies
<1> HIDE DEF r
<1>6. \/ /\ task[r.who] = r.kind /\ ~(r.kind = "unsub" /\ result = "failed")
         /\ task' \in [Actors -> {"none", "sub", "unsub"}] /\ reply' \in [Actors -> Replies]
         /\ task'[r.who] = "none" /\ reply'[r.who] = result
         /\ \A b \in Actors \ {r.who} : task'[b] = task[b] /\ reply'[b] = reply[b]
      \/ /\ task[r.who] # r.kind \/ (r.kind = "unsub" /\ result = "failed")
         /\ UNCHANGED requests
    BY <1>4, <1>5 DEF TypeOK, Replies
<1>7. QED
    BY <1>1, <1>2, <1>3, <1>4, <1>6 DEF r

LEMMA Failed ==
    ASSUME TypeOK, NEW a \in Actors, Fails(a)
    PROVE  /\ task' \in [Actors -> {"none", "sub", "unsub"}] /\ reply' \in [Actors -> Replies]
           /\ task[a] # "none" /\ task'[a] = "none" /\ reply'[a] = "failed"
           /\ \A b \in Actors \ {a} : task'[b] = task[b] /\ reply'[b] = reply[b]
           /\ task[a] = "sub" => UNCHANGED <<up, client, connected, broker>>
           /\ task[a] = "unsub" =>
                /\ IF SessionOf(a) = session THEN SessionDies ELSE UNCHANGED <<up, broker>>
                /\ client' = IF client = SessionOf(a) THEN 0 ELSE client
                /\ ~connected'
BY DEF TypeOK, Fails, Replies

----------------------------------------------------------------------------
(* The types, and the lock.                                                *)
LEMMA OneHolder ==
    ASSUME TypeOK, NEW o \in Ops, Elsewhere(o),
           pc'[o] \notin Holding \/ pc[o] \in Holding \/ LockFree
    PROVE  \A p, q \in Ops : pc'[p] \in Holding /\ pc'[q] \in Holding => p = q
BY DEF TypeOK, Elsewhere, LockFree

LEMMA TypesStep ==
    ASSUME TypeOK, SupervisorInv, [Next]_vars
    PROVE  TypeOK'
<1> DEFINE LockOK == \A p, q \in Ops : pc'[p] \in Holding /\ pc'[q] \in Holding => p = q
<1> USE DEF TypeOK
<1>1. /\ up => sup # "off" /\ sup # "clearing"
      /\ sup \in {"off", "restoring"} => client = 0
      /\ \A o \in Ops : FilterOf[o] \in Filters
      /\ Ops \subseteq Actors /\ Sup \in Actors
    BY FilterAssumption DEF SupervisorInv, Actors
<1>2. ASSUME NEW o \in Ops, Call(o) PROVE TypeOK'
  <2>1. pc' \in [Ops -> Places] /\ Elsewhere(o) /\ pc'[o] \notin Holding
    BY <1>2 DEF Call, Places, Elsewhere, Holding
  <2>2. LockOK
    BY <2>1, OneHolder
  <2>3. QED
    BY <1>2, <2>1, <2>2 DEF Call, Places, supervisor, link, interrupts, requests, broker
<1>3. ASSUME NEW o \in Ops, \/ Refused(o) \/ Join(o) \/ Opened(o) \/ Rejected(o)
                            \/ Invalidated(o) \/ Undone(o) \/ Compensated(o) \/ Escape(o)
                            \/ Forget(o) \/ Removed(o)
      PROVE  TypeOK'
  <2>1. PICK where \in {"open", "done"} : Goes(o, where)
    BY <1>3 DEF Refused, Join, Opened, Rejected, Invalidated, Undone, Compensated, Escape,
                Forget, Removed
  <2>2. /\ pc' \in [Ops -> Places] /\ Elsewhere(o) /\ pc'[o] \notin Holding
        /\ cancel' \in [Ops -> BOOLEAN]
    BY <2>1, GoesTo DEF Places, Holding
  <2>3. LockOK
    BY <2>2, OneHolder
  <2>4. /\ own' \in [Ops -> 0..MaxSessions] /\ registered' \subseteq Ops /\ ready' \in BOOLEAN
        /\ client' \in {0, session} /\ connected' \in BOOLEAN /\ escaped' \in BOOLEAN
    BY <1>3 DEF Refused, Join, Opened, Rejected, Invalidated, Undone, Compensated, Escape,
                Forget, Removed, Resume, Live, link, call
  <2>5. UNCHANGED <<supervisor, session, up, seen, suspended, cancels, closing, requests, broker>>
    BY <1>3 DEF Refused, Join, Opened, Rejected, Invalidated, Undone, Compensated, Escape,
                Forget, Removed, link, call
  <2>6. QED
    BY <2>2, <2>3, <2>4, <2>5 DEF Places, supervisor, requests, broker
<1>4. ASSUME NEW o \in Ops, Interrupted(o) PROVE TypeOK'
  <2>1. pc' \in [Ops -> Places] /\ Elsewhere(o) /\ cancel' \in [Ops -> BOOLEAN]
    BY <1>4, GoesTo DEF Interrupted, Places, Holding
  <2>2. LockOK
    BY <1>4, <2>1, OneHolder DEF Interrupted, Holding
  <2>3. QED
    BY <1>4, <2>1, <2>2 DEF Interrupted, Places, supervisor, link, call, requests, broker
<1>5. ASSUME NEW o \in Ops, Ambiguous(o) PROVE TypeOK'
  <2>1. pc' \in [Ops -> Places] /\ Elsewhere(o) /\ cancel' \in [Ops -> BOOLEAN]
    BY <1>5, GoesTo DEF Ambiguous, Places, Holding
  <2>2. LockOK
    BY <1>5, <2>1, OneHolder DEF Ambiguous, Holding
  <2>3. /\ up' \in BOOLEAN /\ (up' => up) /\ wire' \in Seq(Requests) /\ brokerSubs' \subseteq Filters
        /\ ~up' => wire' = <<>> /\ brokerSubs' = {}
    BY <1>5, MayDie DEF Ambiguous
  <2>4. QED
    BY <1>1, <1>5, <2>1, <2>2, <2>3 DEF Ambiguous, Places, Requests, supervisor, call, requests
<1>6. ASSUME NEW o \in Ops, Subscribe(o) \/ Outlived(o) \/ Undo(o) \/ Unsubscribe(o)
      PROVE  TypeOK'
  <2>1. PICK where \in Holding : Goes(o, where)
    BY <1>6 DEF Subscribe, Outlived, Undo, Unsubscribe, Holding
  <2>2. /\ pc' \in [Ops -> Places] /\ Elsewhere(o) /\ cancel' \in [Ops -> BOOLEAN]
    BY <2>1, GoesTo DEF Places
  <2>3. LockOK
    BY <1>6, <2>2, OneHolder DEF Subscribe, Outlived, Undo, Unsubscribe, Holding
  <2>4. PICK k \in {"sub", "unsub"} : Request(o, k, FilterOf[o])
    BY <1>6 DEF Subscribe, Outlived, Undo, Unsubscribe
  <2>5. /\ task' \in [Actors -> {"none", "sub", "unsub"}] /\ reply' \in [Actors -> Replies]
        /\ wire' \in Seq(Requests) /\ (~up => wire' = <<>>)
    BY <1>1, <2>4, Requested
  <2>6. /\ own' \in [Ops -> 0..MaxSessions] /\ suspended' \in [Ops -> BOOLEAN]
        /\ registered' \subseteq Ops /\ ready' \in BOOLEAN
    <3>1. CASE Subscribe(o)
      <4>1. (o \in Durable /\ ready) \in BOOLEAN /\ (ready /\ o \notin Durable) \in BOOLEAN
        OBVIOUS
      <4>2. QED
        BY <3>1, <4>1 DEF Subscribe
    <3>2. CASE Outlived(o) \/ Undo(o)
      BY <3>2 DEF Outlived, Undo, call
    <3>3. CASE Unsubscribe(o)
      BY <3>3 DEF Unsubscribe
    <3>4. QED
      BY <1>6, <3>1, <3>2, <3>3
  <2>7. UNCHANGED <<supervisor, link, seen, cancels, closing, brokerSubs, escaped>>
    BY <1>6 DEF Subscribe, Outlived, Undo, Unsubscribe, call
  <2>8. QED
    BY <2>2, <2>3, <2>5, <2>6, <2>7 DEF Places, Replies, Requests, supervisor, link
<1>7. ASSUME NEW o \in Ops, Cancel(o) PROVE TypeOK'
    BY <1>7, BoundAssumption DEF Cancel, supervisor, link, call, requests, broker
<1>8. ASSUME NEW r, Answer(r) PROVE TypeOK'
  <2>1. /\ task' \in [Actors -> {"none", "sub", "unsub"}] /\ reply' \in [Actors -> Replies]
        /\ wire' \in Seq(Requests) /\ up
    BY <1>8, Answered DEF requests, Replies
  <2>2. brokerSubs' \subseteq Filters
    <3>1. wire[1].filter \in Filters
      BY <1>8, Answered DEF Requests
    <3>2. brokerSubs' \subseteq brokerSubs \cup {wire[1].filter}
      BY <1>8, Answered
    <3>3. QED
      BY <3>1, <3>2
  <2>3. QED
    BY <1>8, <2>1, <2>2 DEF Answer, Replies, Requests, supervisor, link, call, interrupts
<1>9. ASSUME NEW a \in Actors, Fails(a) PROVE TypeOK'
  <2>1. /\ task' \in [Actors -> {"none", "sub", "unsub"}] /\ reply' \in [Actors -> Replies]
    BY <1>9, Failed
  <2>2. /\ up' \in BOOLEAN /\ (up' => up) /\ wire' \in Seq(Requests) /\ brokerSubs' \subseteq Filters
        /\ ~up' => wire' = <<>> /\ brokerSubs' = {}
    <3>1. SessionDies \/ UNCHANGED <<up, broker>>
      BY <1>9 DEF Fails
    <3>2. QED
      BY <3>1, MayDie
  <2>3. client' \in {0, session} /\ connected' \in BOOLEAN
    BY <1>9 DEF Fails
  <2>4. QED
    BY <1>1, <1>9, <2>1, <2>2, <2>3 DEF Fails, Replies, Requests, supervisor, call, interrupts
<1>10. CASE Drop \/ Connect \/ Close \/ CloseReturns
  <2>1. CASE Drop
    BY <2>1, MayDie DEF Drop, Requests, supervisor, call, interrupts, requests
  <2>2. CASE Connect
    <3>1. wire = <<>> /\ brokerSubs = {} /\ client = 0
      BY <1>1, <2>2 DEF Connect
    <3>2. session' \in 0..MaxSessions /\ client' \in {0, session'}
      BY <2>2, <3>1, BoundAssumption DEF Connect
    <3>3. QED
      BY <2>2, <3>1, <3>2 DEF Connect, call, interrupts, requests, broker
  <2>3. CASE Close
    <3>1. cancel' \in [Ops -> BOOLEAN]
      <4>1. \A o \in Ops : (pc[o] \in Holding \cup {"called"}) \in BOOLEAN
        OBVIOUS
      <4>2. QED
        BY <2>3, <4>1 DEF Close
    <3>2. task' \in [Actors -> {"none", "sub", "unsub"}] /\ reply' \in [Actors -> Replies]
      BY <2>3 DEF Close, Replies
    <3>3. QED
      BY <2>3, <3>1, <3>2 DEF Close, Replies, supervisor, link, call, broker
  <2>4. CASE CloseReturns
    BY <2>4 DEF CloseReturns, supervisor, call, interrupts, requests, broker
  <2>5. QED
    BY <1>10, <2>1, <2>2, <2>3, <2>4
<1>11. CASE Retract \/ Restore
  <2>1. PICK f \in Filters, k \in {"sub", "unsub"} : Request(Sup, k, f) /\ asked' = {f}
    BY <1>11 DEF Retract, Restore
  <2>2. /\ task' \in [Actors -> {"none", "sub", "unsub"}] /\ reply' \in [Actors -> Replies]
        /\ wire' \in Seq(Requests) /\ (~up => wire' = <<>>)
    BY <1>1, <2>1, Requested
  <2>3. QED
    BY <1>11, <2>1, <2>2 DEF Retract, Restore, Replies, Requests, link, call, interrupts
<1>12. CASE Restored \/ (\E i \in BOOLEAN : RestoreRejected(i)) \/ NextRound \/ Serve
  <2>1. CASE Restored
    BY <1>1, <2>1 DEF Restored, link, call, interrupts, broker
  <2>2. ASSUME NEW i \in BOOLEAN, RestoreRejected(i) PROVE TypeOK'
    <3>1. spoiled' \in BOOLEAN
      BY <2>2 DEF RestoreRejected
    <3>2. QED
      BY <1>1, <2>2, <3>1 DEF RestoreRejected, link, call, interrupts, broker
  <2>3. CASE NextRound
    BY <1>1, <2>3 DEF NextRound, Wanted, FiltersOf, link, call, interrupts, requests, broker
  <2>4. CASE Serve
    BY <2>4 DEF Serve, call, interrupts, requests, broker
  <2>5. QED
    BY <1>12, <2>1, <2>2, <2>3, <2>4
<1>13. CASE RestoreFailed \/ ConnectionEnded \/ SupervisorCancelled
  <2>1. EndsServing
    BY <1>13 DEF RestoreFailed, ConnectionEnded, SupervisorCancelled
  <2>2. ~up' /\ wire' = <<>> /\ wire' \in Seq(Requests) /\ brokerSubs' = {}
    BY <2>1, Died DEF EndsServing
  <2>3. task' \in [Actors -> {"none", "sub", "unsub"}] /\ reply' \in [Actors -> Replies]
    BY <2>1 DEF EndsServing, Replies
  <2>4. sup' = "clearing" /\ ~ready' /\ ready' \in BOOLEAN /\ spoiled' \in BOOLEAN
        /\ required' = {} /\ restored' = {} /\ asked' = {} /\ up' \in BOOLEAN
    BY <2>1 DEF EndsServing, SessionDies
  <2>5. UNCHANGED <<session, connected, client, pc, call, interrupts, registered, escaped>>
    BY <2>1 DEF EndsServing
  <2>6. QED
    BY <1>1, <2>2, <2>3, <2>4, <2>5 DEF Requests, Replies, call, interrupts
<1>14. CASE Clear
    BY <1>1, <1>14 DEF Clear, Kept, call, interrupts, requests, broker
<1>15. CASE UNCHANGED vars
    BY <1>15 DEF vars, supervisor, link, call, interrupts, requests, broker
<1>16. QED
    BY <1>2, <1>3, <1>4, <1>5, <1>6, <1>7, <1>8, <1>9, <1>10, <1>11, <1>12, <1>13, <1>14, <1>15
       DEF Next, CallStep, SupervisorStep

----------------------------------------------------------------------------
(* What a step of one call leaves alone.                                   *)
OpStep(o) == Call(o) \/ CallStep(o) \/ Cancel(o) \/ Forget(o) \/ Unsubscribe(o)

OpShape(o) ==
    /\ UNCHANGED <<sup, required, restored, asked, spoiled, session, closing>>
    /\ \A p \in Ops \ {o} : /\ pc'[p] = pc[p] /\ seen'[p] = seen[p]
                            /\ own'[p] = own[p] /\ suspended'[p] = suspended[p]
    /\ \A a \in Actors \ {o} : task'[a] = task[a] /\ reply'[a] = reply[a]
    /\ registered' \ {o} = registered \ {o}
    /\ pc[o] = "invalidating" \/ UNCHANGED <<client, connected>>
    /\ client' \in {0, client}
    /\ SessionDies \/ UNCHANGED <<up, brokerSubs>>
    /\ \/ UNCHANGED requests /\ (SessionDies \/ wire' = wire)
       \/ pc'[o] \in Holding /\ \E k \in {"sub", "unsub"} : Request(o, k, FilterOf[o])

LEMMA OpStepShape ==
    ASSUME TypeOK, NEW o \in Ops, OpStep(o)
    PROVE  OpShape(o)
<1> USE DEF OpShape, supervisor, link, call, interrupts, requests, broker
<1>1. CASE Call(o)
    BY <1>1 DEF Call, TypeOK
<1>2. ASSUME NEW where \in Places, Goes(o, where) PROVE \A p \in Ops \ {o} : pc'[p] = pc[p]
    BY <1>2, GoesTo DEF Elsewhere
<1>3. CASE Refused(o) \/ Join(o) \/ Opened(o)
  <2>1. \A p \in Ops \ {o} : pc'[p] = pc[p] /\ own'[p] = own[p]
    BY <1>2, <1>3 DEF Refused, Join, Opened, Places, TypeOK
  <2>2. QED
    BY <1>3, <2>1 DEF Refused, Join, Opened
<1>4. CASE Rejected(o) \/ Invalidated(o) \/ Interrupted(o) \/ Undone(o) \/ Compensated(o) \/ Removed(o)
  <2>1. \A p \in Ops \ {o} : pc'[p] = pc[p]
    BY <1>2, <1>4 DEF Rejected, Invalidated, Interrupted, Undone, Compensated, Removed, Places, Holding
  <2>2. QED
    BY <1>4, <2>1 DEF Rejected, Invalidated, Interrupted, Undone, Compensated, Removed
<1>5. CASE Ambiguous(o)
  <2>1. \A p \in Ops \ {o} : pc'[p] = pc[p]
    BY <1>2, <1>5 DEF Ambiguous, Places, Holding
  <2>2. QED
    BY <1>5, <2>1 DEF Ambiguous
<1>6. CASE Escape(o) \/ Forget(o) \/ Cancel(o)
  <2>1. \A p \in Ops \ {o} : pc'[p] = pc[p]
    BY <1>2, <1>6 DEF Escape, Forget, Cancel, Places
  <2>2. QED
    BY <1>6, <2>1 DEF Escape, Forget, Cancel
<1>7. CASE Subscribe(o) \/ Outlived(o) \/ Undo(o) \/ Unsubscribe(o)
  <2>1. PICK k \in {"sub", "unsub"} : Request(o, k, FilterOf[o])
    BY <1>7 DEF Subscribe, Outlived, Undo, Unsubscribe
  <2>2. o \in Actors /\ FilterOf[o] \in Filters
    BY FilterAssumption DEF Actors
  <2>3. \A a \in Actors \ {o} : task'[a] = task[a] /\ reply'[a] = reply[a]
    BY <2>1, <2>2, Requested
  <2>4. \A p \in Ops \ {o} : pc'[p] = pc[p] /\ own'[p] = own[p] /\ suspended'[p] = suspended[p]
    BY <1>2, <1>7 DEF Subscribe, Outlived, Undo, Unsubscribe, Places, Holding, TypeOK
  <2>5. pc'[o] \in Holding
    BY <1>7, GoesTo DEF Subscribe, Outlived, Undo, Unsubscribe, Places, Holding
  <2>6. QED
    BY <1>7, <2>1, <2>3, <2>4, <2>5 DEF Subscribe, Outlived, Undo, Unsubscribe
<1>8. QED
    BY <1>1, <1>3, <1>4, <1>5, <1>6, <1>7 DEF OpStep, CallStep

----------------------------------------------------------------------------
(* The supervisor and the calls.                                           *)
LEMMA Grows ==
    ASSUME NEW o \in Ops, OpStep(o), ~(registered' \subseteq registered)
    PROVE  /\ client # 0 /\ ~closing /\ registered' = registered \cup {o}
           /\ \/ LockFree /\ \E p \in registered : FilterOf[p] = FilterOf[o]
              \/ pc[o] = "subscribing" /\ reply[o] = "granted"
<1>1. Join(o) \/ Opened(o)
    BY DEF OpStep, CallStep, Call, Cancel, Forget, Unsubscribe, Refused, Subscribe, Outlived,
           Rejected, Ambiguous, Invalidated, Interrupted, Undo, Undone, Compensated, Escape, Removed
<1>2. QED
    BY <1>1 DEF Join, Opened, Admitted, Live, FiltersOf

LEMMA Takes ==
    ASSUME TypeOK, NEW o \in Ops, OpStep(o), pc'[o] \in Holding
    PROVE  pc[o] \in Holding \/ (LockFree /\ client # 0)
<1>1. \/ Subscribe(o) \/ Unsubscribe(o) \/ pc[o] \in Holding
      \/ Call(o) \/ Refused(o) \/ Join(o) \/ Forget(o) \/ Cancel(o)
    BY DEF OpStep, CallStep, Opened, Outlived, Rejected, Ambiguous, Invalidated, Interrupted,
           Undo, Undone, Compensated, Escape, Removed, Holding
<1>2. CASE Refused(o) \/ Join(o) \/ Forget(o)
  <2>1. pc'[o] \in {"open", "done"}
    BY <1>2, GoesTo DEF Refused, Join, Forget, Places
  <2>2. QED
    BY <2>1 DEF Holding
<1>3. CASE Call(o) \/ Cancel(o)
    BY <1>3 DEF Call, Cancel, TypeOK, Holding
<1>4. QED
    BY <1>1, <1>2, <1>3 DEF Subscribe, Unsubscribe, Admitted

LEMMA SupervisorInvStep ==
    ASSUME IInv, TypeOK', [Next]_vars
    PROVE  SupervisorInv'
<1>1. /\ TypeOK /\ SupervisorInv /\ RestoringInv /\ WireInv
      /\ Sup \in Actors /\ (\A o \in Ops : o \in Actors /\ o # Sup)
    BY OpsAssumption DEF IInv, Actors
<1>2. ASSUME UNCHANGED <<sup, client, registered, pc, session>>, up' => up,
             sup # "restoring" => task'[Sup] = task[Sup] /\ reply'[Sup] = reply[Sup]
      PROVE  SupervisorInv'
    BY <1>1, <1>2 DEF SupervisorInv
<1>3. ASSUME NEW o \in Ops, OpStep(o) PROVE SupervisorInv'
  <2>1. OpShape(o)
    BY <1>1, <1>3, OpStepShape
  <2>2. /\ sup' = sup /\ task'[Sup] = task[Sup] /\ reply'[Sup] = reply[Sup] /\ (up' => up)
        /\ session' = session
    BY <1>1, <2>1 DEF OpShape, SessionDies
  <2>3. ASSUME sup \in {"off", "restoring"}
        PROVE  client' = 0 /\ registered' \subseteq Durable /\ \A p \in Ops : pc'[p] \notin Holding
    <3>1. client = 0 /\ registered \subseteq Durable /\ \A p \in Ops : pc[p] \notin Holding
      BY <1>1, <2>3 DEF SupervisorInv
    <3>2. registered' \subseteq registered
      BY <1>3, <3>1, Grows
    <3>3. pc'[o] \notin Holding
      BY <1>1, <1>3, <3>1, Takes
    <3>4. QED
      BY <2>1, <3>1, <3>2, <3>3 DEF OpShape
  <2>4. QED
    BY <1>1, <2>2, <2>3 DEF SupervisorInv
<1>4. ASSUME NEW r, Answer(r) PROVE SupervisorInv'
  <2>1. sup # "restoring" => task'[Sup] = task[Sup] /\ reply'[Sup] = reply[Sup]
    <3>1. wire[1] \in Requests
      BY <1>1, <1>4, Answered
    <3>2. wire[1].kind \in {"sub", "unsub"}
      BY <3>1 DEF Requests
    <3>3. QED
      BY <1>1, <1>4, <3>2, Answered DEF SupervisorInv, requests
  <2>2. QED
    BY <1>2, <1>4, <2>1 DEF Answer, supervisor, link
<1>5. ASSUME NEW a \in Actors, Fails(a) PROVE SupervisorInv'
  <2>1. sup # "restoring" => task'[Sup] = task[Sup] /\ reply'[Sup] = reply[Sup]
    BY <1>1, <1>5, Failed DEF SupervisorInv
  <2>2. UNCHANGED <<sup, registered, pc, session>> /\ (up' => up) /\ client' \in {0, client}
    BY <1>5 DEF Fails, supervisor, SessionDies
  <2>3. QED
    BY <1>1, <2>1, <2>2 DEF SupervisorInv
<1>6. CASE Drop \/ UNCHANGED vars
    BY <1>2, <1>6 DEF Drop, SessionDies, vars, supervisor, link, requests
<1>7. CASE Connect
  <2>1. session' > 0 /\ sup = "off" /\ sup' = "restoring"
    BY <1>1, <1>7 DEF Connect, TypeOK
  <2>2. UNCHANGED <<client, registered, pc>>
    BY <1>7 DEF Connect
  <2>3. QED
    BY <1>1, <2>1, <2>2 DEF SupervisorInv
<1>8. CASE Close
    BY <1>1, <1>2, <1>8 DEF Close, supervisor, link
<1>9. CASE CloseReturns
    BY <1>1, <1>9 DEF CloseReturns, supervisor, requests, SupervisorInv
<1>10. CASE Retract \/ Restore \/ Restored \/ NextRound \/ (\E i \in BOOLEAN : RestoreRejected(i))
  <2>1. sup = "restoring" /\ UNCHANGED <<sup, up, client, pc, session>> /\ registered' \subseteq registered
    BY <1>10 DEF Retract, Restore, Restored, NextRound, RestoreRejected, Restoring, RoundDone, link
  <2>2. QED
    BY <1>1, <2>1 DEF SupervisorInv
<1>11. CASE Serve
  <2>1. /\ sup = "restoring" /\ sup' = "serving" /\ session' = session
        /\ UNCHANGED requests /\ task[Sup] = "none" /\ reply[Sup] = "none"
    BY <1>11 DEF Serve, RoundDone, Restoring
  <2>2. QED
    BY <1>1, <2>1 DEF SupervisorInv, requests
<1>12. CASE RestoreFailed \/ ConnectionEnded \/ SupervisorCancelled
  <2>1. EndsServing
    BY <1>12 DEF RestoreFailed, ConnectionEnded, SupervisorCancelled
  <2>2. sup' = "clearing" /\ ~up' /\ task'[Sup] = "none" /\ reply'[Sup] = "none"
    BY <1>1, <2>1 DEF EndsServing, SessionDies, TypeOK
  <2>3. sup # "off" /\ session' = session
    BY <1>12, <2>1 DEF EndsServing, RestoreFailed, ConnectionEnded, SupervisorCancelled, RoundDone,
                       Restoring
  <2>4. QED
    BY <1>1, <2>2, <2>3 DEF SupervisorInv
<1>13. CASE Clear
    BY <1>1, <1>13 DEF Clear, Kept, LockFree, SupervisorInv, requests
<1>14. QED
    BY <1>3, <1>4, <1>5, <1>6, <1>7, <1>8, <1>9, <1>10, <1>11, <1>12, <1>13
       DEF Next, OpStep, SupervisorStep

(* The call that takes a step.                                             *)
LEMMA OwnCallInv ==
    ASSUME TypeOK, NEW o \in Ops, CallInv(o), OpStep(o), WireInv,
           \A p \in Ops : p \in registered => pc[p] = "open"
    PROVE  CallInv(o)'
<1> USE DEF CallInv, supervisor, link, call, interrupts, requests, broker
<1>1. o \in Actors /\ FilterOf[o] \in Filters /\ OpShape(o)
    BY OpStepShape, FilterAssumption DEF Actors
<1>2. ASSUME NEW where \in Places, Goes(o, where) PROVE pc'[o] = where
    BY <1>2, GoesTo
<1>3. CASE Call(o) \/ Cancel(o)
  <2>1. /\ task'[o] = task[o] /\ reply'[o] = reply[o] /\ own'[o] = own[o]
        /\ session' = session /\ registered' = registered
        /\ \/ pc'[o] = pc[o] /\ seen'[o] = seen[o]
           \/ pc'[o] = "called" /\ pc[o] = "idle"
    <3>1. CASE Call(o)
      BY <3>1 DEF Call, TypeOK
    <3>2. CASE Cancel(o)
      BY <3>2 DEF Cancel
    <3>3. QED
      BY <1>3, <3>1, <3>2
  <2>2. QED
    BY <2>1 DEF Holding, Asking
<1>4. CASE Refused(o) \/ Rejected(o) \/ Undone(o) \/ Compensated(o) \/ Escape(o) \/ Removed(o)
  <2>1. /\ pc'[o] = "done" /\ task'[o] = task[o] /\ own'[o] = own[o] /\ session' = session
        /\ registered' = registered /\ o \notin registered
    BY <1>2, <1>4 DEF Refused, Rejected, Undone, Compensated, Escape, Removed, Places
  <2>2. QED
    BY <2>1 DEF Holding, Asking
<1>5. CASE Join(o)
  <2>1. /\ pc'[o] = "open" /\ own'[o] = session /\ seen'[o] = seen[o] /\ session' = session
        /\ o \in Pinned => seen[o] = session
    BY <1>2, <1>5 DEF Join, Places, Admitted, TypeOK
  <2>2. QED
    BY <2>1 DEF Holding, Asking
<1>6. CASE Subscribe(o)
  <2>1. /\ pc'[o] = "subscribing" /\ own'[o] = session /\ seen'[o] = seen[o] /\ session' = session
        /\ o \in Pinned => seen[o] = session
        /\ registered' = registered /\ \A p \in registered : FilterOf[p] # FilterOf[o]
    BY <1>2, <1>6 DEF Subscribe, Places, Holding, Admitted, FiltersOf, TypeOK
  <2>2. o \notin registered
    BY <1>6 DEF Subscribe
  <2>3. QED
    BY <2>1, <2>2 DEF Holding, Asking
<1>7. CASE Opened(o)
  <2>1. /\ pc'[o] = "open" /\ own'[o] = session /\ seen'[o] = seen[o] /\ session' = session
        /\ o \in Pinned => seen[o] = own[o]
        /\ own[o] = session
    BY <1>2, <1>7 DEF Opened, Places, Holding, Asking
  <2>2. QED
    BY <2>1 DEF Holding, Asking
<1>8. CASE Outlived(o) \/ Undo(o)
  <2>1. /\ pc'[o] \in {"compensating", "undoing"} /\ own'[o] = own[o] /\ session' = session
        /\ own[o] = session /\ registered' = registered /\ o \notin registered
    BY <1>2, <1>8 DEF Outlived, Undo, Places, Holding
  <2>2. QED
    BY <2>1 DEF Holding, Asking
<1>9. CASE Ambiguous(o) \/ Invalidated(o)
  <2>1. /\ pc'[o] \in {"invalidating", "done"} /\ own'[o] = own[o] /\ session' = session
        /\ own[o] = session /\ registered' = registered /\ o \notin registered
    BY <1>2, <1>9 DEF Ambiguous, Invalidated, Places, Holding
  <2>2. QED
    BY <2>1 DEF Holding, Asking
<1>10. CASE Interrupted(o)
  <2>1. /\ pc'[o] = "cancelled" /\ own'[o] = own[o] /\ session' = session /\ seen'[o] = seen[o]
        /\ registered' = registered /\ pc[o] = "subscribing"
    BY <1>2, <1>10 DEF Interrupted, Places, Holding
  <2>2. QED
    BY <2>1 DEF Holding, Asking
<1>11. CASE Forget(o)
  <2>1. /\ pc'[o] = "done" /\ task'[o] = task[o] /\ own'[o] = own[o] /\ session' = session
        /\ o \notin registered'
    BY <1>2, <1>11 DEF Forget, Places
  <2>2. QED
    BY <2>1 DEF Holding, Asking
<1>12. CASE Unsubscribe(o)
  <2>1. pc'[o] = "removing" /\ own'[o] = session /\ session' = session /\ o \notin registered'
    BY <1>2, <1>12 DEF Unsubscribe, Places, Holding, TypeOK
  <2>2. QED
    BY <2>1 DEF Holding, Asking
<1>13. QED
    BY <1>3, <1>4, <1>5, <1>6, <1>7, <1>8, <1>9, <1>10, <1>11, <1>12 DEF OpStep, CallStep

LEMMA CallInvStep ==
    ASSUME IInv, TypeOK', [Next]_vars, NEW p \in Ops
    PROVE  CallInv(p)'
<1>1. /\ TypeOK /\ SupervisorInv /\ WireInv /\ (\A o \in Ops : CallInv(o)) /\ CallInv(p)
      /\ p \in Actors /\ p # Sup
    BY OpsAssumption DEF IInv, Actors
<1>2. ASSUME /\ pc'[p] = pc[p] /\ own'[p] = own[p] /\ seen'[p] = seen[p] /\ session' = session
             /\ registered' \subseteq registered
             /\ task'[p] \in {task[p], "none"} /\ (task[p] = "none" => reply'[p] = reply[p])
      PROVE  CallInv(p)'
    BY <1>1, <1>2 DEF CallInv, Asking
<1>3. ASSUME NEW o \in Ops, OpStep(o) PROVE CallInv(p)'
  <2>1. OpShape(o)
    BY <1>1, <1>3, OpStepShape
  <2>2. CASE p = o
    BY <1>1, <1>3, <2>2, OwnCallInv DEF CallInv
  <2>3. CASE p # o
    <3>1. /\ pc'[p] = pc[p] /\ own'[p] = own[p] /\ seen'[p] = seen[p] /\ session' = session
          /\ task'[p] = task[p] /\ reply'[p] = reply[p] /\ (p \in registered' <=> p \in registered)
      BY <1>1, <2>1, <2>3 DEF OpShape
    <3>2. CASE registered' \subseteq registered
      BY <1>2, <3>1, <3>2
    <3>3. CASE ~(registered' \subseteq registered)
      <4>1. /\ registered' = registered \cup {o}
            /\ LockFree \/ pc[o] = "subscribing"
        BY <1>3, <3>3, Grows
      <4>2. pc[p] \notin Asking
        BY <2>3, <4>1, <1>1 DEF LockFree, Asking, Holding, TypeOK
      <4>3. QED
        BY <1>1, <3>1, <4>2 DEF CallInv
    <3>4. QED
      BY <3>2, <3>3
  <2>4. QED
    BY <2>2, <2>3
<1>4. ASSUME NEW r, Answer(r) PROVE CallInv(p)'
  <2>1. wire[1].kind \in {"sub", "unsub"}
    BY <1>1, <1>4, Answered DEF Requests
  <2>2. task'[p] \in {task[p], "none"} /\ (task[p] = "none" => reply'[p] = reply[p])
    BY <1>1, <1>4, <2>1, Answered DEF requests
  <2>3. QED
    BY <1>2, <1>4, <2>2 DEF Answer, link, call
<1>5. ASSUME NEW a \in Actors, Fails(a) PROVE CallInv(p)'
  <2>1. task'[p] \in {task[p], "none"} /\ (task[p] = "none" => reply'[p] = reply[p])
    BY <1>1, <1>5, Failed
  <2>2. QED
    BY <1>2, <1>5, <2>1 DEF Fails, call
<1>6. CASE Drop \/ UNCHANGED vars
    BY <1>2, <1>6 DEF Drop, vars, link, requests, call
<1>7. CASE Connect
  <2>1. /\ task[p] = "none" /\ pc[p] \notin Holding /\ registered \subseteq Durable
    BY <1>1, <1>7 DEF Connect, SupervisorInv
  <2>2. UNCHANGED <<pc, registered, requests>>
    BY <1>7 DEF Connect
  <2>3. QED
    BY <1>1, <2>1, <2>2 DEF CallInv, requests, Asking, Holding
<1>8. CASE Close
    BY <1>1, <1>2, <1>8 DEF Close, link, call
<1>9. CASE CloseReturns \/ Clear
    BY <1>1, <1>2, <1>9 DEF CloseReturns, Clear, Kept, call, requests
<1>10. CASE Retract \/ Restore
  <2>1. PICK f \in Filters, k \in {"sub", "unsub"} : Request(Sup, k, f)
    BY <1>10, <1>1 DEF Retract, Restore, TypeOK
  <2>2. task'[p] = task[p] /\ reply'[p] = reply[p]
    <3>1. Sup \in Actors
      BY DEF Actors
    <3>2. QED
      BY <1>1, <2>1, <3>1, Requested
  <2>3. QED
    BY <1>2, <1>10, <2>2 DEF Retract, Restore, link, call
<1>11. CASE Restored \/ (\E i \in BOOLEAN : RestoreRejected(i)) \/ NextRound \/ Serve
  <2>1. UNCHANGED <<pc, own, seen, session, task>> /\ registered' \subseteq registered
    BY <1>11 DEF Restored, RestoreRejected, NextRound, Serve, link, call, requests
  <2>2. reply'[p] = reply[p]
    BY <1>1, <1>11 DEF Restored, RestoreRejected, NextRound, Serve, requests, TypeOK
  <2>3. QED
    BY <1>2, <2>1, <2>2
<1>12. CASE RestoreFailed \/ ConnectionEnded \/ SupervisorCancelled
  <2>1. EndsServing
    BY <1>12 DEF RestoreFailed, ConnectionEnded, SupervisorCancelled
  <2>2. task'[p] = task[p] /\ reply'[p] = reply[p]
    BY <1>1, <2>1 DEF EndsServing, TypeOK
  <2>3. QED
    BY <1>2, <2>1, <2>2 DEF EndsServing, call
<1>13. QED
    BY <1>3, <1>4, <1>5, <1>6, <1>7, <1>8, <1>9, <1>10, <1>11, <1>12
       DEF Next, OpStep, SupervisorStep

----------------------------------------------------------------------------
(* The wire.                                                               *)
LEMMA Starts ==
    ASSUME TypeOK, NEW o \in Ops, OpStep(o), pc'[o] \in {"idle", "called"}
    PROVE  pc[o] \in {"idle", "called"}
<1>1. ASSUME NEW where \in Places, Goes(o, where) PROVE pc'[o] = where
    BY <1>1, GoesTo
<1>2. \/ Call(o) \/ Cancel(o)
      \/ \E where \in {"open", "done", "subscribing", "compensating", "invalidating",
                       "cancelled", "undoing", "removing"} : Goes(o, where)
    BY DEF OpStep, CallStep, Refused, Join, Subscribe, Opened, Outlived, Rejected, Ambiguous,
           Invalidated, Interrupted, Undo, Undone, Compensated, Escape, Removed, Forget, Unsubscribe
<1>3. CASE Call(o) \/ Cancel(o)
    BY <1>3 DEF Call, Cancel
<1>4. QED
    BY <1>1, <1>2, <1>3 DEF Places, Holding

(* Between sessions and in a restore round a call only waits or leaves.      *)
LEMMA Waits ==
    ASSUME TypeOK, NEW o \in Ops, OpStep(o), client = 0, pc[o] \notin Holding
    PROVE  UNCHANGED <<requests, wire, brokerSubs, up, ready, client, connected>>
<1>1. Call(o) \/ Refused(o) \/ Forget(o) \/ Cancel(o)
    BY DEF OpStep, CallStep, Join, Subscribe, Opened, Outlived, Rejected, Ambiguous, Invalidated,
           Interrupted, Undo, Undone, Compensated, Escape, Removed, Unsubscribe, Admitted, Holding
<1>2. QED
    BY <1>1 DEF Call, Refused, Forget, Cancel, requests, broker, link

(* When the supervisor has no request, nothing is on the wire, and the       *)
(* broker has what was restored.                                           *)
LEMMA BetweenRequests ==
    ASSUME TypeOK, RestoringInv, sup = "restoring", task[Sup] = "none", reply[Sup] = "none"
    PROVE  wire = <<>> /\ (up => brokerSubs = restored /\ (connected \/ closing))
<1>1. CASE up
  <2>1. wire # <<>> => 1 \in DOMAIN wire
    BY WireTypes
  <2>2. wire # <<>> => wire[1].kind \in {"sub", "unsub"}
    BY <2>1, WireTypes DEF Requests
  <2>3. QED
    BY <1>1, <2>2 DEF RestoringInv, Achieved
<1>2. CASE ~up
    BY <1>2 DEF TypeOK
<1>3. QED
    BY <1>1, <1>2

LEMMA WireInvStep ==
    ASSUME IInv, TypeOK', [Next]_vars
    PROVE  WireInv'
<1>1. /\ TypeOK /\ SupervisorInv /\ WireInv /\ RestoringInv /\ (\A o \in Ops : CallInv(o))
      /\ Sup \in Actors /\ (\A o \in Ops : o \in Actors /\ o # Sup)
    BY OpsAssumption DEF IInv, Actors
<1>2. /\ \A i \in DOMAIN wire : wire[i] \in Requests
      /\ wire \in Seq(Requests) /\ Len(wire) \in Nat /\ DOMAIN wire = 1..Len(wire)
      /\ DOMAIN <<>> = {}
    BY <1>1, WireTypes
<1>3. ASSUME UNCHANGED <<sup, pc, requests>>, wire' = wire \/ wire' = <<>>
      PROVE  WireInv'
    BY <1>1, <1>2, <1>3 DEF WireInv, requests
<1>4. ASSUME NEW o \in Ops, OpStep(o) PROVE WireInv'
  <2>1. OpShape(o) /\ FilterOf[o] \in Filters
    BY <1>1, <1>4, OpStepShape, FilterAssumption
  <2>2. \A p \in Ops : pc'[p] \in {"idle", "called"} => pc[p] \in {"idle", "called"}
    BY <1>1, <1>4, <2>1, Starts DEF OpShape
  <2>3. CASE UNCHANGED requests /\ (wire' = <<>> \/ wire' = wire)
    <3>1. sup' = sup
      BY <2>1 DEF OpShape
    <3>2. QED
      BY <1>1, <1>2, <2>2, <2>3, <3>1 DEF WireInv, requests, Requests
  <2>4. ASSUME NEW k \in {"sub", "unsub"}, Request(o, k, FilterOf[o]), pc'[o] \in Holding
        PROVE  WireInv'
    <3>1. sup' = sup /\ sup # "restoring"
      BY <1>1, <1>4, <2>1, <2>4, Takes DEF OpShape, SupervisorInv
    <3>2. \A a \in Actors : reply'[a] # "none" => task'[a] = "none"
      BY <1>1, <2>1, <2>4, Requested DEF WireInv
    <3>3. CASE up
      <4>1. /\ DOMAIN wire' = 1..(Len(wire) + 1) /\ \A i \in 1..Len(wire) : wire'[i] = wire[i]
            /\ wire'[Len(wire) + 1] = [who |-> o, kind |-> k, filter |-> FilterOf[o]]
        BY <1>1, <2>1, <2>4, <3>3, Requested
      <4>2. \A i \in DOMAIN wire' : i \in DOMAIN wire \/ i = Len(wire) + 1
        BY <1>2, <4>1
      <4>3. pc'[o] \notin {"idle", "called"}
        BY <2>4 DEF Holding
      <4>4. ASSUME NEW i \in DOMAIN wire'
            PROVE  /\ wire'[i].who \in Ops /\ wire'[i].filter = FilterOf[wire'[i].who]
                   /\ pc'[wire'[i].who] \notin {"idle", "called"}
        <5>1. CASE i \in DOMAIN wire
          BY <1>1, <1>2, <2>2, <3>1, <4>1, <5>1 DEF WireInv
        <5>2. CASE i = Len(wire) + 1
          BY <4>1, <4>3, <5>2
        <5>3. QED
          BY <4>2, <5>1, <5>2
      <4>5. QED
        BY <3>1, <3>2, <4>4 DEF WireInv
    <3>4. CASE ~up
      <4>1. wire' = wire /\ wire = <<>>
        BY <1>1, <2>1, <2>4, <3>4, Requested DEF TypeOK
      <4>2. QED
        BY <1>2, <3>2, <4>1 DEF WireInv
    <3>5. QED
      BY <3>3, <3>4
  <2>5. QED
    BY <2>1, <2>3, <2>4, Died DEF OpShape
<1>5. ASSUME NEW r, Answer(r) PROVE WireInv'
  <2>1. \A a \in Actors : reply'[a] # "none" => task'[a] = "none"
    BY <1>1, <1>5, Answered DEF WireInv, requests
  <2>2. /\ DOMAIN wire' = 1..(Len(wire) - 1)
        /\ \A i \in 1..(Len(wire) - 1) : wire'[i] = wire[i + 1] /\ i + 1 \in DOMAIN wire
    <3>1. /\ DOMAIN wire' = 1..(Len(wire) - 1)
          /\ \A i \in 1..(Len(wire) - 1) : wire'[i] = wire[i + 1]
      BY <1>1, <1>5, Answered
    <3>2. \A i \in 1..(Len(wire) - 1) : i + 1 \in DOMAIN wire
      BY <1>2
    <3>3. QED
      BY <3>1, <3>2
  <2>3. sup' = sup /\ pc' = pc
    BY <1>5 DEF Answer, supervisor
  <2>4. \A i \in DOMAIN wire' : \E j \in DOMAIN wire : wire'[i] = wire[j]
    BY <2>2
  <2>5. QED
    BY <1>1, <2>1, <2>3, <2>4 DEF WireInv
<1>6. ASSUME NEW a \in Actors, Fails(a) PROVE WireInv'
  <2>1. \A b \in Actors : reply'[b] # "none" => task'[b] = "none"
    BY <1>1, <1>6, Failed DEF WireInv
  <2>2. sup' = sup /\ pc' = pc /\ (wire' = wire \/ wire' = <<>>)
    BY <1>6 DEF Fails, supervisor, SessionDies, broker
  <2>3. QED
    BY <1>1, <1>2, <2>1, <2>2 DEF WireInv
<1>7. CASE Drop \/ CloseReturns \/ UNCHANGED vars
    BY <1>3, <1>7 DEF Drop, CloseReturns, vars, SessionDies, supervisor, broker
<1>8. CASE Connect
  <2>1. wire' = <<>> /\ UNCHANGED requests
    BY <1>1, <1>8 DEF Connect, TypeOK, broker
  <2>2. QED
    BY <1>1, <1>2, <2>1 DEF WireInv, requests
<1>9. CASE Close
  <2>1. \A a \in Actors : reply'[a] # "none" => task'[a] = "none"
    BY <1>1, <1>9 DEF Close, WireInv
  <2>2. UNCHANGED <<sup, pc, wire>>
    BY <1>9 DEF Close, supervisor, broker
  <2>3. QED
    BY <1>1, <2>1, <2>2 DEF WireInv
<1>10. CASE Retract \/ Restore
  <2>1. PICK f \in Filters, k \in {"sub", "unsub"} : Request(Sup, k, f)
    BY <1>10, <1>1 DEF Retract, Restore, TypeOK
  <2>2. sup = "restoring" /\ sup' = sup /\ pc' = pc
    BY <1>10 DEF Retract, Restore, Restoring
  <2>3. \A a \in Actors : reply'[a] # "none" => task'[a] = "none"
    BY <1>1, <2>1, Requested DEF WireInv
  <2>4. \A i \in DOMAIN wire' : (i \in DOMAIN wire /\ wire'[i] = wire[i]) \/ wire'[i].who = Sup
    <3>1. CASE up
      <4>1. /\ DOMAIN wire' = 1..(Len(wire) + 1) /\ \A i \in 1..Len(wire) : wire'[i] = wire[i]
            /\ wire'[Len(wire) + 1] = [who |-> Sup, kind |-> k, filter |-> f]
        BY <1>1, <2>1, <3>1, Requested
      <4>2. \A i \in 1..(Len(wire) + 1) : i \in 1..Len(wire) \/ i = Len(wire) + 1
        BY <1>2
      <4>3. QED
        BY <1>2, <4>1, <4>2
    <3>2. CASE ~up
      BY <1>1, <2>1, <3>2, Requested
    <3>3. QED
      BY <3>1, <3>2
  <2>5. \A i \in DOMAIN wire' : wire'[i].who = Sup
    BY <1>1, <2>2, <2>4 DEF WireInv
  <2>6. QED
    BY <2>2, <2>3, <2>5 DEF WireInv
<1>11. CASE Restored \/ (\E i \in BOOLEAN : RestoreRejected(i)) \/ NextRound
  <2>1. UNCHANGED <<sup, pc, wire, task>> /\ sup = "restoring"
        /\ (reply' = reply \/ reply' = [reply EXCEPT ![Sup] = "none"])
    BY <1>11 DEF Restored, RestoreRejected, NextRound, RoundDone, Restoring, requests, broker
  <2>2. QED
    BY <1>1, <2>1 DEF WireInv, TypeOK
<1>12. CASE Serve
  <2>1. wire = <<>>
    BY <1>1, <1>12, BetweenRequests DEF Serve, RoundDone, Restoring
  <2>2. wire' = <<>> /\ UNCHANGED requests
    BY <1>12, <2>1 DEF Serve, broker
  <2>3. QED
    BY <1>1, <1>2, <2>2 DEF WireInv, requests
<1>13. CASE RestoreFailed \/ ConnectionEnded \/ SupervisorCancelled
  <2>1. EndsServing
    BY <1>13 DEF RestoreFailed, ConnectionEnded, SupervisorCancelled
  <2>2. wire' = <<>>
    BY <2>1 DEF EndsServing, SessionDies
  <2>3. \A a \in Actors : reply'[a] # "none" => task'[a] = "none"
    BY <1>1, <2>1 DEF EndsServing, WireInv, TypeOK
  <2>4. QED
    BY <1>2, <2>2, <2>3 DEF WireInv
<1>14. CASE Clear
  <2>1. wire' = <<>> /\ UNCHANGED requests
    BY <1>1, <1>14 DEF Clear, TypeOK, SupervisorInv, broker
  <2>2. QED
    BY <1>1, <1>2, <2>1 DEF WireInv, requests
<1>15. QED
    BY <1>4, <1>5, <1>6, <1>7, <1>8, <1>9, <1>10, <1>11, <1>12, <1>13, <1>14
       DEF Next, OpStep, SupervisorStep

LEMMA RestoringInvStep ==
    ASSUME IInv, TypeOK', [Next]_vars
    PROVE  RestoringInv'
<1>1. /\ TypeOK /\ SupervisorInv /\ WireInv /\ RestoringInv /\ (\A o \in Ops : CallInv(o))
      /\ Sup \in Actors /\ (\A o \in Ops : o \in Actors /\ o # Sup)
    BY OpsAssumption DEF IInv, Actors
<1>2. /\ wire \in Seq(Requests) /\ Len(wire) \in Nat /\ DOMAIN wire = 1..Len(wire)
      /\ wire = <<>> <=> Len(wire) = 0
    BY <1>1, WireTypes
<1>3. ASSUME UNCHANGED <<sup, restored, asked, wire, brokerSubs>>, up' => up,
             connected' = connected \/ closing', closing => closing',
             task'[Sup] = task[Sup], reply'[Sup] = reply[Sup]
      PROVE  RestoringInv'
    BY <1>1, <1>3 DEF RestoringInv, Achieved
<1>4. ASSUME NEW o \in Ops, OpStep(o) PROVE RestoringInv'
  <2>1. OpShape(o)
    BY <1>1, <1>4, OpStepShape
  <2>2. CASE sup = "restoring"
    <3>1. UNCHANGED <<requests, wire, brokerSubs, up, connected>>
      BY <1>1, <1>4, <2>2, Waits DEF SupervisorInv
    <3>2. QED
      BY <1>3, <2>1, <3>1 DEF OpShape, requests
  <2>3. CASE sup # "restoring"
    BY <2>1, <2>3 DEF OpShape, RestoringInv
  <2>4. QED
    BY <2>2, <2>3
<1>5. ASSUME NEW r, Answer(r) PROVE RestoringInv'
  <2>1. UNCHANGED <<sup, restored, asked, connected, closing, up>>
    BY <1>1, <1>5 DEF Answer, supervisor, link, interrupts
  <2>2. CASE sup = "restoring"
    <3>1. /\ up /\ Len(wire) = 1 /\ wire[1] \in Requests /\ wire[1].who = Sup
          /\ Len(wire') = 0 /\ wire' \in Seq(Requests)
      <4>1. /\ up /\ wire # <<>> /\ wire[1] \in Requests /\ wire' \in Seq(Requests)
            /\ Len(wire') = Len(wire) - 1
        BY <1>1, <1>5, Answered
      <4>2. Len(wire) = 1 /\ 1 \in DOMAIN wire
        BY <1>1, <1>2, <2>2, <4>1 DEF RestoringInv
      <4>3. QED
        BY <1>1, <2>2, <4>1, <4>2 DEF WireInv
    <3>2. wire' = <<>>
      BY <3>1
    <3>3. CASE reply[Sup] = "failed"
      <4>1. task[Sup] = "none" /\ wire[1].kind \in {"sub", "unsub"}
        BY <1>1, <3>1, <3>3 DEF WireInv, Requests
      <4>2. reply'[Sup] = "failed"
        BY <1>1, <1>5, <3>1, <3>3, <4>1, Answered DEF requests
      <4>3. QED
        BY <1>1, <2>1, <2>2, <3>1, <3>2, <4>2 DEF RestoringInv
    <3>4. CASE reply[Sup] # "failed"
      <4>1. /\ reply[Sup] = "none" /\ task[Sup] = wire[1].kind /\ asked = {wire[1].filter}
            /\ brokerSubs = restored /\ (connected \/ closing)
        BY <1>1, <1>2, <2>2, <3>1, <3>4 DEF RestoringInv, Achieved
      <4>2. CASE r = "failed"
        <5>1. brokerSubs' = restored /\ reply'[Sup] \in {"none", "failed"}
          <6>1. brokerSubs' = restored
            BY <1>1, <1>5, <4>1, <4>2, Answered
          <6>2. reply'[Sup] = r \/ UNCHANGED requests
            BY <1>1, <1>5, <3>1, Answered
          <6>3. QED
            BY <4>1, <4>2, <6>1, <6>2 DEF requests
        <5>2. QED
          BY <1>1, <2>1, <2>2, <3>1, <3>2, <4>1, <5>1 DEF RestoringInv, Achieved
      <4>3. CASE r # "failed"
        <5>1. reply'[Sup] = r /\ r \in {"granted", "denied", "removed"}
          BY <1>1, <1>5, <3>1, <4>1, <4>3, Answered
        <5>2. /\ r = "granted" => brokerSubs' = restored \cup asked
              /\ r = "removed" => brokerSubs' = restored \ asked
              /\ r = "denied" => brokerSubs' = restored
          <6>1. /\ r = "granted" => brokerSubs' = brokerSubs \cup {wire[1].filter}
                /\ r = "removed" => brokerSubs' = brokerSubs \ {wire[1].filter}
                /\ r = "denied" => brokerSubs' = brokerSubs
            BY <1>1, <1>5, Answered
          <6>2. QED
            BY <4>1, <6>1
        <5>3. QED
          BY <1>1, <2>1, <2>2, <3>1, <3>2, <4>1, <5>1, <5>2 DEF RestoringInv, Achieved
      <4>4. QED
        BY <4>2, <4>3
    <3>5. QED
      BY <3>3, <3>4
  <2>3. CASE sup # "restoring"
    BY <2>1, <2>3 DEF RestoringInv
  <2>4. QED
    BY <2>2, <2>3
<1>6. ASSUME NEW a \in Actors, Fails(a) PROVE RestoringInv'
  <2>1. UNCHANGED <<sup, restored, asked, closing>>
    BY <1>6 DEF Fails, supervisor, interrupts
  <2>2. CASE task[a] = "sub"
    <3>1. UNCHANGED <<up, connected, wire, brokerSubs>>
      BY <1>1, <1>6, <2>2, Failed DEF broker
    <3>2. CASE a = Sup
      <4>1. reply'[Sup] = "failed"
        BY <1>1, <1>6, <3>2, Failed
      <4>2. QED
        BY <1>1, <2>1, <3>1, <4>1 DEF RestoringInv
    <3>3. CASE a # Sup
      BY <1>1, <1>3, <1>6, <2>1, <3>1, <3>3, Failed
    <3>4. QED
      BY <3>2, <3>3
  <2>3. CASE task[a] = "unsub"
    <3>1. SessionOf(a) = session
      BY <1>1, <2>3 DEF SessionOf, CallInv, Actors
    <3>2. ~up'
      BY <1>1, <1>6, <2>3, <3>1, Failed, Died
    <3>3. QED
      BY <3>2 DEF RestoringInv
  <2>4. QED
    BY <1>1, <1>6, <2>2, <2>3 DEF TypeOK, Fails
<1>7. CASE Drop
    BY <1>7 DEF Drop, SessionDies, RestoringInv
<1>8. CASE Connect
  <2>1. /\ wire' = <<>> /\ brokerSubs' = {} /\ restored' = {} /\ connected'
        /\ reply'[Sup] = "none"
    BY <1>1, <1>8 DEF Connect, TypeOK, SupervisorInv, broker, requests
  <2>2. QED
    BY <1>2, <2>1 DEF RestoringInv, Achieved
<1>9. CASE Close \/ UNCHANGED vars
  <2>1. task'[Sup] = task[Sup] /\ reply'[Sup] = reply[Sup]
    BY <1>1, <1>9 DEF Close, vars, requests
  <2>2. UNCHANGED <<sup, restored, asked, wire, brokerSubs, up, connected>> /\ (closing => closing')
    BY <1>9 DEF Close, vars, supervisor, broker, link, interrupts
  <2>3. QED
    BY <1>3, <2>1, <2>2
<1>10. CASE CloseReturns
    BY <1>3, <1>10 DEF CloseReturns, supervisor, broker, requests, interrupts
<1>11. CASE Retract \/ Restore
  <2>1. PICK f \in Filters, k \in {"sub", "unsub"} : Request(Sup, k, f) /\ asked' = {f}
    BY <1>11, <1>1 DEF Retract, Restore, TypeOK
  <2>2. /\ sup = "restoring" /\ task[Sup] = "none" /\ reply[Sup] = "none"
        /\ UNCHANGED <<sup, restored, brokerSubs, up, connected, closing>>
    BY <1>11 DEF Retract, Restore, Restoring, link, interrupts
  <2>3. SUFFICES ASSUME up PROVE RestoringInv'
    BY <2>2 DEF RestoringInv
  <2>4. wire = <<>> /\ brokerSubs = restored /\ (connected \/ closing)
    BY <1>1, <2>2, <2>3, BetweenRequests
  <2>5. /\ task'[Sup] = k /\ reply'[Sup] = "none" /\ Len(wire') = 1 /\ wire' # <<>>
        /\ wire'[1] = [who |-> Sup, kind |-> k, filter |-> f]
    BY <1>1, <1>2, <2>1, <2>3, <2>4, Requested
  <2>6. QED
    BY <2>1, <2>2, <2>4, <2>5 DEF RestoringInv, Achieved
<1>12. CASE Restored \/ (\E i \in BOOLEAN : RestoreRejected(i))
  <2>1. /\ sup = "restoring" /\ reply[Sup] \in {"granted", "removed", "denied"}
        /\ reply'[Sup] = "none" /\ restored' = Achieved
        /\ UNCHANGED <<wire, brokerSubs, up, connected, closing, sup>>
    BY <1>1, <1>12 DEF Restored, RestoreRejected, link, interrupts, broker, TypeOK, Achieved
  <2>2. SUFFICES ASSUME up PROVE RestoringInv'
    BY <2>1 DEF RestoringInv
  <2>3. wire = <<>> /\ brokerSubs = Achieved /\ (connected \/ closing)
    BY <1>1, <1>2, <2>1, <2>2 DEF RestoringInv
  <2>4. QED
    BY <1>2, <2>1, <2>3 DEF RestoringInv, Achieved
<1>13. CASE NextRound
    BY <1>3, <1>13 DEF NextRound, link, interrupts, requests, broker
<1>14. CASE Serve
    BY <1>14 DEF Serve, RestoringInv
<1>15. CASE RestoreFailed \/ ConnectionEnded \/ SupervisorCancelled \/ Clear
    BY <1>15 DEF RestoreFailed, ConnectionEnded, SupervisorCancelled, Clear, EndsServing, RestoringInv
<1>16. QED
    BY <1>4, <1>5, <1>6, <1>7, <1>8, <1>9, <1>10, <1>11, <1>12, <1>13, <1>14, <1>15
       DEF Next, OpStep, SupervisorStep

----------------------------------------------------------------------------
(* A session that is served.                                               *)
LEMMA ServesInOrder ==
    ASSUME TypeOK, SupervisorInv, RestoringInv, Serve
    PROVE  /\ sup = "restoring" /\ ~closing /\ wire' = <<>> /\ UNCHANGED <<up, pc, registered>>
           /\ \A o \in Ops : pc[o] \notin Holding
           /\ up => connected /\ brokerSubs' = FiltersOf(registered)
<1>1. /\ sup = "restoring" /\ ~closing /\ task[Sup] = "none" /\ reply[Sup] = "none"
      /\ UNCHANGED <<up, pc, registered, wire, brokerSubs>>
      /\ restored = FiltersOf(registered \cap Durable)
    BY DEF Serve, RoundDone, Restoring, Wanted, broker
<1>2. wire = <<>> /\ (up => brokerSubs = restored /\ connected)
    BY <1>1, BetweenRequests
<1>3. registered \subseteq Durable /\ \A o \in Ops : pc[o] \notin Holding
    BY <1>1 DEF SupervisorInv
<1>4. registered \cap Durable = registered
    BY <1>3
<1>5. QED
    BY <1>1, <1>2, <1>3, <1>4

LEMMA OpServing ==
    ASSUME TypeOK, SupervisorInv, \A o \in Ops : CallInv(o), WireInv, ServingInv,
           NEW o \in Ops, OpStep(o), sup = "serving", up'
    PROVE  ServingInv'
<1>1. OpShape(o) /\ o \in Actors
    BY OpStepShape DEF Actors
<1>2. UNCHANGED <<sup, up, brokerSubs>> /\ ~SessionDies
    BY <1>1 DEF OpShape, SessionDies
<1>3. /\ up
      /\ \A p \in registered : FilterOf[p] \in brokerSubs
      /\ \A i \in DOMAIN wire : wire[i].kind = "unsub" =>
            \A p \in registered : FilterOf[p] # wire[i].filter
      /\ \A p \in Ops : pc[p] \in Asking =>
            /\ \A i \in DOMAIN wire : wire[i].who = p => i = Len(wire) /\ wire[i].kind = "sub"
            /\ reply[p] = "granted" => wire = <<>> /\ FilterOf[p] \in brokerSubs
    BY <1>2 DEF ServingInv
<1>4. /\ wire \in Seq(Requests) /\ Len(wire) \in Nat /\ DOMAIN wire = 1..Len(wire)
      /\ DOMAIN <<>> = {}
    BY WireTypes
<1>5. CASE UNCHANGED requests /\ wire' = wire
  <2>1. \A p \in registered' : FilterOf[p] \in brokerSubs
    <3>1. CASE registered' \subseteq registered
      BY <1>3, <3>1
    <3>2. CASE ~(registered' \subseteq registered)
      BY <1>3, <3>2, Grows DEF Asking
    <3>3. QED
      BY <3>1, <3>2
  <2>2. \A i \in DOMAIN wire : wire[i].kind = "unsub" =>
            \A p \in registered' : FilterOf[p] # wire[i].filter
    <3>1. CASE registered' \subseteq registered
      BY <1>3, <3>1
    <3>2. CASE ~(registered' \subseteq registered)
      <4>1. registered' = registered \cup {o}
        BY <3>2, Grows
      <4>2. CASE \E p \in registered : FilterOf[p] = FilterOf[o]
        BY <1>3, <4>1, <4>2
      <4>3. CASE pc[o] = "subscribing" /\ reply[o] = "granted"
        BY <1>3, <1>4, <4>3 DEF Asking
      <4>4. QED
        BY <3>2, <4>2, <4>3, Grows
    <3>3. QED
      BY <3>1, <3>2
  <2>3. ASSUME NEW p \in Ops, pc'[p] \in Asking
        PROVE  /\ \A i \in DOMAIN wire : wire[i].who = p => i = Len(wire) /\ wire[i].kind = "sub"
               /\ reply[p] = "granted" => wire = <<>> /\ FilterOf[p] \in brokerSubs
    <3>1. CASE pc[p] \in Asking
      BY <1>3, <3>1
    <3>2. CASE pc[p] \notin Asking
      <4>1. p = o
        BY <1>1, <2>3, <3>2 DEF OpShape
      <4>2. Subscribe(o)
        <5>1. ASSUME NEW where \in Places, Goes(o, where) PROVE pc'[o] = where
          BY <5>1, GoesTo
        <5>2. \/ Subscribe(o) \/ Call(o) \/ Cancel(o) \/ pc[o] = "subscribing"
              \/ \E where \in {"open", "done", "compensating", "invalidating", "undoing",
                               "removing"} : Goes(o, where)
          BY DEF OpStep, CallStep, Refused, Join, Opened, Outlived, Rejected, Ambiguous,
                 Invalidated, Interrupted, Undo, Undone, Compensated, Escape, Removed, Forget,
                 Unsubscribe
        <5>3. CASE Call(o) \/ Cancel(o)
          <6>1. pc'[o] = "called" \/ pc'[o] = pc[o]
            BY <5>3 DEF Call, Cancel, TypeOK
          <6>2. QED
            BY <2>3, <3>2, <4>1, <6>1 DEF Asking
        <5>4. QED
          BY <2>3, <3>2, <4>1, <5>1, <5>2, <5>3 DEF Asking, Places, Holding
      <4>3. Request(o, "sub", FilterOf[o]) /\ task[o] = "none"
        BY <4>2 DEF Subscribe, CallInv
      <4>4. task'[o] = "sub"
        BY <4>3, <1>1, FilterAssumption, Requested
      <4>5. QED
        BY <1>5, <4>3, <4>4 DEF requests
    <3>3. QED
      BY <3>1, <3>2
  <2>4. QED
    BY <1>2, <1>5, <2>1, <2>2, <2>3 DEF ServingInv, requests
<1>6. ASSUME NEW k \in {"sub", "unsub"}, Request(o, k, FilterOf[o]), pc'[o] \in Holding
      PROVE  ServingInv'
  <2> DEFINE n == Len(wire) + 1
  <2>1. FilterOf[o] \in Filters
    BY FilterAssumption
  <2>2. /\ task'[o] = k /\ reply'[o] = "none"
        /\ \A b \in Actors \ {o} : reply'[b] = reply[b]
        /\ Len(wire') = n /\ DOMAIN wire' = 1..n /\ \A i \in 1..Len(wire) : wire'[i] = wire[i]
        /\ wire'[n] = [who |-> o, kind |-> k, filter |-> FilterOf[o]]
    BY <1>1, <1>3, <1>6, <2>1, Requested
  <2>3. \A i \in DOMAIN wire' : i = n \/ (i \in DOMAIN wire /\ wire'[i] = wire[i])
    BY <1>4, <2>2
  <2>4. \/ Subscribe(o) /\ k = "sub"
        \/ (Outlived(o) \/ Undo(o)) /\ k = "unsub"
        \/ Unsubscribe(o) /\ k = "unsub"
    <3>1. task'[o] # task[o] \/ reply'[o] # reply[o] \/ wire' # wire
      BY <2>2, <1>4
    <3>2. Subscribe(o) \/ Outlived(o) \/ Undo(o) \/ Unsubscribe(o)
      BY <1>2, <3>1 DEF OpStep, CallStep, Call, Refused, Join, Opened, Rejected, Ambiguous,
           Invalidated, Interrupted, Undone, Compensated, Escape, Removed, Forget, Cancel,
           requests, broker
    <3>3. \A j \in {"sub", "unsub"} : Request(o, j, FilterOf[o]) => j = k
      BY <1>1, <2>1, <2>2, Requested
    <3>4. CASE Subscribe(o)
      <4>1. Request(o, "sub", FilterOf[o])
        BY <3>4 DEF Subscribe
      <4>2. QED
        BY <3>3, <3>4, <4>1
    <3>5. CASE Outlived(o) \/ Undo(o)
      <4>1. Request(o, "unsub", FilterOf[o])
        BY <3>5 DEF Outlived, Undo
      <4>2. QED
        BY <3>3, <3>5, <4>1
    <3>6. CASE Unsubscribe(o)
      <4>1. Request(o, "unsub", FilterOf[o])
        BY <3>6 DEF Unsubscribe
      <4>2. QED
        BY <3>3, <3>6, <4>1
    <3>7. QED
      BY <3>2, <3>4, <3>5, <3>6
  <2>5. registered' \subseteq registered
    BY <2>4 DEF Subscribe, Outlived, Undo, Unsubscribe
  <2>6. k = "unsub" => \A p \in registered' : FilterOf[p] # FilterOf[o]
    BY <2>4 DEF Outlived, Undo, Unsubscribe, LastOf, FiltersOf, CallInv, Asking, Subscribe
  <2>7. \A i \in DOMAIN wire' : wire'[i].kind = "unsub" =>
            \A p \in registered' : FilterOf[p] # wire'[i].filter
    BY <1>3, <2>2, <2>3, <2>5, <2>6
  <2>8. \A p \in Ops \ {o} : pc'[p] \notin Asking
    <3>1. LockFree \/ pc[o] \in Holding
      BY <2>4 DEF Subscribe, Outlived, Undo, Unsubscribe, Holding
    <3>2. QED
      BY <1>1, <3>1 DEF OpShape, LockFree, TypeOK, Asking, Holding
  <2>9. ASSUME pc'[o] \in Asking
        PROVE  k = "sub" /\ \A i \in DOMAIN wire : wire[i].who # o
    <3>1. ~(Outlived(o) \/ Undo(o) \/ Unsubscribe(o))
      BY <2>9, GoesTo DEF Outlived, Undo, Unsubscribe, Places, Holding, Asking
    <3>2. Subscribe(o) /\ k = "sub"
      BY <2>4, <3>1
    <3>3. pc[o] = "called" /\ sup # "restoring"
      BY <3>2 DEF Subscribe
    <3>4. QED
      BY <3>2, <3>3 DEF WireInv
  <2>10. QED
    BY <1>2, <1>3, <2>2, <2>3, <2>5, <2>7, <2>8, <2>9 DEF ServingInv
<1>7. QED
    BY <1>1, <1>2, <1>5, <1>6 DEF OpShape

LEMMA AnswerServing ==
    ASSUME TypeOK, WireInv, ServingInv, NEW r, Answer(r), sup = "serving"
    PROVE  ServingInv'
<1>1. /\ up /\ wire # <<>> /\ wire[1] \in Requests
      /\ wire' \in Seq(Requests) /\ Len(wire') = Len(wire) - 1 /\ DOMAIN wire' = 1..(Len(wire) - 1)
      /\ \A i \in 1..(Len(wire) - 1) : wire'[i] = wire[i + 1]
      /\ r = "granted" => brokerSubs' = brokerSubs \cup {wire[1].filter} /\ wire[1].kind = "sub"
      /\ r = "removed" => brokerSubs' = brokerSubs \ {wire[1].filter} /\ wire[1].kind = "unsub"
      /\ r \in {"denied", "failed"} => brokerSubs' = brokerSubs
      /\ r \in {"granted", "removed", "denied", "failed"}
    BY Answered
<1>2. UNCHANGED <<sup, up, pc, registered>>
    BY DEF Answer, supervisor, link
<1>3. wire \in Seq(Requests) /\ Len(wire) \in Nat /\ DOMAIN wire = 1..Len(wire) /\ 1 \in DOMAIN wire
    BY <1>1, WireTypes
<1>4. /\ \A p \in registered : FilterOf[p] \in brokerSubs
      /\ \A i \in DOMAIN wire : wire[i].kind = "unsub" =>
            \A p \in registered : FilterOf[p] # wire[i].filter
      /\ \A p \in Ops : pc[p] \in Asking =>
            /\ \A i \in DOMAIN wire : wire[i].who = p => i = Len(wire) /\ wire[i].kind = "sub"
            /\ reply[p] = "granted" => wire = <<>> /\ FilterOf[p] \in brokerSubs
    BY <1>1 DEF ServingInv
<1>5. wire[1].who \in Ops /\ wire[1].filter = FilterOf[wire[1].who]
    BY <1>3 DEF WireInv
<1>6. \A p \in registered : FilterOf[p] \in brokerSubs'
    BY <1>1, <1>3, <1>4
<1>7. \A i \in DOMAIN wire' : i + 1 \in DOMAIN wire /\ wire'[i] = wire[i + 1]
  <2>1. \A i \in 1..(Len(wire) - 1) : i + 1 \in 1..Len(wire)
    BY <1>3
  <2>2. QED
    BY <1>1, <1>3, <2>1
<1>8. \A i \in DOMAIN wire' : wire'[i].kind = "unsub" =>
          \A p \in registered : FilterOf[p] # wire'[i].filter
    BY <1>4, <1>7
<1>9. ASSUME NEW p \in Ops, pc[p] \in Asking
      PROVE  /\ \A i \in DOMAIN wire' : wire'[i].who = p => i = Len(wire') /\ wire'[i].kind = "sub"
             /\ reply'[p] = "granted" => wire' = <<>> /\ FilterOf[p] \in brokerSubs'
  <2>1. \A i \in DOMAIN wire' : wire'[i].who = p => i + 1 = Len(wire) /\ wire'[i].kind = "sub"
    BY <1>4, <1>7, <1>9
  <2>2. \A i \in DOMAIN wire' : i + 1 = Len(wire) => i = Len(wire')
    BY <1>1, <1>3
  <2>3. ASSUME reply'[p] = "granted" PROVE wire' = <<>> /\ FilterOf[p] \in brokerSubs'
    <3>1. reply[p] # "granted"
      BY <1>1, <1>4, <1>9
    <3>2. p = wire[1].who /\ r = "granted"
      BY <2>3, <3>1, Answered DEF requests, Actors
    <3>3. Len(wire) = 1
      BY <1>3, <1>4, <1>9, <3>2
    <3>4. wire' = <<>>
      BY <1>1, <3>3
    <3>5. FilterOf[p] \in brokerSubs'
      BY <1>1, <1>5, <3>2
    <3>6. QED
      BY <3>4, <3>5
  <2>4. QED
    BY <2>1, <2>2, <2>3
<1>10. QED
    BY <1>2, <1>6, <1>8, <1>9 DEF ServingInv

LEMMA ServingInvStep ==
    ASSUME IInv, TypeOK', [Next]_vars
    PROVE  ServingInv'
<1>1. /\ TypeOK /\ SupervisorInv /\ WireInv /\ RestoringInv /\ ServingInv
      /\ \A o \in Ops : CallInv(o) /\ o \in Actors
    BY DEF IInv, Actors
<1>2. SUFFICES ASSUME sup' = "serving", up' PROVE ServingInv'
    BY DEF ServingInv
<1>3. ASSUME UNCHANGED <<sup, pc, wire, brokerSubs>>, up' => up, registered' \subseteq registered,
             \A o \in Ops : reply'[o] = "granted" => reply[o] = "granted"
      PROVE  ServingInv'
    BY <1>1, <1>2, <1>3 DEF ServingInv
<1>4. ASSUME NEW o \in Ops, OpStep(o) PROVE ServingInv'
  <2>1. sup = "serving"
    BY <1>1, <1>2, <1>4, OpStepShape DEF OpShape
  <2>2. QED
    BY <1>1, <1>2, <1>4, <2>1, OpServing
<1>5. ASSUME NEW r, Answer(r) PROVE ServingInv'
    BY <1>1, <1>2, <1>5, AnswerServing DEF Answer, supervisor
<1>6. ASSUME NEW a \in Actors, Fails(a) PROVE ServingInv'
  <2>1. UNCHANGED <<sup, pc, registered>> /\ (SessionDies \/ UNCHANGED <<up, broker>>)
    BY <1>6 DEF Fails, supervisor
  <2>2. UNCHANGED <<up, broker>>
    BY <1>2, <2>1, Died
  <2>3. \A o \in Ops : reply'[o] = "granted" => reply[o] = "granted"
    BY <1>1, <1>6, Failed
  <2>4. QED
    BY <1>3, <2>1, <2>2, <2>3 DEF broker
<1>7. CASE Drop \/ Connect
    BY <1>2, <1>7 DEF Drop, Connect, SessionDies
<1>8. CASE Close
  <2>1. \A o \in Ops : reply'[o] = "granted" => reply[o] = "granted"
    BY <1>1, <1>8 DEF Close
  <2>2. QED
    BY <1>3, <1>8, <2>1 DEF Close, supervisor, link, broker
<1>9. CASE CloseReturns \/ UNCHANGED vars
    BY <1>3, <1>9 DEF CloseReturns, vars, supervisor, link, broker, requests
<1>10. CASE Serve
  <2>1. /\ wire' = <<>> /\ UNCHANGED <<up, pc, registered>>
        /\ \A o \in Ops : pc[o] \notin Holding
        /\ up => brokerSubs' = FiltersOf(registered)
    BY <1>1, <1>10, ServesInOrder
  <2>2. brokerSubs' = FiltersOf(registered) /\ registered' = registered
    BY <1>2, <2>1
  <2>3. \A p \in registered' : FilterOf[p] \in brokerSubs'
    BY <2>2 DEF FiltersOf
  <2>4. DOMAIN wire' = {}
    BY <2>1
  <2>5. \A o \in Ops : pc'[o] \notin Asking
    BY <2>1 DEF Asking, Holding
  <2>6. QED
    BY <2>3, <2>4, <2>5 DEF ServingInv
<1>11. CASE SupervisorStep /\ ~Serve
  <2>1. sup' # "serving"
    BY <1>11 DEF SupervisorStep, Retract, Restore, Restored, RestoreRejected, NextRound, RoundDone,
                 Restoring, RestoreFailed, ConnectionEnded, SupervisorCancelled, EndsServing, Clear
  <2>2. QED
    BY <1>2, <2>1
<1>12. QED
    BY <1>4, <1>5, <1>6, <1>7, <1>8, <1>9, <1>10, <1>11 DEF Next, OpStep

----------------------------------------------------------------------------
(* A session that may be used.  The steps a call has in it.                *)
Moves(o) ==
    \/ Call(o) \/ Refused(o) \/ Join(o) \/ Subscribe(o) \/ Opened(o) \/ Rejected(o)
    \/ Interrupted(o) \/ Undo(o) \/ Undone(o) \/ Removed(o) \/ Cancel(o) \/ Forget(o)
    \/ Unsubscribe(o)

LEMMA UsableSteps ==
    ASSUME TypeOK, SupervisorInv, UsableInv, NEW o \in Ops, CallInv(o), OpStep(o), Usable'
    PROVE  /\ Usable /\ UNCHANGED <<client, connected, brokerSubs, session>>
           /\ client = session /\ connected /\ session > 0
           /\ pc[o] \in Holding => Live(o)
           /\ \A p \in Ops : pc'[p] \notin {"compensating", "invalidating"}
           /\ Escape(o) \/ (Moves(o) /\ escaped' = escaped)
<1>1. OpShape(o)
    BY OpStepShape
<1>2. Usable /\ ~SessionDies /\ UNCHANGED <<brokerSubs, session>>
    BY <1>1 DEF OpShape, Usable, SessionDies
<1>3. /\ client = session /\ connected /\ session > 0 /\ ~closing
      /\ \A p \in Ops : pc[p] \notin {"compensating", "invalidating"}
    BY <1>2 DEF UsableInv, SupervisorInv, Usable
<1>4. UNCHANGED <<client, connected>>
    BY <1>1, <1>3 DEF OpShape
<1>5. pc[o] \in Holding => Live(o) /\ own[o] = session
    BY <1>3 DEF Live, CallInv
<1>6. ~Outlived(o)
    BY <1>5 DEF Outlived, Holding
<1>7. ~Ambiguous(o)
    BY <1>2, <1>5 DEF Ambiguous, Holding
<1>8. Escape(o) \/ Moves(o)
    BY <1>3, <1>6, <1>7 DEF OpStep, CallStep, Moves, Invalidated, Compensated
<1>9. Moves(o) => escaped' = escaped
    BY DEF Moves, Call, Refused, Join, Subscribe, Opened, Rejected, Interrupted, Undo, Undone,
           Removed, Cancel, Forget, Unsubscribe
<1>10. pc'[o] \notin {"compensating", "invalidating"}
  <2>1. ASSUME NEW where \in Places, Goes(o, where) PROVE pc'[o] = where
    BY <2>1, GoesTo
  <2>2. \/ Call(o) \/ Cancel(o)
        \/ \E where \in {"open", "done", "subscribing", "cancelled", "undoing", "removing"} :
              Goes(o, where)
    BY <1>8 DEF Moves, Escape, Refused, Join, Subscribe, Opened, Rejected, Interrupted, Undo,
                Undone, Removed, Forget, Unsubscribe
  <2>3. CASE Call(o) \/ Cancel(o)
    <3>1. pc'[o] = "called" \/ pc'[o] = pc[o]
      BY <2>3 DEF Call, Cancel, TypeOK
    <3>2. QED
      BY <1>3, <3>1
  <2>4. QED
    BY <2>1, <2>2, <2>3 DEF Places, Holding
<1>11. \A p \in Ops : pc'[p] \notin {"compensating", "invalidating"}
    BY <1>1, <1>3, <1>10 DEF OpShape
<1>12. QED
    BY <1>2, <1>3, <1>4, <1>5, <1>8, <1>9, <1>11

LEMMA OpReadyOwed ==
    ASSUME TypeOK, NEW o \in Ops, Moves(o), OpShape(o), ReadyOwed, pc[o] \in Holding => Live(o)
    PROVE  ReadyOwed'
<1>1. \A q \in Ops \ {o} : Suspends(q) => Suspends(q)'
    BY DEF OpShape, Suspends
<1>2. ASSUME NEW where \in Places, Goes(o, where) PROVE pc'[o] = where
    BY <1>2, GoesTo
<1>3. CASE Subscribe(o)
  <2>1. /\ LockFree /\ ready' = (ready /\ o \notin Durable) /\ Goes(o, "subscribing")
        /\ suspended' = [suspended EXCEPT ![o] = o \in Durable /\ ready]
    BY <1>3 DEF Subscribe
  <2>2. ready
    BY <2>1 DEF LockFree, ReadyOwed, Suspends, Asking, Holding
  <2>3. CASE o \in Durable
    <3>1. suspended'[o] = TRUE
      BY <2>1, <2>2, <2>3 DEF TypeOK
    <3>2. pc'[o] = "subscribing"
      BY <1>2, <2>1 DEF Places, Holding
    <3>3. QED
      BY <3>1, <3>2 DEF ReadyOwed, Suspends, Asking
  <2>4. CASE o \notin Durable
    BY <2>1, <2>2, <2>4 DEF ReadyOwed
  <2>5. QED
    BY <2>3, <2>4
<1>4. CASE Opened(o) \/ Rejected(o) \/ Undone(o)
  <2>1. Resume(o) /\ pc[o] \in Holding
    BY <1>4 DEF Opened, Rejected, Undone, Holding
  <2>2. ready' = (ready \/ suspended[o])
    BY <2>1 DEF Resume
  <2>3. QED
    BY <1>1, <2>2 DEF ReadyOwed, Suspends
<1>5. CASE \/ Call(o) \/ Refused(o) \/ Join(o) \/ Removed(o) \/ Forget(o) \/ Unsubscribe(o)
           \/ Interrupted(o) \/ Undo(o) \/ Cancel(o)
  <2>1. ready' = ready /\ suspended' = suspended
    BY <1>5 DEF Call, Refused, Join, Removed, Forget, Unsubscribe, Interrupted, Undo, Cancel, call
  <2>2. pc[o] \in Asking \cup {"undoing"} => pc'[o] \in Asking \cup {"undoing"}
    <3>1. CASE Interrupted(o) \/ Undo(o)
      BY <1>2, <3>1 DEF Interrupted, Undo, Places, Holding, Asking
    <3>2. CASE Cancel(o)
      BY <3>2 DEF Cancel
    <3>3. CASE Call(o) \/ Refused(o) \/ Join(o) \/ Removed(o) \/ Forget(o) \/ Unsubscribe(o)
      BY <3>3 DEF Call, Refused, Join, Removed, Forget, Unsubscribe, Asking
    <3>4. QED
      BY <1>5, <3>1, <3>2, <3>3
  <2>3. \A q \in Ops : Suspends(q) => Suspends(q)'
    BY <1>1, <2>1, <2>2 DEF Suspends
  <2>4. QED
    BY <2>1, <2>3 DEF ReadyOwed
<1>6. QED
    BY <1>3, <1>4, <1>5 DEF Moves

(* A call whose SUBSCRIBE is on the wire waits for its answer.             *)
LEMMA KeepsAsking ==
    ASSUME TypeOK, NEW o \in Ops, Moves(o), pc[o] \in Asking,
           reply[o] \notin {"granted", "denied"}
    PROVE  pc'[o] \in Asking /\ UNCHANGED <<requests, wire>>
<1>1. Interrupted(o) \/ Cancel(o)
    BY DEF Moves, Call, Refused, Join, Subscribe, Opened, Rejected, Undo, Undone, Removed, Forget,
           Unsubscribe, Asking
<1>2. CASE Interrupted(o)
  <2>1. pc'[o] = "cancelled"
    BY <1>2, GoesTo DEF Interrupted, Places, Holding
  <2>2. QED
    BY <1>2, <2>1 DEF Interrupted, Asking, broker
<1>3. CASE Cancel(o)
    BY <1>3 DEF Cancel, broker
<1>4. QED
    BY <1>1, <1>2, <1>3

LEMMA OpSubsAwaited ==
    ASSUME TypeOK, WireInv, NEW o \in Ops, Moves(o), OpShape(o), SubsAwaited, sup = "serving",
           ~SessionDies, up
    PROVE  SubsAwaited'
<1>1. /\ wire \in Seq(Requests) /\ Len(wire) \in Nat /\ DOMAIN wire = 1..Len(wire)
      /\ \A a \in Actors : reply[a] # "none" => task[a] = "none"
      /\ o \in Actors /\ FilterOf[o] \in Filters
    BY WireTypes, FilterAssumption DEF WireInv, Actors
<1>2. ASSUME NEW i \in DOMAIN wire, wire[i].kind = "sub"
      PROVE  /\ pc'[wire[i].who] \in Asking
             /\ task'[wire[i].who] = "sub" \/ reply'[wire[i].who] = "failed"
  <2> DEFINE q == wire[i].who
  <2>1. q \in Ops /\ pc[q] \in Asking /\ (task[q] = "sub" \/ reply[q] = "failed")
    BY <1>2 DEF SubsAwaited, WireInv
  <2> HIDE DEF q
  <2>2. CASE q # o
    BY <2>1, <2>2 DEF OpShape, Actors, q
  <2>3. CASE q = o
    <3>1. reply[o] \notin {"granted", "denied"}
      BY <1>1, <2>1, <2>3
    <3>2. pc'[o] \in Asking /\ UNCHANGED requests
      BY <2>1, <2>3, <3>1, KeepsAsking
    <3>3. QED
      BY <2>1, <2>3, <3>2 DEF requests, q
  <2>4. QED
    BY <2>2, <2>3
<1>3. CASE wire' = wire
    BY <1>2, <1>3 DEF SubsAwaited
<1>4. ASSUME NEW k \in {"sub", "unsub"}, Request(o, k, FilterOf[o]), wire' # wire
      PROVE  SubsAwaited'
  <2> DEFINE n == Len(wire) + 1
  <2>1. /\ task'[o] = k
        /\ DOMAIN wire' = 1..n /\ \A i \in 1..Len(wire) : wire'[i] = wire[i]
        /\ wire'[n] = [who |-> o, kind |-> k, filter |-> FilterOf[o]]
    BY <1>1, <1>4, Requested
  <2>2. \A i \in DOMAIN wire' : i = n \/ (i \in DOMAIN wire /\ wire'[i] = wire[i])
    BY <1>1, <2>1
  <2>3. k = "sub" => pc'[o] \in Asking
    <3>1. Subscribe(o) \/ Undo(o) \/ Unsubscribe(o)
      BY <1>4 DEF Moves, Call, Refused, Join, Opened, Rejected, Interrupted, Undone, Removed,
                  Cancel, Forget, broker
    <3>2. CASE Undo(o) \/ Unsubscribe(o)
      <4>1. Request(o, "unsub", FilterOf[o])
        BY <3>2 DEF Undo, Unsubscribe
      <4>2. task'[o] = "unsub"
        BY <1>1, <4>1, Requested
      <4>3. QED
        BY <2>1, <4>2
    <3>3. CASE Subscribe(o)
      BY <3>3, GoesTo DEF Subscribe, Asking, Places, Holding
    <3>4. QED
      BY <3>1, <3>2, <3>3
  <2>4. QED
    BY <1>2, <2>1, <2>2, <2>3 DEF SubsAwaited
<1>5. QED
    BY <1>3, <1>4 DEF OpShape

LEMMA OpFiltersOwed ==
    ASSUME TypeOK, WireInv, NEW o \in Ops, CallInv(o), Moves(o), OpShape(o), FiltersOwed,
           client # 0, ~SessionDies
    PROVE  FiltersOwed'
<1>1. /\ brokerSubs' = brokerSubs /\ o \in Actors /\ FilterOf[o] \in Filters
      /\ \A a \in Actors : reply[a] # "none" => task[a] = "none"
    BY FilterAssumption DEF OpShape, WireInv, Actors
<1>2. ASSUME Request(o, "unsub", FilterOf[o]) PROVE Owes(o)'
    BY <1>1, <1>2, Requested DEF Owes
<1>3. ASSUME NEW p \in registered
      PROVE  \/ \E q \in registered' : FilterOf[q] = FilterOf[p]
             \/ \E q \in Ops : FilterOf[q] = FilterOf[p] /\ Owes(q)'
  <2>1. CASE p \in registered'
    BY <2>1
  <2>2. CASE p \notin registered'
    <3>1. p = o
      BY <1>3, <2>2 DEF OpShape
    <3>2. Forget(o) \/ Unsubscribe(o)
      BY <1>3, <2>2 DEF Moves, Call, Refused, Join, Subscribe, Opened, Rejected, Interrupted,
                        Undo, Undone, Removed, Cancel
    <3>3. CASE Forget(o)
      <4>1. ~LastOf(o)
        BY <1>3, <3>1, <3>3 DEF Forget
      <4>2. registered' = registered \ {o}
        BY <3>3 DEF Forget
      <4>3. QED
        BY <3>1, <4>1, <4>2 DEF LastOf, FiltersOf
    <3>4. CASE Unsubscribe(o)
      BY <1>2, <3>1, <3>4 DEF Unsubscribe
    <3>5. QED
      BY <3>2, <3>3, <3>4
  <2>3. QED
    BY <2>1, <2>2
<1>4. ASSUME NEW q \in Ops, Owes(q)
      PROVE  Owes(q)' \/ q \in registered'
  <2>1. CASE q # o
    BY <1>4, <2>1 DEF OpShape, Owes, Actors
  <2>2. CASE q = o /\ task[o] = "unsub"
    <3>1. reply[o] = "none"
      BY <1>1, <2>2
    <3>2. ~Subscribe(o) /\ ~Undo(o)
      BY <2>2, <3>1 DEF Subscribe, Undo, CallInv
    <3>3. CASE Unsubscribe(o)
      BY <1>2, <2>2, <3>3 DEF Unsubscribe
    <3>4. CASE ~Unsubscribe(o)
      <4>1. UNCHANGED requests
        BY <3>2, <3>4 DEF Moves, Call, Refused, Join, Opened, Rejected, Interrupted, Undone,
                          Removed, Cancel, Forget
      <4>2. QED
        BY <2>2, <4>1 DEF Owes, requests
    <3>5. QED
      BY <3>3, <3>4
  <2>3. CASE q = o /\ pc[o] \in Asking /\ reply[o] = "failed"
    <3>1. pc'[o] \in Asking /\ UNCHANGED <<requests, wire>>
      BY <2>3, KeepsAsking
    <3>2. QED
      BY <2>3, <3>1 DEF Owes, requests
  <2>4. CASE q = o /\ pc[o] \in Asking /\ reply[o] = "granted"
    <3>1. Opened(o) \/ Interrupted(o) \/ Undo(o) \/ Cancel(o)
      BY <2>4 DEF Moves, Call, Refused, Join, Subscribe, Rejected, Undone, Removed, Forget,
                  Unsubscribe, Asking
    <3>2. CASE Opened(o)
      BY <2>4, <3>2 DEF Opened
    <3>3. CASE Undo(o)
      BY <1>2, <2>4, <3>3 DEF Undo
    <3>4. CASE Interrupted(o)
      <4>1. pc'[o] = "cancelled"
        BY <3>4, GoesTo DEF Interrupted, Places, Holding
      <4>2. QED
        BY <2>4, <3>4, <4>1 DEF Interrupted, Owes, Asking, requests
    <3>5. CASE Cancel(o)
      BY <2>4, <3>5 DEF Cancel, Owes, requests
    <3>6. QED
      BY <3>1, <3>2, <3>3, <3>4, <3>5
  <2>5. QED
    BY <1>4, <2>1, <2>2, <2>3, <2>4 DEF Owes
<1>5. QED
    BY <1>1, <1>3, <1>4 DEF FiltersOwed

LEMMA OpUsable ==
    ASSUME TypeOK, SupervisorInv, WireInv, UsableInv, NEW o \in Ops, CallInv(o), OpStep(o), Usable'
    PROVE  UsableInv'
<1>1. /\ Usable /\ UNCHANGED <<client, connected, brokerSubs, session>>
      /\ client = session /\ connected /\ session > 0
      /\ pc[o] \in Holding => Live(o)
      /\ \A p \in Ops : pc'[p] \notin {"compensating", "invalidating"}
      /\ Escape(o) \/ (Moves(o) /\ escaped' = escaped)
    BY UsableSteps
<1>2. client' = session' /\ connected'
    BY <1>1
<1>3. ASSUME ~escaped' PROVE (ReadyOwed /\ SubsAwaited /\ FiltersOwed)'
  <2>1. Moves(o) /\ ~escaped
    BY <1>1, <1>3 DEF Escape
  <2>2. ReadyOwed /\ SubsAwaited /\ FiltersOwed
    BY <1>1, <2>1 DEF UsableInv
  <2>3. OpShape(o) /\ ~SessionDies /\ sup = "serving" /\ up /\ client # 0
    BY <1>1, OpStepShape DEF Usable, SessionDies
  <2>4. ReadyOwed'
    BY <1>1, <2>1, <2>2, <2>3, OpReadyOwed
  <2>5. SubsAwaited'
    BY <2>1, <2>2, <2>3, OpSubsAwaited
  <2>6. FiltersOwed'
    BY <2>1, <2>2, <2>3, OpFiltersOwed
  <2>7. QED
    BY <2>4, <2>5, <2>6
<1>4. QED
    BY <1>1, <1>2, <1>3 DEF UsableInv

LEMMA AnswerUsable ==
    ASSUME TypeOK, WireInv, ServingInv, UsableInv, NEW r, Answer(r), Usable'
    PROVE  UsableInv'
<1>1. /\ UNCHANGED <<sup, up, closing, client, session, connected, pc, ready, suspended,
                     registered, escaped>>
    BY DEF Answer, supervisor, link, call, interrupts
<1>2. Usable /\ \A a \in Actors : reply[a] # "none" => task[a] = "none"
    BY <1>1 DEF Usable, WireInv
<1>3. /\ wire # <<>> /\ wire[1] \in Requests
      /\ wire' \in Seq(Requests) /\ Len(wire') = Len(wire) - 1 /\ DOMAIN wire' = 1..(Len(wire) - 1)
      /\ \A i \in 1..(Len(wire) - 1) : wire'[i] = wire[i + 1]
      /\ \/ wire[1].kind = "sub" /\ r \in {"granted", "denied", "failed"}
         \/ wire[1].kind = "unsub" /\ r \in {"removed", "failed"}
      /\ r = "granted" => brokerSubs' = brokerSubs \cup {wire[1].filter}
      /\ r = "removed" => brokerSubs' = brokerSubs \ {wire[1].filter}
      /\ r \in {"denied", "failed"} => brokerSubs' = brokerSubs
      /\ \/ /\ task[wire[1].who] = wire[1].kind
            /\ ~(wire[1].kind = "unsub" /\ r = "failed")
            /\ task'[wire[1].who] = "none" /\ reply'[wire[1].who] = r
            /\ \A b \in Actors \ {wire[1].who} : task'[b] = task[b] /\ reply'[b] = reply[b]
         \/ /\ task[wire[1].who] # wire[1].kind \/ (wire[1].kind = "unsub" /\ r = "failed")
            /\ UNCHANGED requests
    BY Answered
<1>4. wire \in Seq(Requests) /\ Len(wire) \in Nat /\ DOMAIN wire = 1..Len(wire) /\ 1 \in DOMAIN wire
    BY <1>3, WireTypes
<1>5. wire[1].who \in Ops /\ wire[1].filter = FilterOf[wire[1].who]
    BY <1>2, <1>4 DEF WireInv, Usable
<1> PICK w \in Ops : w = wire[1].who
    BY <1>5
<1>6. \A b \in Ops \ {w} : task'[b] = task[b] /\ reply'[b] = reply[b]
    BY <1>3 DEF requests, Actors
<1>7. client' = session' /\ connected' /\ \A o \in Ops : pc'[o] \notin {"compensating", "invalidating"}
    BY <1>1, <1>2 DEF UsableInv
<1>8. ASSUME ~escaped' PROVE (ReadyOwed /\ SubsAwaited /\ FiltersOwed)'
  <2>1. ReadyOwed /\ SubsAwaited /\ FiltersOwed
    BY <1>1, <1>2, <1>8 DEF UsableInv
  <2>2. ReadyOwed'
    BY <1>1, <2>1 DEF ReadyOwed, Suspends
  <2>3. ASSUME NEW i \in DOMAIN wire', wire'[i].kind = "sub"
        PROVE  /\ pc'[wire'[i].who] \in Asking
               /\ task'[wire'[i].who] = "sub" \/ reply'[wire'[i].who] = "failed"
    <3>1. i + 1 \in DOMAIN wire /\ wire'[i] = wire[i + 1] /\ 1 # Len(wire)
      BY <1>3, <1>4
    <3>2. /\ wire'[i].who \in Ops /\ pc[wire'[i].who] \in Asking
          /\ task[wire'[i].who] = "sub" \/ reply[wire'[i].who] = "failed"
      BY <1>2, <2>1, <2>3, <3>1 DEF SubsAwaited, WireInv, Usable
    <3>3. wire'[i].who # w
      BY <1>2, <1>4, <3>1, <3>2 DEF ServingInv, Usable
    <3>4. QED
      BY <1>1, <1>6, <3>2, <3>3
  <2>4. ASSUME NEW f \in brokerSubs'
        PROVE  \/ \E p \in registered' : FilterOf[p] = f
               \/ \E o \in Ops : FilterOf[o] = f /\ Owes(o)'
    <3>1. CASE f \in brokerSubs
      <4>1. CASE \E p \in registered : FilterOf[p] = f
        BY <1>1, <4>1
      <4>2. ASSUME NEW o \in Ops, FilterOf[o] = f, Owes(o) PROVE Owes(o)'
        <5>1. CASE o # w
          BY <1>1, <1>6, <4>2, <5>1 DEF Owes
        <5>2. CASE o = w
          <6>1. CASE UNCHANGED requests
            BY <1>1, <4>2, <6>1 DEF Owes, requests
          <6>2. CASE task[w] = wire[1].kind /\ ~(wire[1].kind = "unsub" /\ r = "failed")
            <7>1. r # "removed"
              BY <1>3, <1>5, <2>4, <4>2, <5>2
            <7>2. task[o] = "sub" /\ reply[o] = "none"
              BY <1>2, <1>3, <5>2, <6>2, <7>1 DEF Actors
            <7>3. QED
              BY <4>2, <7>2 DEF Owes
          <6>3. QED
            BY <1>3, <6>1, <6>2
        <5>3. QED
          BY <5>1, <5>2
      <4>3. QED
        BY <2>1, <3>1, <4>1, <4>2 DEF FiltersOwed
    <3>2. CASE f \notin brokerSubs
      <4>1. r = "granted" /\ f = wire[1].filter /\ wire[1].kind = "sub"
        BY <1>3, <2>4, <3>2
      <4>2. pc[w] \in Asking /\ (task[w] = "sub" \/ reply[w] = "failed")
        BY <1>4, <2>1, <4>1 DEF SubsAwaited
      <4>3. reply'[w] \in {"granted", "failed"}
        BY <1>3, <4>1, <4>2 DEF requests
      <4>4. Owes(w)'
        BY <1>1, <4>2, <4>3 DEF Owes
      <4>5. QED
        BY <1>5, <4>1, <4>4
    <3>3. QED
      BY <3>1, <3>2
  <2>5. QED
    BY <2>2, <2>3, <2>4 DEF SubsAwaited, FiltersOwed
<1>9. QED
    BY <1>7, <1>8 DEF UsableInv

LEMMA FailsUsable ==
    ASSUME TypeOK, SupervisorInv, WireInv, UsableInv, \A o \in Ops : CallInv(o),
           NEW a \in Actors, Fails(a), Usable'
    PROVE  UsableInv'
<1>1. /\ UNCHANGED <<sup, closing, session, pc, ready, suspended, registered, escaped>>
    BY DEF Fails, supervisor, call, interrupts
<1>2. /\ task[a] # "none" /\ task'[a] = "none" /\ reply'[a] = "failed"
      /\ \A b \in Actors \ {a} : task'[b] = task[b] /\ reply'[b] = reply[b]
      /\ task[a] = "sub" => UNCHANGED <<up, client, connected, broker>>
      /\ task[a] = "unsub" => IF SessionOf(a) = session THEN SessionDies ELSE UNCHANGED <<up, broker>>
      /\ task[a] \in {"none", "sub", "unsub"}
    BY Failed DEF TypeOK
<1>3. a \in Ops /\ a # Sup
    BY <1>1, <1>2 DEF SupervisorInv, Usable, Actors
<1>4. task[a] = "sub"
  <2>1. own[a] = session
    BY <1>2, <1>3 DEF CallInv
  <2>2. ~SessionDies
    BY DEF Usable, SessionDies
  <2>3. QED
    BY <1>2, <1>3, <2>1, <2>2 DEF SessionOf
<1>5. UNCHANGED <<up, client, connected, wire, brokerSubs>> /\ Usable
    BY <1>1, <1>2, <1>4 DEF broker, Usable
<1>6. client' = session' /\ connected' /\ \A o \in Ops : pc'[o] \notin {"compensating", "invalidating"}
    BY <1>1, <1>5 DEF UsableInv
<1>7. ASSUME ~escaped' PROVE (ReadyOwed /\ SubsAwaited /\ FiltersOwed)'
  <2>1. ReadyOwed /\ SubsAwaited /\ FiltersOwed
    BY <1>1, <1>5, <1>7 DEF UsableInv
  <2>2. ReadyOwed'
    BY <1>1, <2>1 DEF ReadyOwed, Suspends
  <2>3. \A b \in Ops : task[b] = "sub" \/ reply[b] = "failed" => task'[b] = "sub" \/ reply'[b] = "failed"
    BY <1>2 DEF Actors
  <2>4. SubsAwaited'
    <3>1. \A i \in DOMAIN wire : wire[i].who \in Ops
      BY <1>5 DEF WireInv, Usable
    <3>2. QED
      BY <1>1, <1>5, <2>1, <2>3, <3>1 DEF SubsAwaited
  <2>5. \A b \in Ops : Owes(b) => Owes(b)'
    BY <1>1, <1>2, <1>4 DEF Owes, Actors
  <2>6. FiltersOwed'
    BY <1>1, <1>5, <2>1, <2>5 DEF FiltersOwed
  <2>7. QED
    BY <2>2, <2>4, <2>6
<1>8. QED
    BY <1>6, <1>7 DEF UsableInv

LEMMA UsableInvStep ==
    ASSUME IInv, TypeOK', [Next]_vars
    PROVE  UsableInv'
<1>1. /\ TypeOK /\ SupervisorInv /\ WireInv /\ RestoringInv /\ ServingInv /\ UsableInv
      /\ \A o \in Ops : CallInv(o)
    BY DEF IInv
<1>2. SUFFICES ASSUME Usable' PROVE UsableInv'
    BY DEF UsableInv
<1>3. ASSUME NEW o \in Ops, OpStep(o) PROVE UsableInv'
    BY <1>1, <1>2, <1>3, OpUsable
<1>4. ASSUME NEW r, Answer(r) PROVE UsableInv'
    BY <1>1, <1>2, <1>4, AnswerUsable
<1>5. ASSUME NEW a \in Actors, Fails(a) PROVE UsableInv'
    BY <1>1, <1>2, <1>5, FailsUsable
<1>6. CASE Drop \/ Connect \/ Close \/ CloseReturns
  <2>1. ~up' \/ sup' = "restoring" \/ closing'
    BY <1>6 DEF Drop, Connect, Close, CloseReturns, SessionDies, interrupts
  <2>2. QED
    BY <1>2, <2>1 DEF Usable
<1>7. CASE UNCHANGED vars
    BY <1>1, <1>7 DEF vars, supervisor, link, call, interrupts, requests, broker, UsableInv,
         Usable, ReadyOwed, Suspends, SubsAwaited, FiltersOwed, Owes
<1>8. CASE Serve
  <2>1. /\ wire' = <<>> /\ UNCHANGED <<up, pc, registered>> /\ ~closing
        /\ \A o \in Ops : pc[o] \notin Holding
        /\ up => connected /\ brokerSubs' = FiltersOf(registered)
    BY <1>1, <1>8, ServesInOrder
  <2>2. connected /\ brokerSubs' = FiltersOf(registered) /\ registered' = registered
    BY <1>2, <2>1 DEF Usable
  <2>3. client' = session' /\ connected' /\ ready'
    BY <1>8, <2>2 DEF Serve
  <2>4. DOMAIN wire' = {}
    BY <2>1
  <2>5. FiltersOwed'
    BY <2>2 DEF FiltersOwed, FiltersOf
  <2>6. ReadyOwed' /\ SubsAwaited'
    BY <2>3, <2>4 DEF ReadyOwed, SubsAwaited
  <2>7. \A o \in Ops : pc'[o] \notin {"compensating", "invalidating"}
    BY <2>1 DEF Holding
  <2>8. QED
    BY <2>3, <2>5, <2>6, <2>7 DEF UsableInv
<1>9. CASE SupervisorStep /\ ~Serve
  <2>1. sup' # "serving"
    BY <1>9 DEF SupervisorStep, Retract, Restore, Restored, RestoreRejected, NextRound, RoundDone,
                Restoring, RestoreFailed, ConnectionEnded, SupervisorCancelled, EndsServing, Clear
  <2>2. QED
    BY <1>2, <2>1 DEF Usable
<1>10. QED
    BY <1>3, <1>4, <1>5, <1>6, <1>7, <1>8, <1>9 DEF Next, OpStep

----------------------------------------------------------------------------
(* The inductive invariant: a call holds the lock for the session it asked  *)
(* in, what is on the wire is the last request of a call or the             *)
(* supervisor's, a restore round knows what the broker has, and in a        *)
(* session that may be used whatever is not in order is still owed by a     *)
(* call that has not ended.                                                 *)
THEOREM Invariant == Spec => []IInv
<1>1. Init => IInv
  <2> SUFFICES ASSUME Init PROVE IInv
    OBVIOUS
  <2>1. <<>> \in Seq([who : Actors, kind : {"sub", "unsub"}, filter : Filters]) /\ DOMAIN <<>> = {}
    OBVIOUS
  <2>2. /\ sup = "off" /\ ~up /\ ~connected /\ client = 0 /\ session = 0 /\ wire = <<>>
        /\ registered = {} /\ brokerSubs = {}
        /\ \A o \in Ops : pc[o] = "idle"
        /\ \A a \in Actors : task[a] = "none" /\ reply[a] = "none"
        /\ Ops \subseteq Actors /\ Sup \in Actors
    BY DEF Init, Actors
  <2>3. TypeOK
    <3>1. 0 \in 0..MaxSessions /\ 0 \in 0..MaxCancels
      BY BoundAssumption
    <3>2. /\ pc \in [Ops -> Holding \cup {"idle", "called", "open", "done"}]
          /\ seen \in [Ops -> 0..MaxSessions] /\ own \in [Ops -> 0..MaxSessions]
          /\ suspended \in [Ops -> BOOLEAN] /\ cancel \in [Ops -> BOOLEAN]
          /\ task \in [Actors -> {"none", "sub", "unsub"}]
          /\ reply \in [Actors -> {"none", "granted", "denied", "removed", "failed"}]
      BY <3>1 DEF Init
    <3>3. \A o \in Ops : pc[o] \notin Holding
      BY <2>2 DEF Holding
    <3>4. spoiled \in BOOLEAN /\ ready \in BOOLEAN /\ closing \in BOOLEAN /\ escaped \in BOOLEAN
          /\ up \in BOOLEAN /\ connected \in BOOLEAN
      BY DEF Init
    <3>5. QED
      BY <2>1, <2>2, <3>1, <3>2, <3>3, <3>4 DEF Init, TypeOK
  <2>4. SupervisorInv /\ (\A o \in Ops : CallInv(o)) /\ WireInv
    BY <2>1, <2>2 DEF SupervisorInv, CallInv, WireInv, Holding, Asking
  <2>5. RestoringInv /\ ServingInv /\ UsableInv
    BY <2>2 DEF RestoringInv, ServingInv, UsableInv, Usable
  <2>6. QED
    BY <2>3, <2>4, <2>5 DEF IInv
<1>2. IInv /\ [Next]_vars => IInv'
  <2> SUFFICES ASSUME IInv, [Next]_vars PROVE IInv'
    OBVIOUS
  <2>1. TypeOK'
    BY TypesStep DEF IInv
  <2>2. \A o \in Ops : CallInv(o)'
    BY <2>1, CallInvStep
  <2>3. SupervisorInv' /\ WireInv' /\ RestoringInv' /\ ServingInv' /\ UsableInv'
    BY <2>1, SupervisorInvStep, WireInvStep, RestoringInvStep, ServingInvStep, UsableInvStep
  <2>4. QED
    BY <2>1, <2>2, <2>3 DEF IInv
<1>3. QED
    BY <1>1, <1>2, PTL DEF Spec

(* The types; among them the mutual exclusion of the subscription lock.      *)
THEOREM Types == Spec => []TypeOK
<1>1. IInv => TypeOK
    BY DEF IInv
<1>2. QED
    BY <1>1, Invariant, PTL

(* While a session may be used, every registration has its filter at the     *)
(* broker, whatever subscribe, unsubscribe, restore and close are doing.     *)
THEOREM SubscribedWhileUsable == Spec => []RegisteredIsSubscribed
<1>1. IInv => RegisteredIsSubscribed
  <2> SUFFICES ASSUME IInv, client # 0, up PROVE FiltersOf(registered) \subseteq brokerSubs
    BY DEF RegisteredIsSubscribed
  <2>1. TypeOK /\ SupervisorInv /\ ServingInv
    BY DEF IInv
  <2>2. sup = "serving"
    BY <2>1 DEF TypeOK, SupervisorInv
  <2>3. QED
    BY <2>1, <2>2 DEF ServingInv, FiltersOf
<1>2. QED
    BY <1>1, Invariant, PTL

(* A registration that is not to be restored never migrates to another       *)
(* session.                                                                  *)
THEOREM TransientEndsWithItsSession == Spec => []TransientStaysInSession
<1>1. IInv => TransientStaysInSession
  <2>1. IInv => \A o \in Ops : CallInv(o) /\ registered \subseteq Ops
    BY DEF IInv, TypeOK
  <2>2. QED
    BY <2>1 DEF CallInv, TransientStaysInSession, IInv, TypeOK
<1>2. QED
    BY <1>1, Invariant, PTL

(* A session at rest is ready and agrees with the broker: nobody is left who *)
(* could still owe either.                                                   *)
THEOREM SoundAtRest == Spec => []RestIsSound
<1>1. IInv => RestIsSound
  <2> SUFFICES ASSUME IInv, Quiet, ~escaped PROVE ready /\ brokerSubs = FiltersOf(registered)
    BY DEF RestIsSound, ReadyAtRest, BrokerAgreesAtRest
  <2>1. TypeOK /\ SupervisorInv /\ ServingInv /\ UsableInv
    BY DEF IInv
  <2>2. Usable /\ LockFree /\ \A o \in Ops : task[o] = "none"
    BY DEF Quiet, Usable, Actors
  <2>3. ReadyOwed /\ FiltersOwed
    BY <2>1, <2>2 DEF UsableInv
  <2>4. \A o \in Ops : ~Suspends(o) /\ ~Owes(o)
    BY <2>2 DEF LockFree, Suspends, Owes, Asking, Holding
  <2>5. brokerSubs \subseteq FiltersOf(registered)
    BY <2>3, <2>4 DEF FiltersOwed, FiltersOf
  <2>6. FiltersOf(registered) \subseteq brokerSubs
    BY <2>1, <2>2 DEF ServingInv, FiltersOf, Usable
  <2>7. QED
    BY <2>3, <2>4, <2>5, <2>6 DEF ReadyOwed
<1>2. QED
    BY <1>1, Invariant, PTL

----------------------------------------------------------------------------
(* Who holds the lock waits for something.  A call that asks has a          *)
(* SUBSCRIBE and no other request, so the answer is one it can use.        *)
AnswerInv(o) ==
    /\ pc[o] \in Asking => /\ task[o] \in {"none", "sub"}
                           /\ task[o] = "none" => reply[o] \in {"granted", "denied", "failed"}
    /\ pc[o] \in {"undoing", "compensating", "removing"} /\ task[o] = "none" => reply[o] # "none"

LEMMA OwnAnswerInv ==
    ASSUME TypeOK, NEW o \in Ops, AnswerInv(o), OpStep(o)
    PROVE  AnswerInv(o)'
<1> USE DEF AnswerInv
<1>1. o \in Actors /\ FilterOf[o] \in Filters
    BY FilterAssumption DEF Actors
<1>2. ASSUME NEW where \in Places, Goes(o, where) PROVE pc'[o] = where
    BY <1>2, GoesTo
<1>3. CASE Call(o) \/ Cancel(o)
  <2>1. /\ task'[o] = task[o] /\ reply'[o] = reply[o]
        /\ pc'[o] = pc[o] \/ pc'[o] = "called"
    BY <1>3 DEF Call, Cancel, requests, TypeOK
  <2>2. QED
    BY <2>1 DEF Asking
<1>4. CASE \/ Refused(o) \/ Rejected(o) \/ Undone(o) \/ Compensated(o) \/ Escape(o) \/ Removed(o)
           \/ Invalidated(o) \/ Join(o) \/ Opened(o) \/ Ambiguous(o) \/ Forget(o)
  <2>1. pc'[o] \in {"done", "open", "invalidating"}
    BY <1>2, <1>4 DEF Refused, Rejected, Undone, Compensated, Escape, Removed, Invalidated, Join,
                      Opened, Ambiguous, Forget, Places, Holding
  <2>2. QED
    BY <2>1 DEF Asking
<1>5. CASE Subscribe(o)
  <2>1. pc'[o] = "subscribing" /\ task'[o] = "sub"
    BY <1>1, <1>2, <1>5, Requested DEF Subscribe, Places, Holding
  <2>2. QED
    BY <2>1 DEF Asking
<1>6. CASE Outlived(o) \/ Undo(o) \/ Unsubscribe(o)
  <2>1. pc'[o] \in {"compensating", "undoing", "removing"} /\ task'[o] = "unsub"
    BY <1>1, <1>2, <1>6, Requested DEF Outlived, Undo, Unsubscribe, Places, Holding
  <2>2. QED
    BY <2>1 DEF Asking
<1>7. CASE Interrupted(o)
  <2>1. pc[o] = "subscribing" /\ pc'[o] = "cancelled" /\ task'[o] = task[o] /\ reply'[o] = reply[o]
    BY <1>2, <1>7 DEF Interrupted, Places, Holding, requests
  <2>2. QED
    BY <2>1 DEF Asking
<1>8. QED
    BY <1>3, <1>4, <1>5, <1>6, <1>7 DEF OpStep, CallStep

LEMMA AnswerInvStep ==
    ASSUME IInv, [Next]_vars, NEW p \in Ops, AnswerInv(p)
    PROVE  AnswerInv(p)'
<1>1. TypeOK /\ p \in Actors /\ p # Sup /\ Sup \in Actors
    BY OpsAssumption DEF IInv, Actors
<1>2. ASSUME pc'[p] = pc[p],
             \/ task'[p] = task[p] /\ reply'[p] = reply[p]
             \/ /\ task[p] # "none" /\ task'[p] = "none" /\ reply'[p] # "none"
                /\ task[p] = "sub" => reply'[p] \in {"granted", "denied", "failed"}
      PROVE  AnswerInv(p)'
    BY <1>2 DEF AnswerInv, Asking
<1>3. ASSUME NEW o \in Ops, OpStep(o) PROVE AnswerInv(p)'
  <2>1. CASE p = o
    BY <1>1, <1>3, <2>1, OwnAnswerInv
  <2>2. CASE p # o
    <3>1. pc'[p] = pc[p] /\ task'[p] = task[p] /\ reply'[p] = reply[p]
      BY <1>1, <1>3, <2>2, OpStepShape DEF OpShape
    <3>2. QED
      BY <1>2, <3>1
  <2>3. QED
    BY <2>1, <2>2
<1>4. ASSUME NEW r, Answer(r) PROVE AnswerInv(p)'
  <2>1. \/ task'[p] = task[p] /\ reply'[p] = reply[p]
        \/ task[p] = wire[1].kind /\ task'[p] = "none" /\ reply'[p] = r
    BY <1>1, <1>4, Answered DEF requests
  <2>2. \/ wire[1].kind = "sub" /\ r \in {"granted", "denied", "failed"}
        \/ wire[1].kind = "unsub" /\ r \in {"removed", "failed"}
    BY <1>1, <1>4, Answered
  <2>3. pc'[p] = pc[p]
    BY <1>4 DEF Answer
  <2>4. QED
    BY <1>2, <2>1, <2>2, <2>3
<1>5. ASSUME NEW a \in Actors, Fails(a) PROVE AnswerInv(p)'
  <2>1. \/ task'[p] = task[p] /\ reply'[p] = reply[p]
        \/ task[p] # "none" /\ task'[p] = "none" /\ reply'[p] = "failed"
    BY <1>1, <1>5, Failed
  <2>2. QED
    BY <1>2, <1>5, <2>1 DEF Fails
<1>6. CASE Drop \/ Connect \/ CloseReturns \/ Clear \/ UNCHANGED vars
    BY <1>2, <1>6 DEF Drop, Connect, CloseReturns, Clear, vars, requests
<1>7. CASE Close
    BY <1>1, <1>2, <1>7 DEF Close, TypeOK
<1>8. CASE Retract \/ Restore
  <2>1. PICK f \in Filters, k \in {"sub", "unsub"} : Request(Sup, k, f)
    BY <1>8, <1>1 DEF Retract, Restore, TypeOK
  <2>2. task'[p] = task[p] /\ reply'[p] = reply[p]
    BY <1>1, <2>1, Requested
  <2>3. QED
    BY <1>2, <1>8, <2>2 DEF Retract, Restore
<1>9. CASE Restored \/ (\E i \in BOOLEAN : RestoreRejected(i)) \/ NextRound \/ Serve
  <2>1. pc' = pc /\ task' = task /\ reply'[p] = reply[p]
    BY <1>1, <1>9 DEF Restored, RestoreRejected, NextRound, Serve, requests, TypeOK
  <2>2. QED
    BY <1>2, <2>1
<1>10. CASE RestoreFailed \/ ConnectionEnded \/ SupervisorCancelled
  <2>1. EndsServing
    BY <1>10 DEF RestoreFailed, ConnectionEnded, SupervisorCancelled
  <2>2. pc' = pc /\ task'[p] = task[p] /\ reply'[p] = reply[p]
    BY <1>1, <2>1 DEF EndsServing, TypeOK
  <2>3. QED
    BY <1>2, <2>2
<1>11. QED
    BY <1>3, <1>4, <1>5, <1>6, <1>7, <1>8, <1>9, <1>10 DEF Next, OpStep, SupervisorStep

(* Whoever holds the lock has something to go on with, or a request whose    *)
(* time runs out: no call keeps the lock from the supervisor for ever.      *)
THEOREM HoldersWait == Spec => []HolderAwaits
<1> DEFINE AInv == \A o \in Ops : AnswerInv(o)
<1>1. Init => AInv
    BY DEF Init, AnswerInv, Asking
<1>2. IInv /\ AInv /\ [Next]_vars => AInv'
    BY AnswerInvStep
<1>3. AInv => HolderAwaits
    BY DEF AnswerInv, Asking, HolderAwaits, HasStep, Holding
<1> HIDE DEF AInv
<1>4. QED
    BY <1>1, <1>2, <1>3, Invariant, PTL DEF Spec
=============================================================================
