----------------------------- MODULE OperatorView -----------------------------
(***************************************************************************)
(* The browser view of the operator application (frontend/src/main.ts and   *)
(* api.ts) against the backend OperatorTasks details: a document that       *)
(* connects, prepares, reviews, confirms and discards tasks, and recovers   *)
(* a view whose delivery is uncertain.  Every await is a suspension: other  *)
(* handlers run before its answer does.  A request may be served late, even *)
(* after the document gave it up; an answer may be lost.                    *)
(*                                                                         *)
(* The document is one record, and each function of the code that changes  *)
(* it is an operator from records to records.  The counters viewGeneration  *)
(* and preparationGeneration are only compared with captured values: what   *)
(* captured them has a flag instead.  A WebSocket is named by the fresh     *)
(* generation it is opened with; readiness of the runtime, freshness and    *)
(* the time of a preparation are a choice at every point that reads them.   *)
(***************************************************************************)
EXTENDS Integers, FiniteSets

CONSTANTS Tokens,       \* preparations
          MaxGens,      \* bound: generations (and WebSockets) of all documents
          MaxIds,       \* bound: view identities
          RetryLimit    \* duplicateViewRetryLimit

ASSUME BoundsAreNatural == MaxGens \in Nat /\ MaxIds \in Nat \ {0} /\ RetryLimit \in Nat

Gens == 1..MaxGens
None == "none"          \* null, for a review, a deferred preparation or a transition
ASSUME NoneIsNoToken == None \notin Tokens

VARIABLES
    b,        \* the document
    claimed,  \* tokens of which it said that nothing was published
    net,      \* requests that are not served yet: <<operation, token or generation>>
    reply,    \* answers on their way
    socks,    \* the WebSocket of each generation, at the backend, and its identity
    lease,    \* of each identity: the generation it is active for, and if connected
    retired,  \* generations whose retirement or disconnection is remembered
    token,    \* what the backend holds of each preparation
    sending,  \* tokens whose confirmation is in the client's send
    sent      \* tokens that were handed to the client

backend == <<socks, lease, retired, token, sending, sent>>
vars == <<b, claimed, net, reply, backend>>

NoFlow == [at |-> "idle", gen |-> 0, fresh |-> FALSE]
NoReview == [tok |-> None, status |-> "review"]
NoTransition == [at |-> None]

(* A document that starts: the identity and the generation that a hidden    *)
(* page left for retirement, or a new identity.                            *)
Document(id, gen, flow) ==
    [shown |-> TRUE, online |-> TRUE, conn |-> "connecting", socket |-> 0, recovery |-> 0,
     id |-> id, gen |-> gen, accepted |-> FALSE, required |-> gen # 0, conflict |-> FALSE,
     acked |-> 0, review |-> NoReview, deferred |-> None, flow |-> flow, tr |-> NoTransition]

Init ==
    /\ b = Document(1, 0, [t \in Tokens |-> NoFlow])
    /\ claimed = {} /\ net = {} /\ reply = {}
    /\ socks = [g \in Gens |-> [at |-> "idle", id |-> 0]]
    /\ lease = [i \in 1..MaxIds |-> [gen |-> 0, up |-> FALSE]]
    /\ retired = {} /\ token = [t \in Tokens |-> "unknown"] /\ sending = {} /\ sent = {}

Ask(op, x) == net' = net \cup {<<op, x>>}
Answers(op, x) == {r \in reply : r[1] = op /\ r[2] = x}
Answered(op, x, answer) == <<op, x, answer>> \in reply /\ reply' = reply \ Answers(op, x)
GivenUp(op, x) == reply' = reply \ Answers(op, x)

----------------------------------------------------------------------------
(* What the functions of main.ts do to the document                        *)

Ends(d, t) == [d EXCEPT !.flow[t].at = "done", !.flow[t].fresh = FALSE]
Over(d) == [d EXCEPT !.tr = NoTransition]
Pending(d) == {t \in Tokens : d.flow[t].at \in {"preparing", "discarding"}}

(* viewGeneration += 1: nothing that captured the counter finds it again.  *)
Bump(d) ==
    [d EXCEPT !.flow = [t \in Tokens |-> [@[t] EXCEPT !.fresh = FALSE]],
              !.tr = IF @ = NoTransition THEN @ ELSE [@ EXCEPT !.moved = TRUE]]

RetireTasking(d) == [Bump(d) EXCEPT !.socket = 0, !.conn = "down"]
Strand(d) ==
    RetireTasking(IF d.review = NoReview THEN d ELSE [d EXCEPT !.review.status = "stranded"])
Defer(d, t) == RetireTasking([d EXCEPT !.deferred = IF @ = None THEN t ELSE @])
ActivateDeferred(d) ==
    IF d.deferred = None THEN [d EXCEPT !.review = NoReview]
    ELSE [d EXCEPT !.review = [tok |-> d.deferred, status |-> "stranded"],
                   !.deferred = None, !.conn = "down"]
RestoreStranded(d) ==
    IF d.review.status # "invalidating" THEN d
    ELSE [d EXCEPT !.review.status = "stranded", !.conn = "down"]

(* Only what was not asked of the backend may be dropped with the view.    *)
DropsAny(d) == [d EXCEPT !.review = NoReview]           \* a defect of Abandon
Abandon(d) == IF d.review.status # "review" THEN d ELSE [d EXCEPT !.review = NoReview]
Abandoned(d) == IF Abandon(d).review = d.review THEN {} ELSE {d.review.tok}

ForgetsIt(d) ==                             \* a defect of CloseForTransition
    [d EXCEPT !.socket = 0, !.recovery = IF @ = d.socket THEN 0 ELSE @]
CloseForTransition(d) ==
    LET closed == [d EXCEPT !.socket = 0]
    IN IF d.recovery = d.socket THEN RestoreStranded([closed EXCEPT !.recovery = 0]) ELSE closed

Acknowledge(d, g) ==
    IF d.gen = g THEN [d EXCEPT !.acked = g, !.accepted = FALSE, !.required = FALSE] ELSE d

(* A WebSocket with the generation g: the socket of the document from now  *)
(* on.  The last of the bound is never refused for want of another.        *)
Fresh == {g \in Gens : /\ socks[g].at = "idle" /\ \A h \in 1..(g - 1) : socks[h].at # "idle"}
Opens(d, g) == socks' = [socks EXCEPT ![g] = [at |-> "opening", id |-> d.id]]
Binding(d, g, retries, final) ==
    [d EXCEPT !.socket = g, !.conn = "connecting",
              !.tr = [at |-> "binding", gen |-> g, left |-> retries, final |-> final,
                      moved |-> FALSE]]

(* One round of the attempts: the browser may refuse to make a WebSocket.   *)
Attempts(d, retries, final) ==
    \/ b' = Over([d EXCEPT !.conn = "down"]) /\ UNCHANGED socks
    \/ \E g \in Fresh : b' = Binding(d, g, retries, final) /\ Opens(d, g)

(* connectStateOnce from its last await on: the successor of the view       *)
Successor(d, final) ==
    LET bare == Bump([d EXCEPT !.socket = 0])
    IN /\ Attempts(Abandon(bare), IF final THEN 0 ELSE RetryLimit, final)
       /\ claimed' = claimed \cup Abandoned(bare) /\ UNCHANGED <<net, reply>>

StartsDismissal(d) ==
    [d EXCEPT !.review.status = "invalidating", !.flow[d.review.tok].at = "dismissing"]

(* ... from the wait for the pending preparations on                       *)
Settled(d, retire) ==
    IF d.review.status # "review" THEN b' = Over(d) /\ UNCHANGED <<claimed, net, reply, socks>>
    ELSE IF d.review # NoReview THEN
        /\ b' = [StartsDismissal(d) EXCEPT
                   !.tr = [at |-> "dismissing", tok |-> d.review.tok, retire |-> retire,
                           moved |-> FALSE]]
        /\ Ask("discard", d.review.tok) /\ UNCHANGED <<claimed, reply, socks>>
    ELSE IF retire THEN
        /\ b' = [d EXCEPT !.conn = IF d.online THEN "connecting" ELSE "down",
                          !.tr = [at |-> "retiring", gen |-> d.gen, moved |-> FALSE]]
        /\ Ask("retire", d.gen) /\ UNCHANGED <<claimed, reply, socks>>
    ELSE Successor(d, d.acked # 0)

ConnectState(d) ==
    IF d.conflict \/ d.tr # NoTransition \/ ~d.shown \/ d.review.status # "review" THEN
        b' = d /\ UNCHANGED <<claimed, net, reply, socks>>
    ELSE IF Pending(d) # {} THEN
        /\ b' = [d EXCEPT !.conn = "down",
                          !.tr = [at |-> "waiting", retire |-> d.accepted \/ d.required,
                                  moved |-> FALSE]]
        /\ UNCHANGED <<claimed, net, reply, socks>>
    ELSE Settled(d, d.accepted \/ d.required)

----------------------------------------------------------------------------
(* Preparing: the dialog of a review is modal, so there is none.           *)

Prepare(t) ==
    /\ b.shown /\ b.conn = "connected" /\ b.review = NoReview /\ b.flow[t].at = "idle"
    /\ b' = [b EXCEPT !.flow = [x \in Tokens |->
                IF x = t THEN [at |-> "preparing", gen |-> b.gen, fresh |-> TRUE]
                ELSE [@[x] EXCEPT !.fresh = FALSE]]]
    /\ Ask("prepare", t) /\ UNCHANGED <<claimed, reply, backend>>

StillCurrent(t) == b.flow[t].fresh /\ b.flow[t].gen = b.gen /\ b.conn = "connected"

(* Anything that changed since, and the candidate is discarded instead.    *)
Prepared(t) ==
    /\ b.flow[t].at = "preparing" /\ Answered("prepare", t, "ok")
    /\ \/ /\ StillCurrent(t)
          /\ b' = [Ends(b, t) EXCEPT !.review = [tok |-> t, status |-> "review"]]
          /\ UNCHANGED net
       \/ b' = [b EXCEPT !.flow[t].at = "discarding"] /\ Ask("discard", t)
    /\ UNCHANGED <<claimed, backend>>

PrepareDenied(t) ==
    /\ b.flow[t].at = "preparing" /\ Answered("prepare", t, "denied")
    /\ b' = Ends(b, t) /\ UNCHANGED <<claimed, net, backend>>

PrepareUnproven(t) ==
    /\ b.flow[t].at = "preparing" /\ GivenUp("prepare", t)
    /\ b' = Ends(IF b.flow[t].gen = b.gen THEN RetireTasking(b) ELSE b, t)
    /\ claimed' = claimed \cup {t} /\ UNCHANGED <<net, backend>>

CandidateDiscarded(t) ==
    /\ b.flow[t].at = "discarding" /\ Answered("discard", t, "ok") /\ b' = Ends(b, t)
    /\ claimed' = IF b.review = NoReview THEN claimed \cup {t} ELSE claimed
    /\ UNCHANGED <<net, backend>>

(* What is in flight or stranded already has the stronger uncertainty.     *)
CandidateKept(t) ==
    /\ b.flow[t].at = "discarding" /\ GivenUp("discard", t)
    /\ b' = Ends(IF b.review # NoReview THEN Defer(b, t)
                 ELSE Strand([b EXCEPT !.review = [tok |-> t, status |-> "stranded"]]), t)
    /\ UNCHANGED <<claimed, net, backend>>

----------------------------------------------------------------------------
(* Reviewing                                                               *)

Confirm ==
    LET t == b.review.tok
    IN /\ b.review # NoReview /\ b.review.status = "review" /\ b.shown
       /\ b.flow[t].gen = b.gen /\ b.conn = "connected"
       /\ b' = [b EXCEPT !.review.status = "invalidating", !.flow[t].at = "confirming"]
       /\ Ask("confirm", t) /\ UNCHANGED <<claimed, reply, backend>>

(* The cancel button, a render that finds the review not eligible any      *)
(* more, or a confirmation of what is not.                                  *)
Dismiss ==
    /\ b.review # NoReview /\ b.review.status = "review"
    /\ b' = StartsDismissal(b) /\ Ask("discard", b.review.tok)
    /\ UNCHANGED <<claimed, reply, backend>>

(* Another target: no preparation on its way is the latest any more.       *)
SelectEntity ==
    /\ b.shown /\ \E t \in Tokens : b.flow[t].fresh
    /\ b' = [b EXCEPT !.flow = [t \in Tokens |-> [@[t] EXCEPT !.fresh = FALSE]]]
    /\ UNCHANGED <<claimed, net, reply, backend>>

(* An answer that is definite clears the review it belongs to.             *)
Clears(d, t) == IF d.review.tok = t THEN ActivateDeferred(d) ELSE d
Cleared(t) == b' = Clears(Ends(b, t), t) /\ UNCHANGED <<net, backend>>
ConfirmAnswered(t) ==
    /\ b.flow[t].at = "confirming" /\ Cleared(t)
    /\ \/ Answered("confirm", t, "ok") /\ UNCHANGED claimed
       \/ Answered("confirm", t, "denied") /\ claimed' = claimed \cup {t}
Dismissed(t) ==
    /\ b.flow[t].at = "dismissing" /\ Answered("discard", t, "ok") /\ Cleared(t)
    /\ claimed' = IF b.review.tok = t /\ b.deferred = None THEN claimed \cup {t} ELSE claimed

(* Whatever is under review by now is stranded.                            *)
Stranded(t) ==
    /\ \/ b.flow[t].at = "confirming" /\ GivenUp("confirm", t)
       \/ b.flow[t].at = "dismissing" /\ GivenUp("discard", t)
    /\ b' = Strand(Ends(b, t)) /\ UNCHANGED <<claimed, net, backend>>

----------------------------------------------------------------------------
(* Connecting                                                              *)

(* The reconnect button, or start(), with an identity of its own for a      *)
(* view that was refused as a duplicate.                                   *)
Contested == b.conn = "duplicate" /\ ~b.accepted /\ ~b.required /\ ~b.conflict
Rotated == [b EXCEPT !.id = @ + 1, !.gen = 0, !.acked = 0]
Reconnect ==
    /\ b.shown /\ ~b.conflict /\ b.tr = NoTransition
    /\ Contested => b.id < MaxIds
    /\ ConnectState(IF Contested THEN Rotated ELSE b)
    /\ UNCHANGED <<lease, retired, token, sending, sent>>

AwaitOver ==
    /\ \/ b.tr.at = "waiting" /\ Pending(b) = {}
       \/ b.tr.at = "dismissing" /\ b.flow[b.tr.tok].at = "done"
    /\ IF ~b.shown \/ b.tr.moved THEN b' = Over(b) /\ UNCHANGED <<claimed, net, reply, socks>>
       ELSE IF b.tr.at = "waiting" THEN Settled(Over(b), b.tr.retire)
       ELSE IF b.tr.retire THEN
            /\ b' = [b EXCEPT !.conn = IF b.online THEN "connecting" ELSE "down",
                              !.tr = [at |-> "retiring", gen |-> b.gen, moved |-> FALSE]]
            /\ Ask("retire", b.gen) /\ UNCHANGED <<claimed, reply, socks>>
       ELSE Successor(b, b.acked # 0)
    /\ UNCHANGED <<lease, retired, token, sending, sent>>

(* retireBrowserView is acknowledged, or not.                              *)
Retired ==
    LET d == Acknowledge(b, b.tr.gen)
    IN /\ b.tr.at = "retiring" /\ <<"retire", b.tr.gen, "ok">> \in reply
       /\ IF ~b.shown \/ b.tr.moved \/ ~b.online \/ b.gen # b.tr.gen
          THEN /\ b' = Over(IF b.shown THEN [d EXCEPT !.conn = "down"] ELSE d)
               /\ GivenUp("retire", b.tr.gen) /\ UNCHANGED <<claimed, net, socks>>
          ELSE /\ Attempts(Abandon(Bump([d EXCEPT !.socket = 0])), 0, TRUE)
               /\ claimed' = claimed \cup Abandoned(d)
               /\ GivenUp("retire", b.tr.gen) /\ UNCHANGED net
       /\ UNCHANGED <<lease, retired, token, sending, sent>>

NotRetired ==
    /\ b.tr.at = "retiring" /\ GivenUp("retire", b.tr.gen)
    /\ b' = Over(IF b.shown THEN RetireTasking(b) ELSE b)
    /\ UNCHANGED <<claimed, net, backend>>

(* bindStateSocket: its first message accepts the generation; a recovery    *)
(* lets its stranded review go.                                             *)
Accepts(d, g) ==
    [d EXCEPT !.gen = g, !.accepted = TRUE, !.required = FALSE, !.acked = 0,
              !.conflict = FALSE, !.conn = "connected", !.tr = NoTransition,
              !.recovery = IF @ = g THEN 0 ELSE @]
LetsGo(d, t) ==
    [d EXCEPT !.review = IF @.tok = t THEN NoReview ELSE @,
              !.deferred = IF @ = None THEN None
                           ELSE IF d.flow[@].gen = d.flow[t].gen THEN None ELSE @]
Message ==
    LET g == b.socket
    IN /\ g # 0 /\ socks[g].at \in {"active", "ended"}
       /\ b' = IF b.tr.at = "binding" /\ b.tr.gen = g THEN Accepts(b, g)
               ELSE IF b.tr.at = "rebinding" /\ b.tr.gen = g THEN LetsGo(Accepts(b, g), b.tr.tok)
               ELSE [b EXCEPT !.conn = "connected"]
       /\ UNCHANGED <<claimed, net, reply, backend>>

Lost(d) == [Abandon([Bump(d) EXCEPT !.socket = 0]) EXCEPT !.conn = "down"]
(* The connection ends, for the document: after it was accepted ...        *)
Disconnected ==
    /\ b.socket # 0 /\ b.tr.at \in {"binding", "rebinding"} => b.tr.gen # b.socket
    /\ b' = Lost(b) /\ UNCHANGED <<claimed, net, reply, backend>>

(* ... or before, refused as a duplicate or for whatever reason.           *)
Refused(d, duplicate) ==
    IF d.tr.at = "rebinding" THEN
        IF duplicate THEN [Over(d) EXCEPT !.conflict = TRUE, !.conn = "duplicate"] ELSE Over(d)
    ELSE IF ~duplicate \/ ~d.online \/ d.review # NoReview \/ Pending(d) # {} THEN Over(d)
    ELSE IF d.tr.left = 0 THEN [Over(d) EXCEPT !.conflict = d.tr.final, !.conn = "duplicate"]
    ELSE [d EXCEPT !.conn = "connecting", !.tr.at = "delaying"]
NotAccepted ==
    LET g == b.tr.gen
        owned == b.socket = g \/ b.recovery = g
        bare == Bump([b EXCEPT !.socket = IF @ = g THEN 0 ELSE @,
                               !.recovery = IF @ = g THEN 0 ELSE @])
    IN /\ b.tr.at \in {"binding", "rebinding"}
       /\ \E duplicate \in {FALSE, socks[g].at = "refused"} :
             b' = Refused(IF ~owned THEN b
                          ELSE IF b.tr.at = "rebinding" /\ b.review # NoReview
                               THEN RestoreStranded(bare)
                          ELSE [Abandon(bare) EXCEPT !.conn = "down"], duplicate)
       /\ UNCHANGED <<claimed, net, reply, backend>>

DelayOver ==
    /\ b.tr.at = "delaying"
    /\ IF ~b.shown \/ ~b.online \/ b.conn # "connecting"
       THEN b' = Over(b) /\ UNCHANGED socks
       ELSE Attempts(b, b.tr.left - 1, b.tr.final)
    /\ UNCHANGED <<claimed, net, reply, lease, retired, token, sending, sent>>

----------------------------------------------------------------------------
(* Recovering a stranded view                                              *)

(* The successor is opened for the review that was to be recovered, unless  *)
(* the browser refuses to make a WebSocket.                                 *)
Rebinds(d, t) ==
    IF d.tr.moved \/ d.review # [tok |-> t, status |-> "invalidating"] \/ ~d.online
    THEN b' = Over(RestoreStranded(d)) /\ UNCHANGED socks
    ELSE \/ b' = Over(RestoreStranded([d EXCEPT !.recovery = 0])) /\ UNCHANGED socks
         \/ \E g \in Fresh :
               /\ b' = [d EXCEPT !.socket = g, !.recovery = g,
                          !.tr = [at |-> "rebinding", gen |-> g, tok |-> t, moved |-> FALSE]]
               /\ Opens(d, g)

MustRetire(d) == d.acked # d.gen \/ d.gen = 0
Recover ==
    LET t == b.review.tok
        d == [b EXCEPT !.review.status = "invalidating", !.conn = "connecting",
                       !.tr = [at |-> "recovering", gen |-> b.gen, tok |-> t, moved |-> FALSE]]
    IN /\ b.shown /\ b.review.status = "stranded" /\ b.tr = NoTransition /\ ~b.conflict
       /\ IF socks[b.flow[t].gen].id # b.id
          THEN b' = [b EXCEPT !.conn = "down"] /\ UNCHANGED <<net, socks>>
          ELSE IF MustRetire(b) THEN b' = d /\ Ask("retire", b.gen) /\ UNCHANGED socks
          ELSE Rebinds(d, t) /\ UNCHANGED net
       /\ UNCHANGED <<claimed, reply, lease, retired, token, sending, sent>>

RecoveryRetired ==
    LET d == Acknowledge(b, b.tr.gen)
    IN /\ b.tr.at = "recovering" /\ Answered("retire", b.tr.gen, "ok")
       /\ IF ~b.shown THEN b' = Over(d) /\ UNCHANGED socks ELSE Rebinds(d, b.tr.tok)
       /\ UNCHANGED <<claimed, net, lease, retired, token, sending, sent>>

RecoveryFails ==
    /\ b.tr.at = "recovering" /\ GivenUp("retire", b.tr.gen)
    /\ b' = Over(IF b.shown THEN RestoreStranded(b) ELSE b)
    /\ UNCHANGED <<claimed, net, backend>>

----------------------------------------------------------------------------
(* The browser: the network and the page                                   *)

Leaving(d) == [Abandon(CloseForTransition(Bump(d))) EXCEPT !.conn = "down"]
NetworkChanges ==
    /\ b' = Leaving([b EXCEPT !.online = ~@]) /\ UNCHANGED <<claimed, net, reply, backend>>

PageHide ==
    /\ b.shown
    /\ b' = [Leaving([b EXCEPT !.shown = FALSE]) EXCEPT !.required = @ \/ b.accepted]
    /\ UNCHANGED <<claimed, net, reply, backend>>

(* The page comes back as it was, from the cache of the browser ...        *)
PageShow ==
    LET d == [Bump(b) EXCEPT !.shown = TRUE, !.conn = "down"]
    IN /\ ~b.shown
       /\ IF b.online THEN ConnectState(d)
          ELSE b' = d /\ UNCHANGED <<claimed, net, reply, socks>>
       /\ UNCHANGED <<lease, retired, token, sending, sent>>

(* ... or as a new document, that keeps the identity only to retire it.    *)
Reload ==
    /\ ~b.shown /\ (b.required \/ b.id < MaxIds)
    /\ b' = Document(IF b.required THEN b.id ELSE b.id + 1, IF b.required THEN b.gen ELSE 0,
                     [t \in Tokens |-> IF b.flow[t] = NoFlow THEN NoFlow
                                       ELSE [b.flow[t] EXCEPT !.at = "gone", !.fresh = FALSE]])
    /\ reply' = {} /\ UNCHANGED <<claimed, net, backend>>

----------------------------------------------------------------------------
(* The backend, as OperatorTasks details it                                *)

Waited(op, x) ==
    CASE op = "prepare" -> b.flow[x].at = "preparing"
      [] op = "confirm" -> b.flow[x].at = "confirming"
      [] op = "discard" -> b.flow[x].at \in {"discarding", "dismissing"}
      [] op = "retire" -> b.tr.at \in {"retiring", "recovering"} /\ b.tr.gen = x
Replies(op, x, answer) ==
    reply' = IF Waited(op, x) THEN reply \cup {<<op, x, answer>>} ELSE reply
Takes(op, x) == <<op, x>> \in net /\ net' = net \ {<<op, x>>}

Of(g) == {t \in Tokens : token[t] = "held" /\ b.flow[t].gen = g}
Sending(i) == {t \in sending : socks[b.flow[t].gen].id = i}
RetiresAll(S) == token' = [t \in Tokens |-> IF t \in S THEN "proof" ELSE token[t]]
Live(g) == g # 0 /\ lease[socks[g].id] = [gen |-> g, up |-> TRUE]

(* What the backend may refuse for its own reasons, it may refuse here.    *)
ServePrepare(t) ==
    /\ Takes("prepare", t)
    /\ \/ /\ Live(b.flow[t].gen) /\ token' = [token EXCEPT ![t] = "held"]
          /\ Replies("prepare", t, "ok")
       \/ Replies("prepare", t, "denied") /\ UNCHANGED token
    /\ UNCHANGED <<b, claimed, socks, lease, retired, sending, sent>>

ServeConfirm(t) ==
    /\ Takes("confirm", t)
    /\ token' = IF token[t] = "held" THEN [token EXCEPT ![t] = "used"] ELSE token
    /\ \/ /\ Live(b.flow[t].gen) /\ token[t] = "held"
          /\ sending' = sending \cup {t} /\ sent' = sent \cup {t} /\ UNCHANGED reply
       \/ Replies("confirm", t, "denied") /\ UNCHANGED <<sending, sent>>
    /\ UNCHANGED <<b, claimed, socks, lease, retired>>

SendEnds(t) ==
    LET i == socks[b.flow[t].gen].id
    IN /\ t \in sending /\ sending' = sending \ {t} /\ Replies("confirm", t, "ok")
       /\ lease' = IF ~lease[i].up /\ Sending(i) = {t} THEN [lease EXCEPT ![i].gen = 0] ELSE lease
       /\ UNCHANGED <<b, claimed, net, socks, retired, token, sent>>

ServeDiscard(t) ==
    /\ Takes("discard", t) /\ token[t] \in {"held", "proof"}
    /\ RetiresAll({t} \cap {x \in Tokens : token[x] = "held"}) /\ Replies("discard", t, "ok")
    /\ UNCHANGED <<b, claimed, socks, lease, retired, sending, sent>>

ServeRetire(g) ==
    LET i == socks[g].id
    IN /\ Takes("retire", g) /\ g # 0
       /\ \/ /\ lease[i].gen = g /\ Sending(i) = {} /\ RetiresAll(Of(g))
             /\ lease' = [lease EXCEPT ![i] = [gen |-> 0, up |-> FALSE]]
          \/ lease[i].gen = 0 /\ g \in retired /\ UNCHANGED <<lease, token>>
       /\ retired' = retired \cup {g} /\ Replies("retire", g, "ok")
       /\ UNCHANGED <<b, claimed, socks, sending, sent>>

(* A request is lost, or answered with what proves nothing.                *)
Vanishes ==
    /\ net # {} /\ \E r \in net : net' = net \ {r}
    /\ UNCHANGED <<b, claimed, reply, backend>>

Serve(g) ==
    LET i == socks[g].id
    IN /\ socks[g].at = "opening"
       /\ socks' = [socks EXCEPT ![g].at = IF lease[i].gen = 0 THEN "active" ELSE "refused"]
       /\ lease' = IF lease[i].gen = 0 THEN [lease EXCEPT ![i] = [gen |-> g, up |-> TRUE]]
                   ELSE lease
       /\ UNCHANGED <<b, claimed, net, reply, retired, token, sending, sent>>

(* The backend finds the connection closed.                                *)
SocketEnds(g) ==
    LET i == socks[g].id
    IN /\ socks[g].at = "active" /\ socks' = [socks EXCEPT ![g].at = "ended"]
       /\ IF Live(g)
          THEN /\ lease' = [lease EXCEPT ![i] =
                              [gen |-> IF Sending(i) = {} THEN 0 ELSE g, up |-> FALSE]]
               /\ RetiresAll(Of(g)) /\ retired' = retired \cup {g}
          ELSE UNCHANGED <<lease, token, retired>>
       /\ UNCHANGED <<b, claimed, net, reply, sending, sent>>

Next ==
    \/ \E t \in Tokens :
          \/ Prepare(t) \/ Prepared(t) \/ PrepareDenied(t) \/ PrepareUnproven(t)
          \/ CandidateDiscarded(t) \/ CandidateKept(t)
          \/ ConfirmAnswered(t) \/ Dismissed(t) \/ Stranded(t)
          \/ ServePrepare(t) \/ ServeConfirm(t) \/ SendEnds(t) \/ ServeDiscard(t)
    \/ Confirm \/ Dismiss \/ SelectEntity
    \/ Reconnect \/ AwaitOver \/ Retired \/ NotRetired
    \/ Message \/ Disconnected \/ NotAccepted \/ DelayOver
    \/ Recover \/ RecoveryRetired \/ RecoveryFails
    \/ NetworkChanges \/ PageHide \/ PageShow \/ Reload \/ Vanishes
    \/ \E g \in Gens : ServeRetire(g) \/ Serve(g) \/ SocketEnds(g)

Spec == Init /\ [][Next]_vars

----------------------------------------------------------------------------
InFlight(t) == b.flow[t].at \in {"confirming", "dismissing"}

TypeOK ==
    /\ b.review = NoReview \/ b.review.tok \in Tokens
    /\ b.deferred \in Tokens \cup {None} /\ b.gen \in 0..MaxGens /\ b.id \in 1..MaxIds
    /\ \A t \in Tokens : b.flow[t].at \in {"idle", "preparing", "discarding", "confirming",
                                            "dismissing", "done", "gone"}
    /\ claimed \cup sending \cup sent \subseteq Tokens
    /\ net \subseteq {"prepare", "confirm", "discard", "retire"} \X (Tokens \cup 0..MaxGens)

(* A dialog that says it is waiting has something to wait for: a request of *)
(* its own, or the recovery of its view.                                   *)
Awaits ==
    b.review.status = "invalidating" =>
        InFlight(b.review.tok) \/ b.tr.at \in {"recovering", "rebinding"}

(* No step takes it away and leaves the dialog up: each way in which a      *)
(* WebSocket is closed, refused or not made, the page or the network        *)
(* changes, or a retirement fails or comes to nothing, gives the review     *)
(* back to the operator.  The one exception is the code's: a recovery whose *)
(* retirement ends while the page is hidden returns without doing so.       *)
EndsUnseen == b.tr.at = "recovering" /\ ~b.shown /\ b'.tr = NoTransition
DialogWaits == [][Awaits => Awaits' \/ EndsUnseen]_vars

(* Where the document says that nothing was published, nothing was, nor    *)
(* ever will be, whatever request of it is still served.                   *)
NothingPublished == claimed \cap sent = {}

(* A task is published only while its own review is on the screen of a      *)
(* living document, or once that document is gone: the operator never loses *)
(* sight of a delivery that is still to come.                              *)
PublishedInView ==
    [][\A t \in sent' \ sent : b.flow[t].at = "gone" \/ b.review.tok = t]_vars

(* Recovery is offered only when the request it is about has ended ("Do not *)
(* retry or reconnect until it settles", main.ts).                          *)
RecoversSettled ==
    b.review.status = "stranded" => ~InFlight(b.review.tok)
=============================================================================
