------------------------- MODULE OperatorView_proofs -------------------------
(***************************************************************************)
(* For any number of preparations, generations and identities: where the    *)
(* browser says that nothing was published nothing is, what is published    *)
(* has its review on the screen, and no step takes from a dialog that waits  *)
(* what it waits for.                                                      *)
(*                                                                         *)
(* The invariant relates the document to the requests that it asked and to  *)
(* the generations of the backend.  It has three parts: of every            *)
(* preparation, whether its confirmation was asked for (FlowInv); that a    *)
(* confirmation still on its way is under review, or its generation has     *)
(* left (SeenInv, RecoveryInv); and which generations were accepted         *)
(* (AcceptedInv).  Most functions of the document only take away from it:   *)
(* Keeps says so once, and what they keep stays true (KeptGood).  The rest  *)
(* of the proof is one lemma for each action.                               *)
(*                                                                         *)
(* A second invariant, WaitsInv, says what a dialog that is waiting waits    *)
(* for.  Attends is to it what Keeps is to the first one.                   *)
(***************************************************************************)
EXTENDS OperatorView, TLAPS

(* What each variable holds.                                               *)
Places == {"idle", "preparing", "discarding", "confirming", "dismissing", "done", "gone"}
Flows == [at : Places, gen : 0..MaxGens, fresh : BOOLEAN]
Reviews == {NoReview} \cup [tok : Tokens, status : {"review", "invalidating", "stranded"}]
Transitions ==
    {NoTransition} \cup [at : {"waiting"}, retire : BOOLEAN, moved : BOOLEAN]
    \cup [at : {"dismissing"}, tok : Tokens, retire : BOOLEAN, moved : BOOLEAN]
    \cup [at : {"retiring"}, gen : 0..MaxGens, moved : BOOLEAN]
    \cup [at : {"binding", "delaying"}, gen : Gens, left : Int, final : BOOLEAN, moved : BOOLEAN]
    \cup [at : {"recovering"}, gen : 0..MaxGens, tok : Tokens, moved : BOOLEAN]
    \cup [at : {"rebinding"}, gen : Gens, tok : Tokens, moved : BOOLEAN]
Documents ==
    [shown : BOOLEAN, online : BOOLEAN, conn : {"connecting", "connected", "down", "duplicate"},
     socket : 0..MaxGens, recovery : 0..MaxGens, id : 1..MaxIds, gen : 0..MaxGens,
     accepted : BOOLEAN, required : BOOLEAN, conflict : BOOLEAN, acked : 0..MaxGens,
     review : Reviews, deferred : Tokens \cup {None}, flow : [Tokens -> Flows], tr : Transitions]
Requests == ({"prepare", "confirm", "discard"} \X Tokens) \cup ({"retire"} \X (0..MaxGens))
WebSockets == [at : {"idle", "opening", "active", "refused", "ended"}, id : 0..MaxIds]
BackendTypes ==
    /\ socks \in [Gens -> WebSockets]
    /\ \A g \in Gens : socks[g].at # "idle" => socks[g].id \in 1..MaxIds
    /\ lease \in [1..MaxIds -> [gen : 0..MaxGens, up : BOOLEAN]]
    /\ token \in [Tokens -> {"unknown", "held", "proof", "used"}]
    /\ claimed \subseteq Tokens /\ sending \subseteq sent /\ sent \subseteq Tokens
    /\ net \subseteq Requests

(* Whether a confirmation was asked for, and what each place of a          *)
(* preparation says of that.                                               *)
Answer(t) == \E answer \in {"ok", "denied"} : <<"confirm", t, answer>> \in reply
Asked(t) == <<"confirm", t>> \in net \/ t \in sent \/ Answer(t)
FlowInv(d, t) ==
    /\ d.flow[t].at \in {"idle", "preparing", "discarding", "dismissing"} => ~Asked(t)
    /\ d.review = [tok |-> t, status |-> "review"] =>
          ~Asked(t) /\ d.flow[t].at = "done" /\ t \notin claimed
    /\ t \in claimed => /\ <<"confirm", t>> \notin net /\ t \notin sent
                        /\ d.flow[t].at \in {"done", "gone"}
    /\ <<"confirm", t>> \in net => t \notin sent /\ ~Answer(t)
    /\ <<"confirm", t, "denied">> \in reply => t \notin sent
    /\ t = d.review.tok \/ t = d.deferred => d.flow[t].at # "idle"
    /\ d.flow[t].at = "idle" => d.flow[t].gen = 0 /\ ~d.flow[t].fresh

(* One preparation at most is the latest, and none under a dialog.         *)
LatestInv(d) ==
    \A t \in Tokens : d.flow[t].fresh =>
        d.review = NoReview /\ \A u \in Tokens \ {t} : ~d.flow[u].fresh

(* Generations that were accepted, and what happens to them.               *)
Up(g) == g \in Gens /\ socks[g].at \in {"active", "ended"}
Left(g) == lease[socks[g].id].gen # g
Binds(d) == d.tr.at \in {"binding", "rebinding"}
Bound(d) == d.socket # 0 /\ (Binds(d) => d.tr.gen # d.socket)
AcceptedInv(d) ==
    /\ d.conn = "connected" \/ Bound(d) => Up(d.gen)
    /\ d.conn = "duplicate" => d.socket = 0 /\ d.tr.at # "recovering"
    /\ Binds(d) => d.socket \in {0, d.tr.gen}
    /\ \A t \in Tokens : d.flow[t].at # "idle" => Up(d.flow[t].gen)
RecoveryInv(d) ==
    /\ d.tr.at = "recovering" =>
          d.flow[d.tr.tok].at # "idle" /\ socks[d.flow[d.tr.tok].gen].id = d.id
    /\ d.tr.at = "rebinding" =>
          LET h == d.flow[d.tr.tok].gen
          IN /\ d.flow[d.tr.tok].at # "idle"
             /\ h # d.tr.gen /\ socks[h].id = socks[d.tr.gen].id
             /\ socks[d.tr.gen].at # "idle" /\ (Up(d.tr.gen) => Left(h))
SeenInv(d) ==
    \A t \in Tokens : <<"confirm", t>> \in net /\ d.flow[t].at # "gone" =>
        d.review.tok = t \/ Left(d.flow[t].gen)

(* What holds of a document, in the present state of the world: but for    *)
(* the two parts that a single function may leave to the next one.         *)
Core(d) == d \in Documents /\ (\A t \in Tokens : FlowInv(d, t)) /\ AcceptedInv(d) /\ SeenInv(d)
Good(d) == Core(d) /\ LatestInv(d) /\ RecoveryInv(d)
IInv == BackendTypes /\ Good(b)

(* A function that only takes away: nothing that a document was sure of is *)
(* different in the other one.                                             *)
SameFlows(d, e) ==
    \A t \in Tokens : /\ e.flow[t].at = d.flow[t].at /\ e.flow[t].gen = d.flow[t].gen
                      /\ e.flow[t].fresh => d.flow[t].fresh
ReviewKept(d, e) ==
    \/ e.review = d.review
    \/ d.review.status = "review" /\ e.review = NoReview
    \/ d.review # NoReview /\ e.review = [tok |-> d.review.tok, status |-> "stranded"]
TransitionKept(d, e) ==
    /\ e.tr.at \in {"binding", "rebinding", "recovering"} => e.tr.at = d.tr.at
    /\ e.tr.at \in {"binding", "rebinding"} => e.tr.gen = d.tr.gen
    /\ e.tr.at \in {"rebinding", "recovering"} => e.tr.tok = d.tr.tok
Keeps(d, e) ==
    /\ e \in Documents /\ e.id = d.id /\ e.gen = d.gen /\ e.deferred = d.deferred
    /\ SameFlows(d, e) /\ ReviewKept(d, e) /\ TransitionKept(d, e)
    /\ e.conn \in {"connected", "duplicate"} => e.conn = d.conn
    /\ e.socket \in {0, d.socket} /\ (Bound(e) => Bound(d))

LEMMA TransitionParts ==
    ASSUME NEW r \in Transitions
    PROVE  /\ r.at \in {"binding", "delaying"} => r.gen \in Gens /\ r.left \in Int /\ r.final \in BOOLEAN
           /\ r.at = "rebinding" => r.gen \in Gens /\ r.tok \in Tokens
           /\ r.at = "recovering" => r.gen \in 0..MaxGens /\ r.tok \in Tokens
           /\ r.at = "retiring" => r.gen \in 0..MaxGens
           /\ r.at = "dismissing" => r.tok \in Tokens
           /\ r.at = None <=> r = NoTransition
BY DEF Transitions, NoTransition, None

LEMMA TransitionMoves ==
    ASSUME NEW r \in Transitions, r # NoTransition
    PROVE  LET e == [r EXCEPT !.moved = TRUE]
           IN /\ e \in Transitions /\ e.at = r.at
              /\ r.at \in {"binding", "rebinding"} => e.gen = r.gen
              /\ r.at \in {"rebinding", "recovering"} => e.tok = r.tok
BY DEF Transitions, NoTransition, None

LEMMA ReviewParts ==
    ASSUME NEW r \in Reviews
    PROVE  /\ r # NoReview => r.tok \in Tokens /\ r = [tok |-> r.tok, status |-> r.status]
           /\ r.status # "review" => r # NoReview
           /\ r.status \in {"review", "invalidating", "stranded"}
           /\ [r EXCEPT !.status = "stranded"] = [tok |-> r.tok, status |-> "stranded"]
           /\ [r EXCEPT !.status = "invalidating"] = [tok |-> r.tok, status |-> "invalidating"]
BY DEF Reviews, NoReview, None

LEMMA ReviewOf ==
    ASSUME NEW r \in Reviews, r # NoReview
    PROVE  r.tok \in Tokens /\ r = [tok |-> r.tok, status |-> r.status]
BY ReviewParts

(* The flows of a document that lost track of every preparation.           *)
LEMMA StaleFlows ==
    ASSUME NEW d \in Documents
    PROVE  LET flow == [t \in Tokens |-> [d.flow[t] EXCEPT !.fresh = FALSE]]
           IN /\ flow \in [Tokens -> Flows]
              /\ \A t \in Tokens : /\ flow[t].at = d.flow[t].at /\ flow[t].gen = d.flow[t].gen
                                   /\ ~flow[t].fresh
<1>1. d.flow \in [Tokens -> Flows]
    BY DEF Documents
<1>2. \A p \in Flows : LET q == [p EXCEPT !.fresh = FALSE]
                       IN q \in Flows /\ q.at = p.at /\ q.gen = p.gen /\ ~q.fresh
    BY DEF Flows
<1>3. QED
    BY <1>1, <1>2

LEMMA KeepsItself ==
    ASSUME NEW d \in Documents
    PROVE  Keeps(d, d)
BY DEF Keeps, SameFlows, ReviewKept, TransitionKept

LEMMA KeepsOnward ==
    ASSUME NEW d, NEW e, NEW f, Keeps(d, e), Keeps(e, f)
    PROVE  Keeps(d, f)
<1>1. SameFlows(d, f)
    BY DEF Keeps, SameFlows
<1>2. ReviewKept(d, f)
    BY DEF Keeps, ReviewKept, NoReview
<1>3. TransitionKept(d, f)
    BY DEF Keeps, TransitionKept
<1>4. QED
    BY <1>1, <1>2, <1>3 DEF Keeps

LEMMA BumpKeeps ==
    ASSUME NEW d \in Documents
    PROVE  /\ Keeps(d, Bump(d)) /\ \A t \in Tokens : ~Bump(d).flow[t].fresh
           /\ Bump(d).review = d.review /\ Bump(d).socket = d.socket
           /\ Bump(d).recovery = d.recovery /\ Bump(d).tr.at = d.tr.at
<1> DEFINE flow == [t \in Tokens |-> [d.flow[t] EXCEPT !.fresh = FALSE]]
           tr == IF d.tr = NoTransition THEN d.tr ELSE [d.tr EXCEPT !.moved = TRUE]
           e == [d EXCEPT !.flow = flow, !.tr = tr]
<1>1. e = Bump(d)
    BY DEF Bump
<1>2. /\ flow \in [Tokens -> Flows]
      /\ \A t \in Tokens : /\ flow[t].at = d.flow[t].at /\ flow[t].gen = d.flow[t].gen
                           /\ ~flow[t].fresh
    BY StaleFlows
<1>3. /\ tr \in Transitions /\ tr.at = d.tr.at
      /\ tr.at \in {"binding", "rebinding"} => tr.gen = d.tr.gen
      /\ tr.at \in {"rebinding", "recovering"} => tr.tok = d.tr.tok
    BY TransitionMoves DEF Documents
<1> HIDE DEF flow, tr
<1>4. /\ e \in Documents /\ e.id = d.id /\ e.gen = d.gen /\ e.deferred = d.deferred
      /\ e.flow = flow /\ e.tr = tr /\ e.review = d.review /\ e.conn = d.conn
      /\ e.socket = d.socket /\ e.recovery = d.recovery
    BY <1>2, <1>3 DEF Documents
<1>5. Bound(e) <=> Bound(d)
    BY <1>3, <1>4 DEF Bound, Binds
<1>6. SameFlows(d, e) /\ ReviewKept(d, e) /\ TransitionKept(d, e)
    BY <1>2, <1>3, <1>4 DEF SameFlows, ReviewKept, TransitionKept
<1>7. QED
    BY <1>1, <1>2, <1>3, <1>4, <1>5, <1>6 DEF Keeps

(* ... and so it is when nothing changes but what Keeps leaves open.       *)
LEMMA LittleKeeps ==
    ASSUME NEW d, NEW e \in Documents, e.id = d.id, e.gen = d.gen, e.deferred = d.deferred,
           e.flow = d.flow, e.tr = d.tr, ReviewKept(d, e),
           e.conn \in {"connected", "duplicate"} => e.conn = d.conn,
           e.socket \in {0, d.socket}
    PROVE  Keeps(d, e)
<1>1. SameFlows(d, e) /\ TransitionKept(d, e)
    BY DEF SameFlows, TransitionKept
<1>2. Bound(e) => Bound(d)
    BY DEF Bound, Binds
<1>3. QED
    BY <1>1, <1>2 DEF Keeps

LEMMA UnpluggedKeeps ==
    ASSUME NEW d \in Documents
    PROVE  /\ Keeps(d, [d EXCEPT !.socket = 0])
           /\ [d EXCEPT !.socket = 0].review = d.review
           /\ [d EXCEPT !.socket = 0].tr = d.tr
           /\ [d EXCEPT !.socket = 0].recovery = d.recovery
           /\ [d EXCEPT !.socket = 0].socket = 0
<1> DEFINE e == [d EXCEPT !.socket = 0]
<1>1. /\ e \in Documents /\ e.id = d.id /\ e.gen = d.gen /\ e.deferred = d.deferred
      /\ e.flow = d.flow /\ e.tr = d.tr /\ e.review = d.review /\ e.conn = d.conn
      /\ e.socket = 0 /\ e.recovery = d.recovery
    BY BoundsAreNatural DEF Documents
<1>2. Keeps(d, e)
    BY <1>1, LittleKeeps DEF ReviewKept
<1>3. QED
    BY <1>1, <1>2

LEMMA DownKeeps ==
    ASSUME NEW d \in Documents, NEW c \in {"down", "connecting"}
    PROVE  /\ Keeps(d, [d EXCEPT !.conn = c])
           /\ [d EXCEPT !.conn = c].review = d.review /\ [d EXCEPT !.conn = c].tr = d.tr
           /\ [d EXCEPT !.conn = c].socket = d.socket
<1> DEFINE e == [d EXCEPT !.conn = c]
<1>1. /\ e \in Documents /\ e.id = d.id /\ e.gen = d.gen /\ e.deferred = d.deferred
      /\ e.flow = d.flow /\ e.tr = d.tr /\ e.review = d.review /\ e.conn = c
      /\ e.socket = d.socket
    BY DEF Documents
<1>2. Keeps(d, e)
    BY <1>1, LittleKeeps DEF ReviewKept
<1>3. QED
    BY <1>1, <1>2

LEMMA CutOffKeeps ==
    ASSUME NEW d \in Documents
    PROVE  LET e == [d EXCEPT !.socket = 0, !.conn = "down"]
           IN Keeps(d, e) /\ e.flow = d.flow /\ e.review = d.review /\ e.socket = 0
<1> DEFINE e == [d EXCEPT !.socket = 0, !.conn = "down"]
<1>0. 0 \in 0..MaxGens
    BY BoundsAreNatural
<1>1. /\ e \in Documents /\ e.id = d.id /\ e.gen = d.gen /\ e.deferred = d.deferred
      /\ e.flow = d.flow /\ e.tr = d.tr /\ e.review = d.review /\ e.conn = "down"
      /\ e.socket = 0
    BY <1>0 DEF Documents
<1>2. Keeps(d, e)
    BY <1>1, LittleKeeps DEF ReviewKept
<1>3. QED
    BY <1>1, <1>2

LEMMA RetireTaskingKeeps ==
    ASSUME NEW d \in Documents
    PROVE  /\ Keeps(d, RetireTasking(d)) /\ \A t \in Tokens : ~RetireTasking(d).flow[t].fresh
           /\ RetireTasking(d).review = d.review /\ RetireTasking(d).socket = 0
<1> DEFINE m == Bump(d)
           e == [m EXCEPT !.socket = 0, !.conn = "down"]
<1>1. /\ Keeps(d, m) /\ m \in Documents /\ m.review = d.review
      /\ \A t \in Tokens : ~m.flow[t].fresh
    BY BumpKeeps DEF Keeps
<1>2. Keeps(m, e) /\ e.flow = m.flow /\ e.review = m.review /\ e.socket = 0
    BY ONLY CutOffKeeps, <1>1
<1>3. e = RetireTasking(d)
    BY DEF RetireTasking
<1> HIDE DEF m, e
<1>4. QED
    BY <1>1, <1>2, <1>3, KeepsOnward

LEMMA OverKeeps ==
    ASSUME NEW d \in Documents, Binds(d) => d.socket = 0
    PROVE  /\ Keeps(d, Over(d)) /\ Over(d).tr = NoTransition /\ Over(d).review = d.review
           /\ Over(d).flow = d.flow /\ Over(d).id = d.id /\ Over(d).socket = d.socket
           /\ Over(d).conn = d.conn
<1> DEFINE e == Over(d)
<1>1. /\ e \in Documents /\ e.id = d.id /\ e.gen = d.gen /\ e.deferred = d.deferred
      /\ e.flow = d.flow /\ e.tr = NoTransition /\ e.review = d.review /\ e.conn = d.conn
      /\ e.socket = d.socket
    BY DEF Documents, Transitions, Over
<1>2. e.tr.at \notin {"binding", "rebinding", "recovering"}
    BY <1>1 DEF NoTransition, None
<1>3. Bound(e) => Bound(d)
    BY <1>1 DEF Bound
<1>4. SameFlows(d, e) /\ ReviewKept(d, e) /\ TransitionKept(d, e)
    BY <1>1, <1>2 DEF SameFlows, ReviewKept, TransitionKept
<1>5. QED
    BY <1>1, <1>3, <1>4 DEF Keeps

LEMMA StrandKeeps ==
    ASSUME NEW d \in Documents
    PROVE  Keeps(d, Strand(d)) /\ \A t \in Tokens : ~Strand(d).flow[t].fresh
<1> DEFINE m == IF d.review = NoReview THEN d ELSE [d EXCEPT !.review.status = "stranded"]
<1>1. Keeps(d, m)
  <2>1. CASE d.review = NoReview
    BY <2>1, KeepsItself
  <2>2. CASE d.review # NoReview
    <3>1. d.review \in Reviews /\ d.review.tok \in Tokens
      BY <2>2, ReviewParts DEF Documents
    <3> DEFINE r == [tok |-> d.review.tok, status |-> "stranded"]
               e == [d EXCEPT !.review = r]
    <3>2. r \in Reviews
      BY <3>1 DEF Reviews
    <3>3. m = e
      BY <2>2, <3>1, ReviewParts DEF Documents
    <3> HIDE DEF r
    <3>4. /\ e \in Documents /\ e.id = d.id /\ e.gen = d.gen /\ e.deferred = d.deferred
          /\ e.flow = d.flow /\ e.tr = d.tr /\ e.review = r /\ e.conn = d.conn
          /\ e.socket = d.socket
      BY <3>2 DEF Documents
    <3>5. QED
      BY <2>2, <3>3, <3>4, LittleKeeps DEF ReviewKept, r
  <2>3. QED
    BY <2>1, <2>2
<1>2. Strand(d) = RetireTasking(m)
    BY DEF Strand
<1> HIDE DEF m
<1>3. QED
    BY <1>1, <1>2, RetireTaskingKeeps, KeepsOnward DEF Keeps

LEMMA RestoreStrandedKeeps ==
    ASSUME NEW d \in Documents
    PROVE  /\ Keeps(d, RestoreStranded(d)) /\ RestoreStranded(d).socket = d.socket
           /\ RestoreStranded(d).tr = d.tr /\ RestoreStranded(d).flow = d.flow
           /\ d.review # NoReview => RestoreStranded(d).review # NoReview
<1>1. CASE d.review.status # "invalidating"
    BY <1>1, KeepsItself DEF RestoreStranded
<1>2. CASE d.review.status = "invalidating"
  <2>1. d.review # NoReview /\ d.review \in Reviews /\ d.review.tok \in Tokens
    BY <1>2, ReviewParts DEF Documents, NoReview
  <2> DEFINE r == [tok |-> d.review.tok, status |-> "stranded"]
             e == [d EXCEPT !.review = r, !.conn = "down"]
  <2>2. r \in Reviews /\ r # NoReview
    BY <2>1 DEF Reviews, NoReview
  <2>3. RestoreStranded(d) = e
    BY <1>2, <2>1, ReviewParts DEF RestoreStranded, Documents
  <2> HIDE DEF r
  <2>4. /\ e \in Documents /\ e.id = d.id /\ e.gen = d.gen /\ e.deferred = d.deferred
        /\ e.flow = d.flow /\ e.tr = d.tr /\ e.review = r /\ e.conn = "down"
        /\ e.socket = d.socket
    BY <2>2 DEF Documents
  <2>5. Keeps(d, e)
    BY <2>1, <2>4, LittleKeeps DEF ReviewKept, r
  <2>6. QED
    BY <2>2, <2>3, <2>4, <2>5
<1>3. QED
    BY <1>1, <1>2

LEMMA AbandonKeeps ==
    ASSUME NEW d \in Documents
    PROVE  /\ Keeps(d, Abandon(d))
           /\ Abandon(d).socket = d.socket /\ Abandon(d).tr = d.tr /\ Abandon(d).flow = d.flow
           /\ Abandon(d).conn = d.conn
           /\ \A t \in Abandoned(d) :
                 /\ t \in Tokens /\ d.review = [tok |-> t, status |-> "review"]
                 /\ Abandon(d).review = NoReview
<1> DEFINE e == [d EXCEPT !.review = NoReview]
<1>1. NoReview \in Reviews
    BY DEF Reviews
<1>2. /\ e \in Documents /\ e.id = d.id /\ e.gen = d.gen /\ e.deferred = d.deferred
      /\ e.flow = d.flow /\ e.tr = d.tr /\ e.review = NoReview /\ e.conn = d.conn
      /\ e.socket = d.socket
    BY <1>1 DEF Documents
<1>3. CASE d.review.status # "review"
  <2>1. Abandon(d) = d /\ Abandoned(d) = {}
    BY <1>3 DEF Abandon, Abandoned
  <2>2. QED
    BY <2>1, KeepsItself
<1>4. CASE d.review.status = "review"
  <2>1. Abandon(d) = e
    BY <1>4 DEF Abandon
  <2>2. Keeps(d, e)
    BY <1>2, <1>4, LittleKeeps DEF ReviewKept
  <2>3. ASSUME NEW t \in Abandoned(d)
        PROVE  t \in Tokens /\ d.review = [tok |-> t, status |-> "review"]
    <3>1. d.review # NoReview /\ t = d.review.tok /\ d.review \in Reviews
      BY <1>2, <2>1, <2>3 DEF Abandoned, Documents
    <3>2. QED
      BY <1>4, <3>1, ReviewOf
  <2>4. QED
    BY <1>2, <2>1, <2>2, <2>3
<1>5. QED
    BY <1>3, <1>4

LEMMA CloseForTransitionKeeps ==
    ASSUME NEW d \in Documents
    PROVE  Keeps(d, CloseForTransition(d)) /\ CloseForTransition(d).socket = 0
<1> DEFINE u == [d EXCEPT !.socket = 0]
           v == [u EXCEPT !.recovery = 0]
<1>1. u \in Documents /\ u.socket = 0 /\ Keeps(d, u)
    BY UnpluggedKeeps, BoundsAreNatural DEF Documents
<1>2. CloseForTransition(d) = IF d.recovery = d.socket THEN RestoreStranded(v) ELSE u
    BY DEF CloseForTransition
<1> HIDE DEF u
<1>3. /\ v \in Documents /\ v.id = u.id /\ v.gen = u.gen /\ v.deferred = u.deferred
      /\ v.flow = u.flow /\ v.tr = u.tr /\ v.review = u.review /\ v.conn = u.conn
      /\ v.socket = u.socket
    BY <1>1, BoundsAreNatural DEF Documents
<1>4. Keeps(u, v)
    BY <1>3, LittleKeeps DEF ReviewKept
<1> HIDE DEF v
<1>5. QED
    BY <1>1, <1>2, <1>3, <1>4, RestoreStrandedKeeps, KeepsOnward

LEMMA AcknowledgeKeeps ==
    ASSUME NEW d \in Documents, NEW g \in 0..MaxGens
    PROVE  /\ Keeps(d, Acknowledge(d, g))
           /\ Acknowledge(d, g).review = d.review /\ Acknowledge(d, g).tr = d.tr
           /\ Acknowledge(d, g).conn = d.conn /\ Acknowledge(d, g).id = d.id
           /\ Acknowledge(d, g).flow = d.flow
<1> DEFINE e == [d EXCEPT !.acked = g, !.accepted = FALSE, !.required = FALSE]
<1>1. /\ e \in Documents /\ e.id = d.id /\ e.gen = d.gen /\ e.deferred = d.deferred
      /\ e.flow = d.flow /\ e.tr = d.tr /\ e.review = d.review /\ e.conn = d.conn
      /\ e.socket = d.socket
    BY DEF Documents
<1>2. Keeps(d, e)
    BY <1>1, LittleKeeps DEF ReviewKept
<1>3. QED
    BY <1>1, <1>2, KeepsItself DEF Acknowledge

LEMMA LeavingKeeps ==
    ASSUME NEW d \in Documents
    PROVE  Keeps(d, Leaving(d))
<1> DEFINE m == CloseForTransition(Bump(d))
<1>1. m \in Documents /\ Keeps(d, m)
    BY BumpKeeps, CloseForTransitionKeeps, KeepsOnward DEF Keeps
<1>2. Abandon(m) \in Documents /\ Keeps(d, Abandon(m))
    BY <1>1, AbandonKeeps, KeepsOnward DEF Keeps
<1>3. Leaving(d) = [Abandon(m) EXCEPT !.conn = "down"]
    BY DEF Leaving
<1> HIDE DEF m
<1>4. QED
    BY <1>2, <1>3, DownKeeps, KeepsOnward

LEMMA LostKeeps ==
    ASSUME NEW d \in Documents
    PROVE  Keeps(d, Lost(d))
<1> DEFINE m == [Bump(d) EXCEPT !.socket = 0]
<1>1. m \in Documents /\ Keeps(d, m)
  <2>1. Bump(d) \in Documents /\ Keeps(d, Bump(d))
    BY BumpKeeps DEF Keeps
  <2>2. Keeps(Bump(d), m)
    BY <2>1, UnpluggedKeeps
  <2> HIDE DEF m
  <2>3. QED
    BY <2>1, <2>2, KeepsOnward DEF Keeps
<1> HIDE DEF m
<1>2. Abandon(m) \in Documents /\ Keeps(d, Abandon(m))
    BY <1>1, AbandonKeeps, KeepsOnward DEF Keeps
<1>3. Lost(d) = [Abandon(m) EXCEPT !.conn = "down"]
    BY DEF Lost, m
<1>4. QED
    BY <1>2, <1>3, DownKeeps, KeepsOnward

(* What a document was sure of stays true of the one that keeps it.        *)
LEMMA KeptFlows ==
    ASSUME NEW d, NEW e, NEW t \in Tokens, d \in Documents, Keeps(d, e), FlowInv(d, t)
    PROVE  FlowInv(e, t)
<1>1. /\ e.flow[t].at = d.flow[t].at /\ e.flow[t].gen = d.flow[t].gen
      /\ e.flow[t].fresh => d.flow[t].fresh
      /\ e.deferred = d.deferred /\ ReviewKept(d, e)
    BY DEF Keeps, SameFlows
<1>2. e.review = [tok |-> t, status |-> "review"] => d.review = e.review
    BY <1>1, NoneIsNoToken DEF ReviewKept, NoReview
<1>3. t = e.review.tok => t = d.review.tok
    BY <1>1, NoneIsNoToken DEF ReviewKept, NoReview
<1>4. QED
    BY <1>1, <1>2, <1>3 DEF FlowInv

LEMMA KeptCore ==
    ASSUME NEW d, NEW e, Core(d), Keeps(d, e)
    PROVE  Core(e)
<1>1. \A t \in Tokens : FlowInv(e, t)
    BY KeptFlows DEF Core
<1>2. AcceptedInv(e)
    BY DEF Core, AcceptedInv, Keeps, SameFlows, TransitionKept, Binds
<1>3. SeenInv(e)
  <2> SUFFICES ASSUME NEW t \in Tokens, <<"confirm", t>> \in net, e.flow[t].at # "gone",
                      ~Left(e.flow[t].gen)
               PROVE  e.review.tok = t
    BY DEF SeenInv
  <2>1. d.review.tok = t
    BY DEF Core, SeenInv, Keeps, SameFlows
  <2>2. d.review # NoReview /\ d.review \in Reviews
    BY <2>1, NoneIsNoToken DEF NoReview, Core, Documents
  <2>3. d.review # [tok |-> t, status |-> "review"]
    BY DEF Core, FlowInv, Asked
  <2>4. d.review.status # "review"
    BY <2>1, <2>2, <2>3, ReviewParts
  <2>5. QED
    BY <2>1, <2>4 DEF Keeps, ReviewKept
<1>4. QED
    BY <1>1, <1>2, <1>3 DEF Core, Keeps

LEMMA KeptLatest ==
    ASSUME NEW d, NEW e, LatestInv(d), Keeps(d, e)
    PROVE  LatestInv(e)
<1> SUFFICES ASSUME NEW t \in Tokens, e.flow[t].fresh
             PROVE  e.review = NoReview /\ \A u \in Tokens \ {t} : ~e.flow[u].fresh
    BY DEF LatestInv
<1>1. d.review = NoReview /\ \A u \in Tokens \ {t} : ~d.flow[u].fresh
    BY DEF LatestInv, Keeps, SameFlows
<1>2. QED
    BY <1>1 DEF Keeps, SameFlows, ReviewKept

LEMMA KeptRecovery ==
    ASSUME NEW d, NEW e, d \in Documents, RecoveryInv(d), Keeps(d, e)
    PROVE  RecoveryInv(e)
<1>1. /\ e.tr.at = "recovering" => d.tr.at = "recovering" /\ e.tr.tok = d.tr.tok /\ d.tr.tok \in Tokens
      /\ e.tr.at = "rebinding" => /\ d.tr.at = "rebinding" /\ e.tr.tok = d.tr.tok
                                  /\ e.tr.gen = d.tr.gen /\ d.tr.tok \in Tokens
    BY TransitionParts DEF Keeps, TransitionKept, Documents
<1>2. /\ e.id = d.id
      /\ \A t \in Tokens : e.flow[t].at = d.flow[t].at /\ e.flow[t].gen = d.flow[t].gen
    BY DEF Keeps, SameFlows
<1>3. QED
    BY <1>1, <1>2 DEF RecoveryInv

LEMMA KeptGood ==
    ASSUME NEW d, NEW e, Good(d), Keeps(d, e)
    PROVE  Good(e)
BY KeptCore, KeptLatest, KeptRecovery DEF Good, Core

(* A preparation goes from one place to another, and the review with it at *)
(* most to its own wait for an answer.                                     *)
FlowGoes(d, e, t, place) ==
    /\ e \in Documents /\ e.id = d.id /\ e.gen = d.gen /\ e.deferred = d.deferred
    /\ e.tr = d.tr /\ e.conn = d.conn /\ e.socket = d.socket
    /\ e.review \in {d.review, [tok |-> d.review.tok, status |-> "invalidating"]}
    /\ e.flow[t].at = place /\ e.flow[t].gen = d.flow[t].gen
    /\ e.flow[t].fresh => d.flow[t].fresh
    /\ \A u \in Tokens \ {t} : e.flow[u] = d.flow[u]

LEMMA GoneCore ==
    ASSUME NEW d, NEW e, NEW t \in Tokens, NEW place \in {"discarding", "confirming", "dismissing", "done"},
           Core(d), FlowGoes(d, e, t, place), d.flow[t].at \notin {"idle", "gone"},
           place \in {"discarding", "dismissing"} => ~Asked(t),
           place = "done" \/ (t \notin claimed /\ e.review # [tok |-> t, status |-> "review"])
    PROVE  Core(e)
<1>1. \A u \in Tokens : FlowInv(e, u)
  <2> TAKE u \in Tokens
  <2>1. FlowInv(d, u) /\ (e.review = d.review \/ e.review = [tok |-> d.review.tok, status |-> "invalidating"])
    BY DEF Core, FlowGoes
  <2>2. e.review = [tok |-> u, status |-> "review"] => e.review = d.review
    BY <2>1
  <2>3. u = e.review.tok => u = d.review.tok
    BY <2>1
  <2>4. CASE u = t
    BY <2>1, <2>2, <2>3, <2>4 DEF FlowInv, FlowGoes
  <2>5. CASE u # t
    BY <2>1, <2>2, <2>3, <2>5 DEF FlowInv, FlowGoes
  <2>6. QED
    BY <2>4, <2>5
<1>2. AcceptedInv(e)
  <2>1. \A u \in Tokens : e.flow[u].at # "idle" => Up(e.flow[u].gen)
    BY DEF Core, AcceptedInv, FlowGoes
  <2>2. QED
    BY <2>1 DEF Core, AcceptedInv, FlowGoes, Binds, Bound
<1>3. SeenInv(e)
  <2> SUFFICES ASSUME NEW u \in Tokens, <<"confirm", u>> \in net, e.flow[u].at # "gone",
                      ~Left(e.flow[u].gen)
               PROVE  e.review.tok = u
    BY DEF SeenInv
  <2>1. d.flow[u].at # "gone" /\ d.flow[u].gen = e.flow[u].gen
    BY DEF FlowGoes
  <2>2. d.review.tok = u
    BY <2>1 DEF Core, SeenInv
  <2>3. QED
    BY <2>2 DEF FlowGoes
<1>4. QED
    BY <1>1, <1>2, <1>3 DEF Core, FlowGoes

LEMMA GoneLatest ==
    ASSUME NEW d, NEW e, NEW t \in Tokens, NEW place, d \in Documents,
           LatestInv(d), FlowGoes(d, e, t, place), e.review = d.review \/ d.review # NoReview
    PROVE  LatestInv(e)
BY DEF LatestInv, FlowGoes

LEMMA GoneRecovery ==
    ASSUME NEW d, NEW e, NEW t \in Tokens, NEW place, d \in Documents, place # "idle",
           RecoveryInv(d), FlowGoes(d, e, t, place)
    PROVE  RecoveryInv(e)
<1>1. e.tr = d.tr /\ e.id = d.id /\ (d.tr.at \in {"recovering", "rebinding"} => d.tr.tok \in Tokens)
    BY TransitionParts DEF FlowGoes, Documents
<1>2. \A u \in Tokens : /\ e.flow[u].gen = d.flow[u].gen
                        /\ d.flow[u].at # "idle" => e.flow[u].at # "idle"
    BY DEF FlowGoes
<1>3. QED
    BY <1>1, <1>2 DEF RecoveryInv

LEMMA GoneGood ==
    ASSUME NEW d, NEW e, NEW t \in Tokens, NEW place \in {"discarding", "confirming", "dismissing", "done"},
           Good(d), FlowGoes(d, e, t, place), d.flow[t].at \notin {"idle", "gone"},
           place \in {"discarding", "dismissing"} => ~Asked(t),
           place = "done" \/ (t \notin claimed /\ e.review # [tok |-> t, status |-> "review"]),
           e.review = d.review \/ d.review # NoReview
    PROVE  Good(e)
<1>1. Core(d) /\ LatestInv(d) /\ RecoveryInv(d) /\ d \in Documents
    BY DEF Good, Core
<1>2. Core(e)
    BY <1>1, GoneCore
<1>3. LatestInv(e)
    BY <1>1, GoneLatest
<1>4. RecoveryInv(e)
    BY <1>1, GoneRecovery
<1>5. QED
    BY <1>2, <1>3, <1>4 DEF Good

(* Another review, and another one put off.                                *)
ReviewGoes(d, e) ==
    /\ e \in Documents /\ e.id = d.id /\ e.gen = d.gen /\ e.flow = d.flow /\ e.tr = d.tr
    /\ e.socket = d.socket /\ (e.conn \in {"connected", "duplicate"} => e.conn = d.conn)

LEMMA ReviewedGood ==
    ASSUME NEW d, NEW e, Good(d), ReviewGoes(d, e),
           \A t \in Tokens : e.review = [tok |-> t, status |-> "review"] =>
               ~Asked(t) /\ d.flow[t].at = "done" /\ t \notin claimed,
           \A t \in Tokens : t = e.review.tok \/ t = e.deferred => d.flow[t].at # "idle",
           \A t \in Tokens : <<"confirm", t>> \in net /\ d.flow[t].at # "gone" /\ t = d.review.tok =>
               e.review.tok = t \/ Left(d.flow[t].gen)
    PROVE  /\ Core(e) /\ RecoveryInv(e)
           /\ e.review = NoReview \/ (\A t \in Tokens : ~d.flow[t].fresh) => LatestInv(e)
<1>1. \A t \in Tokens : FlowInv(e, t)
    BY DEF Good, Core, FlowInv, ReviewGoes
<1>2. AcceptedInv(e)
    BY DEF Good, Core, AcceptedInv, ReviewGoes, Binds, Bound
<1>3. SeenInv(e)
    BY DEF Good, Core, SeenInv, ReviewGoes
<1>4. RecoveryInv(e)
    BY DEF Good, Core, RecoveryInv, ReviewGoes
<1>5. e.review = NoReview \/ (\A t \in Tokens : ~d.flow[t].fresh) => LatestInv(e)
    BY DEF Good, LatestInv, ReviewGoes
<1>6. QED
    BY <1>1, <1>2, <1>3, <1>4, <1>5 DEF Core, ReviewGoes

(* The world goes on, and a document that was right about it still is.     *)
WorldMoves(e) ==
    /\ \A t \in Tokens : <<"confirm", t>> \in net' => <<"confirm", t>> \in net
    /\ \A t \in Tokens, answer \in {"ok", "denied"} :
          <<"confirm", t, answer>> \in reply' => <<"confirm", t, answer>> \in reply
    /\ sent' = sent
    /\ \A t \in claimed' :
          \/ t \in claimed
          \/ /\ <<"confirm", t>> \notin net /\ t \notin sent
             /\ e.flow[t].at \in {"done", "gone"} /\ e.review # [tok |-> t, status |-> "review"]
LeasesMove ==
    \A g \in Gens : Up(g) =>
        Up(g)' /\ socks'[g].id = socks[g].id /\ (Left(g) => Left(g)')

LEMMA FlowsInTheWorld ==
    ASSUME NEW e, \A t \in Tokens : FlowInv(e, t), WorldMoves(e), b' = e
    PROVE  \A t \in Tokens : FlowInv(b, t)'
<1> TAKE t \in Tokens
<1>1. FlowInv(e, t)
    OBVIOUS
<1>2. /\ (Asked(t)' => Asked(t)) /\ (Answer(t)' => Answer(t))
      /\ <<"confirm", t, "denied">> \in reply' => <<"confirm", t, "denied">> \in reply
    BY DEF WorldMoves, Asked, Answer
<1>3. /\ sent' = sent /\ (<<"confirm", t>> \in net' => <<"confirm", t>> \in net)
      /\ t \in claimed' =>
            \/ t \in claimed
            \/ /\ <<"confirm", t>> \notin net /\ t \notin sent
               /\ e.flow[t].at \in {"done", "gone"} /\ e.review # [tok |-> t, status |-> "review"]
    BY DEF WorldMoves
<1> DEFINE unasked == /\ e.flow[t].at \in {"idle", "preparing", "discarding", "dismissing"} => ~Asked(t)'
                      /\ e.review = [tok |-> t, status |-> "review"] =>
                            ~Asked(t)' /\ e.flow[t].at = "done" /\ t \notin claimed'
           unsent == /\ t \in claimed' => /\ <<"confirm", t>> \notin net' /\ t \notin sent'
                                          /\ e.flow[t].at \in {"done", "gone"}
                     /\ <<"confirm", t>> \in net' => t \notin sent' /\ ~Answer(t)'
                     /\ <<"confirm", t, "denied">> \in reply' => t \notin sent'
<1>4. unasked
    BY <1>1, <1>2, <1>3 DEF FlowInv
<1>5. unsent
    BY <1>1, <1>2, <1>3 DEF FlowInv
<1>6. QED
    BY <1>1, <1>4, <1>5 DEF FlowInv

LEMMA AcceptedInTheWorld ==
    ASSUME NEW e, AcceptedInv(e), LeasesMove, b' = e
    PROVE  AcceptedInv(b)'
<1>1. \A g : Up(g) => Up(g)'
    BY DEF LeasesMove, Up
<1>2. Binds(b)' <=> Binds(e)
    BY DEF Binds
<1>3. Bound(b)' <=> Bound(e)
    BY <1>2 DEF Bound
<1>4. QED
    BY <1>1, <1>2, <1>3 DEF AcceptedInv

LEMMA SeenInTheWorld ==
    ASSUME NEW e, SeenInv(e), AcceptedInv(e), LeasesMove, b' = e,
           \A t \in Tokens : FlowInv(e, t),
           \A t \in Tokens : <<"confirm", t>> \in net' => <<"confirm", t>> \in net
    PROVE  SeenInv(b)'
<1> SUFFICES ASSUME NEW t \in Tokens, <<"confirm", t>> \in net', e.flow[t].at # "gone",
                    e.review.tok # t
             PROVE  Left(e.flow[t].gen)'
    BY DEF SeenInv
<1>1. e.flow[t].at # "idle" /\ Left(e.flow[t].gen)
    BY DEF SeenInv, FlowInv, Asked
<1>2. Up(e.flow[t].gen) /\ e.flow[t].gen \in Gens
    BY <1>1 DEF AcceptedInv, Up
<1>3. QED
    BY <1>1, <1>2 DEF LeasesMove

LEMMA CoreInTheWorld ==
    ASSUME NEW e, Core(e), WorldMoves(e), LeasesMove, b' = e
    PROVE  Core(b)'
<1>1. e \in Documents /\ (\A t \in Tokens : FlowInv(e, t)) /\ AcceptedInv(e) /\ SeenInv(e)
    BY DEF Core
<1>2. \A t \in Tokens : FlowInv(b, t)'
    BY <1>1, FlowsInTheWorld
<1>3. AcceptedInv(b)'
    BY <1>1, AcceptedInTheWorld
<1>4. SeenInv(b)'
    BY <1>1, SeenInTheWorld DEF WorldMoves
<1>5. (b \in Documents)'
    BY <1>1 DEF Documents
<1>6. QED
    BY <1>2, <1>3, <1>4, <1>5 DEF Core

(* What a recovery relies on, unless the WebSocket it opened is served.    *)
SocketsMove ==
    \A g \in Gens : /\ socks[g].at # "idle" => socks'[g].at # "idle" /\ socks'[g].id = socks[g].id
                    /\ Up(g)' => Up(g)

LEMMA RecoveryInTheWorld ==
    ASSUME NEW e, Core(e), RecoveryInv(e), LeasesMove, SocketsMove, b' = e
    PROVE  RecoveryInv(b)'
<1>1. e.tr.at \in {"recovering", "rebinding"} => e.tr.tok \in Tokens
    BY TransitionParts DEF Core, Documents
<1>2. \A t \in Tokens : e.flow[t].at # "idle" => e.flow[t].gen \in Gens /\ Up(e.flow[t].gen)
    BY DEF Core, AcceptedInv, Up
<1>3. e.tr.at = "rebinding" => e.tr.gen \in Gens
    BY TransitionParts DEF Core, Documents
<1>4. ASSUME e.tr.at = "recovering"
      PROVE  /\ e.flow[e.tr.tok].at # "idle"
             /\ socks'[e.flow[e.tr.tok].gen].id = e.id
    BY <1>1, <1>2, <1>4 DEF RecoveryInv, LeasesMove
<1>5. ASSUME e.tr.at = "rebinding"
      PROVE  LET h == e.flow[e.tr.tok].gen
             IN /\ e.flow[e.tr.tok].at # "idle" /\ h # e.tr.gen
                /\ socks'[h].id = socks'[e.tr.gen].id
                /\ socks'[e.tr.gen].at # "idle" /\ (Up(e.tr.gen)' => Left(h)')
  <2>1. /\ e.flow[e.tr.tok].at # "idle" /\ e.flow[e.tr.tok].gen \in Gens
        /\ Up(e.flow[e.tr.tok].gen) /\ e.tr.gen \in Gens
    BY <1>1, <1>2, <1>3, <1>5 DEF RecoveryInv
  <2>2. QED
    BY <1>5, <2>1 DEF RecoveryInv, LeasesMove, SocketsMove
<1>6. QED
    BY <1>4, <1>5 DEF RecoveryInv

LEMMA LatestInTheWorld ==
    ASSUME NEW e, LatestInv(e), b' = e
    PROVE  LatestInv(b)'
BY DEF LatestInv

(* Nobody but the document does anything: it asks, hears, tells, and opens *)
(* a WebSocket.                                                            *)
DocumentActs(e) ==
    /\ UNCHANGED <<lease, token, sending>> /\ reply' \subseteq reply
    /\ net' \subseteq Requests /\ claimed' \subseteq Tokens
    /\ WorldMoves(e)
    /\ socks' = socks \/ \E g \in Fresh, i \in 1..MaxIds :
                            socks' = [socks EXCEPT ![g] = [at |-> "opening", id |-> i]]

LEMMA ActsOnSockets ==
    ASSUME BackendTypes, NEW e, DocumentActs(e)
    PROVE  /\ BackendTypes' /\ LeasesMove /\ SocketsMove
           /\ \A g \in Gens : socks[g].at # "idle" => socks'[g] = socks[g]
<1>1. /\ socks' \in [Gens -> WebSockets]
      /\ \A g \in Gens : \/ socks'[g] = socks[g]
                         \/ /\ socks[g].at = "idle" /\ socks'[g].at = "opening"
                            /\ socks'[g].id \in 1..MaxIds
  <2>1. socks \in [Gens -> WebSockets]
    BY DEF BackendTypes
  <2>2. CASE socks' = socks
    BY <2>1, <2>2
  <2>3. ASSUME NEW g \in Fresh, NEW i \in 1..MaxIds,
               socks' = [socks EXCEPT ![g] = [at |-> "opening", id |-> i]]
        PROVE  <1>1!:
    <3> DEFINE new == [at |-> "opening", id |-> i]
    <3>1. new \in WebSockets /\ new.at = "opening" /\ new.id = i
      BY BoundsAreNatural DEF WebSockets
    <3>2. g \in Gens /\ socks[g].at = "idle" /\ socks' = [socks EXCEPT ![g] = new]
      BY <2>3 DEF Fresh
    <3> HIDE DEF new
    <3>3. QED
      BY <2>1, <3>1, <3>2
  <2>4. QED
    BY <2>2, <2>3 DEF DocumentActs
<1>2. \A g \in Gens : socks[g].at # "idle" => socks'[g] = socks[g]
    BY <1>1
<1>3. \A g \in Gens : (Up(g)' <=> Up(g)) /\ (Up(g) => socks'[g] = socks[g])
    BY <1>1 DEF Up
<1>4. LeasesMove
    BY <1>3 DEF LeasesMove, Left, DocumentActs
<1>5. SocketsMove
    BY <1>1, <1>3 DEF SocketsMove
<1>6. BackendTypes'
    BY <1>1 DEF BackendTypes, DocumentActs, WorldMoves
<1>7. QED
    BY <1>2, <1>4, <1>5, <1>6

LEMMA ActsInTheWorld ==
    ASSUME BackendTypes, NEW e, Good(e), DocumentActs(e), b' = e
    PROVE  IInv'
<1>1. BackendTypes' /\ LeasesMove /\ SocketsMove
    BY ActsOnSockets
<1>2. Core(b)'
    BY <1>1, CoreInTheWorld DEF Good, DocumentActs
<1>3. LatestInv(b)'
    BY LatestInTheWorld DEF Good
<1>4. RecoveryInv(b)'
    BY <1>1, RecoveryInTheWorld DEF Good
<1>5. QED
    BY <1>1, <1>2, <1>3, <1>4 DEF IInv, Good

Asks ==
    \/ net' = net
    \/ \E op \in {"prepare", "discard"}, t \in Tokens : Ask(op, t)
    \/ \E g \in 0..MaxGens : Ask("retire", g)
Tells(e, S) ==
    /\ claimed' \subseteq claimed \cup S
    /\ \A t \in S : /\ t \in Tokens /\ <<"confirm", t>> \notin net /\ t \notin sent
                    /\ e.flow[t].at \in {"done", "gone"}
                    /\ e.review # [tok |-> t, status |-> "review"]
OpensOne ==
    socks' = socks \/ \E g \in Fresh, i \in 1..MaxIds :
                         socks' = [socks EXCEPT ![g] = [at |-> "opening", id |-> i]]

LEMMA ActsSo ==
    ASSUME BackendTypes, NEW e, NEW S, UNCHANGED <<lease, token, sending, sent>>,
           reply' \subseteq reply, Asks, Tells(e, S), OpensOne
    PROVE  DocumentActs(e)
<1>1. /\ net' \subseteq Requests
      /\ \A t \in Tokens : <<"confirm", t>> \in net' => <<"confirm", t>> \in net
    BY DEF BackendTypes, Asks, Ask, Requests
<1>2. claimed' \subseteq Tokens
    BY DEF BackendTypes, Tells
<1>3. WorldMoves(e)
    BY <1>1 DEF WorldMoves, Tells
<1>4. QED
    BY <1>1, <1>2, <1>3 DEF DocumentActs, OpensOne

LEMMA ActsAlone ==
    ASSUME BackendTypes, NEW e, UNCHANGED <<lease, token, sending, sent, claimed>>,
           reply' \subseteq reply, Asks, OpensOne
    PROVE  DocumentActs(e)
<1>1. Tells(e, {})
    BY DEF Tells
<1>2. QED
    BY <1>1, ActsSo

LEMMA KeepsActs ==
    ASSUME IInv, NEW e, Keeps(b, e), UNCHANGED <<lease, token, sending, sent, claimed>>,
           reply' \subseteq reply, Asks, OpensOne, b' = e
    PROVE  IInv'
BY KeptGood, ActsAlone, ActsInTheWorld DEF IInv

LEMMA GoodDocument ==
    ASSUME IInv
    PROVE  /\ b \in Documents /\ Good(b) /\ BackendTypes /\ b.review \in Reviews /\ b.tr \in Transitions
           /\ b.flow \in [Tokens -> Flows] /\ \A t \in Tokens : FlowInv(b, t)
BY DEF IInv, Good, Core, Documents

LEMMA ReplyShrinks ==
    ASSUME NEW op, NEW x, NEW answer
    PROVE  /\ Answered(op, x, answer) => reply' \subseteq reply
           /\ GivenUp(op, x) => reply' \subseteq reply
BY DEF Answered, GivenUp

----------------------------------------------------------------------------
(* The steps of the document that only take away                           *)

LEMMA NotRetiredStep == ASSUME IInv, NotRetired PROVE IInv'
<1>1. b \in Documents /\ b.tr.at = "retiring"
    BY GoodDocument DEF NotRetired
<1> DEFINE m == IF b.shown THEN RetireTasking(b) ELSE b
<1>2. Keeps(b, m) /\ m \in Documents /\ ~Binds(m)
    BY <1>1, RetireTaskingKeeps, KeepsItself DEF Keeps, TransitionKept, Binds
<1>3. b' = Over(m)
    BY DEF NotRetired
<1> HIDE DEF m
<1>4. Keeps(b, Over(m))
    BY <1>2, OverKeeps, KeepsOnward
<1>5. QED
    BY <1>3, <1>4, KeepsActs, ReplyShrinks DEF NotRetired, backend, Asks, OpensOne

LEMMA DisconnectedStep == ASSUME IInv, Disconnected PROVE IInv'
<1>1. Keeps(b, Lost(b)) /\ b' = Lost(b)
    BY GoodDocument, LostKeeps DEF Disconnected
<1>2. QED
    BY <1>1, KeepsActs DEF Disconnected, backend, Asks, OpensOne

LEMMA RecoveryFailsStep == ASSUME IInv, RecoveryFails PROVE IInv'
<1>1. b \in Documents /\ b.tr.at = "recovering"
    BY GoodDocument DEF RecoveryFails
<1> DEFINE m == IF b.shown THEN RestoreStranded(b) ELSE b
<1>2. Keeps(b, m) /\ m \in Documents /\ ~Binds(m)
    BY <1>1, RestoreStrandedKeeps, KeepsItself DEF Keeps, TransitionKept, Binds
<1>3. b' = Over(m)
    BY DEF RecoveryFails
<1> HIDE DEF m
<1>4. Keeps(b, Over(m))
    BY <1>2, OverKeeps, KeepsOnward
<1>5. QED
    BY <1>3, <1>4, KeepsActs, ReplyShrinks DEF RecoveryFails, backend, Asks, OpensOne

LEMMA NetworkStep == ASSUME IInv, NetworkChanges PROVE IInv'
<1> DEFINE m == [b EXCEPT !.online = ~@]
<1>1. /\ m \in Documents /\ m.id = b.id /\ m.gen = b.gen /\ m.deferred = b.deferred
      /\ m.flow = b.flow /\ m.tr = b.tr /\ m.review = b.review /\ m.conn = b.conn
      /\ m.socket = b.socket
    BY GoodDocument DEF Documents
<1>2. Keeps(b, m)
    BY <1>1, LittleKeeps DEF ReviewKept
<1>3. b' = Leaving(m)
    BY DEF NetworkChanges
<1> HIDE DEF m
<1>4. Keeps(b, Leaving(m))
    BY <1>1, <1>2, LeavingKeeps, KeepsOnward
<1>5. QED
    BY <1>3, <1>4, KeepsActs DEF NetworkChanges, backend, Asks, OpensOne

LEMMA PageHideStep == ASSUME IInv, PageHide PROVE IInv'
<1> DEFINE m == [b EXCEPT !.shown = FALSE]
           l == Leaving(m)
           e == [l EXCEPT !.required = @ \/ b.accepted]
<1>1. /\ m \in Documents /\ m.id = b.id /\ m.gen = b.gen /\ m.deferred = b.deferred
      /\ m.flow = b.flow /\ m.tr = b.tr /\ m.review = b.review /\ m.conn = b.conn
      /\ m.socket = b.socket
    BY GoodDocument DEF Documents
<1>2. Keeps(b, m)
    BY <1>1, LittleKeeps DEF ReviewKept
<1>3. b' = e /\ b.accepted \in BOOLEAN
    BY GoodDocument DEF PageHide, Documents
<1> HIDE DEF m
<1>4. Keeps(b, l) /\ l \in Documents
    BY <1>1, <1>2, LeavingKeeps, KeepsOnward DEF Keeps
<1> HIDE DEF l
<1>5. /\ e \in Documents /\ e.id = l.id /\ e.gen = l.gen /\ e.deferred = l.deferred
      /\ e.flow = l.flow /\ e.tr = l.tr /\ e.review = l.review /\ e.conn = l.conn
      /\ e.socket = l.socket
    BY <1>3, <1>4 DEF Documents
<1>6. Keeps(l, e)
    BY <1>5, LittleKeeps DEF ReviewKept
<1> HIDE DEF e
<1>7. Keeps(b, e)
    BY <1>4, <1>6, KeepsOnward
<1>8. QED
    BY <1>3, <1>7, KeepsActs DEF PageHide, backend, Asks, OpensOne

LEMMA SelectEntityStep == ASSUME IInv, SelectEntity PROVE IInv'
<1> DEFINE flow == [t \in Tokens |-> [b.flow[t] EXCEPT !.fresh = FALSE]]
           e == [b EXCEPT !.flow = flow]
<1>1. b \in Documents /\ b' = e
    BY GoodDocument DEF SelectEntity
<1>2. /\ flow \in [Tokens -> Flows]
      /\ \A t \in Tokens : /\ flow[t].at = b.flow[t].at /\ flow[t].gen = b.flow[t].gen
                           /\ ~flow[t].fresh
    BY <1>1, StaleFlows
<1> HIDE DEF flow
<1>3. /\ e \in Documents /\ e.id = b.id /\ e.gen = b.gen /\ e.deferred = b.deferred
      /\ e.flow = flow /\ e.tr = b.tr /\ e.review = b.review /\ e.conn = b.conn
      /\ e.socket = b.socket
    BY <1>1, <1>2 DEF Documents
<1>4. Keeps(b, e)
    BY <1>2, <1>3 DEF Keeps, SameFlows, ReviewKept, TransitionKept, Bound, Binds
<1>5. QED
    BY <1>1, <1>4, KeepsActs DEF SelectEntity, backend, Asks, OpensOne

----------------------------------------------------------------------------
(* Preparing                                                               *)

LEMMA EndsGoes ==
    ASSUME NEW d \in Documents, NEW t \in Tokens
    PROVE  /\ FlowGoes(d, Ends(d, t), t, "done") /\ Ends(d, t).review = d.review
           /\ ~Ends(d, t).flow[t].fresh
<1> DEFINE p == [[d.flow[t] EXCEPT !.at = "done"] EXCEPT !.fresh = FALSE]
           flow == [d.flow EXCEPT ![t] = p]
           e == [d EXCEPT !.flow = flow]
<1>1. d.flow \in [Tokens -> Flows] /\ d.flow[t] \in Flows
    BY DEF Documents
<1>2. p \in Flows /\ p.at = "done" /\ p.gen = d.flow[t].gen /\ ~p.fresh
    BY <1>1 DEF Flows, Places
<1>3. Ends(d, t) = e
    BY <1>1 DEF Ends, Documents
<1> HIDE DEF p
<1>4. /\ flow \in [Tokens -> Flows] /\ flow[t] = p
      /\ \A u \in Tokens \ {t} : flow[u] = d.flow[u]
    BY <1>1, <1>2
<1> HIDE DEF flow
<1>5. /\ e \in Documents /\ e.id = d.id /\ e.gen = d.gen /\ e.deferred = d.deferred
      /\ e.flow = flow /\ e.tr = d.tr /\ e.review = d.review /\ e.conn = d.conn
      /\ e.socket = d.socket
    BY <1>4 DEF Documents
<1>6. QED
    BY <1>2, <1>3, <1>4, <1>5 DEF FlowGoes

LEMMA EndsGood ==
    ASSUME NEW d, Good(d), NEW t \in Tokens, d.flow[t].at \notin {"idle", "gone"}
    PROVE  /\ Good(Ends(d, t)) /\ Ends(d, t).review = d.review /\ Ends(d, t).flow[t].at = "done"
           /\ Ends(d, t).deferred = d.deferred
<1>1. d \in Documents
    BY DEF Good, Core
<1>2. FlowGoes(d, Ends(d, t), t, "done") /\ Ends(d, t).review = d.review
    BY <1>1, EndsGoes
<1>3. Good(Ends(d, t))
    BY <1>2, GoneGood
<1>4. QED
    BY <1>2, <1>3 DEF FlowGoes

LEMMA PrepareStep == ASSUME IInv, NEW t \in Tokens, Prepare(t) PROVE IInv'
<1> DEFINE p == [at |-> "preparing", gen |-> b.gen, fresh |-> TRUE]
           flow == [x \in Tokens |-> IF x = t THEN p ELSE [b.flow[x] EXCEPT !.fresh = FALSE]]
           e == [b EXCEPT !.flow = flow]
<1>1. /\ b \in Documents /\ b' = e /\ b.flow \in [Tokens -> Flows] /\ b.gen \in 0..MaxGens
      /\ b.review = NoReview /\ b.flow[t].at = "idle" /\ b.conn = "connected"
    BY GoodDocument DEF Prepare, Documents
<1>2. p \in Flows /\ p.at = "preparing" /\ p.gen = b.gen
    BY <1>1 DEF Flows, Places
<1> HIDE DEF p
<1>3. \A x \in Tokens : LET q == [b.flow[x] EXCEPT !.fresh = FALSE]
                        IN q \in Flows /\ q.at = b.flow[x].at /\ q.gen = b.flow[x].gen /\ ~q.fresh
    BY <1>1 DEF Flows
<1>4. /\ flow \in [Tokens -> Flows] /\ flow[t] = p
      /\ \A u \in Tokens \ {t} : /\ flow[u].at = b.flow[u].at /\ flow[u].gen = b.flow[u].gen
                                 /\ ~flow[u].fresh
    BY <1>2, <1>3
<1> HIDE DEF flow
<1>5. /\ e \in Documents /\ e.id = b.id /\ e.gen = b.gen /\ e.deferred = b.deferred
      /\ e.flow = flow /\ e.tr = b.tr /\ e.review = b.review /\ e.conn = b.conn
      /\ e.socket = b.socket
    BY <1>1, <1>4 DEF Documents
<1> HIDE DEF e
<1>6. FlowInv(b, t) /\ ~Asked(t) /\ t \notin claimed
    BY <1>1, GoodDocument DEF FlowInv
<1>7. \A u \in Tokens : FlowInv(e, u)
  <2> TAKE u \in Tokens
  <2>1. FlowInv(b, u)
    BY GoodDocument
  <2>2. CASE u = t
    <3>1. e.review # [tok |-> t, status |-> "review"]
      BY <1>1, <1>5, NoneIsNoToken DEF NoReview
    <3>2. QED
      BY <1>2, <1>4, <1>5, <1>6, <2>2, <3>1 DEF FlowInv, Asked
  <2>3. CASE u # t
    BY <1>4, <1>5, <2>1, <2>3 DEF FlowInv
  <2>4. QED
    BY <2>2, <2>3
<1>8. AcceptedInv(e)
  <2>1. Up(b.gen) /\ AcceptedInv(b)
    BY <1>1, GoodDocument DEF Good, Core, AcceptedInv
  <2>2. \A u \in Tokens : e.flow[u].at # "idle" => Up(e.flow[u].gen)
    BY <1>2, <1>4, <1>5, <2>1 DEF AcceptedInv
  <2>3. QED
    BY <1>5, <2>1, <2>2 DEF AcceptedInv, Binds, Bound
<1>9. SeenInv(e)
  <2> SUFFICES ASSUME NEW u \in Tokens, <<"confirm", u>> \in net, e.flow[u].at # "gone"
               PROVE  e.review.tok = u \/ Left(e.flow[u].gen)
    BY DEF SeenInv
  <2>1. u # t
    BY <1>6 DEF Asked
  <2>2. QED
    BY <1>4, <1>5, <2>1, GoodDocument DEF Good, Core, SeenInv
<1>10. LatestInv(e)
    BY <1>1, <1>4, <1>5 DEF LatestInv
<1>11. RecoveryInv(e)
  <2>1. b.tr.at \in {"recovering", "rebinding"} => b.tr.tok \in Tokens \ {t}
    BY <1>1, GoodDocument, TransitionParts DEF Good, RecoveryInv
  <2>2. QED
    BY <1>4, <1>5, <2>1, GoodDocument DEF Good, RecoveryInv
<1>12. Good(e)
    BY <1>5, <1>7, <1>8, <1>9, <1>10, <1>11 DEF Good, Core
<1>13. QED
    BY <1>1, <1>12, GoodDocument, ActsAlone, ActsInTheWorld DEF Prepare, backend, Asks, OpensOne

LEMMA DiscardingGoes ==
    ASSUME NEW d \in Documents, NEW t \in Tokens
    PROVE  LET e == [d EXCEPT !.flow[t].at = "discarding"]
           IN FlowGoes(d, e, t, "discarding") /\ e.review = d.review
<1> DEFINE p == [d.flow[t] EXCEPT !.at = "discarding"]
           flow == [d.flow EXCEPT ![t] = p]
           e == [d EXCEPT !.flow = flow]
<1>1. d.flow \in [Tokens -> Flows] /\ d.flow[t] \in Flows
    BY DEF Documents
<1>2. /\ p \in Flows /\ p.at = "discarding" /\ p.gen = d.flow[t].gen
      /\ p.fresh = d.flow[t].fresh
    BY <1>1 DEF Flows, Places
<1>3. [d EXCEPT !.flow[t].at = "discarding"] = e
    BY <1>1 DEF Documents
<1> HIDE DEF p
<1>4. /\ flow \in [Tokens -> Flows] /\ flow[t] = p
      /\ \A u \in Tokens \ {t} : flow[u] = d.flow[u]
    BY <1>1, <1>2
<1> HIDE DEF flow
<1>5. /\ e \in Documents /\ e.id = d.id /\ e.gen = d.gen /\ e.deferred = d.deferred
      /\ e.flow = flow /\ e.tr = d.tr /\ e.review = d.review /\ e.conn = d.conn
      /\ e.socket = d.socket
    BY <1>4 DEF Documents
<1>6. QED
    BY <1>2, <1>3, <1>4, <1>5 DEF FlowGoes

LEMMA PreparedStep == ASSUME IInv, NEW t \in Tokens, Prepared(t) PROVE IInv'
<1>1. /\ b \in Documents /\ Good(b) /\ BackendTypes /\ b.flow[t].at = "preparing"
      /\ FlowInv(b, t) /\ ~Asked(t) /\ t \notin claimed
    BY GoodDocument DEF Prepared, FlowInv
<1>2. UNCHANGED <<lease, token, sending, sent, claimed, socks>> /\ reply' \subseteq reply
    BY ReplyShrinks DEF Prepared, backend
<1>3. ASSUME StillCurrent(t), b' = [Ends(b, t) EXCEPT !.review = [tok |-> t, status |-> "review"]],
             net' = net
      PROVE  IInv'
  <2> DEFINE m == Ends(b, t)
             r == [tok |-> t, status |-> "review"]
             e == [m EXCEPT !.review = r]
  <2>1. b.review = NoReview /\ \A u \in Tokens \ {t} : ~b.flow[u].fresh
    BY <1>1, <1>3 DEF StillCurrent, Good, LatestInv
  <2>2. /\ Good(m) /\ m \in Documents /\ m.review = NoReview /\ m.flow[t].at = "done"
        /\ m.deferred = b.deferred /\ FlowGoes(b, m, t, "done") /\ ~m.flow[t].fresh
    BY <1>1, <2>1, EndsGood, EndsGoes DEF FlowGoes
  <2>3. \A u \in Tokens : ~m.flow[u].fresh
    BY <2>1, <2>2 DEF FlowGoes
  <2> HIDE DEF m
  <2>4. r \in Reviews
    BY DEF Reviews
  <2> HIDE DEF r
  <2>5. /\ e \in Documents /\ e.id = m.id /\ e.gen = m.gen /\ e.deferred = m.deferred
        /\ e.flow = m.flow /\ e.tr = m.tr /\ e.review = r /\ e.conn = m.conn
        /\ e.socket = m.socket
    BY <2>2, <2>4 DEF Documents
  <2> HIDE DEF e
  <2>6. ReviewGoes(m, e) /\ m.review.tok = None
    BY <2>2, <2>5 DEF ReviewGoes, NoReview
  <2>7. r.tok = t /\ \A u \in Tokens : r = [tok |-> u, status |-> "review"] => u = t
    BY DEF r
  <2>8. \A u \in Tokens : u = e.review.tok \/ u = e.deferred => m.flow[u].at # "idle"
    BY <2>2, <2>5, <2>7 DEF Good, Core, FlowInv
  <2>9. Core(e) /\ RecoveryInv(e) /\ LatestInv(e)
    BY <1>1, <2>2, <2>3, <2>5, <2>6, <2>7, <2>8, ReviewedGood, NoneIsNoToken
  <2>10. Good(e) /\ b' = e
    BY <1>3, <2>9 DEF Good, e, m, r
  <2>11. QED
    BY <1>1, <1>2, <1>3, <2>10, ActsAlone, ActsInTheWorld DEF Asks, OpensOne
<1>4. ASSUME b' = [b EXCEPT !.flow[t].at = "discarding"], Ask("discard", t)
      PROVE  IInv'
  <2> DEFINE e == [b EXCEPT !.flow[t].at = "discarding"]
  <2>1. FlowGoes(b, e, t, "discarding") /\ e.review = b.review
    BY <1>1, DiscardingGoes
  <2> HIDE DEF e
  <2>2. b.review # [tok |-> t, status |-> "review"]
    BY <1>1 DEF FlowInv
  <2>3. Good(e)
    BY <1>1, <2>1, <2>2, GoneGood
  <2>4. QED
    BY <1>1, <1>2, <1>4, <2>3, ActsAlone, ActsInTheWorld DEF Asks, OpensOne, e
<1>5. QED
    BY <1>3, <1>4 DEF Prepared

LEMMA PrepareDeniedStep == ASSUME IInv, NEW t \in Tokens, PrepareDenied(t) PROVE IInv'
<1>1. Good(Ends(b, t)) /\ BackendTypes
    BY GoodDocument, EndsGood DEF PrepareDenied
<1>2. QED
    BY <1>1, ReplyShrinks, ActsAlone, ActsInTheWorld DEF PrepareDenied, backend, Asks, OpensOne

LEMMA PrepareUnprovenStep == ASSUME IInv, NEW t \in Tokens, PrepareUnproven(t) PROVE IInv'
<1> DEFINE m == IF b.flow[t].gen = b.gen THEN RetireTasking(b) ELSE b
           e == Ends(m, t)
<1>1. /\ b \in Documents /\ Good(b) /\ BackendTypes /\ b.flow[t].at = "preparing"
      /\ ~Asked(t) /\ b.review # [tok |-> t, status |-> "review"]
    BY GoodDocument DEF PrepareUnproven, FlowInv
<1>2. Keeps(b, m) /\ m.review = b.review
    BY <1>1, RetireTaskingKeeps, KeepsItself
<1> HIDE DEF m
<1>3. Good(m) /\ m.flow[t].at = "preparing"
    BY <1>1, <1>2, KeptGood DEF Keeps, SameFlows
<1>4. Good(e) /\ e.review = b.review /\ e.flow[t].at = "done"
    BY <1>2, <1>3, EndsGood
<1>5. b' = e
    BY DEF PrepareUnproven, m
<1> HIDE DEF e
<1>6. Tells(e, {t})
    BY <1>1, <1>4 DEF PrepareUnproven, Tells, Asked
<1>7. DocumentActs(e)
    BY <1>1, <1>6, ReplyShrinks, ActsSo DEF PrepareUnproven, backend, Asks, OpensOne
<1>8. QED
    BY <1>1, <1>4, <1>5, <1>7, ActsInTheWorld

LEMMA CandidateDiscardedStep == ASSUME IInv, NEW t \in Tokens, CandidateDiscarded(t) PROVE IInv'
<1> DEFINE e == Ends(b, t)
<1>1. /\ b \in Documents /\ Good(b) /\ BackendTypes /\ b.flow[t].at = "discarding"
      /\ ~Asked(t) /\ b.review # [tok |-> t, status |-> "review"]
    BY GoodDocument DEF CandidateDiscarded, FlowInv
<1>2. Good(e) /\ e.review = b.review /\ e.flow[t].at = "done"
    BY <1>1, EndsGood
<1>3. b' = e
    BY DEF CandidateDiscarded
<1> HIDE DEF e
<1>4. Tells(e, {t})
    BY <1>1, <1>2 DEF CandidateDiscarded, Tells, Asked
<1>5. DocumentActs(e)
    BY <1>1, <1>4, ReplyShrinks, ActsSo DEF CandidateDiscarded, backend, Asks, OpensOne
<1>6. QED
    BY <1>1, <1>2, <1>3, <1>5, ActsInTheWorld

LEMMA DeferGood ==
    ASSUME NEW d, Good(d), NEW t \in Tokens, d.flow[t].at # "idle", d.review # NoReview
    PROVE  Good(Defer(d, t)) /\ Keeps([d EXCEPT !.deferred = IF @ = None THEN t ELSE @], Defer(d, t))
           /\ Defer(d, t).flow[t].at = d.flow[t].at
<1> DEFINE q == IF d.deferred = None THEN t ELSE d.deferred
           m == [d EXCEPT !.deferred = q]
<1>1. d \in Documents /\ q \in Tokens \cup {None}
    BY DEF Good, Core, Documents
<1>2. \A u \in Tokens : u = d.review.tok \/ u = q => d.flow[u].at # "idle"
    BY DEF Good, Core, FlowInv
<1>3. m = [d EXCEPT !.deferred = IF @ = None THEN t ELSE @]
    BY <1>1 DEF Documents
<1> HIDE DEF q
<1>4. /\ m \in Documents /\ m.id = d.id /\ m.gen = d.gen /\ m.deferred = q
      /\ m.flow = d.flow /\ m.tr = d.tr /\ m.review = d.review /\ m.conn = d.conn
      /\ m.socket = d.socket
    BY <1>1 DEF Documents
<1>5. Defer(d, t) = RetireTasking(m)
    BY <1>3 DEF Defer
<1> HIDE DEF m
<1>6. ReviewGoes(d, m)
    BY <1>4 DEF ReviewGoes
<1>7. \A u \in Tokens : ~d.flow[u].fresh
    BY DEF Good, LatestInv
<1>8. Core(m) /\ RecoveryInv(m) /\ LatestInv(m)
  <2>1. \A u \in Tokens : m.review = [tok |-> u, status |-> "review"] =>
            ~Asked(u) /\ d.flow[u].at = "done" /\ u \notin claimed
    BY <1>4 DEF Good, Core, FlowInv
  <2>2. QED
    BY <1>2, <1>4, <1>6, <1>7, <2>1, ReviewedGood
<1>9. Keeps(m, RetireTasking(m))
    BY <1>4, RetireTaskingKeeps
<1>10. Good(RetireTasking(m))
    BY <1>8, <1>9, KeptGood DEF Good
<1>11. RetireTasking(m).flow[t].at = d.flow[t].at
    BY <1>4, <1>9 DEF Keeps, SameFlows
<1>12. QED
    BY <1>3, <1>5, <1>9, <1>10, <1>11

LEMMA CandidateKeptStep == ASSUME IInv, NEW t \in Tokens, CandidateKept(t) PROVE IInv'
<1>1. /\ b \in Documents /\ Good(b) /\ BackendTypes /\ b.flow[t].at = "discarding"
      /\ ~Asked(t) /\ b.review # [tok |-> t, status |-> "review"]
    BY GoodDocument DEF CandidateKept, FlowInv
<1>2. PICK m : Good(m) /\ m.flow[t].at = "discarding" /\ b' = Ends(m, t)
  <2>1. CASE b.review # NoReview
    BY <1>1, <2>1, DeferGood DEF CandidateKept
  <2>2. CASE b.review = NoReview
    <3> DEFINE r == [tok |-> t, status |-> "stranded"]
               m == [b EXCEPT !.review = r]
    <3>1. r \in Reviews
      BY DEF Reviews
    <3>2. r.tok = t /\ r.status = "stranded"
      OBVIOUS
    <3> HIDE DEF r
    <3>3. /\ m \in Documents /\ m.id = b.id /\ m.gen = b.gen /\ m.deferred = b.deferred
          /\ m.flow = b.flow /\ m.tr = b.tr /\ m.review = r /\ m.conn = b.conn
          /\ m.socket = b.socket
      BY <1>1, <3>1 DEF Documents
    <3>4. b' = Ends(Strand(m), t)
      BY <2>2 DEF CandidateKept, r
    <3> HIDE DEF m
    <3>5. ReviewGoes(b, m) /\ b.review.tok = None
      BY <2>2, <3>3 DEF ReviewGoes, NoReview
    <3>6. \A u \in Tokens : u = m.review.tok \/ u = m.deferred => b.flow[u].at # "idle"
      BY <1>1, <3>2, <3>3 DEF Good, Core, FlowInv
    <3>7. \A u \in Tokens : m.review # [tok |-> u, status |-> "review"]
      BY <3>2, <3>3
    <3>8. Core(m) /\ RecoveryInv(m)
      BY <1>1, <3>5, <3>6, <3>7, ReviewedGood, NoneIsNoToken
    <3>9. Keeps(m, Strand(m)) /\ \A u \in Tokens : ~Strand(m).flow[u].fresh
      BY <3>3, StrandKeeps
    <3>10. Core(Strand(m)) /\ RecoveryInv(Strand(m)) /\ LatestInv(Strand(m))
      BY <3>3, <3>8, <3>9, KeptCore, KeptRecovery DEF LatestInv
    <3>11. Strand(m).flow[t].at = "discarding"
      BY <1>1, <3>3, <3>9 DEF Keeps, SameFlows
    <3>12. QED
      BY <3>4, <3>10, <3>11 DEF Good
  <2>3. QED
    BY <2>1, <2>2
<1>3. Good(Ends(m, t))
    BY <1>2, EndsGood
<1>4. QED
    BY <1>1, <1>2, <1>3, ReplyShrinks, ActsAlone, ActsInTheWorld
    DEF CandidateKept, backend, Asks, OpensOne

----------------------------------------------------------------------------
(* Reviewing                                                               *)

LEMMA WaitsGoes ==
    ASSUME NEW d \in Documents, d.review # NoReview, NEW place \in {"confirming", "dismissing"}
    PROVE  LET t == d.review.tok
               e == [d EXCEPT !.review.status = "invalidating", !.flow[t].at = place]
           IN /\ t \in Tokens /\ FlowGoes(d, e, t, place)
              /\ e.review = [tok |-> t, status |-> "invalidating"]
<1> DEFINE t == d.review.tok
           p == [d.flow[t] EXCEPT !.at = place]
           flow == [d.flow EXCEPT ![t] = p]
           r == [tok |-> t, status |-> "invalidating"]
           e == [d EXCEPT !.review = r, !.flow = flow]
<1>1. /\ d.flow \in [Tokens -> Flows] /\ d.review \in Reviews /\ t \in Tokens
      /\ [d.review EXCEPT !.status = "invalidating"] = r
    BY ReviewParts DEF Documents
<1>2. p \in Flows /\ p.at = place /\ p.gen = d.flow[t].gen /\ p.fresh = d.flow[t].fresh
    BY <1>1 DEF Flows, Places
<1>3. r \in Reviews
    BY <1>1 DEF Reviews
<1>4. [d EXCEPT !.review.status = "invalidating", !.flow[t].at = place] = e
    BY <1>1 DEF Documents
<1> HIDE DEF t, p, r
<1>5. /\ flow \in [Tokens -> Flows] /\ flow[t] = p
      /\ \A u \in Tokens \ {t} : flow[u] = d.flow[u]
    BY <1>1, <1>2
<1> HIDE DEF flow
<1>6. /\ e \in Documents /\ e.id = d.id /\ e.gen = d.gen /\ e.deferred = d.deferred
      /\ e.flow = flow /\ e.tr = d.tr /\ e.review = r /\ e.conn = d.conn
      /\ e.socket = d.socket
    BY <1>3, <1>5 DEF Documents
<1> HIDE DEF e
<1>7. FlowGoes(d, e, t, place)
    BY <1>2, <1>5, <1>6 DEF FlowGoes, r, t
<1>8. QED
    BY <1>1, <1>4, <1>6, <1>7 DEF t, r

LEMMA UnderReview ==
    ASSUME NEW d, Good(d), d.review # NoReview, d.review.status = "review"
    PROVE  LET t == d.review.tok
           IN /\ t \in Tokens /\ d.review = [tok |-> t, status |-> "review"]
              /\ ~Asked(t) /\ d.flow[t].at = "done" /\ t \notin claimed
<1>1. d.review \in Reviews
    BY DEF Good, Core, Documents
<1>2. d.review.tok \in Tokens /\ d.review = [tok |-> d.review.tok, status |-> "review"]
    BY <1>1, ReviewOf
<1>3. QED
    BY <1>2 DEF Good, Core, FlowInv

LEMMA DismissalGood ==
    ASSUME NEW d, Good(d), d.review # NoReview, d.review.status = "review"
    PROVE  /\ Good(StartsDismissal(d)) /\ d.review.tok \in Tokens
           /\ FlowGoes(d, StartsDismissal(d), d.review.tok, "dismissing")
           /\ StartsDismissal(d).review.status = "invalidating"
<1> DEFINE t == d.review.tok
           e == StartsDismissal(d)
<1>1. d \in Documents /\ t \in Tokens /\ ~Asked(t) /\ d.flow[t].at = "done" /\ t \notin claimed
    BY UnderReview DEF Good, Core
<1>2. FlowGoes(d, e, t, "dismissing") /\ e.review = [tok |-> t, status |-> "invalidating"]
    BY <1>1, WaitsGoes DEF StartsDismissal
<1> HIDE DEF t, e
<1>3. e.review # [tok |-> t, status |-> "review"]
    BY <1>2
<1>4. Good(e)
    BY <1>1, <1>2, <1>3, GoneGood
<1>5. QED
    BY <1>1, <1>2, <1>4 DEF t, e

LEMMA DismissStep == ASSUME IInv, Dismiss PROVE IInv'
<1>1. Good(StartsDismissal(b)) /\ BackendTypes /\ b.review.tok \in Tokens
    BY GoodDocument, DismissalGood DEF Dismiss
<1>2. QED
    BY <1>1, ActsAlone, ActsInTheWorld DEF Dismiss, backend, Asks, OpensOne

LEMMA ConfirmStep == ASSUME IInv, Confirm PROVE IInv'
<1> DEFINE t == b.review.tok
           e == [b EXCEPT !.review.status = "invalidating", !.flow[t].at = "confirming"]
<1>1. /\ b \in Documents /\ Good(b) /\ BackendTypes /\ b.review # NoReview /\ b.review.status = "review"
      /\ b' = e /\ net' = net \cup {<<"confirm", t>>} /\ UNCHANGED <<claimed, reply, backend>>
    BY GoodDocument DEF Confirm, Ask
<1>2. t \in Tokens /\ ~Asked(t) /\ b.flow[t].at = "done" /\ t \notin claimed
    BY <1>1, UnderReview
<1>3. FlowGoes(b, e, t, "confirming") /\ e.review = [tok |-> t, status |-> "invalidating"]
    BY <1>1, WaitsGoes
<1> HIDE DEF t, e
<1>4. e.review.tok = t /\ \A u \in Tokens : e.review # [tok |-> u, status |-> "review"]
    BY <1>3
<1>5. Good(e)
    BY <1>1, <1>2, <1>3, <1>4, GoneGood
<1>6. UNCHANGED <<claimed, reply, socks, lease, token, sending, sent>>
    BY <1>1 DEF backend
<1>7. BackendTypes'
    BY <1>1, <1>2, <1>6 DEF BackendTypes, Requests
<1>8. LeasesMove /\ SocketsMove
    BY <1>6 DEF LeasesMove, SocketsMove, Up, Left
<1>9. \A u \in Tokens : FlowInv(b, u)'
  <2> TAKE u \in Tokens
  <2>1. FlowInv(e, u) /\ (<<"confirm", u>> \in net' => u = t \/ <<"confirm", u>> \in net)
    BY <1>1, <1>5 DEF Good, Core
  <2>2. (Answer(u)' <=> Answer(u)) /\ (u # t => (Asked(u)' <=> Asked(u)))
    BY <1>1, <1>6 DEF Answer, Asked
  <2>3. CASE u = t
    <3>1. e.flow[u].at = "confirming" /\ ~Answer(u) /\ u \notin sent /\ u \notin claimed
      BY <1>2, <1>3, <2>3 DEF FlowGoes, Asked
    <3>2. QED
      BY <1>1, <1>4, <1>6, <2>1, <2>2, <3>1 DEF FlowInv
  <2>4. CASE u # t
    BY <1>1, <1>6, <2>1, <2>2, <2>4 DEF FlowInv
  <2>5. QED
    BY <2>3, <2>4
<1>10. AcceptedInv(b)'
    BY <1>1, <1>5, <1>8, AcceptedInTheWorld DEF Good, Core
<1>11. SeenInv(b)'
    BY <1>1, <1>4, <1>5, <1>6 DEF Good, Core, SeenInv, Left
<1>12. RecoveryInv(b)'
    BY <1>1, <1>5, <1>8, RecoveryInTheWorld DEF Good
<1>13. LatestInv(b)'
    BY <1>1, <1>5, LatestInTheWorld DEF Good
<1>14. (b \in Documents)'
    BY <1>1, <1>5 DEF Good, Core, Documents
<1>15. QED
    BY <1>7, <1>9, <1>10, <1>11, <1>12, <1>13, <1>14 DEF IInv, Good, Core

(* A definite answer about t: its review ends, or had been replaced.       *)
LEMMA ClearedGood ==
    ASSUME NEW d, Good(d), NEW t \in Tokens, d.flow[t].at \in {"confirming", "dismissing"},
           <<"confirm", t>> \notin net
    PROVE  LET e == Clears(Ends(d, t), t)
           IN /\ Good(e) /\ e.flow[t].at = "done"
              /\ e.review # [tok |-> t, status |-> "review"]
<1> DEFINE m == Ends(d, t)
           e == Clears(m, t)
<1> SUFFICES /\ Good(e) /\ e.flow[t].at = "done"
             /\ e.review # [tok |-> t, status |-> "review"]
    OBVIOUS
<1>1. /\ Good(m) /\ m.flow[t].at = "done" /\ m \in Documents
      /\ m.deferred \in Tokens \cup {None}
    BY EndsGood DEF Good, Core, Documents
<1> HIDE DEF m
<1>2. CASE m.review.tok # t
  <2>1. e = m
    BY <1>2 DEF Clears
  <2>2. m.review # [tok |-> t, status |-> "review"]
    BY <1>2
  <2>3. QED
    BY <1>1, <2>1, <2>2
<1>3. CASE m.review.tok = t
  <2>1. m.review # NoReview /\ \A u \in Tokens : ~m.flow[u].fresh
    BY <1>1, <1>3, NoneIsNoToken DEF NoReview, Good, LatestInv
  <2>2. e = ActivateDeferred(m)
    BY <1>3 DEF Clears
  <2>3. CASE m.deferred = None
    <3> DEFINE f == [m EXCEPT !.review = NoReview]
    <3>1. e = f
      BY <2>2, <2>3 DEF ActivateDeferred
    <3>2. /\ f \in Documents /\ f.id = m.id /\ f.gen = m.gen /\ f.deferred = None
          /\ f.flow = m.flow /\ f.tr = m.tr /\ f.review = NoReview /\ f.conn = m.conn
          /\ f.socket = m.socket
      BY <1>1, <2>3 DEF Documents, Reviews
    <3> HIDE DEF f
    <3>3. ReviewGoes(m, f) /\ \A u \in Tokens : f.review # [tok |-> u, status |-> "review"]
      BY <3>2, NoneIsNoToken DEF ReviewGoes, NoReview
    <3>4. \A u \in Tokens : u # f.review.tok /\ u # f.deferred
      BY <3>2, NoneIsNoToken DEF NoReview
    <3>5. Core(f) /\ RecoveryInv(f) /\ LatestInv(f)
      BY <1>1, <1>3, <3>2, <3>3, <3>4, ReviewedGood
    <3>6. QED
      BY <1>1, <3>1, <3>2, <3>3, <3>5 DEF Good
  <2>4. CASE m.deferred # None
    <3> DEFINE q == m.deferred
               r == [tok |-> q, status |-> "stranded"]
               f == [m EXCEPT !.review = r, !.deferred = None, !.conn = "down"]
    <3>1. e = f
      BY <2>2, <2>4 DEF ActivateDeferred
    <3>2. q \in Tokens /\ r \in Reviews /\ r.tok = q /\ r.status = "stranded"
      BY <1>1, <2>4 DEF Reviews
    <3> HIDE DEF q, r
    <3>3. /\ f \in Documents /\ f.id = m.id /\ f.gen = m.gen /\ f.deferred = None
          /\ f.flow = m.flow /\ f.tr = m.tr /\ f.review = r /\ f.conn = "down"
          /\ f.socket = m.socket
      BY <1>1, <3>2 DEF Documents
    <3> HIDE DEF f
    <3>4. ReviewGoes(m, f) /\ \A u \in Tokens : f.review # [tok |-> u, status |-> "review"]
      BY <3>2, <3>3 DEF ReviewGoes
    <3>5. \A u \in Tokens : u = f.review.tok \/ u = f.deferred => m.flow[u].at # "idle"
      BY <1>1, <3>2, <3>3, NoneIsNoToken DEF q, Good, Core, FlowInv
    <3>6. Core(f) /\ RecoveryInv(f) /\ LatestInv(f)
      BY <1>1, <1>3, <2>1, <3>4, <3>5, ReviewedGood
    <3>7. QED
      BY <1>1, <3>1, <3>3, <3>4, <3>6 DEF Good
  <2>5. QED
    BY <2>3, <2>4
<1>4. QED
    BY <1>2, <1>3

LEMMA ConfirmAnsweredStep == ASSUME IInv, NEW t \in Tokens, ConfirmAnswered(t) PROVE IInv'
<1> DEFINE e == Clears(Ends(b, t), t)
<1>1. /\ b' = e /\ BackendTypes /\ Good(b) /\ FlowInv(b, t) /\ b.flow[t].at = "confirming"
      /\ UNCHANGED <<net, backend>> /\ reply' \subseteq reply
    BY GoodDocument, ReplyShrinks DEF ConfirmAnswered, Cleared
<1>2. <<"confirm", t>> \notin net
    BY <1>1 DEF ConfirmAnswered, Answered, FlowInv, Answer
<1>3. Good(e) /\ e.flow[t].at = "done" /\ e.review # [tok |-> t, status |-> "review"]
    BY <1>1, <1>2, ClearedGood
<1> HIDE DEF e
<1>4. Tells(e, claimed' \ claimed)
  <2>1. CASE claimed' = claimed
    BY <2>1 DEF Tells
  <2>2. CASE <<"confirm", t, "denied">> \in reply /\ claimed' = claimed \cup {t}
    <3>1. t \notin sent
      BY <1>1, <2>2 DEF FlowInv
    <3>2. QED
      BY <1>2, <1>3, <2>2, <3>1 DEF Tells
  <2>3. QED
    BY <2>1, <2>2 DEF ConfirmAnswered, Answered
<1>5. DocumentActs(e)
    BY <1>1, <1>4, ActsSo DEF backend, Asks, OpensOne
<1>6. QED
    BY <1>1, <1>3, <1>5, ActsInTheWorld

LEMMA DismissedStep == ASSUME IInv, NEW t \in Tokens, Dismissed(t) PROVE IInv'
<1> DEFINE e == Clears(Ends(b, t), t)
<1>1. /\ b' = e /\ BackendTypes /\ Good(b) /\ ~Asked(t) /\ b.flow[t].at = "dismissing"
      /\ UNCHANGED <<net, backend>> /\ reply' \subseteq reply
    BY GoodDocument, ReplyShrinks DEF Dismissed, Cleared, FlowInv
<1>2. <<"confirm", t>> \notin net /\ t \notin sent
    BY <1>1 DEF Asked
<1>3. Good(e) /\ e.flow[t].at = "done" /\ e.review # [tok |-> t, status |-> "review"]
    BY <1>1, <1>2, ClearedGood
<1> HIDE DEF e
<1>4. Tells(e, {t})
    BY <1>2, <1>3 DEF Dismissed, Tells
<1>5. DocumentActs(e)
    BY <1>1, <1>4, ActsSo DEF backend, Asks, OpensOne
<1>6. QED
    BY <1>1, <1>3, <1>5, ActsInTheWorld

LEMMA StrandedStep == ASSUME IInv, NEW t \in Tokens, Stranded(t) PROVE IInv'
<1>1. /\ b' = Strand(Ends(b, t)) /\ BackendTypes /\ Good(b) /\ b.flow[t].at \notin {"idle", "gone"}
      /\ UNCHANGED <<claimed, net, backend>> /\ reply' \subseteq reply
    BY GoodDocument, ReplyShrinks DEF Stranded
<1>2. Good(Ends(b, t)) /\ Ends(b, t) \in Documents
    BY <1>1, EndsGood DEF Good, Core
<1>3. Good(Strand(Ends(b, t)))
    BY <1>2, StrandKeeps, KeptGood
<1>4. QED
    BY <1>1, <1>3, ActsAlone, ActsInTheWorld DEF backend, Asks, OpensOne

----------------------------------------------------------------------------
(* Connecting                                                              *)

(* A transition that neither opens nor recovers anything.                  *)
LEMMA TransitionKeeps ==
    ASSUME NEW d \in Documents, ~Binds(d), NEW r \in Transitions,
           r.at \notin {"binding", "rebinding", "recovering"}, NEW c \in {d.conn, "down", "connecting"}
    PROVE  Keeps(d, [d EXCEPT !.conn = c, !.tr = r])
<1> DEFINE e == [d EXCEPT !.conn = c, !.tr = r]
<1>1. /\ e \in Documents /\ e.id = d.id /\ e.gen = d.gen /\ e.deferred = d.deferred
      /\ e.flow = d.flow /\ e.tr = r /\ e.review = d.review /\ e.conn = c
      /\ e.socket = d.socket
    BY DEF Documents
<1> HIDE DEF e
<1>2. SameFlows(d, e) /\ ReviewKept(d, e) /\ TransitionKept(d, e)
    BY <1>1 DEF SameFlows, ReviewKept, TransitionKept
<1>3. Bound(e) => Bound(d)
    BY <1>1 DEF Bound
<1>4. QED
    BY <1>1, <1>2, <1>3 DEF Keeps, e

(* A document with a WebSocket of a new generation, yet to be accepted.    *)
Opened(d, e, g) ==
    /\ e \in Documents /\ e.id = d.id /\ e.gen = d.gen /\ e.deferred = d.deferred
    /\ e.flow = d.flow /\ e.review = d.review /\ e.socket = g
    /\ e.conn \notin {"connected", "duplicate"} \/ (e.conn = d.conn /\ d.conn # "duplicate")
    /\ e.tr.at \in {"binding", "rebinding"} /\ e.tr.gen = g

LEMMA OpenedGood ==
    ASSUME NEW d, Good(d), NEW e, NEW g \in Gens, Opened(d, e, g)
    PROVE  /\ Core(e) /\ LatestInv(e) /\ (e.tr.at = "binding" => Good(e))
<1> USE DEF Opened
<1>1. \A t \in Tokens : FlowInv(e, t)
    BY DEF Good, Core, FlowInv
<1>2. ~Bound(e)
    BY DEF Bound, Binds
<1>3. AcceptedInv(e)
    BY <1>2 DEF Good, Core, AcceptedInv, Binds
<1>4. SeenInv(e)
    BY DEF Good, Core, SeenInv
<1>5. LatestInv(e)
    BY DEF Good, LatestInv
<1>6. e.tr.at = "binding" => RecoveryInv(e)
    BY DEF RecoveryInv
<1>7. QED
    BY <1>1, <1>3, <1>4, <1>5, <1>6 DEF Good, Core

LEMMA BindingGood ==
    ASSUME NEW d, Good(d), NEW g \in Gens, NEW retries \in Int, NEW final \in BOOLEAN
    PROVE  /\ Good(Binding(d, g, retries, final)) /\ Binding(d, g, retries, final).flow = d.flow
           /\ Binding(d, g, retries, final).review = d.review
<1> DEFINE r == [at |-> "binding", gen |-> g, left |-> retries, final |-> final, moved |-> FALSE]
           e == [d EXCEPT !.socket = g, !.conn = "connecting", !.tr = r]
<1>1. d \in Documents /\ g \in 0..MaxGens
    BY DEF Good, Core, Gens
<1>2. r \in Transitions /\ r.at = "binding" /\ r.gen = g
    BY DEF Transitions
<1>3. e = Binding(d, g, retries, final)
    BY DEF Binding
<1> HIDE DEF r
<1>4. /\ e \in Documents /\ e.id = d.id /\ e.gen = d.gen /\ e.deferred = d.deferred
      /\ e.flow = d.flow /\ e.tr = r /\ e.review = d.review /\ e.conn = "connecting"
      /\ e.socket = g
    BY <1>1, <1>2 DEF Documents
<1> HIDE DEF e
<1>5. /\ e.conn \notin {"connected", "duplicate"} /\ e.tr.at = "binding" /\ e.tr.gen = g
      /\ e.tr.at \in {"binding", "rebinding"}
    BY <1>2, <1>4
<1>6. Good(e)
  <2>1. Opened(d, e, g)
    BY <1>4, <1>5 DEF Opened
  <2>2. QED
    BY <1>5, <2>1, OpenedGood
<1>7. QED
    BY <1>3, <1>4, <1>6

(* An attempt, whatever of the review was given up before it.              *)
LEMMA AttemptsActs ==
    ASSUME BackendTypes, NEW d, Good(d), Binds(d) => d.socket = 0,
           NEW retries \in Int, NEW final \in BOOLEAN, Attempts(d, retries, final),
           NEW S, Tells(d, S), UNCHANGED <<lease, token, sending, sent>>,
           reply' \subseteq reply, Asks
    PROVE  IInv'
<1>1. d \in Documents /\ d.id \in 1..MaxIds
    BY DEF Good, Core, Documents
<1>2. ASSUME NEW e, Good(e), e.flow = d.flow, e.review = d.review, OpensOne, b' = e
      PROVE  IInv'
  <2>1. Tells(e, S)
    BY <1>2 DEF Tells
  <2>2. DocumentActs(e)
    BY <1>2, <2>1, ActsSo
  <2>3. QED
    BY <1>2, <2>2, ActsInTheWorld
<1>3. CASE b' = Over([d EXCEPT !.conn = "down"]) /\ UNCHANGED socks
  <2> DEFINE m == [d EXCEPT !.conn = "down"]
  <2>1. m \in Documents /\ Keeps(d, m) /\ m.review = d.review /\ m.tr = d.tr /\ m.socket = d.socket
    BY <1>1, DownKeeps DEF Keeps
  <2>2. m.flow = d.flow
    BY <1>1 DEF Documents
  <2> HIDE DEF m
  <2>3. Good(m) /\ (Binds(m) => m.socket = 0)
    BY <2>1, KeptGood DEF Binds
  <2>4. Good(Over(m)) /\ Over(m).flow = d.flow /\ Over(m).review = d.review
    BY <2>1, <2>2, <2>3, OverKeeps, KeptGood
  <2>5. b' = Over(m) /\ OpensOne
    BY <1>3 DEF m, OpensOne
  <2>6. QED
    BY <1>2, <2>4, <2>5
<1>4. ASSUME NEW g \in Fresh, b' = Binding(d, g, retries, final), Opens(d, g)
      PROVE  IInv'
  <2>1. g \in Gens /\ OpensOne
    BY <1>1, <1>4 DEF Fresh, OpensOne, Opens
  <2>2. /\ Good(Binding(d, g, retries, final)) /\ Binding(d, g, retries, final).flow = d.flow
        /\ Binding(d, g, retries, final).review = d.review
    BY <2>1, BindingGood
  <2>3. QED
    BY <1>2, <1>4, <2>1, <2>2
<1>5. QED
    BY <1>3, <1>4 DEF Attempts

LEMMA SuccessorActs ==
    ASSUME BackendTypes, NEW d, Good(d), NEW final \in BOOLEAN, Successor(d, final),
           UNCHANGED <<lease, token, sending, sent>>
    PROVE  IInv'
<1> DEFINE u == [d EXCEPT !.socket = 0]
           bare == Bump(u)
           left == Abandon(bare)
<1>1. d \in Documents /\ d.id \in 1..MaxIds
    BY DEF Good, Core, Documents
<1>2. u \in Documents /\ Keeps(d, u) /\ u.socket = 0
    BY <1>1, UnpluggedKeeps DEF Keeps
<1> HIDE DEF u
<1>3. bare \in Documents /\ Keeps(d, bare) /\ bare.socket = 0
    BY <1>2, BumpKeeps, KeepsOnward DEF Keeps
<1>4. Good(bare)
    BY <1>3, KeptGood
<1> HIDE DEF bare
<1>5. /\ Keeps(bare, left) /\ left.flow = bare.flow
      /\ \A t \in Abandoned(bare) :
            t \in Tokens /\ bare.review = [tok |-> t, status |-> "review"] /\ left.review = NoReview
    BY <1>3, AbandonKeeps
<1>6. Good(left)
    BY <1>4, <1>5, KeptGood
<1> DEFINE retries == IF final THEN 0 ELSE RetryLimit
<1>7. /\ Attempts(left, retries, final) /\ claimed' = claimed \cup Abandoned(bare)
      /\ UNCHANGED <<net, reply>>
    BY DEF Successor, bare, u
<1>8. retries \in Int
    BY BoundsAreNatural
<1>9. left.socket = 0
    BY <1>3, AbandonKeeps
<1> HIDE DEF left, retries
<1>10. Tells(left, Abandoned(bare))
  <2> SUFFICES ASSUME NEW t \in Abandoned(bare)
               PROVE  /\ t \in Tokens /\ <<"confirm", t>> \notin net /\ t \notin sent
                      /\ left.flow[t].at \in {"done", "gone"}
                      /\ left.review # [tok |-> t, status |-> "review"]
    BY <1>7 DEF Tells
  <2>1. t \in Tokens /\ bare.review = [tok |-> t, status |-> "review"] /\ left.review = NoReview
    BY <1>5
  <2>2. ~Asked(t) /\ bare.flow[t].at = "done"
    BY <1>4, <2>1 DEF Good, Core, FlowInv
  <2>3. QED
    BY <1>5, <2>1, <2>2, NoneIsNoToken DEF Asked, NoReview
<1>11. QED
    BY <1>6, <1>7, <1>8, <1>9, <1>10, AttemptsActs DEF Asks

LEMMA RetiringKeeps ==
    ASSUME NEW d \in Documents, ~Binds(d)
    PROVE  Keeps(d, [d EXCEPT !.conn = IF d.online THEN "connecting" ELSE "down",
                              !.tr = [at |-> "retiring", gen |-> d.gen, moved |-> FALSE]])
<1> DEFINE r == [at |-> "retiring", gen |-> d.gen, moved |-> FALSE]
           c == IF d.online THEN "connecting" ELSE "down"
<1>1. r \in Transitions /\ r.at = "retiring" /\ c \in {"down", "connecting"}
    BY DEF Transitions, Documents
<1> HIDE DEF r, c
<1>2. Keeps(d, [d EXCEPT !.conn = c, !.tr = r])
    BY <1>1, TransitionKeeps
<1>3. QED
    BY <1>2 DEF r, c

LEMMA SettledActs ==
    ASSUME BackendTypes, NEW d, Good(d), d.tr = NoTransition, NEW retire \in BOOLEAN,
           Settled(d, retire), UNCHANGED <<lease, token, sending, sent>>
    PROVE  IInv'
<1>1. d \in Documents /\ d.gen \in 0..MaxGens /\ ~Binds(d)
    BY DEF Good, Core, Documents, Binds, NoTransition, None
<1>2. CASE d.review.status # "review"
  <2>1. Good(Over(d))
    BY <1>1, OverKeeps, KeptGood
  <2>2. QED
    BY <1>2, <2>1, ActsAlone, ActsInTheWorld DEF Settled, Asks, OpensOne
<1>3. CASE d.review.status = "review" /\ d.review # NoReview
  <2> DEFINE m == StartsDismissal(d)
             r == [at |-> "dismissing", tok |-> d.review.tok, retire |-> retire, moved |-> FALSE]
             e == [m EXCEPT !.tr = r]
  <2>1. /\ Good(m) /\ m \in Documents /\ d.review.tok \in Tokens
        /\ m.tr = d.tr
    BY <1>3, DismissalGood DEF FlowGoes
  <2>2. r \in Transitions /\ r.at = "dismissing"
    BY <2>1 DEF Transitions
  <2>3. b' = e /\ Ask("discard", d.review.tok) /\ UNCHANGED <<claimed, reply, socks>>
    BY <1>3 DEF Settled
  <2> HIDE DEF m, r
  <2>4. ~Binds(m) /\ e = [m EXCEPT !.conn = m.conn, !.tr = r]
    BY <1>1, <2>1 DEF Binds, Documents
  <2>5. Good(e)
    BY <2>1, <2>2, <2>4, TransitionKeeps, KeptGood
  <2>6. QED
    BY <2>1, <2>3, <2>5, ActsAlone, ActsInTheWorld DEF Asks, OpensOne
<1>4. CASE d.review = NoReview /\ d.review.status = "review" /\ retire
  <2> DEFINE e == [d EXCEPT !.conn = IF d.online THEN "connecting" ELSE "down",
                            !.tr = [at |-> "retiring", gen |-> d.gen, moved |-> FALSE]]
  <2>1. Good(e)
    BY <1>1, RetiringKeeps, KeptGood
  <2>2. b' = e /\ Ask("retire", d.gen) /\ UNCHANGED <<claimed, reply, socks>>
    BY <1>4 DEF Settled
  <2> HIDE DEF e
  <2>3. QED
    BY <1>1, <2>1, <2>2, ActsAlone, ActsInTheWorld DEF Asks, OpensOne
<1>5. CASE d.review = NoReview /\ d.review.status = "review" /\ ~retire
  <2>1. Successor(d, d.acked # 0)
    BY <1>5 DEF Settled
  <2>2. QED
    BY <2>1, SuccessorActs
<1>6. QED
    BY <1>2, <1>3, <1>4, <1>5

LEMMA ConnectStateActs ==
    ASSUME BackendTypes, NEW d, Good(d), ConnectState(d),
           UNCHANGED <<lease, token, sending, sent>>
    PROVE  IInv'
<1>1. d \in Documents /\ d.accepted \in BOOLEAN /\ d.required \in BOOLEAN
    BY DEF Good, Core, Documents
<1>2. CASE b' = d /\ UNCHANGED <<claimed, net, reply, socks>>
    BY <1>2, ActsAlone, ActsInTheWorld DEF Asks, OpensOne
<1>3. CASE d.tr = NoTransition /\ Settled(d, d.accepted \/ d.required)
    BY <1>1, <1>3, SettledActs
<1> DEFINE r == [at |-> "waiting", retire |-> d.accepted \/ d.required, moved |-> FALSE]
           e == [d EXCEPT !.conn = "down", !.tr = r]
<1>4. CASE d.tr = NoTransition /\ b' = e /\ UNCHANGED <<claimed, net, reply, socks>>
  <2>1. r \in Transitions /\ r.at = "waiting" /\ ~Binds(d)
    BY <1>1, <1>4 DEF Transitions, Binds, NoTransition, None
  <2> HIDE DEF r
  <2>2. Good(e)
    BY <1>1, <2>1, TransitionKeeps, KeptGood
  <2> HIDE DEF e
  <2>3. QED
    BY <1>4, <2>2, ActsAlone, ActsInTheWorld DEF Asks, OpensOne
<1>5. QED
    BY <1>2, <1>3, <1>4 DEF ConnectState

LEMMA ReconnectStep == ASSUME IInv, Reconnect PROVE IInv'
<1>1. /\ b \in Documents /\ Good(b) /\ BackendTypes /\ b.tr = NoTransition
      /\ UNCHANGED <<lease, token, sending, sent>>
    BY GoodDocument DEF Reconnect
<1>2. CASE ~Contested
    BY <1>1, <1>2, ConnectStateActs DEF Reconnect
<1>3. CASE Contested
  <2> DEFINE i == b.id + 1
             e == [b EXCEPT !.id = i, !.gen = 0, !.acked = 0]
  <2>1. i \in 1..MaxIds /\ ConnectState(Rotated)
    BY <1>1, <1>3, BoundsAreNatural DEF Reconnect, Documents
  <2>2. e = Rotated
    BY <1>1 DEF Rotated, Documents
  <2> HIDE DEF i
  <2>3. 0 \in 0..MaxGens
    BY BoundsAreNatural
  <2>4. /\ e \in Documents /\ e.gen = 0 /\ e.deferred = b.deferred
        /\ e.flow = b.flow /\ e.tr = b.tr /\ e.review = b.review /\ e.conn = b.conn
        /\ e.socket = b.socket
    BY <1>1, <2>1, <2>3 DEF Documents
  <2> HIDE DEF e
  <2>5. e.conn = "duplicate" /\ e.socket = 0 /\ e.tr = NoTransition
    BY <1>1, <1>3, <2>4 DEF Contested, Good, Core, AcceptedInv
  <2>6. e.tr.at = None /\ ~Binds(e) /\ ~Bound(e)
    BY <2>5 DEF NoTransition, Binds, Bound, None
  <2>7. \A t \in Tokens : FlowInv(e, t)
    BY <1>1, <2>4 DEF Good, Core, FlowInv
  <2>8. AcceptedInv(e)
    BY <1>1, <2>4, <2>5, <2>6 DEF Good, Core, AcceptedInv, None
  <2>9. SeenInv(e) /\ LatestInv(e)
    BY <1>1, <2>4 DEF Good, Core, SeenInv, LatestInv
  <2>10. RecoveryInv(e)
    BY <2>6 DEF RecoveryInv, None
  <2>11. Good(e)
    BY <2>4, <2>7, <2>8, <2>9, <2>10 DEF Good, Core
  <2>12. QED
    BY <1>1, <2>1, <2>2, <2>11, ConnectStateActs
<1>4. QED
    BY <1>2, <1>3

LEMMA PageShowStep == ASSUME IInv, PageShow PROVE IInv'
<1> DEFINE m == Bump(b)
           e == [m EXCEPT !.shown = TRUE, !.conn = "down"]
<1>1. /\ b \in Documents /\ Good(b) /\ BackendTypes
      /\ UNCHANGED <<lease, token, sending, sent>>
    BY GoodDocument DEF PageShow
<1>2. m \in Documents /\ Keeps(b, m)
    BY <1>1, BumpKeeps DEF Keeps
<1>3. ConnectState(e) \/ (b' = e /\ UNCHANGED <<claimed, net, reply, socks>>)
  <2>1. CASE b.online
    BY <2>1 DEF PageShow
  <2>2. CASE ~b.online
    BY <2>2 DEF PageShow
  <2>3. QED
    BY <2>1, <2>2
<1> HIDE DEF m
<1>4. /\ e \in Documents /\ e.id = m.id /\ e.gen = m.gen /\ e.deferred = m.deferred
      /\ e.flow = m.flow /\ e.tr = m.tr /\ e.review = m.review /\ e.conn = "down"
      /\ e.socket = m.socket
    BY <1>2 DEF Documents
<1> HIDE DEF e
<1>5. Keeps(m, e)
    BY <1>4, LittleKeeps DEF ReviewKept
<1>6. Good(e)
    BY <1>1, <1>2, <1>5, KeptGood
<1>7. CASE ConnectState(e)
    BY <1>1, <1>6, <1>7, ConnectStateActs
<1>8. CASE b' = e /\ UNCHANGED <<claimed, net, reply, socks>>
    BY <1>1, <1>6, <1>8, ActsAlone, ActsInTheWorld DEF Asks, OpensOne
<1>9. QED
    BY <1>3, <1>7, <1>8

LEMMA AwaitOverStep == ASSUME IInv, AwaitOver PROVE IInv'
<1>1. /\ b \in Documents /\ Good(b) /\ BackendTypes /\ b.tr.at \in {"waiting", "dismissing"}
      /\ b.tr \in Transitions /\ b.gen \in 0..MaxGens /\ ~Binds(b)
      /\ UNCHANGED <<lease, token, sending, sent>>
    BY GoodDocument DEF AwaitOver, Documents, Binds
<1>2. Good(Over(b)) /\ Over(b).tr = NoTransition
    BY <1>1, OverKeeps, KeptGood
<1>3. CASE b' = Over(b) /\ UNCHANGED <<claimed, net, reply, socks>>
    BY <1>1, <1>2, <1>3, ActsAlone, ActsInTheWorld DEF Asks, OpensOne
<1>4. CASE b.tr.at = "waiting" /\ Settled(Over(b), b.tr.retire)
  <2>1. b.tr.retire \in BOOLEAN
    BY <1>1, <1>4 DEF Transitions, NoTransition, None
  <2>2. QED
    BY <1>1, <1>2, <1>4, <2>1, SettledActs
<1> DEFINE e == [b EXCEPT !.conn = IF b.online THEN "connecting" ELSE "down",
                          !.tr = [at |-> "retiring", gen |-> b.gen, moved |-> FALSE]]
<1>5. CASE b' = e /\ Ask("retire", b.gen) /\ UNCHANGED <<claimed, reply, socks>>
  <2>1. Good(e)
    BY <1>1, RetiringKeeps, KeptGood
  <2> HIDE DEF e
  <2>2. QED
    BY <1>1, <1>5, <2>1, ActsAlone, ActsInTheWorld DEF Asks, OpensOne
<1>6. CASE Successor(b, b.acked # 0)
    BY <1>1, <1>6, SuccessorActs
<1>7. QED
    BY <1>3, <1>4, <1>5, <1>6 DEF AwaitOver

LEMMA RetiredStep == ASSUME IInv, Retired PROVE IInv'
<1> DEFINE d == Acknowledge(b, b.tr.gen)
<1>1. /\ b \in Documents /\ Good(b) /\ BackendTypes /\ b.tr.at = "retiring"
      /\ b.tr.gen \in 0..MaxGens /\ ~Binds(b)
      /\ UNCHANGED <<lease, token, sending, sent>>
    BY GoodDocument, TransitionParts DEF Retired, Binds
<1>2. /\ d \in Documents /\ Keeps(b, d) /\ d.tr = b.tr /\ d.review = b.review
      /\ d.id = b.id /\ d.flow = b.flow
    BY <1>1, AcknowledgeKeeps DEF Keeps
<1> HIDE DEF d
<1>3. CASE b' = Over(IF b.shown THEN [d EXCEPT !.conn = "down"] ELSE d) /\ GivenUp("retire", b.tr.gen)
           /\ UNCHANGED <<claimed, net, socks>>
  <2> DEFINE m == IF b.shown THEN [d EXCEPT !.conn = "down"] ELSE d
  <2>1. Keeps(b, m) /\ m \in Documents /\ ~Binds(m)
    BY <1>1, <1>2, DownKeeps, KeepsOnward DEF Keeps, Binds
  <2> HIDE DEF m
  <2>2. Keeps(b, Over(m))
    BY <2>1, OverKeeps, KeepsOnward
  <2>3. QED
    BY <1>1, <1>3, <2>2, ReplyShrinks, KeepsActs DEF Asks, OpensOne, m
<1> DEFINE u == [d EXCEPT !.socket = 0]
           bare == Bump(u)
           left == Abandon(bare)
<1>4. CASE /\ Attempts(left, 0, TRUE) /\ claimed' = claimed \cup Abandoned(d)
           /\ GivenUp("retire", b.tr.gen) /\ UNCHANGED net
  <2>1. u \in Documents /\ Keeps(b, u) /\ u.review = d.review /\ u.socket = 0
    BY <1>2, UnpluggedKeeps, KeepsOnward DEF Keeps
  <2> HIDE DEF u
  <2>2. bare \in Documents /\ Keeps(b, bare) /\ bare.review = d.review /\ bare.socket = 0
    BY <2>1, BumpKeeps, KeepsOnward DEF Keeps
  <2> HIDE DEF bare
  <2>3. Good(bare)
    BY <1>1, <2>2, KeptGood
  <2>4. Keeps(bare, left) /\ left.flow = bare.flow /\ left.socket = 0
    BY <2>2, AbandonKeeps
  <2>5. Good(left)
    BY <2>3, <2>4, KeptGood
  <2>6. ASSUME NEW t \in Abandoned(d)
        PROVE  /\ t \in Tokens /\ bare.review = [tok |-> t, status |-> "review"]
               /\ left.review = NoReview
    <3>1. t \in Tokens /\ d.review = [tok |-> t, status |-> "review"]
      BY <1>2, <2>6, AbandonKeeps
    <3>2. bare.review.status = "review" /\ bare.review = [tok |-> t, status |-> "review"]
      BY <2>2, <3>1
    <3>3. left.review = NoReview
      BY <2>2, <3>2 DEF Abandon, Documents
    <3>4. QED
      BY <3>1, <3>2, <3>3
  <2> HIDE DEF left
  <2>7. Tells(left, Abandoned(d))
    <3> SUFFICES ASSUME NEW t \in Abandoned(d)
                 PROVE  /\ t \in Tokens /\ <<"confirm", t>> \notin net /\ t \notin sent
                        /\ left.flow[t].at \in {"done", "gone"}
                        /\ left.review # [tok |-> t, status |-> "review"]
      BY <1>4 DEF Tells
    <3>1. t \in Tokens /\ bare.review = [tok |-> t, status |-> "review"] /\ left.review = NoReview
      BY <2>6
    <3>2. ~Asked(t) /\ bare.flow[t].at = "done"
      BY <2>3, <3>1 DEF Good, Core, FlowInv
    <3>3. QED
      BY <2>4, <3>1, <3>2, NoneIsNoToken DEF Asked, NoReview
  <2>8. Attempts(left, 0, TRUE) /\ reply' \subseteq reply /\ UNCHANGED net
    BY <1>4, ReplyShrinks
  <2>9. ASSUME NEW retries \in Int, NEW final \in BOOLEAN, Attempts(left, retries, final)
        PROVE  IInv'
    BY <1>1, <2>4, <2>5, <2>7, <2>8, <2>9, AttemptsActs DEF Asks
  <2>10. 0 \in Int /\ TRUE \in BOOLEAN
    OBVIOUS
  <2>11. QED
    BY <2>8, <2>9, <2>10, Zenon
<1>5. QED
    BY <1>3, <1>4 DEF Retired, d

(* The first message of a WebSocket accepts its generation.                *)
LEMMA AcceptsGood ==
    ASSUME NEW d, Good(d), NEW g, Up(g)
    PROVE  LET e == Accepts(d, g)
           IN /\ Good(e) /\ e.review = d.review /\ e.deferred = d.deferred /\ e.flow = d.flow
              /\ e.tr = NoTransition
<1> DEFINE q == IF d.recovery = g THEN 0 ELSE d.recovery
           e == [d EXCEPT !.gen = g, !.accepted = TRUE, !.required = FALSE, !.acked = 0,
                          !.conflict = FALSE, !.conn = "connected", !.tr = NoTransition,
                          !.recovery = q]
<1>1. /\ d \in Documents /\ g \in 0..MaxGens /\ 0 \in 0..MaxGens /\ q \in 0..MaxGens
      /\ NoTransition \in Transitions
    BY BoundsAreNatural DEF Good, Core, Documents, Up, Gens, Transitions
<1>2. e = Accepts(d, g)
    BY <1>1 DEF Accepts, Documents
<1> HIDE DEF q
<1>3. /\ e \in Documents /\ e.id = d.id /\ e.gen = g /\ e.deferred = d.deferred
      /\ e.flow = d.flow /\ e.tr = NoTransition /\ e.review = d.review /\ e.conn = "connected"
      /\ e.socket = d.socket
    BY <1>1 DEF Documents
<1> HIDE DEF e
<1>4. e.tr.at = None
    BY <1>3 DEF NoTransition
<1>5. \A t \in Tokens : FlowInv(e, t)
    BY <1>3 DEF Good, Core, FlowInv
<1>6. AcceptedInv(e)
    BY <1>3, <1>4 DEF Good, Core, AcceptedInv, Binds, None
<1>7. SeenInv(e) /\ LatestInv(e)
    BY <1>3 DEF Good, Core, SeenInv, LatestInv
<1>8. RecoveryInv(e)
    BY <1>4 DEF RecoveryInv, None
<1>9. QED
    BY <1>2, <1>3, <1>5, <1>6, <1>7, <1>8 DEF Good, Core

(* The review whose view has been recovered from may be let go.            *)
LEMMA LetsGoGood ==
    ASSUME NEW d, Good(d), NEW t \in Tokens, Left(d.flow[t].gen)
    PROVE  Good(LetsGo(d, t))
<1> DEFINE r == IF d.review.tok = t THEN NoReview ELSE d.review
           q == IF d.deferred = None THEN None
                ELSE IF d.flow[d.deferred].gen = d.flow[t].gen THEN None ELSE d.deferred
           e == [d EXCEPT !.review = r, !.deferred = q]
<1>1. d \in Documents /\ r \in Reviews /\ q \in {None, d.deferred} /\ q \in Tokens \cup {None}
    BY DEF Good, Core, Documents, Reviews
<1>2. e = LetsGo(d, t)
    BY <1>1 DEF LetsGo, Documents
<1>3. r = d.review \/ (r = NoReview /\ d.review.tok = t)
    OBVIOUS
<1> HIDE DEF r, q
<1>4. /\ e \in Documents /\ e.id = d.id /\ e.gen = d.gen /\ e.deferred = q
      /\ e.flow = d.flow /\ e.tr = d.tr /\ e.review = r /\ e.conn = d.conn
      /\ e.socket = d.socket
    BY <1>1 DEF Documents
<1> HIDE DEF e
<1>5. ReviewGoes(d, e)
    BY <1>4 DEF ReviewGoes
<1>a. /\ NoReview.tok = None
      /\ \A u \in Tokens : u # None /\ NoReview # [tok |-> u, status |-> "review"]
    BY NoneIsNoToken DEF NoReview
<1>b. \A u \in Tokens : FlowInv(d, u)
    BY DEF Good, Core
<1>6. \A u \in Tokens : e.review = [tok |-> u, status |-> "review"] =>
          ~Asked(u) /\ d.flow[u].at = "done" /\ u \notin claimed
    BY <1>3, <1>4, <1>a, <1>b DEF FlowInv
<1>7. \A u \in Tokens : u = e.review.tok \/ u = e.deferred => d.flow[u].at # "idle"
    BY <1>1, <1>3, <1>4, <1>a, <1>b DEF FlowInv
<1>8. \A u \in Tokens : <<"confirm", u>> \in net /\ d.flow[u].at # "gone" /\ u = d.review.tok =>
          e.review.tok = u \/ Left(d.flow[u].gen)
    BY <1>3, <1>4
<1>9. e.review = NoReview \/ (\A u \in Tokens : ~d.flow[u].fresh)
    BY <1>3, <1>4 DEF Good, LatestInv
<1>10. QED
    BY <1>2, <1>5, <1>6, <1>7, <1>8, <1>9, ReviewedGood DEF Good

LEMMA MessageStep == ASSUME IInv, Message PROVE IInv'
<1> DEFINE g == b.socket
           e == [b EXCEPT !.conn = "connected"]
<1>1. /\ b \in Documents /\ Good(b) /\ BackendTypes /\ b.tr \in Transitions
      /\ UNCHANGED <<claimed, net, reply, socks, lease, token, sending, sent>>
    BY GoodDocument DEF Message, backend
<1>2. Up(g) /\ g # 0
    BY <1>1 DEF Message, Up, Documents, Gens
<1> SUFFICES Good(b')
    BY <1>1, ActsAlone, ActsInTheWorld DEF Asks, OpensOne
<1>3. CASE b.tr.at = "binding" /\ b.tr.gen = g
  <2>1. b' = Accepts(b, g)
    BY <1>3 DEF Message
  <2>2. QED
    BY <1>1, <1>2, <2>1, AcceptsGood
<1>4. CASE b.tr.at = "rebinding" /\ b.tr.gen = g
  <2>1. b' = LetsGo(Accepts(b, g), b.tr.tok)
    BY <1>4 DEF Message
  <2>2. b.tr.tok \in Tokens
    BY <1>1, <1>4, TransitionParts
  <2>3. Good(Accepts(b, g)) /\ Accepts(b, g).flow = b.flow
    BY <1>1, <1>2, AcceptsGood
  <2>4. Left(b.flow[b.tr.tok].gen)
    BY <1>1, <1>2, <1>4 DEF Good, RecoveryInv
  <2>5. QED
    BY <2>1, <2>2, <2>3, <2>4, LetsGoGood
<1>5. CASE ~(b.tr.at \in {"binding", "rebinding"} /\ b.tr.gen = g)
  <2>1. b' = e
    BY <1>5 DEF Message
  <2>2. /\ e \in Documents /\ e.id = b.id /\ e.gen = b.gen /\ e.deferred = b.deferred
        /\ e.flow = b.flow /\ e.tr = b.tr /\ e.review = b.review /\ e.conn = "connected"
        /\ e.socket = b.socket
    BY <1>1 DEF Documents
  <2> HIDE DEF e
  <2>3. Bound(b)
    BY <1>2, <1>5 DEF Bound, Binds
  <2>4. \A t \in Tokens : FlowInv(e, t)
    BY <1>1, <2>2 DEF Good, Core, FlowInv
  <2>5. AcceptedInv(e)
    BY <1>1, <2>2, <2>3 DEF Good, Core, AcceptedInv, Binds, Bound
  <2>6. SeenInv(e) /\ LatestInv(e) /\ RecoveryInv(e)
    BY <1>1, <2>2 DEF Good, Core, SeenInv, LatestInv, RecoveryInv
  <2>7. QED
    BY <2>1, <2>2, <2>4, <2>5, <2>6 DEF Good, Core
<1>6. QED
    BY <1>3, <1>4, <1>5

LEMMA DelayOverStep == ASSUME IInv, DelayOver PROVE IInv'
<1>1. /\ b \in Documents /\ Good(b) /\ BackendTypes /\ b.tr.at = "delaying" /\ ~Binds(b)
      /\ UNCHANGED <<claimed, net, reply, lease, token, sending, sent>> /\ b.id \in 1..MaxIds
    BY GoodDocument DEF DelayOver, Binds, Documents
<1>2. CASE b' = Over(b) /\ UNCHANGED socks
  <2>1. Good(Over(b))
    BY <1>1, OverKeeps, KeptGood
  <2>2. QED
    BY <1>1, <1>2, <2>1, ActsAlone, ActsInTheWorld DEF Asks, OpensOne
<1>3. CASE Attempts(b, b.tr.left - 1, b.tr.final)
  <2>1. b.tr.left - 1 \in Int /\ b.tr.final \in BOOLEAN
    BY <1>1, GoodDocument, TransitionParts
  <2>2. Tells(b, {}) /\ Asks /\ reply' \subseteq reply
    BY <1>1 DEF Tells, Asks
  <2>3. QED
    BY <1>1, <1>3, <2>1, <2>2, AttemptsActs
<1>4. QED
    BY <1>2, <1>3 DEF DelayOver

LEMMA DuplicateGood ==
    ASSUME NEW d, Good(d), d.socket = 0, d.tr = NoTransition, NEW c \in BOOLEAN
    PROVE  Good([d EXCEPT !.conflict = c, !.conn = "duplicate"])
<1> DEFINE e == [d EXCEPT !.conflict = c, !.conn = "duplicate"]
<1>1. d \in Documents /\ d.tr.at = None
    BY DEF Good, Core, NoTransition
<1>2. /\ e \in Documents /\ e.id = d.id /\ e.gen = d.gen /\ e.deferred = d.deferred
      /\ e.flow = d.flow /\ e.tr = d.tr /\ e.review = d.review /\ e.conn = "duplicate"
      /\ e.socket = d.socket
    BY <1>1, ZenonT(30) DEF Documents
<1> HIDE DEF e
<1>3. \A t \in Tokens : FlowInv(e, t)
    BY <1>2 DEF Good, Core, FlowInv
<1>4. AcceptedInv(e)
    BY <1>1, <1>2 DEF Good, Core, AcceptedInv, Binds, Bound, None
<1>5. SeenInv(e) /\ LatestInv(e) /\ RecoveryInv(e)
    BY <1>2 DEF Good, Core, SeenInv, LatestInv, RecoveryInv
<1>6. QED
    BY <1>2, <1>3, <1>4, <1>5 DEF Good, Core, e

LEMMA DelayingKeeps ==
    ASSUME NEW d \in Documents, d.tr.at = "binding", d.socket = 0
    PROVE  Keeps(d, [d EXCEPT !.conn = "connecting", !.tr.at = "delaying"])
<1> DEFINE r == [d.tr EXCEPT !.at = "delaying"]
           e == [d EXCEPT !.conn = "connecting", !.tr = r]
<1>1. r \in Transitions /\ r.at = "delaying"
    BY DEF Documents, Transitions, NoTransition, None
<1>2. e = [d EXCEPT !.conn = "connecting", !.tr.at = "delaying"]
    BY DEF Documents
<1> HIDE DEF r
<1>3. /\ e \in Documents /\ e.id = d.id /\ e.gen = d.gen /\ e.deferred = d.deferred
      /\ e.flow = d.flow /\ e.tr = r /\ e.review = d.review /\ e.conn = "connecting"
      /\ e.socket = d.socket
    BY <1>1 DEF Documents
<1> HIDE DEF e
<1>4. SameFlows(d, e) /\ ReviewKept(d, e) /\ TransitionKept(d, e) /\ ~Bound(e)
    BY <1>1, <1>3 DEF SameFlows, ReviewKept, TransitionKept, Bound
<1>5. QED
    BY <1>2, <1>3, <1>4 DEF Keeps

LEMMA RefusedGood ==
    ASSUME NEW d, Good(d), d.tr.at \in {"binding", "rebinding"}, d.socket = 0, NEW duplicate \in BOOLEAN
    PROVE  Good(Refused(d, duplicate))
<1>1. d \in Documents /\ d.tr \in Transitions
    BY DEF Good, Core, Documents
<1>2. Good(Over(d)) /\ Over(d).socket = 0 /\ Over(d).tr = NoTransition
    BY <1>1, OverKeeps, KeptGood
<1>3. Refused(d, duplicate) = Over(d) => Good(Refused(d, duplicate))
    BY <1>2
<1>4. CASE d.tr.at = "rebinding"
  <2>1. Good([Over(d) EXCEPT !.conflict = TRUE, !.conn = "duplicate"])
    BY <1>2, DuplicateGood, TRUE \in BOOLEAN, Zenon
  <2>2. QED
    BY <1>2, <1>4, <2>1 DEF Refused
<1>5. CASE d.tr.at = "binding"
  <2>1. d.tr.final \in BOOLEAN
    BY <1>1, <1>5, TransitionParts
  <2>2. Good([Over(d) EXCEPT !.conflict = d.tr.final, !.conn = "duplicate"])
    BY <1>2, <2>1, DuplicateGood
  <2>3. Good([d EXCEPT !.conn = "connecting", !.tr.at = "delaying"])
    BY <1>1, <1>5, DelayingKeeps, KeptGood
  <2>4. QED
    BY <1>2, <1>5, <2>2, <2>3 DEF Refused
<1>6. QED
    BY <1>4, <1>5

LEMMA NotAcceptedStep == ASSUME IInv, NotAccepted PROVE IInv'
<1> DEFINE g == b.tr.gen
           owned == b.socket = g \/ b.recovery = g
           s == IF b.socket = g THEN 0 ELSE b.socket
           q == IF b.recovery = g THEN 0 ELSE b.recovery
           u == [b EXCEPT !.socket = s, !.recovery = q]
           bare == Bump(u)
           m == IF ~owned THEN b
                ELSE IF b.tr.at = "rebinding" /\ b.review # NoReview THEN RestoreStranded(bare)
                ELSE [Abandon(bare) EXCEPT !.conn = "down"]
<1>1. /\ b \in Documents /\ Good(b) /\ BackendTypes /\ b.tr.at \in {"binding", "rebinding"}
      /\ b.socket \in {0, g}
      /\ UNCHANGED <<claimed, net, reply, socks, lease, token, sending, sent>>
    BY GoodDocument DEF NotAccepted, backend, Good, Core, AcceptedInv, Binds
<1>2. s \in 0..MaxGens /\ q \in 0..MaxGens /\ s = 0 /\ (~owned => b.socket = 0)
    BY <1>1, BoundsAreNatural DEF Documents
<1>3. u = [b EXCEPT !.socket = IF @ = g THEN 0 ELSE @, !.recovery = IF @ = g THEN 0 ELSE @]
    BY <1>1 DEF Documents
<1>4. PICK duplicate \in BOOLEAN : b' = Refused(m, duplicate)
  <2>1. PICK dup \in {FALSE, socks[g].at = "refused"} : b' = Refused(m, dup)
    BY <1>3, Zenon DEF NotAccepted
  <2>2. dup \in BOOLEAN
    OBVIOUS
  <2>3. QED
    BY <2>1, <2>2
<1> HIDE DEF s, q
<1>5. /\ u \in Documents /\ u.id = b.id /\ u.gen = b.gen /\ u.deferred = b.deferred
      /\ u.flow = b.flow /\ u.tr = b.tr /\ u.review = b.review /\ u.conn = b.conn
      /\ u.socket = 0
    BY <1>1, <1>2 DEF Documents
<1> HIDE DEF u
<1>6. Keeps(b, u)
    BY <1>5, LittleKeeps DEF ReviewKept
<1>7. bare \in Documents /\ Keeps(b, bare) /\ bare.socket = 0 /\ bare.tr.at = b.tr.at
    BY <1>5, <1>6, BumpKeeps, KeepsOnward DEF Keeps
<1> HIDE DEF bare
<1>8. Good(m) /\ m.socket = 0 /\ m.tr.at = b.tr.at
  <2>1. CASE ~owned
    BY <1>1, <1>2, <2>1
  <2>2. Keeps(b, RestoreStranded(bare)) /\ RestoreStranded(bare).socket = 0
        /\ RestoreStranded(bare).tr = bare.tr
    BY <1>7, RestoreStrandedKeeps, KeepsOnward
  <2> DEFINE left == Abandon(bare)
  <2>3. left \in Documents /\ Keeps(b, left) /\ left.socket = 0 /\ left.tr = bare.tr
    BY <1>7, AbandonKeeps, KeepsOnward DEF Keeps
  <2> HIDE DEF left
  <2>4. /\ Keeps(b, [left EXCEPT !.conn = "down"]) /\ [left EXCEPT !.conn = "down"].socket = 0
        /\ [left EXCEPT !.conn = "down"].tr = bare.tr
    BY <2>3, DownKeeps, KeepsOnward
  <2>5. Good(RestoreStranded(bare)) /\ Good([left EXCEPT !.conn = "down"])
    BY <1>1, <2>2, <2>4, KeptGood
  <2>6. CASE owned
    BY <1>7, <2>2, <2>4, <2>5, <2>6 DEF left
  <2>7. QED
    BY <2>1, <2>6
<1> HIDE DEF m
<1>9. Good(b')
    BY <1>1, <1>4, <1>8, RefusedGood
<1>10. QED
    BY <1>1, <1>9, ActsAlone, ActsInTheWorld DEF Asks, OpensOne

----------------------------------------------------------------------------
(* Recovering                                                              *)

LEMMA RebindsActs ==
    ASSUME BackendTypes, NEW d, Good(d), ~Binds(d), d.conn # "duplicate", NEW t \in Tokens,
           d.flow[t].at # "idle", socks[d.flow[t].gen].id = d.id, Rebinds(d, t),
           UNCHANGED <<claimed, lease, token, sending, sent>>, reply' \subseteq reply, Asks
    PROVE  IInv'
<1>1. d \in Documents /\ d.id \in 1..MaxIds
    BY DEF Good, Core, Documents
<1>2. CASE b' = Over(RestoreStranded(d)) /\ UNCHANGED socks
  <2>1. RestoreStranded(d) \in Documents /\ Keeps(d, RestoreStranded(d)) /\ ~Binds(RestoreStranded(d))
    BY <1>1, RestoreStrandedKeeps DEF Keeps, Binds
  <2>2. Good(Over(RestoreStranded(d)))
    BY <2>1, OverKeeps, KeptGood
  <2>3. QED
    BY <1>2, <2>2, ActsAlone, ActsInTheWorld DEF OpensOne
<1>0. CASE b' = Over(RestoreStranded([d EXCEPT !.recovery = 0])) /\ UNCHANGED socks
  <2> DEFINE u == [d EXCEPT !.recovery = 0]
             m == RestoreStranded(u)
  <2>1. /\ u \in Documents /\ u.id = d.id /\ u.gen = d.gen /\ u.deferred = d.deferred
        /\ u.flow = d.flow /\ u.tr = d.tr /\ u.review = d.review /\ u.conn = d.conn
        /\ u.socket = d.socket
    BY <1>1, BoundsAreNatural DEF Documents
  <2> HIDE DEF u
  <2>2. Keeps(d, u) /\ ~Binds(u)
    BY <2>1, LittleKeeps DEF ReviewKept, Binds
  <2>3. m \in Documents /\ Keeps(d, m) /\ ~Binds(m)
    BY <1>1, <2>1, <2>2, RestoreStrandedKeeps, KeepsOnward DEF Keeps, Binds
  <2> HIDE DEF m
  <2>4. Good(Over(m))
    BY <2>3, OverKeeps, KeptGood
  <2>5. b' = Over(m)
    BY <1>0 DEF m, u
  <2>6. QED
    BY <1>0, <2>4, <2>5, ActsAlone, ActsInTheWorld DEF OpensOne
<1>3. ASSUME NEW g \in Fresh, Opens(d, g),
             b' = [d EXCEPT !.socket = g, !.recovery = g,
                            !.tr = [at |-> "rebinding", gen |-> g, tok |-> t, moved |-> FALSE]]
      PROVE  IInv'
  <2> DEFINE r == [at |-> "rebinding", gen |-> g, tok |-> t, moved |-> FALSE]
             e == [d EXCEPT !.socket = g, !.recovery = g, !.tr = r]
             h == d.flow[t].gen
  <2>1. g \in Gens /\ g \in 0..MaxGens /\ socks[g].at = "idle"
    BY DEF Fresh, Gens
  <2>2. r \in Transitions /\ r.at = "rebinding" /\ r.gen = g /\ r.tok = t
    BY <2>1 DEF Transitions
  <2>3. b' = e
    BY <1>3
  <2> HIDE DEF r
  <2>4. /\ e \in Documents /\ e.id = d.id /\ e.gen = d.gen /\ e.deferred = d.deferred
        /\ e.flow = d.flow /\ e.tr = r /\ e.review = d.review /\ e.conn = d.conn
        /\ e.socket = g
    BY <1>1, <2>1, <2>2 DEF Documents
  <2> HIDE DEF e
  <2>5. Opened(d, e, g)
    BY <2>2, <2>4 DEF Opened
  <2>6. Core(e) /\ LatestInv(e)
    BY <2>1, <2>5, OpenedGood
  <2>7. OpensOne
    BY <1>1, <1>3 DEF OpensOne, Opens
  <2>8. DocumentActs(e)
    BY <2>7, ActsAlone
  <2>9. /\ BackendTypes' /\ LeasesMove /\ SocketsMove
        /\ \A k \in Gens : socks[k].at # "idle" => socks'[k] = socks[k]
    BY <2>8, ActsOnSockets
  <2>10. Core(b)' /\ LatestInv(b)'
    BY <2>3, <2>6, <2>8, <2>9, CoreInTheWorld, LatestInTheWorld DEF DocumentActs
  <2>11. RecoveryInv(b)'
    <3>1. Up(h) /\ h \in Gens /\ socks[h].at # "idle"
      BY DEF Good, Core, AcceptedInv, Up
    <3>2. h # g /\ socks'[h] = socks[h]
      BY <2>1, <2>9, <3>1
    <3>3. socks'[g].at = "opening" /\ socks'[g].id = d.id
      BY <1>3, <2>1 DEF Opens, BackendTypes
    <3>4. ~Up(g)'
      BY <3>3 DEF Up
    <3>5. e.tr.at = "rebinding" /\ e.tr.tok = t /\ e.tr.gen = g /\ e.flow[t].gen = h
          /\ e.flow[t].at # "idle"
      BY <2>2, <2>4
    <3> HIDE DEF h
    <3>6. QED
      BY <2>3, <3>2, <3>3, <3>4, <3>5, h = d.flow[t].gen DEF RecoveryInv, h
  <2>12. QED
    BY <2>9, <2>10, <2>11 DEF IInv, Good
<1>4. QED
    BY <1>0, <1>2, <1>3 DEF Rebinds

(* The recovery of a review of the view the page has.                      *)
LEMMA RecoverOwnView ==
    ASSUME IInv, Recover, socks[b.flow[b.review.tok].gen].id = b.id
    PROVE  IInv'
<1> DEFINE t == b.review.tok
           v == [tok |-> t, status |-> "invalidating"]
           r == [at |-> "recovering", gen |-> b.gen, tok |-> t, moved |-> FALSE]
           d == [b EXCEPT !.review = v, !.conn = "connecting", !.tr = r]
<1>1. /\ b \in Documents /\ Good(b) /\ BackendTypes /\ b.review.status = "stranded"
      /\ b.tr = NoTransition /\ b.tr.at = None /\ b.gen \in 0..MaxGens /\ b.review \in Reviews
      /\ UNCHANGED <<claimed, reply, lease, token, sending, sent>>
      /\ socks[b.flow[t].gen].id = b.id
    BY GoodDocument DEF Recover, NoTransition, Documents
<1>2. /\ t \in Tokens /\ b.flow[t].at # "idle" /\ b.review # NoReview
      /\ [b.review EXCEPT !.status = "invalidating"] = v
  <2>1. b.review # NoReview
    BY <1>1, ReviewParts
  <2>2. t \in Tokens /\ [b.review EXCEPT !.status = "invalidating"] = v
    BY <1>1, <2>1, ReviewParts
  <2>3. QED
    BY <1>1, <2>1, <2>2 DEF Good, Core, FlowInv
<1>3. v \in Reviews /\ v.tok = t /\ \A u \in Tokens : v # [tok |-> u, status |-> "review"]
    BY <1>2 DEF Reviews
<1>4. r \in Transitions /\ r.at = "recovering" /\ r.tok = t
    BY <1>1, <1>2 DEF Transitions
<1>5. /\ d = [b EXCEPT !.review.status = "invalidating", !.conn = "connecting", !.tr = r]
      /\ IF MustRetire(b) THEN b' = d /\ Ask("retire", b.gen) /\ UNCHANGED socks
         ELSE Rebinds(d, t) /\ UNCHANGED net
  <2>1. d = [b EXCEPT !.review.status = "invalidating", !.conn = "connecting", !.tr = r]
    BY <1>1, <1>2 DEF Documents
  <2>2. QED
    BY <2>1 DEF Recover
<1> HIDE DEF t, v, r
<1>6. /\ d \in Documents /\ d.id = b.id /\ d.gen = b.gen /\ d.deferred = b.deferred
      /\ d.flow = b.flow /\ d.tr = r /\ d.review = v /\ d.conn = "connecting"
      /\ d.socket = b.socket
    BY <1>1, <1>3, <1>4 DEF Documents
<1> HIDE DEF d
<1>7. \A u \in Tokens : FlowInv(d, u)
    BY <1>1, <1>3, <1>6 DEF Good, Core, FlowInv, t
<1>8. ~Binds(d) /\ (Bound(d) => Bound(b))
    BY <1>1, <1>4, <1>6 DEF Binds, Bound, None
<1>9. AcceptedInv(d)
    BY <1>1, <1>6, <1>8 DEF Good, Core, AcceptedInv
<1>10. SeenInv(d)
    BY <1>1, <1>3, <1>6 DEF Good, Core, SeenInv, t
<1>11. LatestInv(d)
    BY <1>1, <1>2, <1>6 DEF Good, LatestInv
<1>12. RecoveryInv(d)
    BY <1>1, <1>2, <1>4, <1>6 DEF RecoveryInv
<1>13. Good(d)
    BY <1>6, <1>7, <1>9, <1>10, <1>11, <1>12 DEF Good, Core
<1>14. CASE MustRetire(b)
    BY <1>1, <1>5, <1>13, <1>14, ActsAlone, ActsInTheWorld DEF Asks, OpensOne
<1>15. CASE ~MustRetire(b)
  <2>1. Rebinds(d, t) /\ Asks /\ reply' \subseteq reply
    BY <1>1, <1>5, <1>15 DEF Asks
  <2>2. d.conn # "duplicate" /\ d.flow[t].at # "idle" /\ socks[d.flow[t].gen].id = d.id
    BY <1>1, <1>2, <1>6
  <2>3. QED
    BY <1>1, <1>2, <1>8, <1>13, <2>1, <2>2, RebindsActs
<1>16. QED
    BY <1>14, <1>15

LEMMA RecoverStep == ASSUME IInv, Recover PROVE IInv'
<1>1. CASE socks[b.flow[b.review.tok].gen].id # b.id
  <2>1. /\ b \in Documents /\ Good(b) /\ b' = [b EXCEPT !.conn = "down"]
        /\ UNCHANGED <<claimed, net, socks, reply, lease, token, sending, sent>>
    BY <1>1, GoodDocument DEF Recover
  <2>2. QED
    BY <2>1, DownKeeps, KeepsActs DEF Asks, OpensOne
<1>2. QED
    BY <1>1, RecoverOwnView

LEMMA RecoveryRetiredStep == ASSUME IInv, RecoveryRetired PROVE IInv'
<1> DEFINE d == Acknowledge(b, b.tr.gen)
           t == b.tr.tok
<1>1. /\ b \in Documents /\ Good(b) /\ BackendTypes /\ b.tr.at = "recovering"
      /\ b.tr.gen \in 0..MaxGens /\ t \in Tokens /\ ~Binds(b)
      /\ UNCHANGED <<claimed, net, lease, token, sending, sent>> /\ reply' \subseteq reply
    BY GoodDocument, TransitionParts, ReplyShrinks DEF RecoveryRetired, Binds
<1>2. IF ~b.shown THEN b' = Over(d) /\ UNCHANGED socks ELSE Rebinds(d, t)
    BY DEF RecoveryRetired
<1>3. /\ d \in Documents /\ Keeps(b, d) /\ d.tr = b.tr /\ d.flow = b.flow /\ d.id = b.id
      /\ d.conn = b.conn
    BY <1>1, AcknowledgeKeeps DEF Keeps
<1> HIDE DEF d
<1>4. Good(d) /\ ~Binds(d)
    BY <1>1, <1>3, KeptGood DEF Binds
<1>5. CASE b' = Over(d) /\ UNCHANGED socks
  <2>1. Good(Over(d))
    BY <1>3, <1>4, OverKeeps, KeptGood
  <2>2. QED
    BY <1>1, <1>5, <2>1, ActsAlone, ActsInTheWorld DEF Asks, OpensOne
<1>6. CASE Rebinds(d, t)
  <2>1. d.conn # "duplicate" /\ d.flow[t].at # "idle" /\ socks[d.flow[t].gen].id = d.id
    BY <1>1, <1>3 DEF Good, Core, AcceptedInv, RecoveryInv
  <2>2. Asks
    BY <1>1 DEF Asks
  <2>3. QED
    BY <1>1, <1>4, <1>6, <2>1, <2>2, RebindsActs
<1>7. QED
    BY <1>2, <1>5, <1>6

LEMMA ReloadStep == ASSUME IInv, Reload PROVE IInv'
<1> DEFINE flow == [t \in Tokens |-> IF b.flow[t] = NoFlow THEN NoFlow
                                     ELSE [b.flow[t] EXCEPT !.at = "gone", !.fresh = FALSE]]
           i == IF b.required THEN b.id ELSE b.id + 1
           g == IF b.required THEN b.gen ELSE 0
           e == Document(i, g, flow)
<1>1. /\ b \in Documents /\ Good(b) /\ BackendTypes /\ b' = e /\ reply' = {}
      /\ UNCHANGED <<claimed, net, socks, lease, token, sending, sent>>
    BY GoodDocument DEF Reload, backend
<1>2. i \in 1..MaxIds /\ g \in 0..MaxGens
  <2>1. b.id \in 1..MaxIds /\ b.gen \in 0..MaxGens
    BY <1>1 DEF Documents
  <2>2. b.required \/ b.id < MaxIds
    BY DEF Reload
  <2>3. QED
    BY <2>1, <2>2, BoundsAreNatural
<1>3. /\ NoFlow \in Flows /\ NoFlow.at = "idle" /\ NoFlow.gen = 0 /\ ~NoFlow.fresh
      /\ \A p \in Flows : p.at = "idle" /\ p.gen = 0 /\ ~p.fresh => p = NoFlow
    BY BoundsAreNatural DEF Flows, NoFlow, Places
<1>4. \A p \in Flows : LET q == [p EXCEPT !.at = "gone", !.fresh = FALSE]
                       IN q \in Flows /\ q.at = "gone" /\ q.gen = p.gen /\ ~q.fresh
    BY DEF Flows, Places
<1>5. b.flow \in [Tokens -> Flows]
    BY <1>1 DEF Documents
<1>6. /\ flow \in [Tokens -> Flows]
      /\ \A t \in Tokens : \/ b.flow[t] = NoFlow /\ flow[t] = NoFlow
                           \/ /\ b.flow[t] # NoFlow /\ flow[t].at = "gone"
                              /\ flow[t].gen = b.flow[t].gen /\ ~flow[t].fresh
    BY <1>3, <1>4, <1>5
<1> HIDE DEF flow, i, g
<1>7. /\ e \in Documents /\ e.flow = flow /\ e.review = NoReview /\ e.deferred = None
      /\ e.tr = NoTransition /\ e.conn = "connecting" /\ e.socket = 0
  <2>1. NoReview \in Reviews /\ NoTransition \in Transitions /\ 0 \in 0..MaxGens
        /\ (g # 0) \in BOOLEAN
    BY BoundsAreNatural DEF Reviews, Transitions
  <2>2. QED
    BY <1>2, <1>6, <2>1 DEF Documents, Document
<1> HIDE DEF e
<1>8. e.tr.at = None /\ e.review.tok = None /\ \A t \in Tokens : e.review # [tok |-> t, status |-> "review"]
    BY <1>7, NoneIsNoToken DEF NoTransition, NoReview
<1>9. \A t \in Tokens : FlowInv(e, t)
  <2> TAKE t \in Tokens
  <2>1. FlowInv(b, t)
    BY <1>1 DEF Good, Core
  <2>2. CASE b.flow[t] = NoFlow
    BY <1>3, <1>6, <1>7, <1>8, <2>1, <2>2, NoneIsNoToken DEF FlowInv
  <2>3. CASE b.flow[t] # NoFlow
    BY <1>6, <1>7, <1>8, <2>1, <2>3, NoneIsNoToken DEF FlowInv
  <2>4. QED
    BY <2>2, <2>3
<1>10. AcceptedInv(e)
  <2>1. \A t \in Tokens : e.flow[t].at # "idle" => Up(e.flow[t].gen)
    <3> TAKE t \in Tokens
    <3> HAVE e.flow[t].at # "idle"
    <3>1. b.flow[t] # NoFlow /\ e.flow[t].gen = b.flow[t].gen
      BY <1>3, <1>6, <1>7
    <3>2. b.flow[t].at # "idle"
      BY <1>1, <1>3, <1>5, <3>1 DEF Good, Core, FlowInv
    <3>3. QED
      BY <1>1, <3>1, <3>2 DEF Good, Core, AcceptedInv
  <2>2. QED
    BY <1>7, <1>8, <2>1 DEF AcceptedInv, Binds, Bound, None
<1>11. SeenInv(e)
  <2> SUFFICES ASSUME NEW t \in Tokens, <<"confirm", t>> \in net
               PROVE  e.flow[t].at = "gone"
    BY DEF SeenInv
  <2>1. FlowInv(b, t) /\ Asked(t)
    BY <1>1 DEF Good, Core, Asked
  <2>2. b.flow[t] # NoFlow
    BY <1>3, <2>1 DEF FlowInv
  <2>3. QED
    BY <1>6, <1>7, <2>2
<1>12. LatestInv(e) /\ RecoveryInv(e)
    BY <1>3, <1>6, <1>7, <1>8 DEF LatestInv, RecoveryInv, None
<1>13. Good(e)
    BY <1>7, <1>9, <1>10, <1>11, <1>12 DEF Good, Core
<1>14. QED
    BY <1>1, <1>13, ActsAlone, ActsInTheWorld DEF Asks, OpensOne

----------------------------------------------------------------------------
(* The backend                                                             *)

LEMMA ServedInTheWorld ==
    ASSUME IInv, BackendTypes', WorldMoves(b), LeasesMove, SocketsMove, b' = b
    PROVE  IInv'
BY GoodDocument, CoreInTheWorld, LatestInTheWorld, RecoveryInTheWorld DEF Good, IInv

LEMMA RepliesOnly ==
    ASSUME NEW op, NEW x, NEW answer, Replies(op, x, answer)
    PROVE  \A r \in reply' : r \in reply \/ r = <<op, x, answer>>
BY DEF Replies

LEMMA SocketsRest ==
    ASSUME UNCHANGED socks
    PROVE  /\ SocketsMove /\ \A g : Up(g)' <=> Up(g)
           /\ (\A g \in Gens : Up(g) /\ Left(g) => Left(g)') => LeasesMove
           /\ UNCHANGED lease => LeasesMove
BY DEF SocketsMove, LeasesMove, Up, Left

LEMMA RetiresTokens ==
    ASSUME BackendTypes, NEW S, RetiresAll(S)
    PROVE  token' \in [Tokens -> {"unknown", "held", "proof", "used"}]
BY DEF BackendTypes, RetiresAll

LEMMA ServePrepareStep == ASSUME IInv, NEW t \in Tokens, ServePrepare(t) PROVE IInv'
<1>1. UNCHANGED <<b, claimed, socks, lease, sending, sent>> /\ net' \subseteq net /\ BackendTypes
    BY GoodDocument DEF ServePrepare, Takes
<1>2. token' \in [Tokens -> {"unknown", "held", "proof", "used"}]
    BY <1>1 DEF ServePrepare, BackendTypes
<1>3. \A r \in reply' : r \in reply \/ r \in {<<"prepare", t, "ok">>, <<"prepare", t, "denied">>}
    BY RepliesOnly DEF ServePrepare
<1>4. BackendTypes'
    BY <1>1, <1>2 DEF BackendTypes
<1>5. WorldMoves(b)
    BY <1>1, <1>3 DEF WorldMoves
<1>6. QED
    BY <1>1, <1>4, <1>5, SocketsRest, ServedInTheWorld

LEMMA ServeDiscardStep == ASSUME IInv, NEW t \in Tokens, ServeDiscard(t) PROVE IInv'
<1>1. UNCHANGED <<b, claimed, socks, lease, sending, sent>> /\ net' \subseteq net /\ BackendTypes
    BY GoodDocument DEF ServeDiscard, Takes
<1>2. token' \in [Tokens -> {"unknown", "held", "proof", "used"}]
    BY <1>1, RetiresTokens DEF ServeDiscard
<1>3. \A r \in reply' : r \in reply \/ r = <<"discard", t, "ok">>
    BY RepliesOnly DEF ServeDiscard
<1>4. BackendTypes'
    BY <1>1, <1>2 DEF BackendTypes
<1>5. WorldMoves(b)
    BY <1>1, <1>3 DEF WorldMoves
<1>6. QED
    BY <1>1, <1>4, <1>5, SocketsRest, ServedInTheWorld

LEMMA VanishesStep == ASSUME IInv, Vanishes PROVE IInv'
<1>1. UNCHANGED <<b, claimed, reply, socks, lease, token, sending, sent>> /\ net' \subseteq net
      /\ BackendTypes
    BY GoodDocument DEF Vanishes, backend
<1>2. BackendTypes' /\ WorldMoves(b)
    BY <1>1 DEF BackendTypes, WorldMoves
<1>3. QED
    BY <1>1, <1>2, SocketsRest, ServedInTheWorld

(* An identity loses its generation: whoever had left it still has.        *)
LEMMA LeaseEnds ==
    ASSUME BackendTypes, NEW i \in 1..MaxIds, NEW g \in {0, lease[i].gen}, NEW up \in BOOLEAN,
           lease' = [lease EXCEPT ![i] = [gen |-> g, up |-> up]]
    PROVE  /\ lease' \in [1..MaxIds -> [gen : 0..MaxGens, up : BOOLEAN]]
           /\ UNCHANGED socks => LeasesMove
<1> DEFINE new == [gen |-> g, up |-> up]
<1>1. lease \in [1..MaxIds -> [gen : 0..MaxGens, up : BOOLEAN]]
    BY DEF BackendTypes
<1>2. new \in [gen : 0..MaxGens, up : BOOLEAN] /\ new.gen = g
    BY <1>1, BoundsAreNatural
<1>3. lease' = [lease EXCEPT ![i] = new]
    OBVIOUS
<1> HIDE DEF new
<1>4. lease' \in [1..MaxIds -> [gen : 0..MaxGens, up : BOOLEAN]]
    BY <1>1, <1>2, <1>3
<1>5. \A k \in 1..MaxIds : lease'[k].gen \in {0, lease[k].gen}
    BY <1>1, <1>2, <1>3
<1>6. ASSUME UNCHANGED socks, NEW k \in Gens, Up(k), Left(k)
      PROVE  Left(k)'
  <2>1. socks[k].id \in 1..MaxIds /\ k # 0
    BY <1>6 DEF BackendTypes, Up, Gens
  <2>2. QED
    BY <1>5, <1>6, <2>1 DEF Left
<1>7. QED
    BY <1>4, <1>6, SocketsRest

LEMMA ServeRetireStep == ASSUME IInv, NEW g \in Gens, ServeRetire(g) PROVE IInv'
<1> DEFINE i == socks[g].id
<1>1. UNCHANGED <<b, claimed, socks, sending, sent>> /\ net' \subseteq net /\ BackendTypes
    BY GoodDocument DEF ServeRetire, Takes
<1>2. \A r \in reply' : r \in reply \/ r = <<"retire", g, "ok">>
    BY RepliesOnly DEF ServeRetire
<1>3. WorldMoves(b)
    BY <1>1, <1>2 DEF WorldMoves
<1>4. CASE UNCHANGED <<lease, token>>
  <2>1. BackendTypes'
    BY <1>1, <1>4 DEF BackendTypes
  <2>2. QED
    BY <1>1, <1>3, <1>4, <2>1, SocketsRest, ServedInTheWorld
<1>5. CASE /\ lease[i].gen = g /\ RetiresAll(Of(g))
           /\ lease' = [lease EXCEPT ![i] = [gen |-> 0, up |-> FALSE]]
  <2>1. CASE i \in 1..MaxIds
    <3>1. /\ lease' \in [1..MaxIds -> [gen : 0..MaxGens, up : BOOLEAN]] /\ LeasesMove
      BY <1>1, <1>5, <2>1, LeaseEnds
    <3>2. token' \in [Tokens -> {"unknown", "held", "proof", "used"}]
      BY <1>1, <1>5, RetiresTokens
    <3>3. BackendTypes'
      BY <1>1, <3>1, <3>2 DEF BackendTypes
    <3>4. QED
      BY <1>1, <1>3, <3>1, <3>3, SocketsRest, ServedInTheWorld
  <2>2. CASE i \notin 1..MaxIds
    <3>1. lease' = lease
      BY <1>1, <1>5, <2>2 DEF BackendTypes
    <3>2. token' \in [Tokens -> {"unknown", "held", "proof", "used"}]
      BY <1>1, <1>5, RetiresTokens
    <3>3. BackendTypes'
      BY <1>1, <3>1, <3>2 DEF BackendTypes
    <3>4. QED
      BY <1>1, <1>3, <3>1, <3>3, SocketsRest, ServedInTheWorld
  <2>3. QED
    BY <2>1, <2>2
<1>6. QED
    BY <1>4, <1>5 DEF ServeRetire

LEMMA SocketEndsStep == ASSUME IInv, NEW g \in Gens, SocketEnds(g) PROVE IInv'
<1> DEFINE i == socks[g].id
           new == [socks[g] EXCEPT !.at = "ended"]
<1>1. /\ UNCHANGED <<b, claimed, net, reply, sending, sent>> /\ BackendTypes
      /\ socks[g].at = "active" /\ socks' = [socks EXCEPT ![g].at = "ended"]
      /\ socks \in [Gens -> WebSockets] /\ i \in 1..MaxIds
    BY GoodDocument DEF SocketEnds, BackendTypes
<1>2. new \in WebSockets /\ new.id = i /\ new.at = "ended" /\ socks' = [socks EXCEPT ![g] = new]
    BY <1>1 DEF WebSockets
<1> HIDE DEF new
<1>3. /\ socks' \in [Gens -> WebSockets] /\ socks'[g].at = "ended"
      /\ \A k \in Gens : socks'[k].id = socks[k].id /\ (k # g => socks'[k] = socks[k])
    BY <1>1, <1>2
<1>4. /\ lease' \in [1..MaxIds -> [gen : 0..MaxGens, up : BOOLEAN]]
      /\ \A k \in 1..MaxIds : lease'[k].gen \in {0, lease[k].gen}
      /\ token' \in [Tokens -> {"unknown", "held", "proof", "used"}]
  <2>1. CASE Live(g)
    <3> DEFINE h == IF Sending(i) = {} THEN 0 ELSE g
               rec == [gen |-> h, up |-> FALSE]
    <3>1. lease[i].gen = g /\ lease \in [1..MaxIds -> [gen : 0..MaxGens, up : BOOLEAN]]
      BY <1>1, <2>1 DEF Live, BackendTypes
    <3>2. h \in {0, lease[i].gen}
      BY <3>1
    <3>3. lease' = [lease EXCEPT ![i] = rec] /\ RetiresAll(Of(g))
      BY <2>1 DEF SocketEnds
    <3> HIDE DEF h
    <3>4. rec \in [gen : 0..MaxGens, up : BOOLEAN] /\ rec.gen = h
      BY <1>1, <3>1, <3>2, BoundsAreNatural
    <3> HIDE DEF rec
    <3>5. QED
      BY <1>1, <3>1, <3>2, <3>3, <3>4, RetiresTokens
  <2>2. CASE ~Live(g)
    BY <1>1, <2>2 DEF SocketEnds, BackendTypes
  <2>3. QED
    BY <2>1, <2>2
<1>5. \A k : Up(k)' <=> Up(k)
    BY <1>1, <1>3 DEF Up
<1>6. LeasesMove
  <2> SUFFICES ASSUME NEW k \in Gens, Up(k)
               PROVE  Left(k) => Left(k)'
    BY <1>3, <1>5 DEF LeasesMove
  <2>1. socks[k].id \in 1..MaxIds /\ k # 0 /\ socks'[k].id = socks[k].id
    BY <1>1, <1>3 DEF BackendTypes, Up, Gens
  <2>2. QED
    BY <1>4, <2>1 DEF Left
<1>7. SocketsMove
    BY <1>1, <1>3, <1>5 DEF SocketsMove
<1>8. BackendTypes'
    BY <1>1, <1>3, <1>4 DEF BackendTypes
<1>9. WorldMoves(b)
    BY <1>1 DEF WorldMoves
<1>10. QED
    BY <1>1, <1>6, <1>7, <1>8, <1>9, ServedInTheWorld

(* A confirmation is served once: it is sent, or refused for good.         *)
LEMMA ServeConfirmStep == ASSUME IInv, NEW t \in Tokens, ServeConfirm(t) PROVE IInv'
<1>1. /\ UNCHANGED <<b, claimed, socks, lease>> /\ BackendTypes /\ Good(b)
      /\ <<"confirm", t>> \in net /\ net' = net \ {<<"confirm", t>>}
      /\ \/ sending' = sending \cup {t} /\ sent' = sent \cup {t} /\ UNCHANGED reply
         \/ Replies("confirm", t, "denied") /\ UNCHANGED <<sending, sent>>
    BY GoodDocument DEF ServeConfirm, Takes
<1>2. token' \in [Tokens -> {"unknown", "held", "proof", "used"}]
    BY <1>1 DEF ServeConfirm, BackendTypes
<1>3. BackendTypes'
    BY <1>1, <1>2 DEF BackendTypes
<1>4. /\ b.flow[t].at \notin {"idle", "preparing", "discarding", "dismissing"}
      /\ b.review # [tok |-> t, status |-> "review"] /\ t \notin claimed
      /\ t \notin sent /\ ~Answer(t)
    BY <1>1 DEF Good, Core, FlowInv, Asked
<1>5. /\ <<"confirm", t>> \notin net' /\ (<<"confirm", t, "denied">> \in reply' => t \notin sent')
      /\ \A u \in Tokens \ {t} :
            /\ <<"confirm", u>> \in net' <=> <<"confirm", u>> \in net
            /\ u \in sent' <=> u \in sent
            /\ \A answer \in {"ok", "denied"} :
                  <<"confirm", u, answer>> \in reply' => <<"confirm", u, answer>> \in reply
  <2>1. CASE sending' = sending \cup {t} /\ sent' = sent \cup {t} /\ UNCHANGED reply
    BY <1>1, <1>4, <2>1 DEF Answer
  <2>2. CASE Replies("confirm", t, "denied") /\ UNCHANGED <<sending, sent>>
    <3>1. \A r \in reply' : r \in reply \/ r = <<"confirm", t, "denied">>
      BY <2>2, RepliesOnly
    <3>2. QED
      BY <1>1, <1>4, <2>2, <3>1
  <2>3. QED
    BY <1>1, <2>1, <2>2
<1>6. \A u \in Tokens : FlowInv(b, u)'
  <2> TAKE u \in Tokens
  <2>1. FlowInv(b, u) /\ FlowInv(b, t)
    BY <1>1 DEF Good, Core
  <2>2. CASE u = t
    <3>1. t \notin claimed' /\ b' = b
      BY <1>1, <1>4
    <3>2. QED
      BY <1>4, <1>5, <2>1, <2>2, <3>1 DEF FlowInv
  <2>3. CASE u # t
    <3>1. /\ (Asked(u)' => Asked(u)) /\ (Answer(u)' => Answer(u))
          /\ (<<"confirm", u>> \in net' => <<"confirm", u>> \in net) /\ (u \in sent' => u \in sent)
          /\ (<<"confirm", u, "denied">> \in reply' => <<"confirm", u, "denied">> \in reply)
      BY <1>5, <2>3 DEF Asked, Answer
    <3>2. b' = b /\ claimed' = claimed
      BY <1>1
    <3>3. QED
      BY <2>1, <3>1, <3>2 DEF FlowInv
  <2>4. QED
    BY <2>2, <2>3
<1>7. LeasesMove /\ SocketsMove
    BY <1>1, SocketsRest
<1>8. AcceptedInv(b)' /\ SeenInv(b)' /\ RecoveryInv(b)' /\ LatestInv(b)'
    BY <1>1, <1>7, AcceptedInTheWorld, SeenInTheWorld, RecoveryInTheWorld, LatestInTheWorld
       DEF Good, Core
<1>9. (b \in Documents)'
    BY <1>1 DEF Good, Core, Documents
<1>10. QED
    BY <1>3, <1>6, <1>8, <1>9 DEF IInv, Good, Core

(* The client answers a task that was sent.                                *)
LEMMA SendEndsStep == ASSUME IInv, NEW t \in Tokens, SendEnds(t) PROVE IInv'
<1> DEFINE i == socks[b.flow[t].gen].id
<1>1. /\ UNCHANGED <<b, claimed, net, socks, token, sent>> /\ BackendTypes /\ Good(b)
      /\ t \in sending /\ sending' = sending \ {t} /\ Replies("confirm", t, "ok")
    BY GoodDocument DEF SendEnds
<1>2. t \in sent /\ Asked(t) /\ FlowInv(b, t)
    BY <1>1 DEF BackendTypes, Good, Core, Asked
<1>3. b.flow[t].at # "idle" /\ i \in 1..MaxIds
  <2>1. b.flow[t].at # "idle"
    BY <1>2 DEF FlowInv
  <2>2. Up(b.flow[t].gen)
    BY <1>1, <2>1 DEF Good, Core, AcceptedInv
  <2>3. QED
    BY <1>1, <2>1, <2>2 DEF Up, BackendTypes
<1> HIDE DEF i
<1>4. /\ lease' \in [1..MaxIds -> [gen : 0..MaxGens, up : BOOLEAN]] /\ LeasesMove
  <2>1. lease \in [1..MaxIds -> [gen : 0..MaxGens, up : BOOLEAN]]
    BY <1>1 DEF BackendTypes
  <2>2. lease' = lease \/ lease' = [lease EXCEPT ![i].gen = 0]
    BY DEF SendEnds, i
  <2>3. CASE lease' = lease
    BY <1>1, <2>1, <2>3, SocketsRest
  <2>4. CASE lease' = [lease EXCEPT ![i].gen = 0]
    <3>1. lease' = [lease EXCEPT ![i] = [gen |-> 0, up |-> lease[i].up]] /\ lease[i].up \in BOOLEAN
      <4>1. lease[i] \in [gen : 0..MaxGens, up : BOOLEAN]
        BY <1>3, <2>1
      <4>2. /\ [lease[i] EXCEPT !.gen = 0] = [gen |-> 0, up |-> lease[i].up]
            /\ lease[i].up \in BOOLEAN
        BY <4>1
      <4>3. QED
        BY <2>4, <4>2
    <3>2. QED
      BY <1>1, <1>3, <3>1, LeaseEnds
  <2>5. QED
    BY <2>2, <2>3, <2>4
<1>5. BackendTypes'
    BY <1>1, <1>4 DEF BackendTypes
<1>6. \A r \in reply' : r \in reply \/ r = <<"confirm", t, "ok">>
    BY <1>1, RepliesOnly
<1>7. \A u \in Tokens : FlowInv(b, u)'
  <2> TAKE u \in Tokens
  <2>1. FlowInv(b, u)
    BY <1>1 DEF Good, Core
  <2>2. b' = b /\ claimed' = claimed /\ net' = net /\ sent' = sent
    BY <1>1
  <2>3. /\ (Asked(u)' => Asked(u))
        /\ (<<"confirm", u, "denied">> \in reply' => <<"confirm", u, "denied">> \in reply)
        /\ (<<"confirm", u>> \in net => ~Answer(u)')
    BY <1>2, <1>6, <2>1, <2>2 DEF FlowInv, Asked, Answer
  <2>4. QED
    BY <2>1, <2>2, <2>3 DEF FlowInv
<1>8. SocketsMove
    BY <1>1, SocketsRest
<1>9. AcceptedInv(b)' /\ SeenInv(b)' /\ RecoveryInv(b)' /\ LatestInv(b)'
    BY <1>1, <1>4, <1>8, AcceptedInTheWorld, SeenInTheWorld, RecoveryInTheWorld, LatestInTheWorld
       DEF Good, Core
<1>10. (b \in Documents)'
    BY <1>1 DEF Good, Core, Documents
<1>11. QED
    BY <1>5, <1>7, <1>9, <1>10 DEF IInv, Good, Core

(* A WebSocket is accepted, if its identity is active for no other.        *)
LEMMA ServeStep == ASSUME IInv, NEW g \in Gens, Serve(g) PROVE IInv'
<1> DEFINE i == socks[g].id
           new == [socks[g] EXCEPT !.at = IF lease[i].gen = 0 THEN "active" ELSE "refused"]
           mine == [gen |-> g, up |-> TRUE]
<1>1. /\ UNCHANGED <<b, claimed, net, reply, token, sending, sent>> /\ BackendTypes /\ Good(b)
      /\ socks[g].at = "opening" /\ socks' = [socks EXCEPT ![g] = new]
      /\ lease' = IF lease[i].gen = 0 THEN [lease EXCEPT ![i] = mine] ELSE lease
      /\ socks \in [Gens -> WebSockets] /\ i \in 1..MaxIds /\ g \in 0..MaxGens
      /\ lease \in [1..MaxIds -> [gen : 0..MaxGens, up : BOOLEAN]]
    BY GoodDocument DEF Serve, BackendTypes, Gens
<1>2. /\ new \in WebSockets /\ new.id = i
      /\ new.at = IF lease[i].gen = 0 THEN "active" ELSE "refused"
      /\ mine \in [gen : 0..MaxGens, up : BOOLEAN] /\ mine.gen = g
  <2>1. TRUE \in BOOLEAN
    OBVIOUS
  <2>2. QED
    BY <1>1, <2>1 DEF WebSockets
<1> HIDE DEF new, mine, i
<1>3. /\ socks' \in [Gens -> WebSockets] /\ socks'[g] = new
      /\ \A k \in Gens : socks'[k].id = socks[k].id /\ (k # g => socks'[k] = socks[k])
    BY <1>1, <1>2 DEF i
<1>4. /\ lease' \in [1..MaxIds -> [gen : 0..MaxGens, up : BOOLEAN]]
      /\ \A n \in 1..MaxIds :
            lease'[n].gen = IF n = i /\ lease[i].gen = 0 THEN g ELSE lease[n].gen
    BY <1>1, <1>2
<1>5. BackendTypes'
    BY <1>1, <1>2, <1>3, <1>4 DEF BackendTypes, i
<1>6. ~Up(g) /\ \A k : k # g => (Up(k)' <=> Up(k))
    BY <1>1, <1>3 DEF Up
<1>7. LeasesMove
  <2> SUFFICES ASSUME NEW k \in Gens, Up(k)
               PROVE  Up(k)' /\ socks'[k].id = socks[k].id /\ (Left(k) => Left(k)')
    BY DEF LeasesMove
  <2>1. k # g /\ Up(k)' /\ socks'[k].id = socks[k].id /\ socks[k].id \in 1..MaxIds
    BY <1>1, <1>3, <1>6 DEF Up, BackendTypes
  <2>2. QED
    BY <1>4, <2>1 DEF Left
<1>8. WorldMoves(b)
    BY <1>1 DEF WorldMoves
<1>9. Core(b)' /\ LatestInv(b)'
    BY <1>1, <1>7, <1>8, CoreInTheWorld, LatestInTheWorld DEF Good
<1>10. RecoveryInv(b)'
  <2>1. PICK d : d = b /\ b' = d
    BY <1>1
  <2>2. /\ RecoveryInv(d) /\ AcceptedInv(d)
        /\ d.tr.at \in {"recovering", "rebinding"} => d.tr.tok \in Tokens
        /\ d.tr.at = "rebinding" => d.tr.gen \in Gens
    BY <1>1, <2>1, TransitionParts DEF Good, Core, Documents
  <2>3. \A t \in Tokens : d.flow[t].at # "idle" =>
           Up(d.flow[t].gen) /\ d.flow[t].gen \in Gens /\ d.flow[t].gen # g
    BY <1>6, <2>2 DEF AcceptedInv, Up
  <2>4. ASSUME NEW h \in Gens, NEW k \in Gens, Up(h), h # k, socks[h].id = socks[k].id,
               Up(k) => Left(h), Up(k)'
        PROVE  Left(h)'
    <3>1. CASE k # g
      BY <1>6, <1>7, <2>4, <3>1 DEF LeasesMove
    <3>2. CASE k = g
      <4>1. lease[i].gen = 0
        BY <1>2, <1>3, <2>4, <3>2 DEF Up
      <4>2. socks'[h].id = i /\ lease'[i].gen = g
        BY <1>1, <1>3, <1>4, <2>4, <3>2, <4>1 DEF i
      <4>3. QED
        BY <2>4, <3>2, <4>2 DEF Left
    <3>3. QED
      BY <3>1, <3>2
  <2>5. \A k \in Gens : socks[k].at # "idle" => socks'[k].at # "idle"
    BY <1>2, <1>3
  <2>6. ASSUME d.tr.at = "recovering"
        PROVE  d.flow[d.tr.tok].at # "idle" /\ socks'[d.flow[d.tr.tok].gen].id = d.id
    BY <1>3, <2>2, <2>3, <2>6 DEF RecoveryInv
  <2>7. ASSUME d.tr.at = "rebinding"
        PROVE  LET h == d.flow[d.tr.tok].gen
               IN /\ d.flow[d.tr.tok].at # "idle" /\ h # d.tr.gen
                  /\ socks'[h].id = socks'[d.tr.gen].id
                  /\ socks'[d.tr.gen].at # "idle" /\ (Up(d.tr.gen)' => Left(h)')
    BY <1>3, <2>2, <2>3, <2>4, <2>5, <2>7 DEF RecoveryInv
  <2>8. QED
    BY <2>1, <2>6, <2>7 DEF RecoveryInv
<1>11. QED
    BY <1>5, <1>9, <1>10 DEF IInv, Good

----------------------------------------------------------------------------
(* The theorems                                                            *)

LEMMA Quiet == ASSUME IInv, UNCHANGED vars PROVE IInv'
<1>1. BackendTypes' /\ WorldMoves(b) /\ b' = b /\ UNCHANGED <<socks, lease>>
    BY DEF vars, backend, BackendTypes, WorldMoves, IInv
<1>2. QED
    BY <1>1, SocketsRest, ServedInTheWorld

LEMMA Starts == ASSUME Init PROVE IInv
<1> DEFINE flow == [t \in Tokens |-> NoFlow]
           e == Document(1, 0, flow)
<1>1. /\ b = e /\ claimed = {} /\ net = {} /\ reply = {} /\ sending = {} /\ sent = {}
      /\ socks = [g \in Gens |-> [at |-> "idle", id |-> 0]]
      /\ lease = [i \in 1..MaxIds |-> [gen |-> 0, up |-> FALSE]]
      /\ token = [t \in Tokens |-> "unknown"]
    BY DEF Init
<1>2. /\ 0 \in 0..MaxGens /\ 0 \in 0..MaxIds /\ 1 \in 1..MaxIds /\ (0 # 0) \in BOOLEAN
      /\ FALSE \in BOOLEAN
    BY BoundsAreNatural
<1>3. BackendTypes
  <2>1. [gen |-> 0, up |-> FALSE] \in [gen : 0..MaxGens, up : BOOLEAN]
    BY <1>2
  <2>2. [at |-> "idle", id |-> 0] \in WebSockets
    BY <1>2 DEF WebSockets
  <2>3. QED
    BY <1>1, <2>1, <2>2 DEF BackendTypes, Requests
<1>4. NoFlow \in Flows /\ NoFlow.at = "idle" /\ NoFlow.gen = 0 /\ ~NoFlow.fresh
    BY <1>2 DEF Flows, NoFlow, Places
<1>5. flow \in [Tokens -> Flows] /\ \A t \in Tokens : flow[t] = NoFlow
    BY <1>4
<1> HIDE DEF flow
<1>6. /\ e \in Documents /\ e.flow = flow /\ e.review = NoReview /\ e.deferred = None
      /\ e.tr = NoTransition /\ e.conn = "connecting" /\ e.socket = 0
  <2>1. NoReview \in Reviews /\ NoTransition \in Transitions
    BY DEF Reviews, Transitions
  <2>2. QED
    BY <1>2, <1>5, <2>1 DEF Documents, Document
<1> HIDE DEF e
<1>7. /\ e.tr.at = None /\ e.review.tok = None
      /\ \A t \in Tokens : e.review # [tok |-> t, status |-> "review"]
    BY <1>6, NoneIsNoToken DEF NoTransition, NoReview
<1>8. \A t \in Tokens : FlowInv(e, t)
    BY <1>1, <1>4, <1>5, <1>6, <1>7, NoneIsNoToken DEF FlowInv, Asked, Answer
<1>9. AcceptedInv(e) /\ SeenInv(e) /\ LatestInv(e) /\ RecoveryInv(e)
    BY <1>1, <1>4, <1>5, <1>6, <1>7
       DEF AcceptedInv, SeenInv, LatestInv, RecoveryInv, Binds, Bound, None
<1>10. QED
    BY <1>1, <1>3, <1>6, <1>8, <1>9 DEF IInv, Good, Core

LEMMA Goes == ASSUME IInv, [Next]_vars PROVE IInv'
<1>1. ASSUME NEW t \in Tokens,
             \/ Prepare(t) \/ Prepared(t) \/ PrepareDenied(t) \/ PrepareUnproven(t)
             \/ CandidateDiscarded(t) \/ CandidateKept(t)
             \/ ConfirmAnswered(t) \/ Dismissed(t) \/ Stranded(t)
             \/ ServePrepare(t) \/ ServeConfirm(t) \/ SendEnds(t) \/ ServeDiscard(t)
      PROVE  IInv'
    BY <1>1, PrepareStep, PreparedStep, PrepareDeniedStep, PrepareUnprovenStep,
       CandidateDiscardedStep, CandidateKeptStep, ConfirmAnsweredStep, DismissedStep,
       StrandedStep, ServePrepareStep, ServeConfirmStep, SendEndsStep, ServeDiscardStep
<1>2. CASE Confirm \/ Dismiss \/ SelectEntity
    BY <1>2, ConfirmStep, DismissStep, SelectEntityStep
<1>3. CASE Reconnect \/ AwaitOver \/ Retired \/ NotRetired
    BY <1>3, ReconnectStep, AwaitOverStep, RetiredStep, NotRetiredStep
<1>4. CASE Message \/ Disconnected \/ NotAccepted \/ DelayOver
    BY <1>4, MessageStep, DisconnectedStep, NotAcceptedStep, DelayOverStep
<1>5. CASE Recover \/ RecoveryRetired \/ RecoveryFails
    BY <1>5, RecoverStep, RecoveryRetiredStep, RecoveryFailsStep
<1>6. CASE NetworkChanges \/ PageHide \/ PageShow \/ Reload \/ Vanishes
    BY <1>6, NetworkStep, PageHideStep, PageShowStep, ReloadStep, VanishesStep
<1>7. ASSUME NEW g \in Gens, ServeRetire(g) \/ Serve(g) \/ SocketEnds(g)
      PROVE  IInv'
    BY <1>7, ServeRetireStep, ServeStep, SocketEndsStep
<1>8. CASE UNCHANGED vars
    BY <1>8, Quiet
<1>9. QED
    BY <1>1, <1>2, <1>3, <1>4, <1>5, <1>6, <1>7, <1>8 DEF Next

(* The invariant of the view: which of its requests may be on their way at  *)
(* every point of its handlers, and which generations still publish.       *)
THEOREM ViewInvariant == Spec => []IInv
<1>1. Init => IInv
    BY Starts
<1>2. IInv /\ [Next]_vars => IInv'
    BY Goes
<1>3. QED
    BY <1>1, <1>2, PTL DEF Spec

(* The document, the requests and the claims always have their types: a     *)
(* review and a deferred preparation always name a preparation.             *)
THEOREM ViewTypes == Spec => []TypeOK
<1>1. IInv => TypeOK
  <2> SUFFICES ASSUME IInv
               PROVE  TypeOK
    OBVIOUS
  <2>1. b \in Documents /\ BackendTypes /\ b.review \in Reviews
    BY GoodDocument
  <2>2. b.review = NoReview \/ b.review.tok \in Tokens
    BY <2>1, ReviewParts
  <2>3. \A t \in Tokens : b.flow[t].at \in Places
    BY <2>1 DEF Documents, Flows
  <2>4. b.deferred \in Tokens \cup {None} /\ b.gen \in 0..MaxGens /\ b.id \in 1..MaxIds
    BY <2>1 DEF Documents
  <2>5. net \subseteq {"prepare", "confirm", "discard", "retire"} \X (Tokens \cup 0..MaxGens)
    BY <2>1 DEF BackendTypes, Requests
  <2>6. claimed \cup sending \cup sent \subseteq Tokens
    BY <2>1 DEF BackendTypes
  <2>7. QED
    BY <2>2, <2>3, <2>4, <2>5, <2>6 DEF TypeOK, Places
<1>2. QED
    BY <1>1, ViewInvariant, PTL

(* Where the browser tells the operator that nothing was published          *)
(* (main.ts, the messages of the discarded and the denied), nothing was and *)
(* nothing will be, whatever of its requests is still served, late or not.  *)
THEOREM NothingWasPublished == Spec => []NothingPublished
<1>1. IInv => NothingPublished
    BY DEF IInv, Good, Core, FlowInv, BackendTypes, NothingPublished
<1>2. QED
    BY <1>1, ViewInvariant, PTL

(* A confirmation that the backend serves late is one whose review is still *)
(* on the screen, for the document that asked for it: after every review it  *)
(* let go, the generation of that confirmation is not active any more.      *)
THEOREM PublicationIsSeen == Spec => PublishedInView
<1> DEFINE Seen == \A t \in sent' \ sent : b.flow[t].at = "gone" \/ b.review.tok = t
<1>1. ASSUME NEW t \in Tokens, IInv, ServeConfirm(t)
      PROVE  Seen
  <2> SUFFICES ASSUME NEW u \in sent', u \notin sent, b.flow[u].at # "gone", b.review.tok # u
               PROVE  FALSE
    OBVIOUS
  <2>1. u = t /\ <<"confirm", t>> \in net /\ Live(b.flow[t].gen)
    BY <1>1 DEF ServeConfirm, Takes
  <2>2. Left(b.flow[t].gen)
    BY <1>1, <2>1 DEF IInv, Good, Core, SeenInv
  <2>3. QED
    BY <2>1, <2>2 DEF Live, Left
<1>2. ASSUME [Next]_vars, \A t \in Tokens : ~ServeConfirm(t)
      PROVE  sent' = sent
  <2>1. ASSUME NEW t \in Tokens,
               \/ Prepare(t) \/ Prepared(t) \/ PrepareDenied(t) \/ PrepareUnproven(t)
               \/ CandidateDiscarded(t) \/ CandidateKept(t)
               \/ ConfirmAnswered(t) \/ Dismissed(t) \/ Stranded(t)
               \/ ServePrepare(t) \/ SendEnds(t) \/ ServeDiscard(t)
        PROVE  sent' = sent
    BY <2>1 DEF Prepare, Prepared, PrepareDenied, PrepareUnproven, CandidateDiscarded,
                CandidateKept, ConfirmAnswered, Dismissed, Cleared, Stranded, ServePrepare,
                SendEnds, ServeDiscard, backend
  <2>2. CASE Confirm \/ Dismiss \/ SelectEntity
    BY <2>2 DEF Confirm, Dismiss, SelectEntity, backend
  <2>3. CASE Reconnect \/ AwaitOver \/ Retired \/ NotRetired
    BY <2>3 DEF Reconnect, AwaitOver, Retired, NotRetired, backend
  <2>4. CASE Message \/ Disconnected \/ NotAccepted \/ DelayOver
    BY <2>4 DEF Message, Disconnected, NotAccepted, DelayOver, backend
  <2>5. CASE Recover \/ RecoveryRetired \/ RecoveryFails
    BY <2>5 DEF Recover, RecoveryRetired, RecoveryFails, backend
  <2>6. CASE NetworkChanges \/ PageHide \/ PageShow \/ Reload \/ Vanishes
    BY <2>6 DEF NetworkChanges, PageHide, PageShow, Reload, Vanishes, backend
  <2>7. ASSUME NEW g \in Gens, ServeRetire(g) \/ Serve(g) \/ SocketEnds(g)
        PROVE  sent' = sent
    BY <2>7 DEF ServeRetire, Serve, SocketEnds
  <2>8. CASE UNCHANGED vars
    BY <2>8 DEF vars, backend
  <2>9. QED
    BY <1>2, <2>1, <2>2, <2>3, <2>4, <2>5, <2>6, <2>7, <2>8 DEF Next
<1>3. IInv /\ [Next]_vars => [Seen]_vars
    BY <1>1, <1>2
<1>4. QED
    BY <1>3, ViewInvariant, PTL DEF Spec, PublishedInView

----------------------------------------------------------------------------
(* What a dialog waits for                                                 *)

(* A dialog that says it is waiting waits for its answer, or for the        *)
(* recovery of its view and no other, whose WebSocket is the one that a     *)
(* refusal restores it from; or, if s admits it, for nothing any more.      *)
Invalidating(d) == d.review.status = "invalidating"
InFlightIn(d) == d.flow[d.review.tok].at \in {"confirming", "dismissing"}
WaitsInv(d, s) ==
    Invalidating(d) =>
        \/ InFlightIn(d)
        \/ d.tr.at = "recovering" /\ d.tr.tok = d.review.tok
        \/ d.tr.at = "rebinding" /\ d.tr.tok = d.review.tok /\ d.recovery = d.tr.gen
        \/ s /\ d.tr.at = None

(* A function that leaves the dialog what it waits for, or ends its wait.  *)
Attends(d, e) ==
    /\ \A t \in Tokens : e.flow[t].at = d.flow[t].at
    /\ Invalidating(e) =>
          /\ e.review = d.review /\ e.recovery = d.recovery /\ e.tr.at = d.tr.at
          /\ e.tr.at \in {"rebinding", "recovering"} =>
                e.tr.gen = d.tr.gen /\ e.tr.tok = d.tr.tok

LEMMA InFlightStays ==
    ASSUME NEW d \in Documents, NEW e, \A t \in Tokens : e.flow[t].at = d.flow[t].at,
           Invalidating(d), e.review = d.review
    PROVE  Invalidating(e) /\ (InFlightIn(e) <=> InFlightIn(d))
<1>1. d.review.tok \in Tokens
    BY ReviewParts DEF Documents, Invalidating
<1>2. QED
    BY <1>1 DEF Invalidating, InFlightIn

LEMMA AttendsWaits ==
    ASSUME NEW d \in Documents, NEW e, NEW s, Attends(d, e), WaitsInv(d, s)
    PROVE  WaitsInv(e, s)
<1> SUFFICES ASSUME Invalidating(e)
             PROVE  \/ InFlightIn(e)
                    \/ e.tr.at = "recovering" /\ e.tr.tok = e.review.tok
                    \/ e.tr.at = "rebinding" /\ e.tr.tok = e.review.tok /\ e.recovery = e.tr.gen
                    \/ s /\ e.tr.at = None
    BY DEF WaitsInv
<1>1. e.review = d.review /\ e.recovery = d.recovery /\ e.tr.at = d.tr.at /\ Invalidating(d)
    BY DEF Attends, Invalidating
<1>2. InFlightIn(e) <=> InFlightIn(d)
    BY <1>1, InFlightStays DEF Attends
<1>3. QED
    BY <1>1, <1>2 DEF Attends, WaitsInv

LEMMA AttendsInFlight ==
    ASSUME NEW d \in Documents, NEW e, Attends(d, e), Invalidating(d) => InFlightIn(d)
    PROVE  Invalidating(e) => InFlightIn(e)
<1> SUFFICES ASSUME Invalidating(e)
             PROVE  InFlightIn(e)
    OBVIOUS
<1>1. e.review = d.review /\ Invalidating(d) /\ InFlightIn(d)
    BY DEF Attends, Invalidating
<1>2. QED
    BY <1>1, InFlightStays DEF Attends

LEMMA AttendsOnward ==
    ASSUME NEW d, NEW e, NEW f, Attends(d, e), Attends(e, f)
    PROVE  Attends(d, f)
BY DEF Attends, Invalidating

LEMMA AttendsItself == ASSUME NEW d PROVE Attends(d, d)
BY DEF Attends

LEMMA BumpAttends ==
    ASSUME NEW d \in Documents
    PROVE  Attends(d, Bump(d)) /\ Bump(d).review = d.review
<1> DEFINE flow == [t \in Tokens |-> [d.flow[t] EXCEPT !.fresh = FALSE]]
           tr == IF d.tr = NoTransition THEN d.tr ELSE [d.tr EXCEPT !.moved = TRUE]
           e == [d EXCEPT !.flow = flow, !.tr = tr]
<1>1. e = Bump(d)
    BY DEF Bump
<1>2. \A t \in Tokens : flow[t].at = d.flow[t].at
    BY StaleFlows
<1>3. /\ tr.at = d.tr.at
      /\ tr.at \in {"rebinding", "recovering"} => tr.gen = d.tr.gen /\ tr.tok = d.tr.tok
  <2>1. d.tr \in Transitions
    BY DEF Documents
  <2>2. QED
    BY <2>1 DEF Transitions, NoTransition, None
<1> HIDE DEF flow, tr
<1>4. e.flow = flow /\ e.tr = tr /\ e.review = d.review /\ e.recovery = d.recovery
    BY DEF Documents
<1> HIDE DEF e
<1>5. Attends(d, e)
    BY <1>2, <1>3, <1>4 DEF Attends
<1>6. QED
    BY <1>1, <1>4, <1>5

(* ... and so it is when only a field changes that Attends leaves open.    *)
LEMMA LittleAttends ==
    ASSUME NEW d, NEW e, e.flow = d.flow, e.tr = d.tr,
           Invalidating(e) => e.review = d.review /\ e.recovery = d.recovery
    PROVE  Attends(d, e)
BY DEF Attends

LEMMA CutAttends ==
    ASSUME NEW d \in Documents, NEW g \in {0, d.socket},
           NEW c \in {"down", "connecting", "connected", d.conn}
    PROVE  LET e == [d EXCEPT !.socket = g, !.conn = c]
           IN Attends(d, e) /\ e.review = d.review
<1> DEFINE e == [d EXCEPT !.socket = g, !.conn = c]
<1>1. e.flow = d.flow /\ e.tr = d.tr /\ e.review = d.review /\ e.recovery = d.recovery
    BY DEF Documents
<1> HIDE DEF e
<1>2. QED
    BY <1>1, LittleAttends DEF e

LEMMA UnplugAttends ==
    ASSUME NEW d \in Documents
    PROVE  Attends(d, [d EXCEPT !.socket = 0]) /\ [d EXCEPT !.socket = 0].review = d.review
<1>1. [d EXCEPT !.socket = 0] = [d EXCEPT !.socket = 0, !.conn = d.conn]
    BY DEF Documents
<1>2. QED
    BY <1>1, CutAttends

LEMMA DownAttends ==
    ASSUME NEW d \in Documents, NEW c \in {"down", "connected"}
    PROVE  Attends(d, [d EXCEPT !.conn = c]) /\ [d EXCEPT !.conn = c].review = d.review
<1> DEFINE e == [d EXCEPT !.conn = c]
<1>1. e.flow = d.flow /\ e.tr = d.tr /\ e.review = d.review /\ e.recovery = d.recovery
    BY DEF Documents
<1> HIDE DEF e
<1>2. QED
    BY <1>1, LittleAttends DEF e

LEMMA RetireTaskingAttends ==
    ASSUME NEW d \in Documents
    PROVE  Attends(d, RetireTasking(d)) /\ RetireTasking(d).review = d.review
<1>1. Bump(d) \in Documents
    BY BumpKeeps DEF Keeps
<1>2. /\ Attends(Bump(d), [Bump(d) EXCEPT !.socket = 0, !.conn = "down"])
      /\ [Bump(d) EXCEPT !.socket = 0, !.conn = "down"].review = Bump(d).review
    BY <1>1, CutAttends
<1>3. QED
    BY <1>2, BumpAttends, AttendsOnward DEF RetireTasking

(* A review that is no wait, now.                                          *)
LEMMA ReviewAttends ==
    ASSUME NEW d \in Documents, NEW r \in Reviews, NEW e, ~Invalidating(e),
           e = [d EXCEPT !.review = r] \/ e = [d EXCEPT !.review = r, !.conn = "down"]
    PROVE  Attends(d, e)
<1>1. e.flow = d.flow /\ e.tr = d.tr
    BY DEF Documents
<1>2. QED
    BY <1>1, LittleAttends

LEMMA StrandAttends ==
    ASSUME NEW d \in Documents
    PROVE  Attends(d, Strand(d)) /\ ~Invalidating(Strand(d))
<1> DEFINE m == IF d.review = NoReview THEN d ELSE [d EXCEPT !.review.status = "stranded"]
<1>1. Attends(d, m) /\ m \in Documents /\ ~Invalidating(m)
  <2>1. CASE d.review = NoReview
    BY <2>1, AttendsItself DEF Invalidating, NoReview
  <2>2. CASE d.review # NoReview
    <3> DEFINE r == [tok |-> d.review.tok, status |-> "stranded"]
               e == [d EXCEPT !.review = r]
    <3>1. r \in Reviews /\ m = e /\ r.status = "stranded"
      BY <2>2, ReviewParts DEF Documents, Reviews
    <3> HIDE DEF r
    <3>2. e \in Documents /\ e.review = r
      BY <3>1 DEF Documents
    <3>3. ~Invalidating(e)
      BY <3>1, <3>2 DEF Invalidating
    <3>4. Attends(d, e)
      BY <3>1, <3>3, ReviewAttends
    <3>5. QED
      BY <3>1, <3>2, <3>3, <3>4
  <2>3. QED
    BY <2>1, <2>2
<1>2. Strand(d) = RetireTasking(m)
    BY DEF Strand
<1> HIDE DEF m
<1>3. QED
    BY <1>1, <1>2, RetireTaskingAttends, AttendsOnward DEF Invalidating

LEMMA RestoreStrandedAttends ==
    ASSUME NEW d \in Documents
    PROVE  Attends(d, RestoreStranded(d)) /\ ~Invalidating(RestoreStranded(d))
<1>1. CASE ~Invalidating(d)
    BY <1>1, AttendsItself DEF RestoreStranded, Invalidating
<1>2. CASE Invalidating(d)
  <2> DEFINE r == [tok |-> d.review.tok, status |-> "stranded"]
             e == [d EXCEPT !.review = r, !.conn = "down"]
  <2>1. r \in Reviews /\ r.status = "stranded" /\ RestoreStranded(d) = e
    BY <1>2, ReviewParts DEF Documents, Reviews, RestoreStranded, Invalidating
  <2> HIDE DEF r
  <2>2. e.review = r
    BY DEF Documents
  <2>3. ~Invalidating(e)
    BY <2>1, <2>2 DEF Invalidating
  <2>4. Attends(d, e)
    BY <2>1, <2>3, ReviewAttends
  <2>5. QED
    BY <2>1, <2>3, <2>4
<1>3. QED
    BY <1>1, <1>2

LEMMA AbandonAttends ==
    ASSUME NEW d \in Documents
    PROVE  Attends(d, Abandon(d))
<1>1. CASE d.review.status # "review"
    BY <1>1, AttendsItself DEF Abandon
<1>2. CASE d.review.status = "review"
  <2> DEFINE e == [d EXCEPT !.review = NoReview]
  <2>1. Abandon(d) = e
    BY <1>2 DEF Abandon
  <2>2. e.review = NoReview
    BY DEF Documents
  <2>3. NoReview \in Reviews /\ NoReview.status = "review"
    BY DEF Reviews, NoReview
  <2>4. ~Invalidating(e)
    BY <2>2, <2>3 DEF Invalidating
  <2>5. QED
    BY <2>1, <2>3, <2>4, ReviewAttends
<1>3. QED
    BY <1>1, <1>2

LEMMA CloseForTransitionAttends ==
    ASSUME NEW d \in Documents
    PROVE  Attends(d, CloseForTransition(d))
<1> DEFINE u == [d EXCEPT !.socket = 0]
           v == [u EXCEPT !.recovery = 0]
           w == RestoreStranded(v)
<1>1. u \in Documents /\ Attends(d, u)
    BY UnplugAttends, UnpluggedKeeps DEF Keeps
<1>2. CloseForTransition(d) = IF d.recovery = d.socket THEN w ELSE u
    BY DEF CloseForTransition
<1> HIDE DEF u
<1>3. v \in Documents /\ v.flow = u.flow /\ v.tr = u.tr
    BY <1>1, BoundsAreNatural DEF Documents
<1> HIDE DEF v
<1>4. Attends(v, w) /\ ~Invalidating(w)
    BY <1>3, RestoreStrandedAttends
<1>5. Attends(u, w)
    BY <1>3, <1>4 DEF Attends
<1>6. QED
    BY <1>1, <1>2, <1>5, AttendsOnward

LEMMA LeavingAttends ==
    ASSUME NEW d \in Documents
    PROVE  Attends(d, Leaving(d)) /\ Leaving(d) \in Documents
<1> DEFINE m == CloseForTransition(Bump(d))
           l == Abandon(m)
<1>1. Bump(d) \in Documents /\ Attends(d, Bump(d))
    BY BumpKeeps, BumpAttends DEF Keeps
<1>2. m \in Documents /\ Attends(d, m)
    BY <1>1, CloseForTransitionKeeps, CloseForTransitionAttends, AttendsOnward DEF Keeps
<1> HIDE DEF m
<1>3. l \in Documents /\ Attends(d, l)
    BY <1>2, AbandonKeeps, AbandonAttends, AttendsOnward DEF Keeps
<1> HIDE DEF l
<1>4. Attends(l, [l EXCEPT !.conn = "down"]) /\ [l EXCEPT !.conn = "down"] \in Documents
    BY <1>3, DownAttends, DownKeeps DEF Keeps
<1>5. Leaving(d) = [l EXCEPT !.conn = "down"]
    BY DEF Leaving, l, m
<1>6. QED
    BY <1>3, <1>4, <1>5, AttendsOnward

LEMMA LostAttends ==
    ASSUME NEW d \in Documents
    PROVE  Attends(d, Lost(d))
<1> DEFINE m == [Bump(d) EXCEPT !.socket = 0]
           l == Abandon(m)
<1>1. Bump(d) \in Documents /\ Attends(d, Bump(d))
    BY BumpKeeps, BumpAttends DEF Keeps
<1>2. m \in Documents /\ Attends(d, m)
    BY <1>1, UnpluggedKeeps, UnplugAttends, AttendsOnward DEF Keeps
<1> HIDE DEF m
<1>3. l \in Documents /\ Attends(d, l)
    BY <1>2, AbandonKeeps, AbandonAttends, AttendsOnward DEF Keeps
<1> HIDE DEF l
<1>4. Attends(l, [l EXCEPT !.conn = "down"])
    BY <1>3, DownAttends
<1>5. Lost(d) = [l EXCEPT !.conn = "down"]
    BY DEF Lost, l, m
<1>6. QED
    BY <1>3, <1>4, <1>5, AttendsOnward

(* A preparation goes on, under whatever review.                           *)
Moves(d, e, t) ==
    /\ e.recovery = d.recovery /\ e.tr = d.tr
    /\ \A u \in Tokens \ {t} : e.flow[u] = d.flow[u]

LEMMA MovesWaits ==
    ASSUME NEW d \in Documents, NEW e, NEW t \in Tokens, NEW s, Moves(d, e, t),
           e.review = d.review, d.review.tok = t => d.flow[t].at \notin {"confirming", "dismissing"},
           WaitsInv(d, s)
    PROVE  WaitsInv(e, s)
<1>1. Invalidating(d) => d.review.tok \in Tokens
    BY ReviewParts DEF Documents, Invalidating
<1>2. Invalidating(d) /\ InFlightIn(d) => InFlightIn(e)
    BY <1>1 DEF Moves, InFlightIn
<1>3. QED
    BY <1>2 DEF Moves, WaitsInv, Invalidating

LEMMA EndsMoves ==
    ASSUME NEW d \in Documents, NEW t \in Tokens, d.flow[t].at # "idle"
    PROVE  Moves(d, Ends(d, t), t) /\ Ends(d, t).review = d.review /\ Ends(d, t) \in Documents
<1>1. FlowGoes(d, Ends(d, t), t, "done") /\ Ends(d, t).review = d.review
    BY EndsGoes
<1>2. Ends(d, t).recovery = d.recovery
    BY DEF Ends, Documents
<1>3. QED
    BY <1>1, <1>2 DEF FlowGoes, Moves

(* A dialog that waits for no recovery waits for its own answer.           *)
LEMMA InFlightThen ==
    ASSUME NEW d, NEW s, WaitsInv(d, s), d.tr.at \notin {None, "recovering", "rebinding"}
    PROVE  Invalidating(d) => InFlightIn(d)
BY DEF WaitsInv

LEMMA OverWaits ==
    ASSUME NEW d \in Documents, NEW s, Invalidating(d) => InFlightIn(d) \/ s
    PROVE  WaitsInv(Over(d), s)
<1> DEFINE e == Over(d)
<1>1. e.flow = d.flow /\ e.review = d.review /\ e.tr = NoTransition
    BY DEF Over, Documents
<1>2. e.tr.at = None
    BY <1>1 DEF NoTransition
<1> HIDE DEF e
<1>3. WaitsInv(e, s)
    BY <1>1, <1>2 DEF WaitsInv, Invalidating, InFlightIn
<1>4. QED
    BY <1>3 DEF e

LEMMA DialogDocument ==
    ASSUME IInv
    PROVE  b \in Documents /\ Good(b) /\ b.review \in Reviews /\ b.tr \in Transitions
BY GoodDocument

----------------------------------------------------------------------------
(* Its steps: preparing, reviewing, losing                                 *)

LEMMA PreparationWaits ==
    ASSUME IInv, NEW s, WaitsInv(b, s), NEW t \in Tokens, Prepare(t) \/ Prepared(t)
    PROVE  WaitsInv(b', s)
<1>1. b \in Documents
    BY DialogDocument
<1>2. CASE Prepare(t)
  <2> DEFINE flow == [x \in Tokens |->
                 IF x = t THEN [at |-> "preparing", gen |-> b.gen, fresh |-> TRUE]
                 ELSE [b.flow[x] EXCEPT !.fresh = FALSE]]
  <2>1. b' = [b EXCEPT !.flow = flow] /\ b.review = NoReview
    BY <1>2 DEF Prepare
  <2> HIDE DEF flow
  <2>2. b'.review = NoReview
    BY <1>1, <2>1 DEF Documents
  <2>3. QED
    BY <2>2 DEF WaitsInv, Invalidating, NoReview
<1>3. CASE b' = [Ends(b, t) EXCEPT !.review = [tok |-> t, status |-> "review"]]
  <2> DEFINE m == Ends(b, t)
  <2>1. b.flow[t].at # "idle" \/ Prepare(t)
    BY DEF Prepared
  <2>2. CASE b.flow[t].at # "idle"
    <3>1. m \in Documents
      BY <1>1, <2>2, EndsMoves
    <3> HIDE DEF m
    <3>2. b'.review = [tok |-> t, status |-> "review"]
      BY <1>3, <3>1 DEF Documents, m
    <3>3. QED
      BY <3>2 DEF WaitsInv, Invalidating
  <2>3. QED
    BY <1>2, <2>1, <2>2
<1>4. CASE Prepared(t) /\ b' = [b EXCEPT !.flow[t].at = "discarding"]
  <2> DEFINE e == [b EXCEPT !.flow[t].at = "discarding"]
  <2>1. b.flow[t].at = "preparing"
    BY <1>4 DEF Prepared
  <2>2. FlowGoes(b, e, t, "discarding") /\ e.review = b.review
    BY <1>1, <2>1, DiscardingGoes
  <2>3. e.recovery = b.recovery
    BY <1>1 DEF Documents
  <2> HIDE DEF e
  <2>4. Moves(b, e, t)
    BY <2>2, <2>3 DEF FlowGoes, Moves
  <2>5. WaitsInv(e, s)
    BY <1>1, <2>1, <2>2, <2>4, MovesWaits
  <2>6. QED
    BY <1>4, <2>5 DEF e
<1>5. QED
    BY <1>2, <1>3, <1>4 DEF Prepared

(* A preparation that is over, after a function that attends to the dialog. *)
LEMMA EndsWaits ==
    ASSUME IInv, NEW s, WaitsInv(b, s), NEW m \in Documents, Attends(b, m), NEW t \in Tokens,
           b.flow[t].at \in {"preparing", "discarding"}
    PROVE  WaitsInv(Ends(m, t), s)
<1>1. WaitsInv(m, s) /\ m.flow[t].at \in {"preparing", "discarding"}
    BY DialogDocument, AttendsWaits DEF Attends
<1>2. Moves(m, Ends(m, t), t) /\ Ends(m, t).review = m.review
    BY <1>1, EndsMoves
<1>3. QED
    BY <1>1, <1>2, MovesWaits

LEMMA PreparationEndsWaits ==
    ASSUME IInv, NEW s, WaitsInv(b, s), NEW t \in Tokens,
           PrepareDenied(t) \/ PrepareUnproven(t) \/ CandidateDiscarded(t)
    PROVE  WaitsInv(b', s)
<1>1. b \in Documents /\ Attends(b, b) /\ b.flow[t].at \in {"preparing", "discarding"}
    BY DialogDocument, AttendsItself DEF PrepareDenied, PrepareUnproven, CandidateDiscarded
<1>2. RetireTasking(b) \in Documents /\ Attends(b, RetireTasking(b))
    BY <1>1, RetireTaskingKeeps, RetireTaskingAttends DEF Keeps
<1>3. b' = Ends(b, t) \/ b' = Ends(RetireTasking(b), t)
    BY DEF PrepareDenied, PrepareUnproven, CandidateDiscarded
<1>4. QED
    BY <1>1, <1>2, <1>3, EndsWaits

LEMMA CandidateKeptWaits ==
    ASSUME IInv, NEW s, WaitsInv(b, s), NEW t \in Tokens, CandidateKept(t)
    PROVE  WaitsInv(b', s)
<1>1. b \in Documents /\ b.flow[t].at = "discarding"
    BY DialogDocument DEF CandidateKept
<1>2. CASE b.review # NoReview
  <2> DEFINE q == IF b.deferred = None THEN t ELSE b.deferred
             m == [b EXCEPT !.deferred = q]
  <2>1. q \in Tokens \cup {None} /\ m = [b EXCEPT !.deferred = IF @ = None THEN t ELSE @]
    BY <1>1 DEF Documents
  <2> HIDE DEF q
  <2>2. /\ m \in Documents /\ m.flow = b.flow /\ m.tr = b.tr /\ m.review = b.review
        /\ m.recovery = b.recovery
    BY <1>1, <2>1 DEF Documents
  <2>3. b' = Ends(RetireTasking(m), t)
    BY <1>2, <2>1 DEF CandidateKept, Defer
  <2> HIDE DEF m
  <2>4. Attends(b, m)
    BY <2>2, LittleAttends
  <2>5. RetireTasking(m) \in Documents /\ Attends(b, RetireTasking(m))
    BY <2>2, <2>4, RetireTaskingKeeps, RetireTaskingAttends, AttendsOnward DEF Keeps
  <2>6. QED
    BY <1>1, <2>3, <2>5, EndsWaits
<1>3. CASE b.review = NoReview
  <2> DEFINE r == [tok |-> t, status |-> "stranded"]
             m == [b EXCEPT !.review = r]
  <2>1. r \in Reviews /\ r.status = "stranded" /\ b' = Ends(Strand(m), t)
    BY <1>3 DEF Reviews, CandidateKept
  <2> HIDE DEF r
  <2>2. m \in Documents /\ m.review = r
    BY <1>1, <2>1 DEF Documents
  <2>3. ~Invalidating(m)
    BY <2>1, <2>2 DEF Invalidating
  <2>4. Attends(b, m)
    BY <1>1, <2>1, <2>3, ReviewAttends
  <2> HIDE DEF m
  <2>5. Strand(m) \in Documents /\ Attends(b, Strand(m))
    BY <2>2, <2>4, StrandKeeps, StrandAttends, AttendsOnward DEF Keeps
  <2>6. QED
    BY <1>1, <2>1, <2>5, EndsWaits
<1>4. QED
    BY <1>2, <1>3

(* A confirmation or a dismissal: the dialog waits for the answer.         *)
LEMMA AskedWaits ==
    ASSUME NEW d \in Documents, d.review # NoReview, NEW place \in {"confirming", "dismissing"}
    PROVE  LET e == [d EXCEPT !.review.status = "invalidating", !.flow[d.review.tok].at = place]
           IN e \in Documents /\ InFlightIn(e)
<1> DEFINE t == d.review.tok
           e == [d EXCEPT !.review.status = "invalidating", !.flow[t].at = place]
<1>1. t \in Tokens /\ FlowGoes(d, e, t, place) /\ e.review = [tok |-> t, status |-> "invalidating"]
    BY WaitsGoes
<1>2. e.review.tok = t
    BY <1>1
<1> HIDE DEF e
<1>3. InFlightIn(e)
    BY <1>1, <1>2 DEF FlowGoes, InFlightIn
<1>4. QED
    BY <1>1, <1>3 DEF FlowGoes, e

LEMMA ReviewedWaits ==
    ASSUME IInv, NEW s, Confirm \/ Dismiss
    PROVE  WaitsInv(b', s)
<1>1. b \in Documents /\ b.review # NoReview
    BY DialogDocument DEF Confirm, Dismiss
<1>2. PICK place \in {"confirming", "dismissing"} :
          b' = [b EXCEPT !.review.status = "invalidating", !.flow[b.review.tok].at = place]
    BY DEF Confirm, Dismiss, StartsDismissal
<1>3. InFlightIn(b')
    BY <1>1, <1>2, AskedWaits
<1>4. QED
    BY <1>3 DEF WaitsInv

LEMMA SelectEntityWaits ==
    ASSUME IInv, NEW s, WaitsInv(b, s), SelectEntity
    PROVE  WaitsInv(b', s)
<1> DEFINE flow == [t \in Tokens |-> [b.flow[t] EXCEPT !.fresh = FALSE]]
           e == [b EXCEPT !.flow = flow]
<1>1. b \in Documents /\ b' = e
    BY DialogDocument DEF SelectEntity
<1>2. \A t \in Tokens : flow[t].at = b.flow[t].at
    BY <1>1, StaleFlows
<1> HIDE DEF flow
<1>3. e.flow = flow /\ e.review = b.review /\ e.tr = b.tr /\ e.recovery = b.recovery
    BY <1>1, <1>2 DEF Documents
<1> HIDE DEF e
<1>4. Attends(b, e)
    BY <1>2, <1>3 DEF Attends
<1>5. QED
    BY <1>1, <1>4, AttendsWaits

LEMMA ActivateDeferredEnds ==
    ASSUME NEW d \in Documents
    PROVE  ~Invalidating(ActivateDeferred(d))
<1>1. CASE d.deferred = None
  <2>1. ActivateDeferred(d).review = NoReview
    BY <1>1 DEF ActivateDeferred, Documents
  <2>2. QED
    BY <2>1 DEF Invalidating, NoReview
<1>2. CASE d.deferred # None
  <2> DEFINE r == [tok |-> d.deferred, status |-> "stranded"]
             e == [d EXCEPT !.review = r, !.deferred = None, !.conn = "down"]
  <2>1. e = ActivateDeferred(d) /\ r.status = "stranded"
    BY <1>2 DEF ActivateDeferred
  <2> HIDE DEF r
  <2>2. e.review = r
    BY DEF Documents
  <2>3. QED
    BY <2>1, <2>2 DEF Invalidating
<1>3. QED
    BY <1>1, <1>2

LEMMA AnsweredWaits ==
    ASSUME IInv, NEW s, WaitsInv(b, s), NEW t \in Tokens, ConfirmAnswered(t) \/ Dismissed(t)
    PROVE  WaitsInv(b', s)
<1> DEFINE m == Ends(b, t)
<1>1. b \in Documents /\ b.flow[t].at \in {"confirming", "dismissing"} /\ b' = Clears(m, t)
    BY DialogDocument DEF ConfirmAnswered, Dismissed, Cleared
<1>2. Moves(b, m, t) /\ m.review = b.review /\ m \in Documents
    BY <1>1, EndsMoves
<1> HIDE DEF m
<1>3. CASE m.review.tok = t
    BY <1>1, <1>2, <1>3, ActivateDeferredEnds DEF Clears, WaitsInv
<1>4. CASE m.review.tok # t
    BY <1>1, <1>2, <1>4, MovesWaits DEF Clears
<1>5. QED
    BY <1>3, <1>4

LEMMA StrandedWaits ==
    ASSUME IInv, NEW s, NEW t \in Tokens, Stranded(t)
    PROVE  WaitsInv(b', s)
<1> DEFINE m == Ends(b, t)
<1>1. b \in Documents /\ b.flow[t].at # "idle" /\ b' = Strand(m)
    BY DialogDocument DEF Stranded
<1>2. m \in Documents
    BY <1>1, EndsMoves
<1> HIDE DEF m
<1>3. QED
    BY <1>1, <1>2, StrandAttends DEF WaitsInv

LEMMA DisconnectedWaits ==
    ASSUME IInv, NEW s, WaitsInv(b, s), Disconnected
    PROVE  WaitsInv(b', s)
BY DialogDocument, LostAttends, AttendsWaits DEF Disconnected

LEMMA NetworkWaits ==
    ASSUME IInv, NEW s, WaitsInv(b, s), NetworkChanges
    PROVE  WaitsInv(b', s)
<1> DEFINE m == [b EXCEPT !.online = ~@]
<1>1. b \in Documents /\ b' = Leaving(m)
    BY DialogDocument DEF NetworkChanges
<1>2. /\ m \in Documents /\ m.flow = b.flow /\ m.review = b.review /\ m.tr = b.tr
      /\ m.recovery = b.recovery
    BY <1>1 DEF Documents
<1> HIDE DEF m
<1>3. Attends(b, m)
    BY <1>2, LittleAttends
<1>4. QED
    BY <1>1, <1>2, <1>3, LeavingAttends, AttendsOnward, AttendsWaits

LEMMA PageHideWaits ==
    ASSUME IInv, NEW s, WaitsInv(b, s), PageHide
    PROVE  WaitsInv(b', s)
<1> DEFINE m == [b EXCEPT !.shown = FALSE]
           l == Leaving(m)
           e == [l EXCEPT !.required = @ \/ b.accepted]
<1>1. b \in Documents /\ b' = e
    BY DialogDocument DEF PageHide
<1>2. /\ m \in Documents /\ m.flow = b.flow /\ m.tr = b.tr /\ m.review = b.review
      /\ m.recovery = b.recovery
    BY <1>1 DEF Documents
<1> HIDE DEF m
<1>3. l \in Documents /\ Attends(b, l)
    BY <1>2, LittleAttends, LeavingAttends, AttendsOnward
<1> HIDE DEF l
<1>4. e.flow = l.flow /\ e.tr = l.tr /\ e.review = l.review /\ e.recovery = l.recovery
    BY <1>3 DEF Documents
<1> HIDE DEF e
<1>5. Attends(b, e)
    BY <1>3, <1>4, LittleAttends, AttendsOnward
<1>6. QED
    BY <1>1, <1>5, AttendsWaits

----------------------------------------------------------------------------
(* ... and connecting                                                      *)

(* A document that starts to wait for whatever: the answer is still to come. *)
LEMMA StillInFlight ==
    ASSUME NEW d, NEW e, NEW s, e.flow = d.flow, e.review = d.review,
           Invalidating(d) => InFlightIn(d)
    PROVE  WaitsInv(e, s)
BY DEF WaitsInv, Invalidating, InFlightIn

LEMMA AttemptsWaits ==
    ASSUME NEW d \in Documents, NEW s, Invalidating(d) => InFlightIn(d),
           NEW retries, NEW final, Attempts(d, retries, final)
    PROVE  WaitsInv(b', s)
<1>1. CASE b' = Over([d EXCEPT !.conn = "down"])
  <2>1. b'.flow = d.flow /\ b'.review = d.review
    BY <1>1 DEF Over, Documents
  <2>2. QED
    BY <2>1, StillInFlight
<1>2. ASSUME NEW g \in Fresh, b' = Binding(d, g, retries, final)
      PROVE  WaitsInv(b', s)
  <2>1. b'.flow = d.flow /\ b'.review = d.review
    BY <1>2 DEF Binding, Documents
  <2>2. QED
    BY <2>1, StillInFlight
<1>3. QED
    BY <1>1, <1>2 DEF Attempts

(* The successor of a view, whose review is abandoned.                     *)
LEMMA AbandonedAttends ==
    ASSUME NEW d \in Documents, Invalidating(d) => InFlightIn(d)
    PROVE  LET l == Abandon(Bump([d EXCEPT !.socket = 0]))
           IN l \in Documents /\ (Invalidating(l) => InFlightIn(l))
<1> DEFINE u == [d EXCEPT !.socket = 0]
           m == Bump(u)
           l == Abandon(m)
<1>1. u \in Documents /\ Attends(d, u)
    BY UnpluggedKeeps, UnplugAttends DEF Keeps
<1> HIDE DEF u
<1>2. m \in Documents /\ Attends(d, m)
    BY <1>1, BumpKeeps, BumpAttends, AttendsOnward DEF Keeps
<1> HIDE DEF m
<1>3. l \in Documents /\ Attends(d, l)
    BY <1>2, AbandonKeeps, AbandonAttends, AttendsOnward DEF Keeps
<1> HIDE DEF l
<1>4. l \in Documents /\ (Invalidating(l) => InFlightIn(l))
    BY <1>3, AttendsInFlight
<1>5. QED
    BY <1>4 DEF l, m, u

LEMMA SuccessorWaits ==
    ASSUME NEW d \in Documents, NEW s, Invalidating(d) => InFlightIn(d), NEW final,
           Successor(d, final)
    PROVE  WaitsInv(b', s)
<1> DEFINE l == Abandon(Bump([d EXCEPT !.socket = 0]))
           retries == IF final THEN 0 ELSE RetryLimit
<1>1. l \in Documents /\ (Invalidating(l) => InFlightIn(l))
    BY AbandonedAttends
<1>2. Attempts(l, retries, final)
    BY DEF Successor
<1> HIDE DEF l, retries
<1>3. QED
    BY <1>1, <1>2, AttemptsWaits

LEMMA SettledWaits ==
    ASSUME NEW d \in Documents, NEW s, Invalidating(d) => InFlightIn(d), NEW retire,
           Settled(d, retire)
    PROVE  WaitsInv(b', s)
<1>1. CASE d.review.status # "review"
    BY <1>1, OverWaits DEF Settled
<1>2. CASE d.review.status = "review" /\ d.review # NoReview
  <2> DEFINE m == StartsDismissal(d)
             r == [at |-> "dismissing", tok |-> d.review.tok, retire |-> retire, moved |-> FALSE]
  <2>1. m \in Documents /\ InFlightIn(m)
    BY <1>2, AskedWaits DEF StartsDismissal
  <2>2. b' = [m EXCEPT !.tr = r]
    BY <1>2 DEF Settled
  <2> HIDE DEF m, r
  <2>3. b'.flow = m.flow /\ b'.review = m.review
    BY <2>1, <2>2 DEF Documents
  <2>4. QED
    BY <2>1, <2>3, StillInFlight
<1>3. CASE d.review.status = "review" /\ d.review = NoReview /\ retire
  <2>1. b'.flow = d.flow /\ b'.review = d.review
    BY <1>3 DEF Settled, Documents
  <2>2. QED
    BY <2>1, StillInFlight
<1>4. CASE d.review.status = "review" /\ d.review = NoReview /\ ~retire
  <2>1. Successor(d, d.acked # 0)
    BY <1>4 DEF Settled
  <2>2. QED
    BY <2>1, SuccessorWaits
<1>5. QED
    BY <1>1, <1>2, <1>3, <1>4

LEMMA ConnectStateWaits ==
    ASSUME NEW d \in Documents, NEW s, WaitsInv(d, s), ConnectState(d)
    PROVE  WaitsInv(b', s)
<1>1. CASE b' = d
    BY <1>1
<1>2. CASE d.review.status = "review" /\ Settled(d, d.accepted \/ d.required)
    BY <1>2, SettledWaits DEF Invalidating
<1>3. CASE /\ d.review.status = "review"
           /\ b' = [d EXCEPT !.conn = "down",
                             !.tr = [at |-> "waiting", retire |-> d.accepted \/ d.required,
                                     moved |-> FALSE]]
  <2>1. b'.flow = d.flow /\ b'.review = d.review
    BY <1>3 DEF Documents
  <2>2. QED
    BY <1>3, <2>1, StillInFlight DEF Invalidating
<1>4. QED
    BY <1>1, <1>2, <1>3 DEF ConnectState

LEMMA ReconnectWaits ==
    ASSUME IInv, NEW s, WaitsInv(b, s), Reconnect
    PROVE  WaitsInv(b', s)
<1>1. CASE Contested
  <2>1. b \in Documents /\ b.id + 1 \in 1..MaxIds /\ 0 \in 0..MaxGens
    BY <1>1, DialogDocument, BoundsAreNatural DEF Reconnect, Documents
  <2>2. /\ Rotated \in Documents /\ Rotated.flow = b.flow /\ Rotated.tr = b.tr
        /\ Rotated.review = b.review /\ Rotated.recovery = b.recovery
    BY <2>1 DEF Rotated, Documents
  <2>3. WaitsInv(Rotated, s)
    BY <2>1, <2>2, LittleAttends, AttendsWaits
  <2>4. QED
    BY <1>1, <2>2, <2>3, ConnectStateWaits DEF Reconnect
<1>2. CASE ~Contested
    BY <1>2, DialogDocument, ConnectStateWaits DEF Reconnect
<1>3. QED
    BY <1>1, <1>2

LEMMA PageShowWaits ==
    ASSUME IInv, NEW s, WaitsInv(b, s), PageShow
    PROVE  WaitsInv(b', s)
<1> DEFINE m == Bump(b)
           e == [m EXCEPT !.shown = TRUE, !.conn = "down"]
<1>1. b \in Documents /\ m \in Documents /\ Attends(b, m)
    BY DialogDocument, BumpKeeps, BumpAttends DEF Keeps
<1>2. ConnectState(e) \/ b' = e
    BY DEF PageShow
<1> HIDE DEF m
<1>3. /\ e \in Documents /\ e.flow = m.flow /\ e.tr = m.tr /\ e.review = m.review
      /\ e.recovery = m.recovery
    BY <1>1 DEF Documents
<1> HIDE DEF e
<1>4. WaitsInv(e, s)
    BY <1>1, <1>3, LittleAttends, AttendsOnward, AttendsWaits
<1>5. QED
    BY <1>2, <1>3, <1>4, ConnectStateWaits

LEMMA AwaitOverWaits ==
    ASSUME IInv, NEW s, WaitsInv(b, s), AwaitOver
    PROVE  WaitsInv(b', s)
<1>1. b \in Documents /\ b.tr.at \in {"waiting", "dismissing"}
    BY DialogDocument DEF AwaitOver
<1>2. Invalidating(b) => InFlightIn(b)
    BY <1>1, InFlightThen DEF None
<1>3. CASE b' = Over(b)
    BY <1>1, <1>2, <1>3, OverWaits
<1>4. CASE Settled(Over(b), b.tr.retire)
  <2> DEFINE d == Over(b)
  <2>1. d \in Documents /\ d.review = b.review /\ d.flow = b.flow
    BY <1>1 DEF Over, Documents, Transitions
  <2>2. Invalidating(d) => InFlightIn(d)
    BY <1>2, <2>1 DEF Invalidating, InFlightIn
  <2> HIDE DEF d
  <2>3. Settled(d, b.tr.retire)
    BY <1>4 DEF d
  <2>4. QED
    BY <2>1, <2>2, <2>3, SettledWaits
<1>5. CASE b' = [b EXCEPT !.conn = IF b.online THEN "connecting" ELSE "down",
                          !.tr = [at |-> "retiring", gen |-> b.gen, moved |-> FALSE]]
  <2>1. b'.flow = b.flow /\ b'.review = b.review
    BY <1>1, <1>5 DEF Documents
  <2>2. QED
    BY <1>2, <2>1, StillInFlight
<1>6. CASE Successor(b, b.acked # 0)
    BY <1>1, <1>2, <1>6, SuccessorWaits
<1>7. QED
    BY <1>3, <1>4, <1>5, <1>6 DEF AwaitOver

LEMMA AcknowledgeAttends ==
    ASSUME NEW d \in Documents, NEW g \in 0..MaxGens
    PROVE  LET e == Acknowledge(d, g)
           IN e \in Documents /\ Attends(d, e) /\ e.review = d.review /\ e.tr = d.tr
<1>1. CASE d.gen # g
    BY <1>1, AttendsItself DEF Acknowledge
<1>2. CASE d.gen = g
  <2> DEFINE e == [d EXCEPT !.acked = g, !.accepted = FALSE, !.required = FALSE]
  <2>1. /\ e \in Documents /\ e.review = d.review /\ e.flow = d.flow
        /\ e.tr = d.tr /\ e.recovery = d.recovery
    BY DEF Documents
  <2> HIDE DEF e
  <2>2. Attends(d, e)
    BY <2>1, LittleAttends
  <2>3. QED
    BY <1>2, <2>1, <2>2 DEF Acknowledge, e
<1>3. QED
    BY <1>1, <1>2

LEMMA RetiredWaits ==
    ASSUME IInv, NEW s, WaitsInv(b, s), Retired
    PROVE  WaitsInv(b', s)
<1> DEFINE d == Acknowledge(b, b.tr.gen)
           l == Abandon(Bump([d EXCEPT !.socket = 0]))
<1>1. b \in Documents /\ b.tr.at = "retiring" /\ b.tr.gen \in 0..MaxGens
    BY DialogDocument, TransitionParts DEF Retired
<1>2. Invalidating(b) => InFlightIn(b)
    BY <1>1, InFlightThen DEF None
<1>3. d \in Documents /\ Attends(b, d)
    BY <1>1, AcknowledgeAttends
<1>4. \/ b' = Over(IF b.shown THEN [d EXCEPT !.conn = "down"] ELSE d)
      \/ Attempts(l, 0, TRUE)
    BY DEF Retired
<1> HIDE DEF d
<1>5. Invalidating(d) => InFlightIn(d)
    BY <1>1, <1>2, <1>3, AttendsInFlight
<1>6. CASE b' = Over(IF b.shown THEN [d EXCEPT !.conn = "down"] ELSE d)
  <2> DEFINE m == IF b.shown THEN [d EXCEPT !.conn = "down"] ELSE d
  <2>1. m \in Documents /\ Attends(d, m)
    BY <1>3, DownKeeps, DownAttends, AttendsItself DEF Keeps
  <2> HIDE DEF m
  <2>2. Invalidating(m) => InFlightIn(m)
    BY <1>3, <1>5, <2>1, AttendsInFlight
  <2>3. QED
    BY <1>6, <2>1, <2>2, OverWaits DEF m
<1>7. CASE Attempts(l, 0, TRUE)
  <2>1. l \in Documents /\ (Invalidating(l) => InFlightIn(l))
    BY <1>3, <1>5, AbandonedAttends
  <2> HIDE DEF l
  <2>2. QED
    BY <1>7, <2>1, AttemptsWaits
<1>8. QED
    BY <1>4, <1>6, <1>7

LEMMA NotRetiredWaits ==
    ASSUME IInv, NEW s, WaitsInv(b, s), NotRetired
    PROVE  WaitsInv(b', s)
<1> DEFINE m == IF b.shown THEN RetireTasking(b) ELSE b
<1>1. b \in Documents /\ b.tr.at = "retiring" /\ b' = Over(m)
    BY DialogDocument DEF NotRetired
<1>2. m \in Documents /\ Attends(b, m)
    BY <1>1, RetireTaskingKeeps, RetireTaskingAttends, AttendsItself DEF Keeps
<1> HIDE DEF m
<1>3. Invalidating(b) => InFlightIn(b)
    BY <1>1, InFlightThen DEF None
<1>4. QED
    BY <1>1, <1>2, <1>3, AttendsInFlight, OverWaits

LEMMA DelayOverWaits ==
    ASSUME IInv, NEW s, WaitsInv(b, s), DelayOver
    PROVE  WaitsInv(b', s)
<1>1. b \in Documents /\ b.tr.at = "delaying"
    BY DialogDocument DEF DelayOver
<1>2. Invalidating(b) => InFlightIn(b)
    BY <1>1, InFlightThen DEF None
<1>3. CASE b' = Over(b)
    BY <1>1, <1>2, <1>3, OverWaits
<1>4. CASE Attempts(b, b.tr.left - 1, b.tr.final)
    BY <1>1, <1>2, <1>4, AttemptsWaits
<1>5. QED
    BY <1>3, <1>4 DEF DelayOver

LEMMA MessageWaits ==
    ASSUME IInv, NEW s, WaitsInv(b, s), Message
    PROVE  WaitsInv(b', s)
<1> DEFINE g == b.socket
           a == Accepts(b, g)
           t == b.tr.tok
<1>1. b \in Documents
    BY DialogDocument
<1>2. a.review = b.review /\ a.flow = b.flow
    BY <1>1 DEF Accepts, Documents
<1>3. CASE b.tr.at = "binding" /\ b.tr.gen = g
  <2>1. Invalidating(b) => InFlightIn(b)
    BY <1>3, InFlightThen DEF None
  <2>2. b' = a
    BY <1>3 DEF Message
  <2> HIDE DEF a
  <2>3. QED
    BY <1>2, <2>1, <2>2, StillInFlight
<1>4. CASE b.tr.at = "rebinding" /\ b.tr.gen = g
  <2>1. b' = LetsGo(a, t)
    BY <1>4 DEF Message
  <2>2. /\ b'.review = IF a.review.tok = t THEN NoReview ELSE a.review
        /\ b'.flow = a.flow
    BY <1>1, <2>1 DEF LetsGo, Accepts, Documents
  <2> HIDE DEF a
  <2>3. CASE b.review.tok = t
    <3>1. b'.review = NoReview
      BY <1>2, <2>2, <2>3
    <3>2. QED
      BY <3>1 DEF WaitsInv, Invalidating, NoReview
  <2>4. CASE b.review.tok # t
    <3>1. b'.review = b.review /\ b'.flow = b.flow
      BY <1>2, <2>2, <2>4
    <3>2. Invalidating(b) => InFlightIn(b)
      BY <1>4, <2>4 DEF WaitsInv, None
    <3>3. QED
      BY <3>1, <3>2, StillInFlight
  <2>5. QED
    BY <2>3, <2>4
<1>5. CASE ~(b.tr.at \in {"binding", "rebinding"} /\ b.tr.gen = g)
  <2>1. b' = [b EXCEPT !.conn = "connected"]
    BY <1>5 DEF Message
  <2>2. QED
    BY <1>1, <2>1, DownAttends, AttendsWaits
<1>6. QED
    BY <1>3, <1>4, <1>5

LEMMA RefusedWaits ==
    ASSUME NEW d \in Documents, NEW s, Invalidating(d) => InFlightIn(d), NEW duplicate \in BOOLEAN,
           b' = Refused(d, duplicate)
    PROVE  WaitsInv(b', s)
<1>1. b'.flow = d.flow /\ b'.review = d.review
    BY DEF Refused, Over, Documents
<1>2. QED
    BY <1>1, StillInFlight

LEMMA NotAcceptedWaits ==
    ASSUME IInv, NEW s, WaitsInv(b, s), NotAccepted
    PROVE  WaitsInv(b', s)
<1> DEFINE g == b.tr.gen
           owned == b.socket = g \/ b.recovery = g
           z == IF b.socket = g THEN 0 ELSE b.socket
           q == IF b.recovery = g THEN 0 ELSE b.recovery
           u == [b EXCEPT !.socket = z, !.recovery = q]
           bare == Bump(u)
           m == IF ~owned THEN b
                ELSE IF b.tr.at = "rebinding" /\ b.review # NoReview THEN RestoreStranded(bare)
                ELSE [Abandon(bare) EXCEPT !.conn = "down"]
<1>1. b \in Documents /\ b.tr.at \in {"binding", "rebinding"}
    BY DialogDocument DEF NotAccepted
<1>2. z \in 0..MaxGens /\ q \in 0..MaxGens
    BY <1>1, BoundsAreNatural DEF Documents
<1>3. u = [b EXCEPT !.socket = IF @ = g THEN 0 ELSE @, !.recovery = IF @ = g THEN 0 ELSE @]
    BY <1>1 DEF Documents
<1>4. PICK duplicate \in BOOLEAN : b' = Refused(m, duplicate)
  <2>1. PICK dup \in {FALSE, socks[g].at = "refused"} : b' = Refused(m, dup)
    BY <1>3, Zenon DEF NotAccepted
  <2>2. dup \in BOOLEAN
    OBVIOUS
  <2>3. QED
    BY <2>1, <2>2
<1> HIDE DEF z, q
<1>5. u \in Documents /\ u.flow = b.flow /\ u.tr = b.tr /\ u.review = b.review
    BY <1>1, <1>2 DEF Documents
<1> HIDE DEF u
<1>6. bare \in Documents /\ Attends(u, bare)
    BY <1>5, BumpKeeps, BumpAttends DEF Keeps
<1> HIDE DEF bare
<1>7. m \in Documents /\ (Invalidating(m) => InFlightIn(m))
  <2>1. CASE ~owned
    <3>1. Invalidating(b) => InFlightIn(b)
      BY <1>1, <2>1 DEF WaitsInv, None
    <3>2. QED
      BY <1>1, <2>1, <3>1
  <2>2. CASE owned /\ b.tr.at = "rebinding" /\ b.review # NoReview
    <3>1. RestoreStranded(bare) \in Documents /\ ~Invalidating(RestoreStranded(bare))
      BY <1>6, RestoreStrandedKeeps, RestoreStrandedAttends DEF Keeps
    <3>2. QED
      BY <2>2, <3>1
  <2>3. CASE owned /\ (b.tr.at = "binding" \/ b.review = NoReview)
    <3> DEFINE l == Abandon(bare)
               e == [l EXCEPT !.conn = "down"]
    <3>1. l \in Documents /\ Attends(bare, l)
      BY <1>6, AbandonKeeps, AbandonAttends DEF Keeps
    <3>2. m = e
      BY <2>3
    <3> HIDE DEF l
    <3>3. e \in Documents /\ Attends(l, e)
      BY <3>1, DownKeeps, DownAttends DEF Keeps
    <3> HIDE DEF e, m
    <3>4. Attends(u, e)
      BY <1>6, <3>1, <3>3, AttendsOnward
    <3>5. Invalidating(u) => InFlightIn(u)
      <4>1. CASE b.tr.at = "binding"
        BY <1>1, <1>5, <4>1, InFlightThen DEF Invalidating, InFlightIn, None
      <4>2. CASE b.review = NoReview
        BY <1>5, <4>2 DEF Invalidating, NoReview
      <4>3. QED
        BY <2>3, <4>1, <4>2
    <3>6. QED
      BY <1>5, <3>2, <3>3, <3>4, <3>5, AttendsInFlight
  <2>4. QED
    BY <1>1, <2>1, <2>2, <2>3
<1> HIDE DEF m
<1>8. QED
    BY <1>4, <1>7, RefusedWaits

----------------------------------------------------------------------------
(* ... and recovering                                                      *)

LEMMA RestoredWaits ==
    ASSUME NEW d \in Documents, NEW s
    PROVE  WaitsInv(Over(RestoreStranded(d)), s)
<1>1. RestoreStranded(d) \in Documents /\ ~Invalidating(RestoreStranded(d))
    BY RestoreStrandedKeeps, RestoreStrandedAttends DEF Keeps
<1>2. QED
    BY <1>1, OverWaits

LEMMA RebindsWaits ==
    ASSUME NEW d \in Documents, NEW s, NEW t \in Tokens, Rebinds(d, t)
    PROVE  WaitsInv(b', s)
<1>1. CASE b' = Over(RestoreStranded(d))
    BY <1>1, RestoredWaits
<1>2. CASE b' = Over(RestoreStranded([d EXCEPT !.recovery = 0]))
  <2>1. [d EXCEPT !.recovery = 0] \in Documents
    BY BoundsAreNatural DEF Documents
  <2>2. QED
    BY <1>2, <2>1, RestoredWaits
<1>3. ASSUME NEW g \in Fresh, d.review = [tok |-> t, status |-> "invalidating"],
             b' = [d EXCEPT !.socket = g, !.recovery = g,
                            !.tr = [at |-> "rebinding", gen |-> g, tok |-> t, moved |-> FALSE]]
      PROVE  WaitsInv(b', s)
  <2> DEFINE r == [at |-> "rebinding", gen |-> g, tok |-> t, moved |-> FALSE]
             e == [d EXCEPT !.socket = g, !.recovery = g, !.tr = r]
  <2>1. r.at = "rebinding" /\ r.gen = g /\ r.tok = t /\ d.review.tok = t
    BY <1>3
  <2>2. b' = e
    BY <1>3
  <2> HIDE DEF r
  <2>3. e.tr = r /\ e.recovery = g /\ e.review = d.review
    BY DEF Documents
  <2> HIDE DEF e
  <2>4. QED
    BY <2>1, <2>2, <2>3 DEF WaitsInv
<1>4. QED
    BY <1>1, <1>2, <1>3 DEF Rebinds

LEMMA RecoverWaits ==
    ASSUME IInv, NEW s, WaitsInv(b, s), Recover
    PROVE  WaitsInv(b', s)
<1> DEFINE t == b.review.tok
           v == [tok |-> t, status |-> "invalidating"]
           r == [at |-> "recovering", gen |-> b.gen, tok |-> t, moved |-> FALSE]
           d == [b EXCEPT !.review = v, !.conn = "connecting", !.tr = r]
<1>1. /\ b \in Documents /\ b.review.status = "stranded" /\ b.review \in Reviews
      /\ b.gen \in 0..MaxGens
    BY DialogDocument DEF Recover, Documents
<1>2. t \in Tokens /\ [b.review EXCEPT !.status = "invalidating"] = v
    BY <1>1, ReviewParts
<1>3. v \in Reviews /\ v.tok = t
    BY <1>2 DEF Reviews
<1>4. r \in Transitions /\ r.at = "recovering" /\ r.tok = t
    BY <1>1, <1>2 DEF Transitions
<1>5. b' = [b EXCEPT !.conn = "down"] \/ b' = d \/ Rebinds(d, t)
  <2>1. d = [b EXCEPT !.review.status = "invalidating", !.conn = "connecting", !.tr = r]
    BY <1>1, <1>2 DEF Documents
  <2>2. QED
    BY <2>1 DEF Recover
<1> HIDE DEF t, v, r
<1>6. d \in Documents /\ d.tr = r /\ d.review = v
    BY <1>1, <1>3, <1>4 DEF Documents
<1> HIDE DEF d
<1>7. CASE b' = [b EXCEPT !.conn = "down"]
    BY <1>1, <1>7, DownAttends, AttendsWaits
<1>8. CASE b' = d
    BY <1>3, <1>4, <1>6, <1>8 DEF WaitsInv
<1>9. CASE Rebinds(d, t)
    BY <1>2, <1>6, <1>9, RebindsWaits
<1>10. QED
    BY <1>5, <1>7, <1>8, <1>9

LEMMA RecoveryRetiredWaits ==
    ASSUME IInv, NEW s, WaitsInv(b, s), RecoveryRetired, b.shown \/ s
    PROVE  WaitsInv(b', s)
<1> DEFINE d == Acknowledge(b, b.tr.gen)
<1>1. b \in Documents /\ b.tr.tok \in Tokens /\ b.tr.gen \in 0..MaxGens
    BY DialogDocument, TransitionParts DEF RecoveryRetired
<1>2. IF ~b.shown THEN b' = Over(d) /\ UNCHANGED socks ELSE Rebinds(d, b.tr.tok)
    BY DEF RecoveryRetired
<1>3. d \in Documents
    BY <1>1, AcknowledgeAttends
<1> HIDE DEF d
<1>4. QED
    BY <1>1, <1>2, <1>3, OverWaits, RebindsWaits

LEMMA RecoveryFailsWaits ==
    ASSUME IInv, NEW s, WaitsInv(b, s), RecoveryFails, b.shown \/ s
    PROVE  WaitsInv(b', s)
<1>1. b \in Documents /\ b' = Over(IF b.shown THEN RestoreStranded(b) ELSE b)
    BY DialogDocument DEF RecoveryFails
<1>2. CASE b.shown
    BY <1>1, <1>2, RestoredWaits
<1>3. CASE ~b.shown
    BY <1>1, <1>3, OverWaits
<1>4. QED
    BY <1>2, <1>3

LEMMA ReloadWaits ==
    ASSUME NEW s, Reload
    PROVE  WaitsInv(b', s)
<1>1. b'.review = NoReview
    BY DEF Reload, Document
<1>2. QED
    BY <1>1 DEF WaitsInv, Invalidating, NoReview

(* A step that is not the exception keeps the dialog waiting, or ends it.  *)
LEMMA WaitsGoOn ==
    ASSUME IInv, NEW s \in BOOLEAN, WaitsInv(b, s), [Next]_vars, EndsUnseen => s
    PROVE  WaitsInv(b', s)
<1>1. CASE b' = b
    BY <1>1
<1>2. ASSUME NEW t \in Tokens,
             \/ Prepare(t) \/ Prepared(t) \/ PrepareDenied(t) \/ PrepareUnproven(t)
             \/ CandidateDiscarded(t) \/ CandidateKept(t)
             \/ ConfirmAnswered(t) \/ Dismissed(t) \/ Stranded(t)
      PROVE  WaitsInv(b', s)
    BY <1>2, PreparationWaits, PreparationEndsWaits, CandidateKeptWaits, AnsweredWaits,
       StrandedWaits
<1>3. ASSUME NEW t \in Tokens,
             ServePrepare(t) \/ ServeConfirm(t) \/ SendEnds(t) \/ ServeDiscard(t)
      PROVE  WaitsInv(b', s)
    BY <1>1, <1>3 DEF ServePrepare, ServeConfirm, SendEnds, ServeDiscard
<1>4. CASE Confirm \/ Dismiss \/ SelectEntity
    BY <1>4, ReviewedWaits, SelectEntityWaits
<1>5. CASE Reconnect \/ AwaitOver \/ Retired \/ NotRetired
    BY <1>5, ReconnectWaits, AwaitOverWaits, RetiredWaits, NotRetiredWaits
<1>6. CASE Message \/ Disconnected \/ NotAccepted \/ DelayOver
    BY <1>6, MessageWaits, DisconnectedWaits, NotAcceptedWaits, DelayOverWaits
<1>7. CASE Recover
    BY <1>7, RecoverWaits
<1>8. CASE RecoveryRetired \/ RecoveryFails
  <2>1. ~b.shown => b'.tr = NoTransition
    <3>1. b \in Documents /\ b.tr.gen \in 0..MaxGens
      BY <1>8, DialogDocument, TransitionParts DEF RecoveryRetired, RecoveryFails
    <3>2. Acknowledge(b, b.tr.gen) \in Documents
      BY <3>1, AcknowledgeAttends
    <3>3. \A d \in Documents : Over(d).tr = NoTransition
      BY DEF Over, Documents
    <3>4. QED
      BY <1>8, <3>1, <3>2, <3>3 DEF RecoveryRetired, RecoveryFails
  <2>2. b.shown \/ s
    BY <1>8, <2>1 DEF EndsUnseen, RecoveryRetired, RecoveryFails
  <2>3. QED
    BY <1>8, <2>2, RecoveryRetiredWaits, RecoveryFailsWaits
<1>9. CASE NetworkChanges \/ PageHide \/ PageShow \/ Reload
    BY <1>9, NetworkWaits, PageHideWaits, PageShowWaits, ReloadWaits
<1>10. CASE Vanishes \/ UNCHANGED vars
    BY <1>1, <1>10 DEF Vanishes, vars
<1>11. ASSUME NEW g \in Gens, ServeRetire(g) \/ Serve(g) \/ SocketEnds(g)
       PROVE  WaitsInv(b', s)
    BY <1>1, <1>11 DEF ServeRetire, Serve, SocketEnds
<1>12. QED
    BY <1>2, <1>3, <1>4, <1>5, <1>6, <1>7, <1>8, <1>9, <1>10, <1>11 DEF Next

(* No step takes from a dialog that says it is waiting (main.ts,            *)
(* "invalidating") the answer or the recovery that it waits for and leaves  *)
(* it up: whatever WebSocket is lost, refused, replaced or not made, and    *)
(* however the retirement of its view ends, but for the return of a         *)
(* recovery whose page is hidden.                                          *)
THEOREM DialogsWait == Spec => DialogWaits
<1>1. Init => WaitsInv(b, TRUE)
    BY DEF Init, Document, WaitsInv, Invalidating, NoReview
<1>2. IInv /\ WaitsInv(b, TRUE) /\ [Next]_vars => WaitsInv(b', TRUE)
    BY WaitsGoOn
<1>3. IInv /\ WaitsInv(b, TRUE) /\ [Next]_vars => [Awaits => Awaits' \/ EndsUnseen]_vars
  <2> SUFFICES ASSUME IInv, WaitsInv(b, TRUE), [Next]_vars, Awaits, ~EndsUnseen
               PROVE  Awaits'
    OBVIOUS
  <2>1. WaitsInv(b, FALSE)
    BY DEF WaitsInv, Awaits, Invalidating, InFlight, InFlightIn, None
  <2>2. WaitsInv(b', FALSE)
    BY <2>1, WaitsGoOn
  <2>3. QED
    BY <2>2 DEF WaitsInv, Awaits, Invalidating, InFlight, InFlightIn
<1>4. WaitsInv(b, TRUE)' <=> WaitsInv(b', TRUE)
    BY DEF WaitsInv, Invalidating, InFlightIn
<1>5. QED
    BY <1>1, <1>2, <1>3, <1>4, ViewInvariant, PTL DEF Spec, DialogWaits

=============================================================================
