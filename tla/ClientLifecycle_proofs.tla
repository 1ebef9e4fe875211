------------------------ MODULE ClientLifecycle_proofs ------------------------
(***************************************************************************)
(* For any budgets, failures, sessions and callers: the types; that        *)
(* whoever waits for readiness is answered and the status shown is the     *)
(* present one (Informed); that a client that says it is on its way has    *)
(* something at work on it (Driven); that readiness comes with the session *)
(* the supervisor restored (ReadyIsReal); and that attempts are forgotten  *)
(* for a reason only (BudgetIsEarned).  The inductive invariant says which *)
(* flags each place of the supervisor allows, who waits for a supervisor   *)
(* that was cancelled, and what a restart that is yet to come may count on.*)
(***************************************************************************)
EXTENDS ClientLifecycle, NaturalsInduction, WellFoundedInduction, TLAPS

----------------------------------------------------------------------------
(* The inductive invariant.                                                *)
States == {"created", "starting", "ready", "reconnecting", "failed", "closing", "closed"}
SnapStates == {"inactive", "connecting", "scheduled", "waiting_for_credentials", "terminal"}
FailureCodes ==
    Transient \cup CredentialCodes \cup NewClientNeeded \cup
    {"server_reference_requires_review", "subscription_denied", "subscription_resource_limit",
     "protocol_failure", "connection_authorization_denied", "connection_rejected",
     "connection_resource_limit"}
Codes == FailureCodes \cup Exhausted \cup {NoFailure}
Snapshots == [state : SnapStates, code : Codes]
Statuses == [state : States, ready : BOOLEAN, connected : BOOLEAN, gen : Nat,
             code : Codes, retry : SnapStates]
Clients == [state : States, connected : BOOLEAN, gen : Nat, rtg : Nat, code : Codes,
            retry : SnapStates, waiting : SUBSET Callers, shown : Statuses]

Shape ==
    /\ cl \in Clients /\ snap \in Snapshots
    /\ sup = "clearing" => why \in Errors
    /\ prints = 3 => sup \in {"ending", "none"}

(* A cancelled supervisor is one that somebody waits for, and from whose   *)
(* end on the transport stays closed.                                      *)
Holding == {"serving", "clearing", "ending"}
ClosingInv ==
    /\ stop => closing /\ Alive
    /\ closing => ~owned
    /\ Alive => owned \/ stop
    /\ startup \in {"closing", "close_cancelled"} \/ cleanup = "closing" => closing
    /\ cleanup \in Running => ~services
    /\ startup \in {"cancelled", "close_cancelled"} => closer \in {"joining", "done"}
    /\ closer \in {"joining", "done"} => startup \in {"none", "cancelled", "close_cancelled"}
    /\ stop => \/ awaits = "startup" /\ startup = "closing"
               \/ awaits = "cleanup" /\ cleanup = "closing"
               \/ closer \in {"joining", "done"}

(* What is left of a connection in each place of the supervisor.           *)
LinkInv ==
    /\ usable => connected /\ sup \in Holding
    /\ connected => sup \in Holding \cup {"restoring"}
    /\ connected /\ sup = "ending" => closing
    /\ sup = "restoring" /\ ~closing => connected
    /\ usable /\ sup = "clearing" => wasReady
    /\ wasReady => sup \in {"clearing", "ending"}
    /\ call.open => sup \in Holding

(* The stable period is measured from the readiness that stands.           *)
ClockInv ==
    /\ readyAge # None /\ ~closing => sup \in {"serving", "clearing"}
    /\ readyAge # None /\ ~closing /\ sup = "clearing" => wasReady
    /\ \A t \in timer : readyAge # None => t.age <= readyAge

(* An episode that was asked for finds the failure it was asked for.       *)
RestartInv ==
    /\ restart.due => restart.codes # {} /\ sup \in {"none", "attempt", "ending"}
    /\ restart.due /\ sup = "ending" => closing
    /\ restart.codes # {} => Alive \/ restart.due
    /\ restart.codes # {} /\ ~closing /\ sup \in {"none", "ending"} => Revivable(restart.codes)

(* The client: nobody is left waiting, and what is shown is stale at most  *)
(* while a loss that is decided is yet to be announced.                    *)
Quiet(c, ready) == c.waiting # {} => ~IsReady(c, ready) /\ c.state \notin Closed \cup {"failed"}
Fresh(c, ready) == c.shown = Status(c, ready)
ClientInv ==
    /\ cl.connected => connected
    /\ closer # "idle" <=> cl.state \in Closed
    /\ Quiet(cl, strict)
    /\ closer = "idle" => Fresh(cl, strict) \/ (cl.connected /\ sup \in {"clearing", "ending"})

(* Who works on a client that is on its way.                               *)
OnItsWay == cl.state \in {"starting", "reconnecting"}
DrivenInv ==
    /\ OnItsWay => Alive \/ restart.codes # {} \/ startup # "none" \/ closing
    /\ OnItsWay /\ sup = "ending" => restart.codes # {} \/ startup # "none" \/ closing
    /\ sup = "sleeping" /\ ~stop => /\ snap.state \in {"scheduled", "waiting_for_credentials"}
                                    /\ snap.code \notin Exhausted

IInv == /\ TypeOK /\ Shape
        /\ ClosingInv /\ LinkInv /\ ClockInv /\ RestartInv /\ ClientInv /\ DrivenInv
----------------------------------------------------------------------------
(* The operators of the client's record.                                   *)
Published(d, c, s) ==
    /\ d \in Clients /\ d.state = c.state /\ d.connected = c.connected
    /\ d.rtg = c.rtg /\ d.waiting \subseteq c.waiting
    /\ Fresh(d, s) /\ Quiet(d, s)

LEMMA PublishFacts ==
    ASSUME NEW c \in Clients, NEW s \in BOOLEAN
    PROVE  Published(Publish(c, s), c, s)
<1> DEFINE shown == Status(c, s)
           waiting == IF Answered(c, s) THEN {} ELSE c.waiting
           d == Publish(c, s)
<1>1. shown \in Statuses
    BY DEF Clients, Statuses, Status, IsReady
<1>2. waiting \in SUBSET Callers /\ waiting \subseteq c.waiting
    BY DEF Clients
<1>3. d = [c EXCEPT !.shown = shown, !.waiting = waiting]
    BY DEF Publish
<1> HIDE DEF shown, waiting, d
<1>4. /\ d \in Clients /\ d.shown = shown /\ d.waiting = waiting
      /\ d.state = c.state /\ d.connected = c.connected /\ d.gen = c.gen /\ d.rtg = c.rtg
      /\ d.code = c.code /\ d.retry = c.retry
    BY <1>1, <1>2, <1>3 DEF Clients
<1>5. Fresh(d, s)
    BY <1>4 DEF Fresh, Status, IsReady, shown
<1>6. Quiet(d, s)
    BY <1>4 DEF Quiet, Answered, IsReady, waiting
<1>7. QED
    BY <1>2, <1>4, <1>5, <1>6 DEF d, Published

SetTo(d, c, st, s) ==
    /\ d \in Clients /\ d.state = st /\ d.connected = c.connected /\ d.rtg = c.rtg
    /\ Fresh(d, s) /\ Quiet(d, s)

LEMMA SetStateFacts ==
    ASSUME NEW c \in Clients, NEW st \in States, NEW s \in BOOLEAN
    PROVE  SetTo(SetState(c, st, s), c, st, s)
<1> DEFINE retry == CASE st \in Closed \cup {"starting"} -> "inactive"
                      [] st = "failed" -> "terminal"
                      [] OTHER -> c.retry
           e == [c EXCEPT !.state = st, !.retry = retry]
<1>1. retry \in SnapStates
    BY DEF Clients, SnapStates
<1>2. SetState(c, st, s) = Publish(e, s)
    BY DEF SetState
<1> HIDE DEF retry
<1>3. e \in Clients /\ e.state = st /\ e.connected = c.connected /\ e.rtg = c.rtg
    BY <1>1 DEF Clients
<1> HIDE DEF e
<1>4. Published(Publish(e, s), e, s)
    BY <1>3, PublishFacts
<1>5. QED
    BY <1>2, <1>3, <1>4 DEF Published, SetTo

(* Without a connection strict readiness makes no difference.              *)
LEMMA Unconnected ==
    ASSUME NEW c \in Clients, c.connected = FALSE, NEW s \in BOOLEAN, NEW t \in BOOLEAN
    PROVE  (Fresh(c, s) => Fresh(c, t)) /\ (Quiet(c, s) => Quiet(c, t))
BY DEF Fresh, Quiet, Status, IsReady

Answering(c) == c.waiting # {} => c.state \notin Closed \cup {"failed"}

(* The connection is lost, and that is shown.                              *)
Dropped(d, c, t) ==
    /\ d \in Clients /\ d.connected = FALSE /\ d.rtg = c.rtg
    /\ d.state = c.state \/ (c.state = "ready" /\ d.state = "reconnecting" /\ c.connected)
    /\ d.state \in Closed <=> c.state \in Closed
    /\ Quiet(d, t)
    /\ c.connected => Fresh(d, t)
    /\ ~c.connected => d = c

LEMMA LostFacts ==
    ASSUME NEW c \in Clients, Answering(c), NEW t \in BOOLEAN
    PROVE  Dropped(Lost(c), c, t)
<1>1. CASE c.connected = FALSE
  <2>1. Lost(c) = c
    BY <1>1 DEF Lost, OnConnection
  <2>2. Quiet(c, t)
    BY <1>1 DEF Quiet, Answering, IsReady
  <2>3. QED
    BY <1>1, <2>1, <2>2 DEF Dropped
<1>2. CASE c.connected
  <2> DEFINE e == [c EXCEPT !.connected = FALSE,
                            !.state = IF ~FALSE /\ @ = "ready" THEN "reconnecting" ELSE @]
  <2>1. Lost(c) = Publish(e, FALSE)
    BY <1>2 DEF Lost, OnConnection
  <2>2. /\ e \in Clients /\ e.connected = FALSE /\ e.rtg = c.rtg
        /\ e.state = IF c.state = "ready" THEN "reconnecting" ELSE c.state
    BY DEF Clients, States
  <2> HIDE DEF e
  <2> DEFINE d == Publish(e, FALSE)
  <2>3. /\ d \in Clients /\ d.state = e.state /\ d.connected = FALSE /\ d.rtg = c.rtg
        /\ Fresh(d, FALSE) /\ Quiet(d, FALSE)
    BY <2>2, PublishFacts DEF Published
  <2> HIDE DEF d
  <2>4. Fresh(d, t) /\ Quiet(d, t)
    BY <2>3 DEF Fresh, Quiet, Status, IsReady
  <2>5. QED
    BY <1>2, <2>1, <2>2, <2>3, <2>4 DEF d, Closed, Dropped
<1>3. QED
    BY <1>1, <1>2 DEF Clients

Up(c, s) == OnConnection(c, TRUE, s)
Raises(d, c, s) ==
    /\ d \in Clients /\ d.state = c.state /\ d.rtg = c.rtg
    /\ Quiet(d, s) /\ (Fresh(c, s) => Fresh(d, s))

LEMMA ConnectionFacts ==
    ASSUME NEW c \in Clients, NEW s \in BOOLEAN, Quiet(c, s)
    PROVE  Raises(Up(c, s), c, s)
<1>1. CASE c.state \in Closed \/ c.connected = TRUE
    BY <1>1 DEF OnConnection, Up, Raises
<1>2. CASE ~(c.state \in Closed \/ c.connected = TRUE)
  <2> DEFINE e == [c EXCEPT !.connected = TRUE,
                            !.state = IF ~TRUE /\ @ = "ready" THEN "reconnecting" ELSE @]
  <2>1. Up(c, s) = Publish(e, s)
    BY <1>2 DEF OnConnection, Up
  <2>2. e \in Clients /\ e.state = c.state /\ e.rtg = c.rtg
    BY DEF Clients
  <2> HIDE DEF e
  <2>3. Published(Publish(e, s), e, s)
    BY <2>2, PublishFacts
  <2>4. QED
    BY <2>1, <2>2, <2>3 DEF Published, Raises
<1>3. QED
    BY <1>1, <1>2

(* A snapshot is announced, for a strict readiness that is the present one *)
(* or makes no difference.                                                 *)
Announced(d, c, sn, s, g, t) ==
    /\ d \in Clients /\ d.connected = c.connected
    /\ c.state \in Closed => d = c
    /\ d.state \in Closed <=> c.state \in Closed
    /\ Quiet(d, t)
    /\ c.state \notin Closed => Fresh(d, t)
    /\ d.state \in {c.state, "failed", "reconnecting", "ready"}
    /\ sn.state = "terminal" /\ c.state \notin Closed => d.state = "failed"
    /\ d.state = "reconnecting" /\ c.state # "reconnecting" => sn.state = "connecting"
    /\ d.state = "ready" /\ c.state # "ready" => s /\ c.connected /\ d.rtg = g

LEMMA RecoveryFacts ==
    ASSUME NEW c \in Clients, NEW sn \in Snapshots, NEW s \in BOOLEAN, NEW g \in Nat,
           NEW t \in BOOLEAN, Answering(c), s = t \/ c.connected = FALSE
    PROVE  Announced(OnRecovery(c, sn, s, g), c, sn, s, g, t)
<1>1. CASE c.state \in Closed
  <2>1. OnRecovery(c, sn, s, g) = c
    BY <1>1 DEF OnRecovery
  <2>2. Quiet(c, t)
    BY <1>1 DEF Quiet, Answering
  <2>3. QED
    BY <1>1, <2>1, <2>2 DEF Closed, Announced
<1>2. CASE c.state \notin Closed
  <2> DEFINE code == IF sn.code = NoFailure THEN c.code ELSE sn.code
             next == Follows(c, sn, s, code)
             established == sn.state = "inactive" /\ c.connected /\ s
             gen == IF established /\ c.state # "ready" THEN c.gen + 1 ELSE c.gen
             rtg == IF established THEN g ELSE c.rtg
             e == [c EXCEPT !.retry = sn.state, !.code = code, !.state = next,
                            !.gen = IF established /\ c.state # "ready" THEN @ + 1 ELSE @,
                            !.rtg = IF established THEN g ELSE @]
  <2>1. OnRecovery(c, sn, s, g) = Publish(e, s)
    BY <1>2 DEF OnRecovery
  <2>2. code \in Codes /\ sn.state \in SnapStates /\ gen \in Nat /\ rtg \in Nat
    BY DEF Clients, Snapshots
  <2>3. /\ next \in {c.state, "failed", "reconnecting", "ready"}
        /\ sn.state = "terminal" => next = "failed"
        /\ next = "reconnecting" /\ c.state # "reconnecting" => sn.state = "connecting"
        /\ next = "ready" /\ c.state # "ready" => established
    BY DEF Follows
  <2>4. next \in States
    BY <2>3 DEF States, Clients
  <2>5. e = [c EXCEPT !.retry = sn.state, !.code = code, !.state = next, !.gen = gen, !.rtg = rtg]
    BY DEF Clients
  <2> HIDE DEF e, code, next, gen, rtg
  <2>6. e \in Clients /\ e.state = next /\ e.connected = c.connected /\ e.rtg = rtg
    BY <2>2, <2>4, <2>5 DEF Clients
  <2> DEFINE d == Publish(e, s)
  <2>7. /\ d \in Clients /\ d.state = next /\ d.connected = c.connected /\ d.rtg = rtg
        /\ Fresh(d, s) /\ Quiet(d, s)
    BY <2>6, PublishFacts DEF Published
  <2> HIDE DEF d
  <2>8. Fresh(d, t) /\ Quiet(d, t)
    BY <2>7 DEF Fresh, Quiet, Status, IsReady
  <2>9. d.state \notin Closed
    BY <1>2, <2>3, <2>7 DEF Closed
  <2>10. QED
    BY <1>2, <2>1, <2>3, <2>7, <2>8, <2>9 DEF d, rtg, Announced
<1>3. QED
    BY <1>1, <1>2

(* The same when nobody is ready, as the supervisor tells it.              *)
ToldOf(d, c, sn, t) ==
    /\ d \in Clients /\ d.connected = c.connected
    /\ d.state \in Closed <=> c.state \in Closed
    /\ Quiet(d, t) /\ (c.state \notin Closed => Fresh(d, t))
    /\ d.state \in {c.state, "failed", "reconnecting"}
    /\ sn.state = "terminal" => d.state \in Closed \cup {"failed"}
    /\ d.state = "reconnecting" /\ c.state # "reconnecting" => sn.state = "connecting"

LEMMA ToldFacts ==
    ASSUME NEW c \in Clients, NEW sn \in Snapshots, session \in Nat, NEW t \in BOOLEAN,
           Answering(c), t = FALSE \/ c.connected = FALSE
    PROVE  ToldOf(Told(c, sn), c, sn, t)
<1>1. PICK s \in BOOLEAN : s = FALSE
    OBVIOUS
<1>2. Told(c, sn) = OnRecovery(c, sn, s, session)
    BY <1>1 DEF Told
<1> DEFINE d == OnRecovery(c, sn, s, session)
<1>3. s = t \/ c.connected = FALSE
    BY <1>1
<1>4. Announced(d, c, sn, s, session, t)
    BY <1>3, RecoveryFacts
<1> HIDE DEF d
<1>5. QED
    BY <1>1, <1>2, <1>4 DEF d, Announced, ToldOf

RevivedAs(d, c, before, allowed, s) ==
    /\ d \in Clients /\ d.connected = c.connected /\ d.rtg = c.rtg
    /\ d.state \in Closed <=> c.state \in Closed
    /\ Quiet(d, s) /\ (Fresh(c, s) => Fresh(d, s))
    /\ \/ d = c
       \/ /\ d.state = "reconnecting" /\ Fresh(d, s) /\ c.state = "failed"
          /\ before.state = "terminal" /\ before.code \in allowed

LEMMA RevivedFacts ==
    ASSUME NEW c \in Clients, NEW before, NEW allowed, NEW s \in BOOLEAN, Quiet(c, s)
    PROVE  RevivedAs(Revived(c, before, allowed, s), c, before, allowed, s)
<1> DEFINE revives == /\ c.state = "failed" /\ before.state = "terminal" /\ before.code \in allowed
                      /\ c.gen > 0 \/ before.code \in Exhausted
<1>1. CASE ~revives
    BY <1>1 DEF Revived, RevivedAs
<1>2. CASE revives
  <2> DEFINE e == [c EXCEPT !.retry = "connecting", !.state = "reconnecting"]
  <2>1. Revived(c, before, allowed, s) = Publish(e, s)
    BY <1>2 DEF Revived
  <2>2. e \in Clients /\ e.state = "reconnecting" /\ e.connected = c.connected /\ e.rtg = c.rtg
    BY DEF Clients, States, SnapStates
  <2> HIDE DEF e
  <2>3. Published(Publish(e, s), e, s)
    BY <2>2, PublishFacts
  <2>4. QED
    BY <1>2, <2>1, <2>2, <2>3 DEF Closed, Published, RevivedAs
<1>3. QED
    BY <1>1, <1>2
----------------------------------------------------------------------------
(* The classes of failures.                                                *)
LEMMA Assumptions ==
    /\ MaxAttempts \in Nat \ {0} /\ MaxElapsed \in Nat \ {0}
    /\ StableAfter \in Nat \ {0} /\ MaxSessions \in Nat
    /\ \A p \in DOMAIN Fails : Fails[p] \subseteq Errors
BY FailsAssumption, BudgetAssumption DEF Errors

LEMMA MinIsMember ==
    ASSUME NEW S \in SUBSET Nat, S # {}
    PROVE  Min(S) \in S
<1>1. PICK x \in S : \A y \in S : <<y, x>> \notin OpToRel(<, Nat)
    BY NatLessThanWellFounded, WFMin
<1>2. ASSUME NEW y \in S PROVE x <= y
  <2>1. <<y, x>> \in Nat \X Nat /\ <<y, x>>[1] = y /\ <<y, x>>[2] = x
    OBVIOUS
  <2>2. ~(y < x)
    BY <1>1, <2>1, Zenon DEF OpToRel
  <2>3. QED
    BY <2>2
<1>3. QED
    BY <1>2 DEF Min

LEMMA PhaseTimeoutCodes ==
    ASSUME NEW phase, NEW terminal \in BOOLEAN
    PROVE  PhaseTimeout(phase, terminal).code \in FailureCodes
<1> DEFINE c == CASE phase = "dns" -> "dns_unavailable"
                  [] phase = "tcp" -> "tcp_unavailable"
                  [] phase = "tls" -> "tls_unavailable"
                  [] OTHER -> "broker_unavailable"
           q == [Retried(c, phase) EXCEPT !.terminal = terminal]
<1>1. c \in FailureCodes
    BY DEF FailureCodes, Transient
<1>2. q.code = c
    BY DEF Retried
<1>3. \A code : Final(code, phase).code = code
    BY DEF Retried, Final
<1>4. PhaseTimeout(phase, terminal) =
          IF phase = "resolve_credentials" THEN Final("credentials_unavailable", phase)
          ELSE IF phase = "configure" THEN Final("configuration_invalid", phase) ELSE q
    BY DEF PhaseTimeout
<1> HIDE DEF c, q
<1>5. QED
    BY <1>1, <1>2, <1>3, <1>4 DEF FailureCodes, CredentialCodes, NewClientNeeded

(* A class of failure has a code of its own: retries run out by being      *)
(* counted, never by how an attempt failed.                                *)
LEMMA Classified ==
    ASSUME NEW e, NEW ever \in BOOLEAN, NEW used \in BOOLEAN, NEW was \in BOOLEAN
    PROVE  Classify(e, ever, used, was).code \in FailureCodes
<1> DEFINE R == Rules(e, ever, used, was)
           S == {i \in DOMAIN R : R[i].if}
<1>1. \A code, op : Retried(code, op).code = code /\ Final(code, op).code = code
    BY DEF Retried, Final
<1>2. DOMAIN R = 1..23 /\ R[23].if
    BY DEF Rules
<1>3. PhaseTimeout(e.op, FALSE).code \in FailureCodes
    BY <1>1, PhaseTimeoutCodes, Zenon
<1>4. Unauthenticated(ever, used).code \in FailureCodes
    BY DEF Unauthenticated, Retried, Final, FailureCodes, CredentialCodes
<1>5. Refused(e, ever, used).code \in FailureCodes
  <2>1. [Final("protocol_failure", "connect") EXCEPT !.print = <<"connack", e.rc>>].code
            = "protocol_failure"
    BY DEF Final, Retried
  <2>2. QED
    BY <1>1, <1>4, <2>1 DEF Refused, FailureCodes, NewClientNeeded, Transient
<1>6. /\ Unprotocolled(e).code \in FailureCodes
      /\ [Final("protocol_failure", "connect") EXCEPT !.print = <<"connack", e.rc>>].code \in FailureCodes
      /\ [Retried("dns_unavailable", "dns") EXCEPT !.terminal = ~ever].code \in FailureCodes
    BY DEF Unprotocolled, Final, Retried, FailureCodes, Transient
<1>7. \A i \in 1..23 : R[i].then.code \in FailureCodes
  <2>1. \A op : /\ \A c \in {"server_reference_requires_review", "tls_peer_verification_failed",
                             "configuration_invalid", "credentials_unavailable",
                             "subscription_denied", "subscription_resource_limit"} :
                       Final(c, op).code \in FailureCodes
                /\ \A c \in Transient : Retried(c, op).code \in FailureCodes
    BY <1>1 DEF FailureCodes, CredentialCodes, NewClientNeeded
  <2>2. R[1].then.code \in FailureCodes /\ R[2].then.code \in FailureCodes
    BY <1>6, <2>1 DEF Rules, Transient
  <2>3. \A i \in 3..6 : R[i].then.code \in FailureCodes
    BY <2>1 DEF Rules, Transient
  <2>4. R[7].then.code \in FailureCodes
    BY <1>3 DEF Rules
  <2>5. \A i \in 8..10 : R[i].then.code \in FailureCodes
    BY <2>1 DEF Rules
  <2>6. \A i \in 11..13 : R[i].then.code \in FailureCodes
    BY <2>1 DEF Rules, Transient
  <2>7. R[14].then.code \in FailureCodes /\ R[15].then.code \in FailureCodes
    BY <1>6 DEF Rules
  <2>8. R[16].then.code \in FailureCodes
    BY <1>5 DEF Rules
  <2>9. \A i \in 17..21 : R[i].then.code \in FailureCodes
    BY <2>1 DEF Rules, Transient
  <2>10. R[22].then.code \in FailureCodes /\ R[23].then.code \in FailureCodes
    BY <2>1 DEF Rules, Transient
  <2>11. \A i \in 1..23 : i \in {1, 2, 7, 14, 15, 16, 22, 23} \cup 3..6 \cup 8..10
                                \cup 11..13 \cup 17..21
    OBVIOUS
  <2>12. QED
    BY <2>2, <2>3, <2>4, <2>5, <2>6, <2>7, <2>8, <2>9, <2>10, <2>11
<1>8. Min(S) \in DOMAIN R
  <2>1. S \in SUBSET Nat /\ 23 \in S
    BY <1>2
  <2>2. QED
    BY <2>1, MinIsMember
<1>9. Classify(e, ever, used, was) = R[Min(S)].then
    BY DEF Classify
<1>10. QED
    BY <1>2, <1>7, <1>8, <1>9

LEMMA Judged ==
    ASSUME NEW e \in Errors, NEW ever \in BOOLEAN, NEW used \in BOOLEAN, NEW was \in BOOLEAN,
           NEW p, NEW n \in 0..2
    PROVE  LET c0 == ClassOf[<<e, ever, used, was>>]
               c == Limited(c0, p, n) IN
           /\ c.code \in FailureCodes /\ OutOfBudget(c.code).code \in Codes
           /\ Streak(c0, p, n) \in 0..3 /\ (Streak(c0, p, n) = 3 => c.terminal)
<1> DEFINE c0 == ClassOf[<<e, ever, used, was>>]
           c == Limited(c0, p, n)
<1>1. c0 = Classify(e, ever, used, was)
    BY DEF ClassOf
<1>2. c0.code \in FailureCodes
    BY <1>1, Classified
<1> HIDE DEF c0
<1>3. \A code, op : /\ Final(code, op).code = code /\ Final(code, op).terminal = TRUE
    BY DEF Final, Retried
<1>4. c.code \in FailureCodes
    BY <1>2, <1>3 DEF Limited
<1>5. OutOfBudget(c.code).code \in Codes
    BY <1>3, <1>4 DEF OutOfBudget, Codes, Exhausted
<1>6. Streak(c0, p, n) \in 0..3
    BY DEF Streak
<1>7. Streak(c0, p, n) = 3 => c.terminal
    BY <1>3 DEF Limited
<1>8. QED
    BY <1>4, <1>5, <1>6, <1>7 DEF c0

(* What is in range, by conjuncts of the types.                            *)
LEMMA Ranges ==
    ASSUME IInv
    PROVE  /\ Places /\ Flags /\ Counts /\ Timers /\ Records /\ Shape
           /\ session \in Nat /\ attempts \in Nat /\ age \in Int /\ readyAge \in Int
           /\ cl.state \in States /\ snap.code \in Codes /\ cl.connected \in BOOLEAN
BY Assumptions DEF IInv, TypeOK, Counts, Shape, Clients, Snapshots, None

(* A failure is judged: the client has lost its connection, and either the *)
(* episode is over and said to be, or another attempt comes.               *)
LEMMA DecideFacts ==
    ASSUME IInv, NEW e \in Errors, NEW reset \in BOOLEAN, Decide(e, reset),
           sup \notin {"ending", "none"}
    PROVE  /\ age' \in None..MaxElapsed /\ attempts' \in 0..MaxAttempts
           /\ attempts' < attempts => reset
           /\ authUsed' \in BOOLEAN /\ prints' \in 0..3 /\ (prints' = 3 => sup' = "ending")
           /\ failed' \in BOOLEAN /\ wakeup' \in BOOLEAN
           /\ sup' \in {"ending", "attempt", "sleeping"} /\ snap' \in Snapshots
           /\ sup' = "sleeping" => /\ snap'.state \in {"scheduled", "waiting_for_credentials"}
                                   /\ snap'.code \in FailureCodes
           /\ cl' \in Clients /\ cl'.connected = FALSE
           /\ cl'.state \in Closed <=> cl.state \in Closed
           /\ \A t \in BOOLEAN : Quiet(cl', t) /\ (cl.state \notin Closed => Fresh(cl', t))
           /\ sup' = "ending" => cl'.state \in Closed \cup {"failed"}
           /\ cl'.state = "ready" => cl.state = "ready"
<1> DEFINE retryUsed == authUsed /\ ~reset
           c0 == ClassOf[<<e, everReady, retryUsed, wasReady>>]
           c == Limited(c0, print, prints)
           since == IF reset THEN None ELSE age
           used == IF reset THEN 0 ELSE attempts
           client == Lost(cl)
           spent == TimeIsUp(since) \/ used >= MaxAttempts
           next == Snapshot(IF c.waiting THEN "waiting_for_credentials" ELSE "scheduled", c.code)
           over == IF c.terminal THEN c ELSE OutOfBudget(c.code)
           last == Snapshot("terminal", over.code)
<1>1. prints \in 0..2 /\ Answering(cl)
    BY DEF IInv, TypeOK, Counts, Shape, ClientInv, Quiet, Answering
<1>2. /\ c.code \in FailureCodes /\ OutOfBudget(c.code).code \in Codes
      /\ Streak(c0, print, prints) \in 0..3 /\ (Streak(c0, print, prints) = 3 => c.terminal)
    BY <1>1, Ranges, Judged DEF Flags
<1>3. /\ age' = since /\ attempts' = used /\ prints' = Streak(c0, print, prints)
      /\ authUsed' = (retryUsed \/ (c0.waiting /\ c0.immediate))
    BY DEF Decide
<1>4. \/ /\ c.terminal \/ spent
         /\ snap' = last /\ cl' = Told(client, last) /\ failed' = TRUE /\ sup' = "ending"
         /\ wakeup' = wakeup
      \/ /\ ~c.terminal /\ ~spent
         /\ snap' = next /\ cl' = Told(client, next) /\ failed' = failed
         /\ (sup' = "attempt" /\ wakeup' = wakeup) \/ (sup' = "sleeping" /\ wakeup' = FALSE)
  <2>1. \/ (c.terminal \/ spent) /\ Terminate(over, client) /\ UNCHANGED wakeup
        \/ /\ ~c.terminal /\ ~spent
           /\ snap' = next /\ cl' = Told(client, next)
           /\ \/ sup' = "attempt" /\ UNCHANGED wakeup
              \/ ~c.immediate /\ ~reset /\ sup' = "sleeping" /\ wakeup' = FALSE
           /\ UNCHANGED failed
    BY DEF Decide
  <2> HIDE DEF c0, c, spent, next, over, client
  <2>2. Terminate(over, client) =>
            snap' = last /\ cl' = Told(client, last) /\ failed' = TRUE /\ sup' = "ending"
    BY DEF Terminate
  <2> HIDE DEF last
  <2>3. QED
    BY <2>1, <2>2
<1> HIDE DEF c0, c, spent
<1>5. /\ client \in Clients /\ client.connected = FALSE
      /\ client.state \in Closed <=> cl.state \in Closed
      /\ client.state = "ready" => cl.state = "ready"
      /\ Answering(client)
  <2>1. Dropped(client, cl, FALSE)
    BY <1>1, Ranges, LostFacts DEF Shape
  <2>2. QED
    BY <1>1, <2>1 DEF Dropped, Answering, Quiet, Closed
<1> HIDE DEF client
<1>6. next \in Snapshots /\ last \in Snapshots /\ last.state = "terminal"
      /\ next.state \in {"scheduled", "waiting_for_credentials"} /\ next.code = c.code
    BY <1>2 DEF Snapshot, Snapshots, SnapStates, Codes
<1> HIDE DEF next, last
<1>7. ASSUME NEW sn \in Snapshots, NEW t \in BOOLEAN
      PROVE  LET d == Told(client, sn) IN
             /\ d \in Clients /\ d.connected = FALSE
             /\ d.state \in Closed <=> cl.state \in Closed
             /\ Quiet(d, t) /\ (cl.state \notin Closed => Fresh(d, t))
             /\ sn.state = "terminal" => d.state \in Closed \cup {"failed"}
             /\ d.state = "ready" => cl.state = "ready"
  <2>1. session \in Nat
    BY Ranges
  <2>2. client.connected = FALSE /\ Answering(client) /\ client \in Clients
    BY <1>5
  <2> DEFINE d == Told(client, sn)
  <2>3. ToldOf(d, client, sn, t)
    BY <2>1, <2>2, ToldFacts
  <2> HIDE DEF d
  <2>4. QED
    BY <1>5, <2>2, <2>3 DEF d, ToldOf
<1>8. age' \in None..MaxElapsed /\ attempts' \in 0..MaxAttempts /\ (attempts' < attempts => reset)
    BY <1>3, Assumptions DEF IInv, TypeOK, Counts, None
<1>9. QED
    BY <1>2, <1>3, <1>4, <1>6, <1>7, <1>8, Ranges DEF Flags
----------------------------------------------------------------------------
(* The invariant is kept: the initial state, then step by step.            *)
LEMMA InitInv ==
    ASSUME Init
    PROVE  IInv
<1>1. NewClient \in Clients /\ NewClient.connected = FALSE /\ NewClient.state = "created"
      /\ Quiet(NewClient, FALSE) /\ Fresh(NewClient, FALSE)
    BY DEF NewClient, Clients, States, Statuses, SnapStates, Codes, NoFailure, Quiet, Fresh,
           Status, IsReady
<1>2. cl = NewClient /\ strict = FALSE /\ sup = "none" /\ startup = "none" /\ closer = "idle"
    BY DEF Init, SupInit
<1>3. ClientInv /\ DrivenInv
    BY <1>1, <1>2, Zenon DEF ClientInv, DrivenInv, OnItsWay, Init, SupInit, Closed
<1>4. snap \in Snapshots /\ restart = NoRestart /\ call = NoCall
    BY DEF Init, SupInit, Inactive, Snapshot, Snapshots, SnapStates, Codes, NoFailure
<1>5. Shape
    BY <1>1, <1>4 DEF Init, SupInit, Shape
<1>6. Places /\ Flags
    BY DEF Init, SupInit, Places, Flags, Attempting, Running
<1>7. Counts /\ Timers
    BY Assumptions DEF Init, SupInit, Counts, Timers, None
<1>8. Records
    BY <1>1, <1>2, <1>4, Assumptions DEF Records, Clients, Snapshots, SnapStates, NoCall, NoRestart
<1>9. ClosingInv /\ LinkInv /\ ClockInv /\ RestartInv
    BY DEF Init, SupInit, ClosingInv, LinkInv, ClockInv, RestartInv, Running, Alive, NoCall,
           NoRestart, None
<1>10. QED
    BY <1>3, <1>5, <1>6, <1>7, <1>8, <1>9 DEF IInv, TypeOK

LEMMA AttemptKeeps ==
    ASSUME IInv, Followed, Attempt, UNCHANGED cvars
    PROVE  IInv'
<1>1. /\ sup = "attempt" /\ ~stop /\ ~restart.due /\ ~closing /\ ~connected /\ ~usable /\ ~wasReady
      /\ cl.connected = FALSE /\ ~call.open
    BY Ranges DEF IInv, Attempt, ClosingInv, LinkInv, ClientInv, Alive, Clients, Holding
<1>2. age' \in None..MaxElapsed /\ attempts' \in 0..MaxAttempts
    BY <1>1, Ranges, Assumptions DEF Attempt, BeginAttempt, HasAttempts, Counts, None
<1>3. OutOfBudget(snap.code).code \in Codes
    BY Ranges DEF OutOfBudget, Final, Retried, Codes, Exhausted
<1>4. \A code \in Codes : Snapshot("terminal", code) \in Snapshots /\ Snapshot("terminal", code).state = "terminal"
    BY DEF Snapshot, Snapshots, SnapStates
<1>5. Snapshot("connecting", NoFailure) \in Snapshots
    BY DEF Snapshot, Snapshots, SnapStates, Codes, NoFailure
<1>6. \/ /\ sup' = "ending" /\ snap'.state = "terminal" /\ failed' = TRUE /\ snap' \in Snapshots
         /\ cl' = Told(cl, snap')
      \/ /\ sup' = "resolve" /\ failed' = failed /\ snap' \in Snapshots
         /\ cl' = OnRecovery(cl, snap', strict, session)
    BY <1>1, <1>3, <1>4, <1>5 DEF Attempt, Terminate
<1>7. /\ cl' \in Clients /\ cl'.connected = FALSE /\ (cl'.state \in Closed <=> cl.state \in Closed)
      /\ Quiet(cl', strict) /\ (cl.state \notin Closed => Fresh(cl', strict))
      /\ sup' = "ending" => cl'.state \in Closed \cup {"failed"}
  <2>1. cl \in Clients /\ strict \in BOOLEAN /\ session \in Nat /\ Answering(cl)
    BY Ranges DEF Shape, Flags, IInv, ClientInv, Quiet, Answering
  <2>2. CASE cl' = Told(cl, snap') /\ snap'.state = "terminal" /\ snap' \in Snapshots
    <3>1. ToldOf(cl', cl, snap', strict)
      BY <1>1, <2>1, <2>2, ToldFacts
    <3>2. QED
      BY <1>1, <2>2, <3>1 DEF ToldOf
  <2>3. CASE cl' = OnRecovery(cl, snap', strict, session) /\ snap' \in Snapshots /\ sup' = "resolve"
    <3>1. Announced(cl', cl, snap', strict, session, strict)
      BY <2>1, <2>3, RecoveryFacts
    <3>2. QED
      BY <1>1, <2>3, <3>1 DEF Announced
  <2>4. QED
    BY <1>6, <2>2, <2>3
<1>8. sup' \in {"ending", "resolve"} /\ snap' \in Snapshots /\ failed' \in BOOLEAN
    BY <1>6, Ranges DEF Flags
<1>9. UNCHANGED <<owned, stop, doubled, restart, why, wasReady, closing, awaits, connected,
                  session, usable, strict, everReady, readyAge, wakeup, timer, call, authUsed,
                  prints, startup, services, cleanup, closer>>
    BY <1>1 DEF Attempt, attempt, link, readiness, cvars
<1>10. restart.codes = {}
    BY <1>1 DEF Followed, LeftOver
<1>11. Places' /\ Flags'
    BY <1>8, <1>9, Ranges DEF Places, Flags, Attempting
<1>12. Timers' /\ Counts'
    BY <1>2, <1>9, Ranges DEF Timers, Counts
<1>13. Shape' /\ Records'
    BY <1>1, <1>7, <1>8, <1>9, Ranges DEF Shape, Records, Clients, Snapshots, States, SnapStates
<1>14. ClosingInv' /\ LinkInv' /\ ClockInv' /\ RestartInv'
    BY <1>1, <1>8, <1>9, <1>10 DEF IInv, ClosingInv, LinkInv, ClockInv, RestartInv, Alive
<1>15. ClientInv'
    BY <1>1, <1>7, <1>9 DEF IInv, ClientInv
<1>16. DrivenInv'
    BY <1>1, <1>7, <1>8, <1>9 DEF IInv, DrivenInv, OnItsWay, Alive, Closed
<1>17. QED
    BY <1>11, <1>12, <1>13, <1>14, <1>15, <1>16 DEF IInv, TypeOK

LEMMA AdvanceKeeps ==
    ASSUME IInv, Followed, Advance, UNCHANGED cvars
    PROVE  IInv'
<1>1. /\ sup \in {"resolve", "tls"} /\ sup' \in {"tls", "connect"} /\ ~stop
      /\ UNCHANGED <<owned, stop, doubled, restart, why, wasReady, closing, awaits, connected,
                     session, usable, strict, everReady, readyAge, age, attempts, authUsed,
                     prints, snap, failed, wakeup, timer, call, cl,
                     startup, services, cleanup, closer>>
    BY DEF Advance, Authenticated, NewConnection, attempt, link, readiness, budget, cvars
<1>2. Places' /\ Flags'
    BY <1>1, Ranges DEF Places, Flags, Attempting
<1>3. Timers' /\ Counts' /\ Shape' /\ Records'
    BY <1>1, Ranges DEF Timers, Counts, Shape, Records
<1>4. ClosingInv' /\ LinkInv' /\ ClockInv' /\ RestartInv'
    BY <1>1 DEF IInv, ClosingInv, LinkInv, ClockInv, RestartInv, Alive, Holding, Revivable
<1>5. ClientInv' /\ DrivenInv'
    BY <1>1 DEF IInv, ClientInv, DrivenInv, OnItsWay, Alive
<1>6. QED
    BY <1>2, <1>3, <1>4, <1>5 DEF IInv, TypeOK

(* Readiness goes at once; the loss is announced later.                    *)
LEMMA FailKeeps ==
    ASSUME IInv, Followed, NEW e \in Fails[sup], sup \in DOMAIN Fails, Fail(e), UNCHANGED cvars
    PROVE  IInv'
<1>1. /\ sup \in {"connect", "restoring", "serving"} /\ sup' = "clearing" /\ ~stop
      /\ strict' = FALSE /\ timer' = {} /\ why' = e /\ wasReady' = (sup = "serving")
      /\ UNCHANGED <<owned, stop, doubled, restart, closing, awaits, connected,
                     session, usable, everReady, readyAge, age, attempts, authUsed,
                     prints, snap, failed, wakeup, call, cl,
                     startup, services, cleanup, closer>>
    BY DEF Fail, NotReady, link, budget, cvars
<1>2. e \in Errors
    BY Assumptions
<1>3. Places'
    BY <1>1, Ranges DEF Places
<1>4. Flags'
    BY <1>1, Ranges DEF Flags
<1>5. Timers' /\ Counts' /\ Shape' /\ Records'
    BY <1>1, <1>2, Ranges DEF Timers, Counts, Shape, Records
<1>6. ClosingInv' /\ LinkInv' /\ ClockInv' /\ RestartInv'
    BY <1>1 DEF IInv, ClosingInv, LinkInv, ClockInv, RestartInv, Alive, Holding, Revivable
<1>7. ClientInv'
  <2>1. Quiet(cl, FALSE)
    BY DEF IInv, ClientInv, Quiet, IsReady
  <2>2. cl.connected = FALSE /\ Fresh(cl, strict) => Fresh(cl, FALSE)
    BY Ranges, Unconnected DEF Shape, Flags
  <2>3. QED
    BY <1>1, <2>1, <2>2, Ranges DEF IInv, ClientInv
<1>8. DrivenInv'
    BY <1>1 DEF IInv, DrivenInv, OnItsWay, Alive
<1>9. QED
    BY <1>3, <1>4, <1>5, <1>6, <1>7, <1>8 DEF IInv, TypeOK

LEMMA SleepOverKeeps ==
    ASSUME IInv, Followed, SleepOver, UNCHANGED cvars
    PROVE  IInv'
<1>1. /\ sup = "sleeping" /\ sup' = "attempt" /\ ~stop
      /\ UNCHANGED <<owned, stop, doubled, restart, why, wasReady, closing, awaits, connected,
                     session, usable, strict, everReady, readyAge, age, attempts, authUsed,
                     prints, snap, failed, wakeup, timer, call, cl,
                     startup, services, cleanup, closer>>
    BY DEF SleepOver, attempt, link, readiness, budget, cvars
<1>2. Places' /\ Flags'
    BY <1>1, Ranges DEF Places, Flags
<1>3. Timers' /\ Counts' /\ Shape' /\ Records'
    BY <1>1, Ranges DEF Timers, Counts, Shape, Records
<1>4. ClosingInv' /\ LinkInv' /\ ClockInv' /\ RestartInv'
    BY <1>1 DEF IInv, ClosingInv, LinkInv, ClockInv, RestartInv, Alive, Holding, Revivable
<1>5. ClientInv' /\ DrivenInv'
    BY <1>1 DEF IInv, ClientInv, DrivenInv, OnItsWay, Alive
<1>6. QED
    BY <1>2, <1>3, <1>4, <1>5 DEF IInv, TypeOK

LEMMA CancelledKeeps ==
    ASSUME IInv, Followed, Cancelled, UNCHANGED cvars
    PROVE  IInv'
<1>1. /\ sup \notin {"none", "ending"} /\ sup' = "ending" /\ stop
      /\ strict' = FALSE /\ timer' = {}
      /\ UNCHANGED <<owned, stop, doubled, restart, why, wasReady, closing, awaits, connected,
                     session, usable, everReady, readyAge, age, attempts, authUsed,
                     prints, snap, failed, wakeup, call, cl,
                     startup, services, cleanup, closer>>
    BY DEF Cancelled, NotReady, attempt, link, budget, cvars
<1>2. closing
    BY <1>1 DEF IInv, ClosingInv
<1>3. Places'
    BY <1>1, Ranges DEF Places
<1>4. Flags'
    BY <1>1, Ranges DEF Flags
<1>5. Timers' /\ Counts' /\ Shape' /\ Records'
    BY <1>1, Ranges DEF Timers, Counts, Shape, Records
<1>6. ClosingInv' /\ LinkInv' /\ ClockInv' /\ RestartInv'
    BY <1>1, <1>2 DEF IInv, ClosingInv, LinkInv, ClockInv, RestartInv, Alive, Holding
<1>7. ClientInv'
  <2>1. Quiet(cl, FALSE)
    BY DEF IInv, ClientInv, Quiet, IsReady
  <2>2. cl.connected = FALSE /\ Fresh(cl, strict) => Fresh(cl, FALSE)
    BY Ranges, Unconnected DEF Shape, Flags
  <2>3. QED
    BY <1>1, <2>1, <2>2, Ranges DEF IInv, ClientInv
<1>8. DrivenInv'
    BY <1>1, <1>2 DEF IInv, DrivenInv
<1>9. QED
    BY <1>3, <1>4, <1>5, <1>6, <1>7, <1>8 DEF IInv, TypeOK

LEMMA TickKeeps ==
    ASSUME IInv, Followed, Tick, UNCHANGED cvars
    PROVE  IInv'
<1>1. /\ age' = IF age \in 0..(MaxElapsed - 1) THEN age + 1 ELSE age
      /\ readyAge' = IF readyAge \in 0..(StableAfter - 1) THEN readyAge + 1 ELSE readyAge
      /\ timer' = {[t EXCEPT !.age = IF @ < StableAfter THEN @ + 1 ELSE @] : t \in timer}
      /\ UNCHANGED <<sup, owned, stop, doubled, restart, why, wasReady, closing, awaits, connected,
                     session, usable, strict, everReady, attempts, authUsed,
                     prints, snap, failed, wakeup, call, cl,
                     startup, services, cleanup, closer>>
    BY DEF Tick, task, attempt, link, cvars
<1>2. Timers' /\ (\A t \in timer' : readyAge' # None => t.age <= readyAge')
  <2>1. \A t \in timer : /\ t \in [session : 0..MaxSessions, age : 0..StableAfter]
                         /\ readyAge # None => t.age <= readyAge
    BY Ranges DEF IInv, Timers, ClockInv
  <2>2. \A t \in timer' : \E u \in timer :
            /\ t.session = u.session /\ t.age = IF u.age < StableAfter THEN u.age + 1 ELSE u.age
            /\ t \in [session : 0..MaxSessions, age : 0..StableAfter]
    BY <1>1, <2>1, Assumptions
  <2>3. \A t, u \in timer' : t = u
    BY <1>1, Ranges DEF Timers
  <2>4. \A t \in timer' : readyAge' # None => t.age <= readyAge'
    BY <1>1, <2>1, <2>2, Ranges, Assumptions DEF Counts, None
  <2>5. QED
    BY <2>2, <2>3, <2>4 DEF Timers
<1>3. Places' /\ Flags'
    BY <1>1, Ranges DEF Places, Flags
<1>4. Counts' /\ (readyAge' # None => readyAge # None)
    BY <1>1, Ranges, Assumptions DEF Counts, None
<1>5. Shape' /\ Records'
    BY <1>1, Ranges DEF Shape, Records
<1>6. ClosingInv' /\ LinkInv' /\ ClockInv' /\ RestartInv'
    BY <1>1, <1>2, <1>4 DEF IInv, ClosingInv, LinkInv, ClockInv, RestartInv, Alive, Holding, Revivable
<1>7. ClientInv' /\ DrivenInv'
    BY <1>1 DEF IInv, ClientInv, DrivenInv, OnItsWay, Alive
<1>8. QED
    BY <1>2, <1>3, <1>4, <1>5, <1>6, <1>7 DEF IInv, TypeOK

(* An attempt that ends while nobody closes is judged.                     *)
LEMMA Settled ==
    ASSUME IInv, Followed, NEW e \in Errors, Settle(e), ~stop, sup \in {"resolve", "tls", "clearing"}
    PROVE  /\ ~closing /\ owned /\ restart.codes = {} /\ ~restart.due
           /\ connected' = FALSE /\ readyAge' = None
           /\ attempts' < attempts => sup = "clearing" /\ readyAge >= StableAfter
           /\ age' \in None..MaxElapsed /\ attempts' \in 0..MaxAttempts
           /\ authUsed' \in BOOLEAN /\ prints' \in 0..3 /\ (prints' = 3 => sup' = "ending")
           /\ failed' \in BOOLEAN /\ wakeup' \in BOOLEAN
           /\ sup' \in {"ending", "attempt", "sleeping"} /\ snap' \in Snapshots
           /\ sup' = "sleeping" => /\ snap'.state \in {"scheduled", "waiting_for_credentials"}
                                   /\ snap'.code \notin Exhausted
           /\ cl' \in Clients /\ cl'.connected = FALSE
           /\ cl'.state \in Closed <=> cl.state \in Closed
           /\ \A t \in BOOLEAN : Quiet(cl', t) /\ (cl.state \notin Closed => Fresh(cl', t))
           /\ sup' = "ending" => cl'.state \in Closed \cup {"failed"}
           /\ cl'.state = "ready" => cl.state = "ready"
<1>1. ~closing /\ owned
    BY DEF IInv, ClosingInv, Alive
<1>2. restart.codes = {} /\ ~restart.due
    BY DEF IInv, RestartInv, Followed, LeftOver
<1>3. readyAge' = None /\ (Stable => sup = "clearing" /\ readyAge >= StableAfter)
    BY <1>1 DEF Settle, Stable, IInv, LinkInv, ClockInv
<1>4. Stable \in BOOLEAN
    BY DEF Stable
<1>5. connected' = FALSE /\ Decide(e, Stable)
    BY <1>1 DEF Settle
<1> DEFINE reset == Stable
<1>6. reset \in BOOLEAN /\ Decide(e, reset)
    BY <1>4, <1>5
<1> HIDE DEF reset
<1>7. /\ age' \in None..MaxElapsed /\ attempts' \in 0..MaxAttempts
      /\ attempts' < attempts => reset
      /\ authUsed' \in BOOLEAN /\ prints' \in 0..3 /\ (prints' = 3 => sup' = "ending")
      /\ failed' \in BOOLEAN /\ wakeup' \in BOOLEAN
      /\ sup' \in {"ending", "attempt", "sleeping"} /\ snap' \in Snapshots
      /\ sup' = "sleeping" => /\ snap'.state \in {"scheduled", "waiting_for_credentials"}
                              /\ snap'.code \in FailureCodes
      /\ cl' \in Clients /\ cl'.connected = FALSE
      /\ cl'.state \in Closed <=> cl.state \in Closed
      /\ \A t \in BOOLEAN : Quiet(cl', t) /\ (cl.state \notin Closed => Fresh(cl', t))
      /\ sup' = "ending" => cl'.state \in Closed \cup {"failed"}
      /\ cl'.state = "ready" => cl.state = "ready"
    BY <1>6, DecideFacts
<1>8. "retry_exhausted" \notin FailureCodes
    BY DEF FailureCodes, Transient, CredentialCodes, NewClientNeeded
<1>9. QED
    BY <1>1, <1>2, <1>3, <1>5, <1>7, <1>8 DEF reset, Exhausted

(* What follows from it, once the client is out of the way.                *)
LEMMA SettledKeeps ==
    ASSUME IInv, Followed, NEW e \in Errors, Settle(e), ~stop, sup \in {"resolve", "tls", "clearing"},
           strict' \in BOOLEAN, usable' = FALSE, wasReady' = FALSE, ~call.open,
           timer' \in {timer, {}},
           UNCHANGED <<owned, stop, doubled, restart, closing, awaits, session, everReady, call,
                       startup, services, cleanup, closer>>
    PROVE  IInv'
<1>1. /\ ~closing /\ owned /\ restart.codes = {} /\ ~restart.due
      /\ connected' = FALSE /\ readyAge' = None
      /\ age' \in None..MaxElapsed /\ attempts' \in 0..MaxAttempts
      /\ authUsed' \in BOOLEAN /\ prints' \in 0..3 /\ (prints' = 3 => sup' = "ending")
      /\ failed' \in BOOLEAN /\ wakeup' \in BOOLEAN
      /\ sup' \in {"ending", "attempt", "sleeping"} /\ snap' \in Snapshots
      /\ sup' = "sleeping" => /\ snap'.state \in {"scheduled", "waiting_for_credentials"}
                              /\ snap'.code \notin Exhausted
      /\ cl' \in Clients /\ cl'.connected = FALSE
      /\ cl'.state \in Closed <=> cl.state \in Closed
      /\ Quiet(cl', strict') /\ (cl.state \notin Closed => Fresh(cl', strict'))
      /\ sup' = "ending" => cl'.state \in Closed \cup {"failed"}
    BY Settled
<1>2. Places'
    BY <1>1, Ranges DEF Places
<1>3. Flags'
    BY <1>1, Ranges DEF Flags
<1>4. Counts'
    BY <1>1, Ranges, Assumptions DEF Counts, None
<1>5. Timers' /\ Shape' /\ Records'
    BY <1>1, Ranges DEF Timers, Shape, Records, Clients, Snapshots, States, SnapStates
<1>6. ClosingInv' /\ LinkInv' /\ ClockInv' /\ RestartInv'
    BY <1>1 DEF IInv, ClosingInv, LinkInv, ClockInv, RestartInv, Alive
<1>7. ClientInv'
    BY <1>1 DEF IInv, ClientInv
<1>8. DrivenInv'
    BY <1>1 DEF IInv, DrivenInv, OnItsWay, Alive, Closed
<1>9. QED
    BY <1>2, <1>3, <1>4, <1>5, <1>6, <1>7, <1>8 DEF IInv, TypeOK

LEMMA FailEarlyKeeps ==
    ASSUME IInv, Followed, sup \in DOMAIN Fails, NEW e \in Fails[sup], FailEarly(e), UNCHANGED cvars
    PROVE  IInv'
<1>1. /\ sup \in {"resolve", "tls"} /\ ~stop /\ Settle(e) /\ strict' = FALSE /\ timer' = {}
      /\ UNCHANGED <<owned, stop, doubled, restart, why, wasReady, closing, awaits, session,
                     usable, everReady, call, startup, services, cleanup, closer>>
    BY DEF FailEarly, NotReady, attempt, cvars
<1>2. e \in Errors
    BY Assumptions
<1>3. ~usable /\ ~wasReady /\ ~call.open
    BY <1>1 DEF IInv, LinkInv, Holding
<1>4. usable' = FALSE /\ wasReady' = FALSE
    BY <1>1, <1>3, Ranges DEF Flags
<1>5. QED
    BY <1>1, <1>2, <1>3, <1>4, SettledKeeps

LEMMA ClearKeeps ==
    ASSUME IInv, Followed, Clear, UNCHANGED cvars
    PROVE  IInv'
<1>1. /\ sup = "clearing" /\ ~stop /\ Settle(why) /\ ~call.open /\ usable' = FALSE /\ wasReady' = FALSE
      /\ UNCHANGED <<owned, stop, doubled, restart, closing, awaits, session, strict, everReady,
                     timer, call, startup, services, cleanup, closer>>
    BY DEF Clear, cvars
<1>2. why \in Errors /\ strict' \in BOOLEAN
    BY <1>1, Ranges DEF Shape, Flags
<1>3. QED
    BY <1>1, <1>2, SettledKeeps

LEMMA ConnectedKeeps ==
    ASSUME IInv, Followed, Connected, UNCHANGED cvars
    PROVE  IInv'
<1>1. /\ sup = "connect" /\ sup' = "restoring" /\ ~stop /\ session < MaxSessions
      /\ failed' = FALSE /\ connected' = TRUE /\ session' = session + 1 /\ cl' = Up(cl, strict)
      /\ UNCHANGED <<owned, stop, doubled, restart, why, wasReady, closing, awaits, usable,
                     strict, everReady, readyAge, age, attempts, authUsed, prints, snap, wakeup,
                     timer, call, startup, services, cleanup, closer>>
    BY DEF Connected, Up, attempt, readiness, budget, cvars
<1>2. ~closing /\ ~usable /\ ~wasReady /\ ~call.open
    BY <1>1 DEF IInv, ClosingInv, LinkInv, Alive, Holding
<1>3. Raises(cl', cl, strict)
    BY <1>1, Ranges, ConnectionFacts DEF Shape, Flags, IInv, ClientInv
<1>4. Places'
    BY <1>1, Ranges DEF Places
<1>5. Flags'
    BY <1>1, Ranges DEF Flags
<1>6. Counts' /\ Timers' /\ Shape' /\ Records'
  <2>1. cl' \in Clients
    BY <1>3 DEF Raises
  <2>2. QED
    BY <1>1, <2>1, Ranges, Assumptions DEF Counts, Timers, Shape, Records, Clients, States
<1>7. ClosingInv' /\ LinkInv' /\ ClockInv' /\ RestartInv'
    BY <1>1, <1>2 DEF IInv, ClosingInv, LinkInv, ClockInv, RestartInv, Alive, Revivable
<1>8. ClientInv'
    BY <1>1, <1>3 DEF IInv, ClientInv, Raises
<1>9. DrivenInv'
    BY <1>1 DEF DrivenInv, Alive
<1>10. QED
    BY <1>4, <1>5, <1>6, <1>7, <1>8, <1>9 DEF IInv, TypeOK

LEMMA RestoredKeeps ==
    ASSUME IInv, Followed, Restored, UNCHANGED cvars
    PROVE  IInv'
<1>1. /\ sup = "restoring" /\ sup' = "serving" /\ ~stop /\ ~closing /\ usable' = TRUE
      /\ strict' = TRUE /\ everReady' = TRUE /\ readyAge' = 0 /\ prints' = 0
      /\ timer' = {NewTimer} /\ snap' = Inactive /\ cl' = OnRecovery(cl, snap', strict', session)
      /\ UNCHANGED <<owned, stop, doubled, restart, why, wasReady, closing, awaits, connected,
                     session, age, attempts, authUsed, failed, wakeup, call,
                     startup, services, cleanup, closer>>
    BY DEF Restored, MarkReady, OneTimer, attempt, cvars
<1>2. connected /\ ~wasReady /\ ~call.open
    BY <1>1 DEF IInv, LinkInv, Holding
<1>3. snap' \in Snapshots
    BY <1>1 DEF Inactive, Snapshot, Snapshots, SnapStates, Codes, NoFailure
<1>4. Announced(cl', cl, snap', strict', session, strict')
  <2>1. PICK s \in BOOLEAN : s = strict'
    BY <1>1
  <2>2. Answering(cl)
    BY DEF IInv, ClientInv, Quiet, Answering
  <2>3. Announced(OnRecovery(cl, snap', s, session), cl, snap', s, session, s)
    BY <1>3, <2>2, Ranges, RecoveryFacts DEF Shape
  <2>4. QED
    BY <1>1, <2>1, <2>3
<1>5. Places'
    BY <1>1, Ranges DEF Places
<1>6. Flags'
    BY <1>1, Ranges DEF Flags
<1>7. Counts' /\ Timers'
    BY <1>1, Ranges, Assumptions DEF Counts, Timers, NewTimer, None
<1>8. Shape' /\ Records'
  <2>1. cl' \in Clients
    BY <1>4 DEF Announced
  <2>2. sup' = "serving" /\ prints' = 0
    BY <1>1
  <2>3. Shape'
    BY <1>3, <2>1, <2>2 DEF Shape
  <2>4. snap'.state \in SnapStates /\ cl'.state \in States /\ cl'.waiting \subseteq Callers
    BY <1>3, <2>1 DEF Clients, Snapshots
  <2>5. QED
    BY <1>1, <2>3, <2>4, Ranges DEF Records, States, SnapStates
<1>9. ClosingInv' /\ LinkInv' /\ ClockInv' /\ RestartInv'
    BY <1>1, <1>2 DEF IInv, ClosingInv, LinkInv, ClockInv, RestartInv, Alive, Holding, NewTimer
<1>10. ClientInv'
    BY <1>1, <1>2, <1>4 DEF IInv, ClientInv, Announced
<1>11. DrivenInv'
    BY <1>1 DEF DrivenInv, Alive
<1>12. QED
    BY <1>5, <1>6, <1>7, <1>8, <1>9, <1>10, <1>11 DEF IInv, TypeOK

LEMMA EndKeeps ==
    ASSUME IInv, Followed, End, UNCHANGED cvars
    PROVE  IInv'
<1>1. /\ sup = "ending" /\ sup' = "none" /\ ~call.open /\ stop' = FALSE /\ wasReady' = FALSE
      /\ usable' = FALSE /\ connected' = FALSE /\ cl' = Lost(cl)
      /\ restart' = [restart EXCEPT !.due = restart.codes # {}]
      /\ UNCHANGED <<owned, doubled, closing, awaits, session, strict, everReady, readyAge,
                     age, attempts, authUsed, prints, snap, failed, wakeup, timer, call,
                     startup, services, cleanup, closer>>
    BY DEF End, readiness, budget, cvars
<1>2. restart'.codes = restart.codes /\ restart'.due = (restart.codes # {})
      /\ restart' \in [codes : {{}, Exhausted, CredentialCodes}, due : BOOLEAN]
    BY <1>1, Ranges DEF Records
<1>3. Dropped(cl', cl, strict)
  <2>1. Answering(cl)
    BY DEF IInv, ClientInv, Quiet, Answering
  <2>2. QED
    BY <1>1, <2>1, Ranges, LostFacts DEF Shape, Flags
<1>4. Places'
    BY <1>1, Ranges DEF Places
<1>5. Flags'
    BY <1>1, Ranges DEF Flags
<1>6. Counts' /\ Timers' /\ Shape' /\ Records'
  <2>1. cl' \in Clients
    BY <1>3 DEF Dropped
  <2>2. QED
    BY <1>1, <1>2, <2>1, Ranges DEF Counts, Timers, Shape, Records, Clients, States
<1>7. ClosingInv' /\ LinkInv' /\ ClockInv' /\ RestartInv'
    BY <1>1, <1>2 DEF IInv, ClosingInv, LinkInv, ClockInv, RestartInv, Alive, Revivable
<1>8. ClientInv'
    BY <1>1, <1>3, Ranges DEF IInv, ClientInv, Dropped
<1>9. DrivenInv'
    BY <1>1, <1>2, <1>3 DEF IInv, DrivenInv, OnItsWay, Dropped, LinkInv, ClientInv
<1>10. QED
    BY <1>4, <1>5, <1>6, <1>7, <1>8, <1>9 DEF IInv, TypeOK

(* A new episode begins, and the client is shown to be on its way at most. *)
LEMMA EpisodeKeeps ==
    ASSUME IInv, ~closing, ~connected, sup \in {"none", "attempt"},
           NEW codes, RevivedAs(cl', cl, snap, codes, strict),
           Spawn, FreshBudget, failed' = FALSE, wakeup' = wakeup,
           restart' \in [codes : {{}, Exhausted, CredentialCodes}, due : BOOLEAN],
           restart'.due => restart'.codes # {},
           doubled' \in BOOLEAN,
           UNCHANGED <<why, wasReady, closing, awaits, connected, session, usable, strict,
                       everReady, readyAge, snap, timer, call,
                       startup, services, cleanup, closer>>
    PROVE  IInv'
<1>1. sup' = "attempt" /\ owned' = TRUE /\ stop' = FALSE
      /\ age' = None /\ attempts' = 0 /\ authUsed' = FALSE /\ prints' = 0
    BY DEF Spawn, FreshBudget
<1>2. ~usable /\ ~wasReady /\ ~call.open /\ readyAge = None
    BY DEF IInv, LinkInv, ClockInv, Holding
<1>3. /\ cl' \in Clients /\ cl'.connected = cl.connected
      /\ cl'.state \in Closed <=> cl.state \in Closed
      /\ Quiet(cl', strict) /\ (Fresh(cl, strict) => Fresh(cl', strict))
    BY DEF RevivedAs
<1>4. Places'
    BY <1>1, Ranges DEF Places
<1>5. Flags'
    BY <1>1, Ranges DEF Flags
<1>6. Counts' /\ Timers'
    BY <1>1, Ranges, Assumptions DEF Counts, Timers, None
<1>7. Shape' /\ Records'
  <2>1. Shape'
    BY <1>1, <1>3, Ranges DEF Shape
  <2>2. cl'.state \in States /\ cl'.waiting \subseteq Callers
    BY <1>3 DEF Clients
  <2>3. QED
    BY <2>1, <2>2, Ranges DEF Records, States
<1>8. ClosingInv' /\ LinkInv' /\ ClockInv' /\ RestartInv'
    BY <1>1, <1>2 DEF IInv, ClosingInv, LinkInv, ClockInv, RestartInv, Alive
<1>9. ClientInv'
    BY <1>1, <1>3 DEF IInv, ClientInv
<1>10. DrivenInv'
    BY <1>1 DEF DrivenInv, Alive
<1>11. QED
    BY <1>4, <1>5, <1>6, <1>7, <1>8, <1>9, <1>10 DEF IInv, TypeOK

LEMMA RestartKeeps ==
    ASSUME IInv, Followed, Restart, UNCHANGED cvars
    PROVE  IInv'
<1>1. /\ restart.due /\ restart' = NoRestart /\ NewEpisode(restart.codes)
      /\ UNCHANGED <<why, wasReady, closing, awaits, connected, session, usable, strict,
                     everReady, readyAge, snap, wakeup, timer, call, cl,
                     startup, services, cleanup, closer>>
    BY DEF Restart, attempt, link, readiness, cvars
<1>2. restart' \in [codes : {{}, Exhausted, CredentialCodes}, due : BOOLEAN]
      /\ restart'.codes = {} /\ restart'.due = FALSE
    BY <1>1 DEF NoRestart
<1>3. sup \in {"none", "attempt", "ending"} /\ (sup = "ending" => closing)
    BY <1>1 DEF IInv, RestartInv
<1>4. CASE closing \/ connected \/ ~Revivable(restart.codes)
  <2>1. /\ UNCHANGED <<sup, owned, stop, doubled, age, attempts, authUsed, prints, failed>>
    BY <1>1, <1>4 DEF NewEpisode, budget
  <2>2. sup = "none" => closing
    BY <1>1, <1>4 DEF IInv, RestartInv, LinkInv, Holding
  <2>3. Places' /\ Flags'
    BY <1>1, <2>1, Ranges DEF Places, Flags
  <2>4. Timers' /\ Counts' /\ Shape' /\ Records'
    BY <1>1, <1>2, <2>1, Ranges DEF Timers, Counts, Shape, Records
  <2>5. ClosingInv' /\ LinkInv' /\ ClockInv' /\ RestartInv'
    BY <1>1, <1>2, <2>1 DEF IInv, ClosingInv, LinkInv, ClockInv, RestartInv, Alive
  <2>6. ClientInv'
    BY <1>1, <2>1 DEF IInv, ClientInv
  <2>7. DrivenInv'
    BY <1>1, <1>3, <2>1, <2>2 DEF IInv, DrivenInv, OnItsWay, Alive
  <2>8. QED
    BY <2>3, <2>4, <2>5, <2>6, <2>7 DEF IInv, TypeOK
<1>5. CASE ~(closing \/ connected \/ ~Revivable(restart.codes))
  <2>1. Spawn /\ FreshBudget /\ failed' = FALSE
    BY <1>1, <1>5 DEF NewEpisode
  <2>2. sup \in {"none", "attempt"}
    BY <1>3, <1>5
  <2>3. RevivedAs(cl', cl, snap, restart.codes, strict)
    BY <1>1, Ranges DEF Shape, IInv, ClientInv, RevivedAs
  <2>4. doubled' \in BOOLEAN
    BY <2>1, Ranges DEF Spawn, Flags, Alive
  <2>5. QED
    BY <1>1, <1>2, <1>5, <2>1, <2>2, <2>3, <2>4, EpisodeKeeps
<1>6. QED
    BY <1>4, <1>5

(* request_retry and notify_credentials_changed.                           *)
LEMMA AskKeeps ==
    ASSUME IInv, Followed,
           NEW waking \in {"scheduled", "waiting_for_credentials"},
           NEW allowed \in {Exhausted, CredentialCodes},
           Ask(waking, allowed), UNCHANGED cvars
    PROVE  IInv'
<1>1. /\ cl' = Revived(cl, snap, allowed, strict)
      /\ UNCHANGED <<why, wasReady, closing, awaits, connected, session, usable, strict,
                     everReady, readyAge, snap, timer, call,
                     startup, services, cleanup, closer>>
    BY DEF Ask, attempt, link, readiness, cvars
<1>2. RevivedAs(cl', cl, snap, allowed, strict)
    BY <1>1, Ranges, RevivedFacts DEF Shape, Flags, IInv, ClientInv
<1>3. ASSUME UNCHANGED <<sup, owned, stop, doubled, age, attempts, authUsed, prints, failed>>,
             wakeup' \in BOOLEAN,
             \/ restart' = restart
             \/ /\ restart.codes = {} /\ restart'.codes = allowed /\ restart'.due = FALSE
                /\ restart' \in [codes : {{}, Exhausted, CredentialCodes}, due : BOOLEAN]
                /\ Alive /\ Revivable(allowed),
             cl' = cl \/ closing \/ connected \/ restart'.codes # {}
      PROVE  IInv'
  <2>1. /\ cl' \in Clients /\ cl'.connected = cl.connected
        /\ cl'.state \in Closed <=> cl.state \in Closed
        /\ Quiet(cl', strict) /\ (Fresh(cl, strict) => Fresh(cl', strict))
    BY <1>2 DEF RevivedAs
  <2>2. Places'
    BY <1>1, <1>3, Ranges DEF Places
  <2>3. Flags'
    BY <1>1, <1>3, Ranges DEF Flags
  <2>4. Counts' /\ Timers'
    BY <1>1, <1>3, Ranges DEF Counts, Timers
  <2>5. Shape'
    BY <1>1, <1>3, <2>1, Ranges DEF Shape
  <2>6. Records'
    <3>1. cl'.state \in States /\ cl'.waiting \subseteq Callers
      BY <2>1 DEF Clients
    <3>2. QED
      BY <1>1, <1>3, <3>1, Ranges DEF Records, States
  <2>7. ClosingInv' /\ LinkInv' /\ ClockInv'
    BY <1>1, <1>3 DEF IInv, ClosingInv, LinkInv, ClockInv, Alive, Holding
  <2>8. RestartInv'
    BY <1>1, <1>3 DEF IInv, RestartInv, Alive, Revivable
  <2>9. ClientInv'
    BY <1>1, <1>3, <2>1 DEF IInv, ClientInv
  <2>10. DrivenInv'
    <3>1. connected => Alive /\ (sup = "ending" => closing)
      BY DEF IInv, LinkInv, Holding, Alive
    <3>2. restart.codes # {} => restart'.codes # {}
      BY <1>3
    <3>3. QED
      BY <1>1, <1>3, <3>1, <3>2 DEF IInv, DrivenInv, OnItsWay, Alive
  <2>11. QED
    BY <2>2, <2>3, <2>4, <2>5, <2>6, <2>7, <2>8, <2>9, <2>10 DEF IInv, TypeOK
<1>4. ~Revivable(allowed) => cl' = cl
    BY <1>1 DEF Revived, Revivable
<1>5. CASE (closing \/ connected) /\ UNCHANGED <<task, budget, failed, wakeup>>
    BY <1>3, <1>5, Ranges DEF task, budget, Flags
<1>6. CASE /\ ~closing /\ ~connected /\ snap.state = waking
           /\ Signal /\ UNCHANGED <<task, budget, failed>>
    BY <1>3, <1>4, <1>6 DEF task, budget, Signal, Revivable
<1>7. CASE ~closing /\ ~connected /\ Schedule(allowed) /\ UNCHANGED wakeup
  <2>1. CASE ~Revivable(allowed) /\ UNCHANGED <<task, budget, failed>>
    BY <1>3, <1>4, <1>7, <2>1, Ranges DEF task, budget, Flags
  <2>2. CASE /\ Revivable(allowed) /\ MustWait
             /\ restart' = IF restart.codes = {} THEN [NoRestart EXCEPT !.codes = allowed]
                           ELSE restart
             /\ UNCHANGED <<sup, owned, stop, doubled, budget, failed>>
    <3>1. /\ [NoRestart EXCEPT !.codes = allowed].codes = allowed
          /\ [NoRestart EXCEPT !.codes = allowed].due = FALSE
          /\ [NoRestart EXCEPT !.codes = allowed]
                 \in [codes : {{}, Exhausted, CredentialCodes}, due : BOOLEAN]
      BY DEF NoRestart
    <3>2. allowed # {}
      BY DEF Exhausted, CredentialCodes
    <3>3. restart' = restart \/ /\ restart.codes = {} /\ restart'.codes = allowed
                                /\ restart'.due = FALSE
                                /\ restart' \in [codes : {{}, Exhausted, CredentialCodes},
                                                 due : BOOLEAN]
      BY <2>2, <3>1
    <3>4. restart'.codes # {}
      BY <2>2, <3>2, <3>3
    <3>5. QED
      BY <1>3, <1>7, <2>2, <3>3, <3>4, Ranges DEF budget, MustWait, Flags
  <2>3. CASE /\ Revivable(allowed) /\ ~MustWait
             /\ NewEpisode(allowed) /\ UNCHANGED restart
    <3>1. Spawn /\ FreshBudget /\ failed' = FALSE
      BY <1>7, <2>3 DEF NewEpisode
    <3>2. doubled' \in BOOLEAN
      BY <3>1, Ranges DEF Spawn, Flags, Alive
    <3>3. sup = "none"
      BY <2>3 DEF MustWait, Alive
    <3>4. /\ restart' \in [codes : {{}, Exhausted, CredentialCodes}, due : BOOLEAN]
          /\ restart'.due => restart'.codes # {}
      BY <2>3, Ranges DEF Records, IInv, RestartInv
    <3>5. QED
      BY <1>1, <1>2, <1>7, <3>1, <3>2, <3>3, <3>4, EpisodeKeeps
  <2>4. QED
    BY <1>7, <2>1, <2>2, <2>3 DEF Schedule
<1>8. QED
    BY <1>5, <1>6, <1>7 DEF Ask

LEMMA StableResetKeeps ==
    ASSUME IInv, Followed, NEW t \in timer, StableReset(t), UNCHANGED cvars
    PROVE  IInv'
<1>1. /\ t.age >= StableAfter /\ timer' = timer \ {t}
      /\ UNCHANGED <<sup, owned, stop, doubled, restart, why, wasReady, closing, awaits,
                     connected, session, usable, strict, everReady, readyAge, failed,
                     wakeup, call, startup, services, cleanup, closer>>
    BY DEF StableReset, task, attempt, link, readiness, cvars
<1>2. /\ ClosingInv' /\ LinkInv' /\ ClockInv' /\ Places' /\ Timers'
    BY <1>1, Ranges DEF IInv, ClosingInv, LinkInv, ClockInv, Alive, Holding, Places, Timers
<1>3. CASE ~closing /\ StillReady(t)
  <2>1. /\ age' = None /\ attempts' = 0 /\ authUsed' = FALSE /\ prints' = 0 /\ snap' = Inactive
        /\ cl' = OnRecovery(cl, Inactive, strict, session)
    BY <1>3 DEF StableReset, FreshBudget
  <2>2. sup \in {"serving", "clearing"}
    BY <1>3 DEF StillReady, IInv, ClockInv
  <2>3. Inactive \in Snapshots
    BY DEF Inactive, Snapshot, Snapshots, SnapStates, Codes, NoFailure
  <2>4. Announced(cl', cl, Inactive, strict, session, strict)
    <3>1. Answering(cl)
      BY DEF IInv, ClientInv, Quiet, Answering
    <3>2. QED
      BY <2>1, <2>3, <3>1, Ranges, RecoveryFacts DEF Shape, Flags
  <2>5. /\ cl' \in Clients /\ cl'.connected = cl.connected
        /\ cl'.state \in Closed <=> cl.state \in Closed
        /\ Quiet(cl', strict) /\ (cl.state \notin Closed => Fresh(cl', strict))
    BY <2>4 DEF Announced
  <2>6. Flags'
    BY <1>1, <2>1, Ranges DEF Flags
  <2>7. Counts'
    BY <1>1, <2>1, Ranges, Assumptions DEF Counts, None
  <2>8. Shape' /\ Records'
    <3>1. snap' \in Snapshots
      BY <2>1, <2>3
    <3>2. Shape'
      BY <1>1, <2>1, <2>5, <3>1, Ranges DEF Shape
    <3>3. snap'.state \in SnapStates /\ cl'.state \in States /\ cl'.waiting \subseteq Callers
      BY <2>5, <3>1 DEF Clients, Snapshots
    <3>4. QED
      BY <1>1, <3>2, <3>3, Ranges DEF Records, States, SnapStates
  <2>9. RestartInv' /\ ClientInv' /\ DrivenInv'
    BY <1>1, <2>2, <2>5 DEF IInv, RestartInv, ClientInv, DrivenInv, Alive
  <2>10. QED
    BY <1>2, <2>6, <2>7, <2>8, <2>9 DEF IInv, TypeOK
<1>4. CASE ~(~closing /\ StillReady(t))
  <2>1. UNCHANGED <<age, attempts, authUsed, prints, snap, cl>>
    BY <1>4 DEF StableReset, budget
  <2>2. Flags'
    BY <1>1, <2>1, Ranges DEF Flags
  <2>3. Counts' /\ Shape' /\ Records'
    BY <1>1, <2>1, Ranges DEF Counts, Shape, Records
  <2>4. RestartInv' /\ ClientInv' /\ DrivenInv'
    BY <1>1, <2>1 DEF IInv, RestartInv, ClientInv, DrivenInv, Alive, OnItsWay, Revivable
  <2>5. QED
    BY <1>2, <2>2, <2>3, <2>4 DEF IInv, TypeOK
<1>5. QED
    BY <1>3, <1>4
(* A subscribe that opens, returns or gives the session up.                *)
LEMMA CallOpensKeeps ==
    ASSUME IInv, Followed, CallOpens, UNCHANGED cvars
    PROVE  IInv'
<1>1. /\ ~call.open /\ usable /\ connected /\ ~closing
      /\ call' = [open |-> TRUE, suspended |-> strict, session |-> session]
      /\ UNCHANGED <<sup, owned, stop, doubled, restart, why, wasReady, closing, awaits,
                     connected, session, usable, everReady, readyAge, age, attempts, authUsed,
                     prints, snap, failed, wakeup, startup, services, cleanup, closer>>
    BY DEF CallOpens, task, attempt, link, budget, cvars
<1>2. sup \in {"serving", "clearing"}
    BY <1>1 DEF IInv, LinkInv, Holding
<1>3. /\ strict' \in BOOLEAN /\ timer' \in {timer, {}}
      /\ cl' \in Clients /\ cl'.connected = cl.connected
      /\ cl'.state \in Closed <=> cl.state \in Closed
      /\ Quiet(cl', strict') /\ (cl.state \notin Closed /\ Fresh(cl, strict) => Fresh(cl', strict'))
      /\ (cl' = cl /\ strict' = strict) \/ (cl.state \notin Closed => Fresh(cl', strict'))
  <2>1. CASE strict
    <3>1. strict' = FALSE /\ timer' = {} /\ cl' = Told(cl, snap)
      BY <2>1 DEF CallOpens, NotReady
    <3>2. PICK t \in BOOLEAN : t = FALSE
      OBVIOUS
    <3>3. Answering(cl)
      BY DEF IInv, ClientInv, Quiet, Answering
    <3>4. ToldOf(Told(cl, snap), cl, snap, t)
      BY <3>2, <3>3, Ranges, ToldFacts DEF Shape
    <3>5. t = strict'
      BY <3>1, <3>2
    <3>6. QED
      BY <3>1, <3>4, <3>5 DEF ToldOf
  <2>2. CASE ~strict
    BY <2>2, Ranges DEF CallOpens, Flags, Shape, IInv, ClientInv
  <2>3. QED
    BY <2>1, <2>2
<1>4. Places'
    BY <1>1, Ranges DEF Places
<1>5. Flags'
    BY <1>1, <1>3, Ranges DEF Flags
<1>6. Counts' /\ Timers' /\ Shape'
    BY <1>1, <1>3, Ranges DEF Counts, Timers, Shape
<1>7. Records'
  <2>1. cl'.state \in States /\ cl'.waiting \subseteq Callers
    BY <1>3 DEF Clients
  <2>2. call' \in [open : BOOLEAN, suspended : BOOLEAN, session : 0..MaxSessions]
    BY <1>1, Ranges DEF Flags, Counts
  <2>3. QED
    BY <1>1, <2>1, <2>2, Ranges DEF Records, States
<1>8. ClosingInv' /\ LinkInv' /\ ClockInv' /\ RestartInv'
    BY <1>1, <1>2, <1>3 DEF IInv, ClosingInv, LinkInv, ClockInv, RestartInv, Alive, Holding,
                           Revivable
<1>9. ClientInv'
    BY <1>1, <1>3 DEF IInv, ClientInv
<1>10. DrivenInv'
    BY <1>1, <1>2 DEF IInv, DrivenInv, Alive
<1>11. QED
    BY <1>4, <1>5, <1>6, <1>7, <1>8, <1>9, <1>10 DEF IInv, TypeOK

LEMMA CallReturnsKeeps ==
    ASSUME IInv, Followed, CallReturns, UNCHANGED cvars
    PROVE  IInv'
<1>1. /\ call' = NoCall
      /\ UNCHANGED <<sup, owned, stop, doubled, restart, why, wasReady, closing, awaits,
                     connected, session, usable, age, attempts, authUsed, snap, failed,
                     wakeup, startup, services, cleanup, closer>>
    BY DEF CallReturns, task, attempt, link, cvars
<1>2. call' \in [open : BOOLEAN, suspended : BOOLEAN, session : 0..MaxSessions] /\ ~call'.open
    BY <1>1, Assumptions DEF NoCall
<1>3. CASE Restorable
  <2>1. /\ strict' = TRUE /\ everReady' = TRUE /\ readyAge' = 0 /\ prints' = 0
        /\ timer' = {NewTimer} /\ cl' = Retold(cl)
    BY <1>3 DEF CallReturns, MarkReady, OneTimer
  <2>2. ~closing /\ usable /\ connected /\ sup \in {"serving", "clearing"}
        /\ (sup = "clearing" => wasReady)
    BY <1>3 DEF Restorable, IInv, LinkInv, Holding
  <2>3. Announced(cl', cl, snap, strict', session, strict')
    <3>1. PICK s \in BOOLEAN : s = TRUE
      OBVIOUS
    <3>2. Answering(cl)
      BY DEF IInv, ClientInv, Quiet, Answering
    <3>3. Announced(OnRecovery(cl, snap, s, session), cl, snap, s, session, s)
      BY <3>2, Ranges, RecoveryFacts DEF Shape
    <3>4. OnRecovery(cl, snap, s, session) = Retold(cl)
      BY <3>1 DEF Retold
    <3>5. s = strict'
      BY <2>1, <3>1
    <3>6. QED
      BY <2>1, <3>3, <3>4, <3>5
  <2>4. /\ cl' \in Clients /\ cl'.connected = cl.connected
        /\ cl'.state \in Closed <=> cl.state \in Closed
        /\ Quiet(cl', strict') /\ (cl.state \notin Closed => Fresh(cl', strict'))
    BY <2>3 DEF Announced
  <2>5. Places'
    BY <1>1, Ranges DEF Places
  <2>6. Flags'
    BY <1>1, <2>1, Ranges DEF Flags
  <2>7. Counts' /\ Timers'
    BY <1>1, <2>1, Ranges, Assumptions DEF Counts, Timers, NewTimer, None
  <2>8. Shape'
    BY <1>1, <2>1, <2>4, Ranges DEF Shape
  <2>9. Records'
    <3>1. cl'.state \in States /\ cl'.waiting \subseteq Callers
      BY <2>4 DEF Clients
    <3>2. QED
      BY <1>1, <1>2, <3>1, Ranges DEF Records, States
  <2>10. ClosingInv' /\ LinkInv' /\ ClockInv' /\ RestartInv'
    BY <1>1, <1>2, <2>1, <2>2 DEF IInv, ClosingInv, LinkInv, ClockInv, RestartInv, Alive,
                                  Holding, Revivable, NewTimer
  <2>11. ClientInv'
    BY <1>1, <2>4 DEF IInv, ClientInv
  <2>12. DrivenInv'
    BY <1>1, <2>2 DEF IInv, DrivenInv, Alive
  <2>13. QED
    BY <2>5, <2>6, <2>7, <2>8, <2>9, <2>10, <2>11, <2>12 DEF IInv, TypeOK
<1>4. CASE ~Restorable
  <2>1. UNCHANGED <<strict, everReady, readyAge, timer, prints, cl>>
    BY <1>4 DEF CallReturns, readiness
  <2>2. Places' /\ Flags'
    BY <1>1, <2>1, Ranges DEF Places, Flags
  <2>3. Counts' /\ Timers' /\ Shape' /\ Records'
    BY <1>1, <1>2, <2>1, Ranges DEF Counts, Timers, Shape, Records
  <2>4. ClosingInv' /\ LinkInv' /\ ClockInv' /\ RestartInv'
    BY <1>1, <1>2, <2>1 DEF IInv, ClosingInv, LinkInv, ClockInv, RestartInv, Alive, Holding,
                            Revivable
  <2>5. ClientInv' /\ DrivenInv'
    BY <1>1, <2>1 DEF IInv, ClientInv, DrivenInv, OnItsWay, Alive
  <2>6. QED
    BY <2>2, <2>3, <2>4, <2>5 DEF IInv, TypeOK
<1>5. QED
    BY <1>3, <1>4

(* A loss is shown at once, and makes nobody ready.                        *)
LEMMA LossShown ==
    ASSUME IInv, NEW t \in BOOLEAN
    PROVE  /\ Lost(cl) \in Clients /\ Lost(cl).connected = FALSE /\ Quiet(Lost(cl), t)
           /\ Lost(cl).state \in Closed <=> cl.state \in Closed
           /\ Lost(cl).state = cl.state \/ cl.connected
           /\ closer = "idle" => Fresh(Lost(cl), t)
<1>1. Answering(cl)
  BY DEF IInv, ClientInv, Quiet, Answering
<1>2. Dropped(Lost(cl), cl, t)
  BY <1>1, Ranges, LostFacts DEF Shape
<1>3. closer = "idle" /\ ~cl.connected => Fresh(cl, strict) /\ cl.connected = FALSE
  BY Ranges DEF IInv, ClientInv
<1>4. closer = "idle" /\ ~cl.connected => Fresh(cl, t)
  BY <1>3, Ranges, Unconnected DEF Shape, Flags
<1>5. QED
  BY <1>2, <1>4 DEF Dropped

LEMMA CallInvalidatesKeeps ==
    ASSUME IInv, Followed, CallInvalidates, UNCHANGED cvars
    PROVE  IInv'
<1>1. /\ call.open /\ call' = NoCall /\ strict' = FALSE /\ timer' = {}
      /\ usable' = FALSE /\ connected' = FALSE /\ cl' = Lost(cl)
      /\ UNCHANGED <<sup, owned, stop, doubled, restart, why, wasReady, closing, awaits,
                     session, everReady, readyAge, age, attempts, authUsed, prints, snap,
                     failed, wakeup, startup, services, cleanup, closer>>
    BY DEF CallInvalidates, NotReady, task, attempt, budget, cvars
<1>2. call' \in [open : BOOLEAN, suspended : BOOLEAN, session : 0..MaxSessions] /\ ~call'.open
    BY <1>1, Assumptions DEF NoCall
<1>3. /\ cl' \in Clients /\ cl'.connected = FALSE /\ Quiet(cl', strict')
      /\ cl'.state \in Closed <=> cl.state \in Closed
      /\ cl'.state = cl.state \/ (cl.connected /\ connected)
      /\ closer = "idle" => Fresh(cl', strict')
  <2>1. strict' \in BOOLEAN
    BY <1>1
  <2>2. QED
    BY <1>1, <2>1, LossShown DEF IInv, ClientInv
<1>4. sup \in Holding /\ (connected /\ sup = "ending" => closing)
    BY <1>1 DEF IInv, LinkInv
<1>5. Places'
    BY <1>1, Ranges DEF Places
<1>6. Flags'
    BY <1>1, Ranges DEF Flags
<1>7. Counts' /\ Timers' /\ Shape'
    BY <1>1, <1>3, Ranges DEF Counts, Timers, Shape
<1>8. Records'
  <2>1. cl'.state \in States /\ cl'.waiting \subseteq Callers
    BY <1>3 DEF Clients
  <2>2. QED
    BY <1>1, <1>2, <2>1, Ranges DEF Records, States
<1>9. ClosingInv' /\ LinkInv' /\ ClockInv' /\ RestartInv'
    BY <1>1, <1>2, <1>4 DEF IInv, ClosingInv, LinkInv, ClockInv, RestartInv, Alive, Holding,
                            Revivable
<1>10. ClientInv'
    BY <1>1, <1>3 DEF IInv, ClientInv
<1>11. DrivenInv'
    BY <1>1, <1>3, <1>4 DEF IInv, DrivenInv, OnItsWay, Alive, Holding
<1>12. QED
    BY <1>5, <1>6, <1>7, <1>8, <1>9, <1>10, <1>11 DEF IInv, TypeOK

----------------------------------------------------------------------------
(* The steps of the client.                                                *)

(* It speaks for itself: the transport is left as it is, but for the       *)
(* failure that a startup deadline puts in the place of the last one.      *)
LEMMA ClientStepKeeps ==
    ASSUME IInv,
           UNCHANGED <<sup, owned, stop, doubled, restart, why, wasReady, closing, awaits,
                       connected, session, usable, strict, everReady, readyAge, age, attempts,
                       authUsed, prints, wakeup, timer, call>>,
           snap' = snap \/ (snap' \in Snapshots /\ RestartInv' /\ ~(sup = "sleeping" /\ ~stop)),
           failed' \in BOOLEAN, services' \in BOOLEAN, cl' \in Clients, Places',
           ClosingInv', ClientInv',
           OnItsWay' => startup' # "none" \/ (OnItsWay /\ startup = "none")
    PROVE  IInv'
<1>1. Flags'
    BY Ranges DEF Flags
<1>2. Counts' /\ Timers'
    BY Ranges DEF Counts, Timers
<1>3. snap' \in Snapshots
    BY Ranges DEF Shape
<1>4. Shape'
    BY <1>3, Ranges DEF Shape
<1>5. Records'
  <2>1. cl'.state \in States /\ cl'.waiting \subseteq Callers /\ snap'.state \in SnapStates
    BY <1>3 DEF Clients, Snapshots
  <2>2. QED
    BY <2>1, Ranges DEF Records, States, SnapStates
<1>6. LinkInv' /\ ClockInv'
    BY DEF IInv, LinkInv, ClockInv, Holding
<1>7. RestartInv'
    BY DEF IInv, RestartInv, Alive, Revivable
<1>8. DrivenInv'
    BY DEF IInv, DrivenInv, Alive, OnItsWay
<1>9. QED
    BY <1>1, <1>2, <1>4, <1>5, <1>6, <1>7, <1>8 DEF IInv, TypeOK

LEMMA StartKeeps ==
    ASSUME IInv, Start
    PROVE  IInv'
<1>1. /\ closer = "idle" /\ startup = "none" /\ startup' = "begin"
      /\ cl' = SetState(cl, "starting", strict)
      /\ UNCHANGED <<sup, owned, stop, doubled, restart, why, wasReady, closing, awaits,
                     connected, session, usable, strict, everReady, readyAge, age, attempts,
                     authUsed, prints, snap, failed, wakeup, timer, call,
                     services, cleanup, closer>>
    BY DEF Start, Idle, task, attempt, link, readiness, budget
<1>2. SetTo(cl', cl, "starting", strict)
    BY <1>1, Ranges, SetStateFacts DEF Shape, Flags, States
<1>3. /\ cl' \in Clients /\ cl'.state = "starting" /\ cl'.connected = cl.connected
      /\ Fresh(cl', strict) /\ Quiet(cl', strict)
    BY <1>2 DEF SetTo
<1>4. Places'
    BY <1>1, Ranges DEF Places
<1>5. ClosingInv'
    BY <1>1 DEF IInv, ClosingInv, Alive
<1>6. ClientInv'
    BY <1>1, <1>3 DEF IInv, ClientInv, Closed
<1>7. QED
    BY <1>1, <1>3, <1>4, <1>5, <1>6, ClientStepKeeps, Ranges DEF Flags

LEMMA StartupReadyKeeps ==
    ASSUME IInv, StartupReady
    PROVE  IInv'
<1>1. /\ startup = "waiting" /\ startup' = "none"
      /\ cl' = IF cl.state \in Closed THEN cl ELSE SetState(cl, "ready", strict)
      /\ UNCHANGED <<sup, owned, stop, doubled, restart, why, wasReady, closing, awaits,
                     connected, session, usable, strict, everReady, readyAge, age, attempts,
                     authUsed, prints, snap, failed, wakeup, timer, call,
                     services, cleanup, closer>>
    BY DEF StartupReady, task, attempt, link, readiness, budget
<1>2. SetTo(SetState(cl, "ready", strict), cl, "ready", strict)
    BY Ranges, SetStateFacts DEF Shape, Flags, States
<1>3. /\ cl' \in Clients /\ cl'.connected = cl.connected /\ cl'.state \in Closed \cup {"ready"}
      /\ cl'.state \in Closed <=> cl.state \in Closed
      /\ Quiet(cl', strict) /\ (cl.state \notin Closed => Fresh(cl', strict))
    BY <1>1, <1>2, Ranges DEF SetTo, Closed, Shape, IInv, ClientInv
<1>4. Places'
    BY <1>1, Ranges DEF Places
<1>5. ClosingInv'
    BY <1>1 DEF IInv, ClosingInv, Alive
<1>6. ClientInv'
    BY <1>1, <1>3 DEF IInv, ClientInv
<1>7. ~OnItsWay'
    BY <1>3 DEF OnItsWay, Closed
<1>8. QED
    BY <1>1, <1>3, <1>4, <1>5, <1>6, <1>7, ClientStepKeeps, Ranges DEF Flags

(* The client is left failed, or closing.                                  *)
LEMMA FailedFacts ==
    ASSUME IInv, NEW c \in Clients, Failed(c),
           c.state \in Closed <=> cl.state \in Closed, Answering(c)
    PROVE  /\ startup' = "none" /\ services' = services /\ cleanup' = cleanup
           /\ cl' \in Clients /\ (cl'.connected => c.connected)
           /\ cl'.state \in Closed \cup {"failed"} /\ (cl'.state \in Closed <=> cl.state \in Closed)
           /\ \A t \in BOOLEAN : Quiet(cl', t) /\ (cl.state \notin Closed => Fresh(cl', t))
<1>1. /\ startup' = "none" /\ services' = services /\ cleanup' = cleanup
      /\ cl' = IF c.state \in Closed THEN c ELSE SetState(c, "failed", FALSE)
    BY DEF Failed
<1>2. CASE c.state \in Closed
    BY <1>1, <1>2 DEF Closed, Quiet, Answering
<1>3. CASE c.state \notin Closed
  <2>1. PICK s \in BOOLEAN : s = FALSE
    OBVIOUS
  <2>2. SetTo(SetState(c, "failed", s), c, "failed", s)
    BY SetStateFacts DEF States
  <2>3. cl' = SetState(c, "failed", s)
    BY <1>1, <1>3, <2>1
  <2>4. /\ cl' \in Clients /\ cl'.state = "failed" /\ cl'.connected = c.connected
        /\ Fresh(cl', s) /\ Quiet(cl', s)
    BY <2>2, <2>3 DEF SetTo
  <2>5. \A t \in BOOLEAN : Fresh(cl', t) /\ Quiet(cl', t)
    BY <2>4 DEF Fresh, Quiet, Status, IsReady
  <2>6. QED
    BY <1>1, <1>3, <2>4, <2>5 DEF Closed
<1>4. QED
    BY <1>2, <1>3

LEMMA TidyFacts ==
    ASSUME IInv, NEW c, Tidy(c)
    PROVE  /\ startup' = "tidying" /\ cl' = c /\ services' = FALSE
           /\ cleanup' \in {cleanup, "asked"} /\ (cleanup = "closing" => cleanup' = "closing")
BY DEF Tidy

LEMMA StartupTidiedKeeps ==
    ASSUME IInv, StartupTidied
    PROVE  IInv'
<1> DEFINE c == [cl EXCEPT !.connected = FALSE]
<1>1. /\ startup = "tidying" /\ Failed(c)
      /\ UNCHANGED <<sup, owned, stop, doubled, restart, why, wasReady, closing, awaits,
                     connected, session, usable, strict, everReady, readyAge, age, attempts,
                     authUsed, prints, snap, failed, wakeup, timer, call, closer>>
    BY DEF StartupTidied, task, attempt, link, readiness, budget
<1>2. c \in Clients /\ c.connected = FALSE /\ c.state = cl.state /\ c.waiting = cl.waiting
    BY Ranges DEF Shape, Clients
<1> HIDE DEF c
<1>3. Answering(c)
    BY <1>2 DEF IInv, ClientInv, Quiet, Answering
<1>4. /\ startup' = "none" /\ services' = services /\ cleanup' = cleanup
      /\ cl' \in Clients /\ (cl'.connected => c.connected)
      /\ cl'.state \in Closed \cup {"failed"} /\ (cl'.state \in Closed <=> cl.state \in Closed)
      /\ \A t \in BOOLEAN : Quiet(cl', t) /\ (cl.state \notin Closed => Fresh(cl', t))
    BY <1>1, <1>2, <1>3, FailedFacts
<1>5. Places'
    BY <1>1, <1>4, Ranges DEF Places
<1>6. ClosingInv'
    BY <1>1, <1>4 DEF IInv, ClosingInv, Alive
<1>7. ClientInv'
    BY <1>1, <1>2, <1>4, Ranges DEF IInv, ClientInv, Flags
<1>8. ~OnItsWay'
    BY <1>4 DEF OnItsWay, Closed
<1>9. QED
    BY <1>1, <1>4, <1>5, <1>6, <1>7, <1>8, ClientStepKeeps, Ranges DEF Flags

LEMMA StartupGivesUpKeeps ==
    ASSUME IInv, StartupGivesUp
    PROVE  IInv'
<1>1. /\ startup = "begin" /\ Tidy(cl)
      /\ UNCHANGED <<sup, owned, stop, doubled, restart, why, wasReady, closing, awaits,
                     connected, session, usable, strict, everReady, readyAge, age, attempts,
                     authUsed, prints, snap, failed, wakeup, timer, call, closer>>
    BY DEF StartupGivesUp, task, attempt, link, readiness, budget
<1>2. /\ startup' = "tidying" /\ cl' = cl /\ services' = FALSE
      /\ cleanup' \in {cleanup, "asked"} /\ (cleanup = "closing" => cleanup' = "closing")
    BY <1>1, TidyFacts
<1>3. Places'
    BY <1>1, <1>2, Ranges DEF Places, Running
<1>4. ClosingInv'
    BY <1>1, <1>2 DEF IInv, ClosingInv, Alive
<1>5. ClientInv'
    BY <1>1, <1>2 DEF IInv, ClientInv
<1>6. QED
    BY <1>1, <1>2, <1>3, <1>4, <1>5, ClientStepKeeps, Ranges DEF Flags, Shape

LEMMA StartupCancelledKeeps ==
    ASSUME IInv, StartupCancelled
    PROVE  IInv'
<1>1. /\ startup = "cancelled" /\ startup' = "none"
      /\ UNCHANGED <<sup, owned, stop, doubled, restart, why, wasReady, closing, awaits,
                     connected, session, usable, strict, everReady, readyAge, age, attempts,
                     authUsed, prints, snap, failed, wakeup, timer, call, cl,
                     services, cleanup, closer>>
    BY DEF StartupCancelled, svars, task, attempt, link, readiness, budget
<1>2. Places'
    BY <1>1, Ranges DEF Places
<1>3. ClosingInv' /\ ClientInv'
    BY <1>1 DEF IInv, ClosingInv, ClientInv, Alive
<1>4. ~OnItsWay'
    BY <1>1 DEF OnItsWay, IInv, ClosingInv, ClientInv, Closed
<1>5. QED
    BY <1>1, <1>2, <1>3, <1>4, ClientStepKeeps, Ranges DEF Flags, Shape

LEMMA CloseKeeps ==
    ASSUME IInv, Close
    PROVE  IInv'
<1>1. /\ closer = "idle" /\ closer' = "closing" /\ cl' = SetState(cl, "closing", strict)
      /\ UNCHANGED <<sup, owned, stop, doubled, restart, why, wasReady, closing, awaits,
                     connected, session, usable, strict, everReady, readyAge, age, attempts,
                     authUsed, prints, snap, failed, wakeup, timer, call,
                     startup, services, cleanup>>
    BY DEF Close, task, attempt, link, readiness, budget
<1>2. SetTo(cl', cl, "closing", strict)
    BY <1>1, Ranges, SetStateFacts DEF Shape, Flags, States
<1>3. /\ cl' \in Clients /\ cl'.connected = cl.connected /\ cl'.state = "closing"
      /\ Quiet(cl', strict)
    BY <1>2 DEF SetTo
<1>4. Places'
    BY <1>1, Ranges DEF Places
<1>5. ClosingInv'
    BY <1>1 DEF IInv, ClosingInv, Alive
<1>6. ClientInv'
    BY <1>1, <1>3 DEF IInv, ClientInv, Closed
<1>7. QED
    BY <1>1, <1>3, <1>4, <1>5, <1>6, ClientStepKeeps, Ranges DEF Flags, OnItsWay

LEMMA CloseComponentsKeeps ==
    ASSUME IInv, CloseComponents
    PROVE  IInv'
<1>1. /\ closer = "closing" /\ closer' = "joining" /\ services' = FALSE
      /\ startup' \in {"none", "close_cancelled", "cancelled"}
      /\ startup' = "close_cancelled" => startup = "closing"
      /\ cleanup' \in {cleanup, "asked"} /\ (cleanup = "closing" => cleanup' = "closing")
      /\ UNCHANGED <<sup, owned, stop, doubled, restart, why, wasReady, closing, awaits,
                     connected, session, usable, strict, everReady, readyAge, age, attempts,
                     authUsed, prints, snap, failed, wakeup, timer, call, cl>>
    BY DEF CloseComponents, svars, task, attempt, link, readiness, budget
<1>2. Places'
    BY <1>1, Ranges DEF Places, Running
<1>3. ClosingInv'
    BY <1>1 DEF IInv, ClosingInv, Alive
<1>4. ClientInv'
    BY <1>1 DEF IInv, ClientInv
<1>5. ~OnItsWay'
    BY <1>1 DEF OnItsWay, IInv, ClientInv, Closed
<1>6. QED
    BY <1>1, <1>2, <1>3, <1>4, <1>5, ClientStepKeeps, Ranges DEF Flags, Shape

LEMMA CloseEndsKeeps ==
    ASSUME IInv, CloseEnds
    PROVE  IInv'
<1> DEFINE c == [cl EXCEPT !.connected = FALSE]
<1>1. /\ closer = "joining" /\ closer' = "done" /\ cl' = SetState(c, "closed", strict)
      /\ UNCHANGED <<sup, owned, stop, doubled, restart, why, wasReady, closing, awaits,
                     connected, session, usable, strict, everReady, readyAge, age, attempts,
                     authUsed, prints, snap, failed, wakeup, timer, call,
                     startup, services, cleanup>>
    BY DEF CloseEnds, task, attempt, link, readiness, budget
<1>2. c \in Clients /\ c.connected = FALSE
    BY Ranges DEF Shape, Clients
<1> HIDE DEF c
<1>3. SetTo(cl', c, "closed", strict)
    BY <1>1, <1>2, Ranges, SetStateFacts DEF Flags, States
<1>4. /\ cl' \in Clients /\ cl'.connected = FALSE /\ cl'.state = "closed" /\ Quiet(cl', strict)
    BY <1>2, <1>3 DEF SetTo
<1>5. Places'
    BY <1>1, Ranges DEF Places
<1>6. ClosingInv'
    BY <1>1 DEF IInv, ClosingInv, Alive
<1>7. ClientInv'
    BY <1>1, <1>4 DEF IInv, ClientInv, Closed
<1>8. QED
    BY <1>1, <1>4, <1>5, <1>6, <1>7, ClientStepKeeps, Ranges DEF Flags, OnItsWay

(* Who waits is among those who wait for an answer that is yet to come.    *)
LEMMA WaitKeeps ==
    ASSUME IInv, NEW c \in Callers, Wait(c) \/ WaitTimesOut(c)
    PROVE  IInv'
<1>1. UNCHANGED <<sup, owned, stop, doubled, restart, why, wasReady, closing, awaits,
                  connected, session, usable, strict, everReady, readyAge, age, attempts,
                  authUsed, prints, snap, failed, wakeup, timer, call,
                  startup, services, cleanup, closer>>
    BY DEF Wait, WaitTimesOut, task, attempt, link, readiness, budget, cvars
<1>2. PICK w \in SUBSET Callers :
          /\ cl' = [cl EXCEPT !.waiting = w]
          /\ w \subseteq cl.waiting \/ (~IsReady(cl, strict) /\ ~Refuses(cl))
  <2>1. CASE Wait(c)
    <3>1. /\ ~IsReady(cl, strict) /\ ~Refuses(cl) /\ cl' = [cl EXCEPT !.waiting = @ \cup {c}]
      BY <2>1 DEF Wait, Waits
    <3>2. cl.waiting \cup {c} \in SUBSET Callers
      BY Ranges DEF Shape, Clients
    <3>3. cl' = [cl EXCEPT !.waiting = cl.waiting \cup {c}]
      BY <3>1
    <3>4. QED
      BY <3>1, <3>2, <3>3
  <2>2. CASE WaitTimesOut(c)
    BY <2>2, Ranges DEF WaitTimesOut, Shape, Clients
  <2>3. QED
    BY <2>1, <2>2
<1>3. /\ cl' \in Clients /\ cl'.state = cl.state /\ cl'.connected = cl.connected
      /\ cl'.waiting = w /\ Status(cl', strict) = Status(cl, strict) /\ cl'.shown = cl.shown
      /\ IsReady(cl', strict) = IsReady(cl, strict)
    BY <1>2, Ranges DEF Shape, Clients, Status, IsReady
<1>4. Quiet(cl', strict) /\ (Fresh(cl, strict) => Fresh(cl', strict))
    BY <1>2, <1>3 DEF Quiet, Fresh, Refuses, IInv, ClientInv
<1>5. Places' /\ ClosingInv'
    BY <1>1, Ranges DEF Places, IInv, ClosingInv, Alive
<1>6. ClientInv'
    BY <1>1, <1>3, <1>4 DEF IInv, ClientInv
<1>7. OnItsWay' => startup' # "none" \/ (OnItsWay /\ startup = "none")
    BY <1>1, <1>3 DEF OnItsWay
<1>8. QED
    BY <1>1, <1>3, <1>5, <1>6, <1>7, ClientStepKeeps, Ranges DEF Flags

(* The transport is closed by one who waits for its supervisor.            *)
LEMMA BeginCloseKeeps ==
    ASSUME IInv, NEW who \in {"startup", "cleanup"}, BeginClose(who),
           \/ /\ who = "startup" /\ startup = "waiting" /\ startup' = "closing"
              /\ cleanup' = cleanup
           \/ /\ who = "cleanup" /\ cleanup = "asked" /\ cleanup' = "closing"
              /\ startup' = startup,
           UNCHANGED <<sup, doubled, restart, why, wasReady, connected, session, usable, strict,
                       everReady, readyAge, age, attempts, authUsed, prints, call,
                       services, closer>>,
           snap' \in Snapshots, cl' \in Clients, ClientInv'
    PROVE  IInv'
<1>1. /\ closing' = TRUE /\ wakeup' = TRUE /\ failed' = (failed \/ ~connected)
      /\ stop' = (stop \/ (owned /\ Alive)) /\ timer' = {} /\ owned' = FALSE
      /\ awaits' = IF owned /\ Alive THEN who ELSE awaits
    BY DEF BeginClose
<1>2. Places'
    BY <1>1, Ranges DEF Places, Running
<1>3. Flags'
  <2>1. failed' \in BOOLEAN /\ stop' \in BOOLEAN
    BY <1>1, Ranges DEF Flags, Alive
  <2>2. QED
    BY <1>1, <2>1, Ranges DEF Flags
<1>4. Counts' /\ Timers'
    BY <1>1, Ranges DEF Counts, Timers
<1>5. Shape'
    BY Ranges DEF Shape
<1>6. Records'
  <2>1. cl'.state \in States /\ cl'.waiting \subseteq Callers /\ snap'.state \in SnapStates
    BY DEF Clients, Snapshots
  <2>2. QED
    BY <2>1, Ranges DEF Records, States, SnapStates
<1>7. ClosingInv'
  <2>1. stop => ~owned
    BY DEF IInv, ClosingInv
  <2>2. /\ stop' => \/ awaits' = "startup" /\ startup' = "closing"
                    \/ awaits' = "cleanup" /\ cleanup' = "closing"
                    \/ closer' \in {"joining", "done"}
    BY <1>1, <2>1 DEF IInv, ClosingInv
  <2>3. stop' => Alive
    BY <1>1 DEF IInv, ClosingInv
  <2>4. Alive => stop'
    BY <1>1 DEF IInv, ClosingInv
  <2>5. QED
    BY <1>1, <2>2, <2>3, <2>4 DEF IInv, ClosingInv, Running, Alive
<1>8. LinkInv' /\ ClockInv'
    BY <1>1 DEF IInv, LinkInv, ClockInv, Holding
<1>9. RestartInv'
    BY <1>1 DEF IInv, RestartInv, Alive
<1>10. DrivenInv'
  <2>1. sup' = "sleeping" => stop'
    BY <1>1 DEF IInv, ClosingInv, Alive
  <2>2. QED
    BY <1>1, <2>1 DEF DrivenInv
<1>11. QED
    BY <1>2, <1>3, <1>4, <1>5, <1>6, <1>7, <1>8, <1>9, <1>10 DEF IInv, TypeOK

LEMMA CleanupBeginsKeeps ==
    ASSUME IInv, CleanupBegins
    PROVE  IInv'
<1>1. /\ cleanup = "asked" /\ cleanup' = "closing" /\ BeginClose("cleanup")
      /\ UNCHANGED <<sup, doubled, restart, why, wasReady, connected, session, usable, strict,
                     everReady, readyAge, age, attempts, authUsed, prints, snap, call, cl,
                     startup, services, closer>>
    BY DEF CleanupBegins, attempt, link, readiness, budget
<1>2. ClientInv'
    BY <1>1 DEF IInv, ClientInv
<1>3. snap' \in Snapshots /\ cl' \in Clients
    BY <1>1, Ranges DEF Shape
<1>4. QED
    BY <1>1, <1>2, <1>3, BeginCloseKeeps

(* What close does after its wait.                                         *)
LEMMA EndCloseKeeps ==
    ASSUME IInv, closing, NEW who \in {"startup", "cleanup"}, EndClose(who),
           UNCHANGED <<sup, owned, stop, doubled, why, wasReady, closing, session, everReady,
                       readyAge, age, attempts, authUsed, prints, snap, failed, wakeup, call,
                       closer>>,
           services' \in BOOLEAN, cl' \in Clients, Places', ClosingInv', ClientInv'
    PROVE  IInv'
<1>1. /\ usable' = FALSE /\ restart' = NoRestart /\ strict' = FALSE /\ timer' = {}
      /\ connected' = FALSE
    BY DEF EndClose, NotReady
<1>2. restart' \in [codes : {{}, Exhausted, CredentialCodes}, due : BOOLEAN]
      /\ restart'.codes = {} /\ restart'.due = FALSE
    BY <1>1 DEF NoRestart
<1>3. Flags'
    BY <1>1, Ranges DEF Flags
<1>4. Counts' /\ Timers'
    BY <1>1, Ranges DEF Counts, Timers
<1>5. Shape'
    BY Ranges DEF Shape
<1>6. Records'
  <2>1. cl'.state \in States /\ cl'.waiting \subseteq Callers
    BY DEF Clients
  <2>2. QED
    BY <1>2, <2>1, Ranges DEF Records, States
<1>7. LinkInv' /\ ClockInv' /\ RestartInv'
    BY <1>1, <1>2 DEF IInv, LinkInv, ClockInv, RestartInv, Holding, Alive
<1>8. DrivenInv'
    BY DEF IInv, DrivenInv, Alive
<1>9. QED
    BY <1>3, <1>4, <1>5, <1>6, <1>7, <1>8 DEF IInv, TypeOK

LEMMA CleanupEndsKeeps ==
    ASSUME IInv, CleanupEnds
    PROVE  IInv'
<1>1. /\ cleanup = "closing" /\ Over("cleanup") /\ cleanup' = "done" /\ EndClose("cleanup")
      /\ cl' = Lost(cl)
      /\ UNCHANGED <<sup, owned, stop, doubled, why, wasReady, closing, session, everReady,
                     readyAge, age, attempts, authUsed, prints, snap, failed, wakeup, call,
                     startup, services, closer>>
    BY DEF CleanupEnds, attempt, budget
<1>2. closing /\ strict' = FALSE /\ connected' = FALSE
      /\ awaits' = IF awaits = "cleanup" THEN "nobody" ELSE awaits
    BY <1>1 DEF IInv, ClosingInv, EndClose, NotReady
<1>3. /\ cl' \in Clients /\ cl'.connected = FALSE /\ Quiet(cl', strict')
      /\ cl'.state \in Closed <=> cl.state \in Closed
      /\ closer = "idle" => Fresh(cl', strict')
    BY <1>1, <1>2, LossShown
<1>4. Places'
    BY <1>1, <1>2, Ranges DEF Places
<1>5. ClosingInv'
  <2>1. awaits = "cleanup" => ~Alive
    BY <1>1 DEF Over
  <2>2. stop => \/ awaits = "startup" /\ startup = "closing"
                \/ closer \in {"joining", "done"}
    BY <2>1 DEF IInv, ClosingInv
  <2>3. QED
    BY <1>1, <1>2, <2>2 DEF IInv, ClosingInv, Running, Alive
<1>6. ClientInv'
    BY <1>1, <1>3 DEF IInv, ClientInv
<1>7. QED
    BY <1>1, <1>2, <1>3, <1>4, <1>5, <1>6, EndCloseKeeps, Ranges DEF Flags

LEMMA StartupCloseCancelledKeeps ==
    ASSUME IInv, StartupCloseCancelled
    PROVE  IInv'
<1>1. /\ startup = "close_cancelled" /\ startup' = "none" /\ EndClose("startup")
      /\ cl' = Lost(cl)
      /\ UNCHANGED <<sup, owned, stop, doubled, why, wasReady, closing, session, everReady,
                     readyAge, age, attempts, authUsed, prints, snap, failed, wakeup, call,
                     services, cleanup, closer>>
    BY DEF StartupCloseCancelled, attempt, budget
<1>2. closing /\ strict' = FALSE /\ connected' = FALSE /\ closer \in {"joining", "done"}
      /\ awaits' = IF awaits = "startup" THEN "nobody" ELSE awaits
    BY <1>1 DEF IInv, ClosingInv, EndClose, NotReady
<1>3. /\ cl' \in Clients /\ cl'.connected = FALSE /\ Quiet(cl', strict')
      /\ cl'.state \in Closed <=> cl.state \in Closed
    BY <1>1, <1>2, LossShown
<1>4. Places'
    BY <1>1, <1>2, Ranges DEF Places
<1>5. ClosingInv'
    BY <1>1, <1>2 DEF IInv, ClosingInv, Running, Alive
<1>6. ClientInv'
    BY <1>1, <1>2, <1>3 DEF IInv, ClientInv
<1>7. QED
    BY <1>1, <1>2, <1>3, <1>4, <1>5, <1>6, EndCloseKeeps, Ranges DEF Flags

(* The start has failed: the client is left failed, or is tidied up.       *)
LEMMA RaisedFacts ==
    ASSUME IInv, NEW c \in Clients, NEW s, Raised(c, s), NEW t \in BOOLEAN,
           startup \in {"waiting", "closing"},
           c.state \in Closed <=> cl.state \in Closed, Quiet(c, t),
           closer = "idle" => Fresh(c, t) \/ (c.connected /\ sup \in {"clearing", "ending"})
    PROVE  /\ startup' \in {"none", "tidying"} /\ services' \in BOOLEAN
           /\ cleanup' \in {cleanup, "asked"} /\ (cleanup = "closing" => cleanup' = "closing")
           /\ cleanup' \in Running => ~services'
           /\ cl' \in Clients /\ (cl'.connected => c.connected)
           /\ cl'.state \in Closed <=> cl.state \in Closed
           /\ Quiet(cl', t)
           /\ closer = "idle" => Fresh(cl', t) \/ (cl'.connected /\ sup \in {"clearing", "ending"})
           /\ startup' = "none" => cl'.state \in Closed \cup {"failed"}
<1>1. CASE Failed(c)
  <2>1. Answering(c)
    BY DEF Quiet, Answering
  <2>2. /\ startup' = "none" /\ services' = services /\ cleanup' = cleanup
        /\ cl' \in Clients /\ (cl'.connected => c.connected)
        /\ cl'.state \in Closed \cup {"failed"} /\ (cl'.state \in Closed <=> cl.state \in Closed)
        /\ \A u \in BOOLEAN : Quiet(cl', u) /\ (cl.state \notin Closed => Fresh(cl', u))
    BY <1>1, <2>1, FailedFacts
  <2>3. closer = "idle" => cl.state \notin Closed
    BY DEF IInv, ClientInv
  <2>4. cleanup \in Running => ~services
    BY DEF IInv, ClosingInv
  <2>5. QED
    BY <2>2, <2>3, <2>4, Ranges DEF Flags
<1>2. CASE Tidy(c)
  <2>1. /\ startup' = "tidying" /\ cl' = c /\ services' = FALSE
        /\ cleanup' \in {cleanup, "asked"} /\ (cleanup = "closing" => cleanup' = "closing")
    BY <1>2, TidyFacts
  <2>2. QED
    BY <2>1
<1>3. QED
    BY <1>1, <1>2 DEF Raised

LEMMA StartupClosedKeeps ==
    ASSUME IInv, StartupClosed
    PROVE  IInv'
<1>1. /\ startup = "closing" /\ Over("startup") /\ EndClose("startup") /\ Raised(Lost(cl), snap)
      /\ UNCHANGED <<sup, owned, stop, doubled, why, wasReady, closing, session, everReady,
                     readyAge, age, attempts, authUsed, prints, snap, failed, wakeup, call,
                     closer>>
    BY DEF StartupClosed, attempt, budget
<1>2. closing /\ strict' = FALSE /\ connected' = FALSE
      /\ awaits' = IF awaits = "startup" THEN "nobody" ELSE awaits
    BY <1>1 DEF IInv, ClosingInv, EndClose, NotReady
<1>3. PICK t \in BOOLEAN : t = FALSE
    OBVIOUS
<1>4. /\ Lost(cl) \in Clients /\ Lost(cl).connected = FALSE /\ Quiet(Lost(cl), t)
      /\ Lost(cl).state \in Closed <=> cl.state \in Closed
      /\ closer = "idle" => Fresh(Lost(cl), t)
    BY LossShown
<1>5. /\ startup' \in {"none", "tidying"} /\ services' \in BOOLEAN
      /\ cleanup' \in {cleanup, "asked"} /\ (cleanup = "closing" => cleanup' = "closing")
      /\ cleanup' \in Running => ~services'
      /\ cl' \in Clients
      /\ cl'.state \in Closed <=> cl.state \in Closed
      /\ Quiet(cl', t) /\ ~cl'.connected /\ (closer = "idle" => Fresh(cl', t))
  <2>1. /\ startup' \in {"none", "tidying"} /\ services' \in BOOLEAN
        /\ cleanup' \in {cleanup, "asked"} /\ (cleanup = "closing" => cleanup' = "closing")
        /\ cleanup' \in Running => ~services'
        /\ cl' \in Clients /\ (cl'.connected => Lost(cl).connected)
        /\ cl'.state \in Closed <=> cl.state \in Closed
        /\ Quiet(cl', t)
        /\ closer = "idle" => Fresh(cl', t) \/ (cl'.connected /\ sup \in {"clearing", "ending"})
    BY <1>1, <1>4, RaisedFacts
  <2>2. QED
    BY <1>4, <2>1
<1>6. t = strict'
  BY <1>2, <1>3
<1>7. Places'
    BY <1>1, <1>2, <1>5, Ranges DEF Places, Running
<1>8. ClosingInv'
  <2>1. awaits = "startup" => ~Alive
    BY <1>1 DEF Over
  <2>2. stop => \/ awaits = "cleanup" /\ cleanup = "closing"
                \/ closer \in {"joining", "done"}
    BY <2>1 DEF IInv, ClosingInv
  <2>3. QED
    BY <1>1, <1>2, <1>5, <2>2 DEF IInv, ClosingInv, Alive
<1>9. ClientInv'
    BY <1>1, <1>5, <1>6 DEF IInv, ClientInv
<1>10. QED
    BY <1>1, <1>2, <1>5, <1>7, <1>8, <1>9, EndCloseKeeps

(* A start that fails for the reason s, known to the client as c.          *)
LEMMA RaiseKeeps ==
    ASSUME IInv, startup = "waiting", NEW c \in Clients, NEW s \in Snapshots,
           RaiseStartFailure(c, s), snap' = s,
           s.code \in Exhausted
               => s = snap \/ (RestartInv' /\ ~(sup = "sleeping" /\ ~stop)),
           UNCHANGED <<sup, doubled, restart, why, wasReady, connected, session, usable, strict,
                       everReady, readyAge, age, attempts, authUsed, prints, call, closer>>,
           c.connected => cl.connected,
           c.state \in Closed <=> cl.state \in Closed, Quiet(c, strict),
           closer = "idle" => Fresh(c, strict) \/ (c.connected /\ sup \in {"clearing", "ending"})
    PROVE  IInv'
<1>1. CASE s.code \in Exhausted
  <2>1. /\ Raised(c, s) /\ UNCHANGED <<closing, wakeup, stop, timer, awaits, owned>>
        /\ failed' = TRUE
    BY <1>1 DEF RaiseStartFailure
  <2>2. PICK t \in BOOLEAN : t = strict
    BY Ranges DEF Flags
  <2>3. /\ startup' \in {"none", "tidying"} /\ services' \in BOOLEAN
        /\ cleanup' \in {cleanup, "asked"} /\ (cleanup = "closing" => cleanup' = "closing")
        /\ cleanup' \in Running => ~services'
        /\ cl' \in Clients /\ (cl'.connected => c.connected)
        /\ cl'.state \in Closed <=> cl.state \in Closed
        /\ Quiet(cl', t)
        /\ closer = "idle" => Fresh(cl', t) \/ (cl'.connected /\ sup \in {"clearing", "ending"})
        /\ startup' = "none" => cl'.state \in Closed \cup {"failed"}
    BY <2>1, <2>2, RaisedFacts
  <2>4. Places'
    BY <2>1, <2>3, Ranges DEF Places, Running
  <2>5. ClosingInv'
    BY <2>1, <2>3 DEF IInv, ClosingInv, Alive
  <2>6. ClientInv'
    BY <2>2, <2>3 DEF IInv, ClientInv
  <2>7. OnItsWay' => startup' # "none"
    BY <2>3 DEF OnItsWay, Closed
  <2>8. snap' = snap \/ (snap' \in Snapshots /\ RestartInv' /\ ~(sup = "sleeping" /\ ~stop))
    BY <1>1
  <2>9. QED
    BY <2>1, <2>3, <2>4, <2>5, <2>6, <2>7, <2>8, ClientStepKeeps
<1>2. CASE s.code \notin Exhausted
  <2>1. /\ BeginClose("startup") /\ startup' = "closing" /\ cl' = c
        /\ UNCHANGED <<services, cleanup>>
    BY <1>2 DEF RaiseStartFailure
  <2>2. ClientInv'
    BY <2>1 DEF IInv, ClientInv
  <2>3. snap' \in Snapshots /\ cl' \in Clients
    BY <2>1
  <2>4. QED
    BY <2>1, <2>2, <2>3, BeginCloseKeeps
<1>3. QED
    BY <1>1, <1>2

LEMMA StartupFailsKeeps ==
    ASSUME IInv, StartupFails
    PROVE  IInv'
<1>1. /\ startup = "waiting" /\ RaiseStartFailure(cl, snap) /\ snap' = snap
      /\ UNCHANGED <<sup, doubled, restart, why, wasReady, connected, session, usable, strict,
                     everReady, readyAge, age, attempts, authUsed, prints, call, closer>>
    BY DEF StartupFails, attempt, link, readiness, budget
<1>2. Quiet(cl, strict)
      /\ (closer = "idle" => Fresh(cl, strict) \/ (cl.connected /\ sup \in {"clearing", "ending"}))
    BY DEF IInv, ClientInv
<1>3. cl \in Clients /\ snap \in Snapshots
    BY Ranges DEF Shape
<1>4. QED
    BY <1>1, <1>2, <1>3, RaiseKeeps

LEMMA StartupTimesOutKeeps ==
    ASSUME IInv, StartupTimesOut
    PROVE  IInv'
<1> DEFINE s == Snapshot("terminal", Overdue)
           c == OnRecovery(cl, s, strict, session)
<1>1. /\ startup = "waiting" /\ snap' = s /\ RaiseStartFailure(c, s)
      /\ UNCHANGED <<sup, doubled, restart, why, wasReady, connected, session, usable, strict,
                     everReady, readyAge, age, attempts, authUsed, prints, call, closer>>
    BY DEF StartupTimesOut, attempt, link, readiness, budget
<1>2. s \in Snapshots /\ s.state = "terminal" /\ s.code = Overdue
  <2>1. Overdue \in Codes
    BY Ranges DEF Overdue, Codes, FailureCodes, Transient, CredentialCodes, NewClientNeeded
  <2>2. QED
    BY <2>1 DEF Snapshot, Snapshots, SnapStates
<1>3. s.code \in Exhausted => sup \notin {"none", "ending", "sleeping"} \/ snap.code = s.code
    BY <1>2 DEF Overdue, Exhausted, Attempting
<1> HIDE DEF s
<1>4. Announced(c, cl, s, strict, session, strict)
  <2>1. Answering(cl)
    BY DEF IInv, ClientInv, Quiet, Answering
  <2>2. QED
    BY <1>2, <2>1, Ranges, RecoveryFacts DEF Shape, Flags
<1> HIDE DEF c
<1>5. /\ c \in Clients /\ c.connected = cl.connected
      /\ c.state \in Closed <=> cl.state \in Closed
      /\ Quiet(c, strict) /\ (cl.state \notin Closed => Fresh(c, strict))
    BY <1>4 DEF Announced
<1>6. closer = "idle" => Fresh(c, strict)
    BY <1>5 DEF IInv, ClientInv
<1>7. s.code \in Exhausted => RestartInv' /\ ~(sup = "sleeping" /\ ~stop)
  <2>1. ASSUME s.code \in Exhausted
        PROVE  RestartInv' /\ ~(sup = "sleeping" /\ ~stop)
    <3>1. closing' = closing
      BY <1>1, <2>1 DEF RaiseStartFailure
    <3>2. sup = "sleeping" => stop
      BY <1>3, <2>1 DEF IInv, DrivenInv
    <3>3. RestartInv'
      BY <1>1, <1>2, <1>3, <2>1, <3>1 DEF IInv, RestartInv, Revivable, Alive
    <3>4. QED
      BY <3>2, <3>3
  <2>2. QED
    BY <2>1
<1>8. QED
    BY <1>1, <1>2, <1>5, <1>6, <1>7, RaiseKeeps

LEMMA StartupBeginsKeeps ==
    ASSUME IInv, StartupBegins
    PROVE  IInv'
<1>1. /\ startup = "begin" /\ startup' = "waiting" /\ (services \/ cleanup \notin Running)
      /\ services' = TRUE /\ cleanup' = (IF services THEN cleanup ELSE "none") /\ StartTransport
      /\ UNCHANGED <<why, wasReady, awaits, connected, session, usable, timer, call, cl, closer>>
    BY DEF StartupBegins, attempt, link
<1>2. cleanup \notin Running /\ cleanup' \notin Running /\ closer \notin {"joining", "done"}
    BY <1>1 DEF IInv, ClosingInv, Running
<1>3. CASE Alive /\ owned
  <2>1. UNCHANGED <<sup, owned, stop, doubled, restart, closing, strict, everReady, readyAge,
                    age, attempts, authUsed, prints, snap, failed, wakeup>>
    BY <1>1, <1>3 DEF StartTransport, task, readiness, budget
  <2>2. ClosingInv'
    BY <1>1, <1>2, <1>3, <2>1 DEF IInv, ClosingInv, Alive, Running
  <2>3. ClientInv'
    BY <1>1, <2>1 DEF IInv, ClientInv
  <2>4. Places'
    BY <1>1, <2>1, Ranges DEF Places
  <2>5. QED
    BY <1>1, <2>1, <2>2, <2>3, <2>4, ClientStepKeeps, Ranges DEF Flags, Shape
<1>4. CASE ~(Alive /\ owned)
  <2>1. /\ sup' = "attempt" /\ owned' = TRUE /\ stop' = FALSE /\ doubled' = (doubled \/ Alive)
        /\ restart' = NoRestart /\ closing' = FALSE /\ failed' = FALSE /\ wakeup' = FALSE
        /\ strict' = strict /\ everReady' = FALSE /\ readyAge' = None
        /\ age' = None /\ attempts' = 0 /\ authUsed' = FALSE /\ prints' = 0 /\ snap' = Inactive
    BY <1>1, <1>4 DEF StartTransport, Spawn, FreshBudget
  <2>2. sup = "none"
    <3>1. ~stop
      BY <1>1, <1>2 DEF IInv, ClosingInv, Running
    <3>2. QED
      BY <1>4, <3>1 DEF IInv, ClosingInv, Alive
  <2>3. ~usable /\ ~connected /\ ~wasReady /\ ~call.open
    BY <2>2 DEF IInv, LinkInv, Holding
  <2>4. restart' \in [codes : {{}, Exhausted, CredentialCodes}, due : BOOLEAN]
        /\ restart'.codes = {} /\ restart'.due = FALSE
    BY <2>1 DEF NoRestart
  <2>5. snap' \in Snapshots
    BY <2>1 DEF Inactive, Snapshot, Snapshots, SnapStates, Codes, NoFailure
  <2>6. Flags'
    <3>1. doubled' \in BOOLEAN
      BY <2>1, Ranges DEF Flags, Alive
    <3>2. QED
      BY <1>1, <2>1, <3>1, Ranges DEF Flags
  <2>7. Counts' /\ Timers'
    BY <1>1, <2>1, Ranges, Assumptions DEF Counts, Timers, None
  <2>8. Shape'
    BY <1>1, <2>1, <2>5, Ranges DEF Shape
  <2>9. Records'
    <3>1. snap'.state \in SnapStates
      BY <2>5 DEF Snapshots
    <3>2. QED
      BY <1>1, <2>4, <3>1, Ranges DEF Records, SnapStates
  <2>10. Places'
    BY <1>1, <2>1, Ranges DEF Places
  <2>11. ClosingInv' /\ LinkInv' /\ ClockInv' /\ RestartInv'
    BY <1>1, <1>2, <2>1, <2>3, <2>4 DEF IInv, ClosingInv, LinkInv, ClockInv, RestartInv,
                                        Alive, Running
  <2>12. ClientInv'
    BY <1>1, <2>1, <2>3 DEF IInv, ClientInv
  <2>13. DrivenInv'
    BY <1>1, <2>1 DEF DrivenInv
  <2>14. QED
    BY <2>6, <2>7, <2>8, <2>9, <2>10, <2>11, <2>12, <2>13 DEF IInv, TypeOK
<1>5. QED
    BY <1>3, <1>4

----------------------------------------------------------------------------
(* The theorems.                                                           *)
LEMMA StutterKeeps ==
    ASSUME IInv, UNCHANGED vars
    PROVE  IInv'
<1>1. UNCHANGED <<sup, owned, stop, doubled, restart, why, wasReady, closing, awaits, connected,
                  session, usable, strict, everReady, readyAge, age, attempts, authUsed, prints,
                  snap, failed, wakeup, timer, call, cl, startup, services, cleanup, closer>>
    BY DEF vars, svars, cvars, task, attempt, link, readiness, budget
<1>2. Places' /\ ClosingInv'
    BY <1>1, Ranges DEF Places, IInv, ClosingInv, Alive
<1>3. ClientInv'
    BY <1>1 DEF IInv, ClientInv
<1>4. OnItsWay' => OnItsWay
    BY <1>1 DEF OnItsWay
<1>5. QED
    BY <1>1, <1>2, <1>3, <1>4, ClientStepKeeps, Ranges DEF Flags, Shape

LEMMA StepKeeps ==
    ASSUME IInv, [Next]_vars
    PROVE  IInv'
<1>1. CASE UNCHANGED vars
    BY <1>1, StutterKeeps
<1>2. CASE Followed /\ Machinery /\ UNCHANGED cvars
  <2>1. CASE Attempt \/ Advance \/ Connected \/ Restored \/ Clear
    BY <1>2, <2>1, AttemptKeeps, AdvanceKeeps, ConnectedKeeps, RestoredKeeps, ClearKeeps
  <2>2. CASE SleepOver \/ Cancelled \/ End \/ Restart \/ Tick
    BY <1>2, <2>2, SleepOverKeeps, CancelledKeeps, EndKeeps, RestartKeeps, TickKeeps
  <2>3. CASE CallOpens \/ CallReturns \/ CallInvalidates
    BY <1>2, <2>3, CallOpensKeeps, CallReturnsKeeps, CallInvalidatesKeeps
  <2>4. CASE sup \in DOMAIN Fails /\ \E e \in Fails[sup] : FailEarly(e) \/ Fail(e)
    BY <1>2, <2>4, FailEarlyKeeps, FailKeeps
  <2>5. CASE \E t \in timer : StableReset(t)
    BY <1>2, <2>5, StableResetKeeps
  <2>6. QED
    BY <1>2, <2>1, <2>2, <2>3, <2>4, <2>5 DEF Machinery
<1>3. CASE StartupStep
    BY <1>3, StartupBeginsKeeps, StartupFailsKeeps, StartupTimesOutKeeps, StartupReadyKeeps,
       StartupClosedKeeps, StartupTidiedKeeps, StartupGivesUpKeeps, StartupCancelledKeeps,
       StartupCloseCancelledKeeps DEF StartupStep
<1>4. CASE Start \/ CleanupStep \/ Close \/ CloseStep
    BY <1>4, StartKeeps, CleanupBeginsKeeps, CleanupEndsKeeps, CloseKeeps, CloseComponentsKeeps,
       CloseEndsKeeps DEF CleanupStep, CloseStep
<1>5. CASE Followed /\ Request
    BY <1>5, AskKeeps DEF Request, RequestRetry, NotifyCredentialsChanged
<1>6. CASE \E c \in Callers : Wait(c) \/ WaitTimesOut(c)
    BY <1>6, WaitKeeps
<1>7. QED
    BY <1>1, <1>2, <1>3, <1>4, <1>5, <1>6 DEF Next

(* What holds of every state of the client and its supervisor.             *)
THEOREM Invariant == Spec => []IInv
<1>1. Init => IInv
    BY InitInv
<1>2. IInv /\ [Next]_vars => IInv'
    BY StepKeeps
<1>3. QED
    BY <1>1, <1>2, PTL DEF Spec

(* The types: a budget is never overdrawn, there is one timer at most, and *)
(* what a restart waits for is a reason that may be mended.                *)
THEOREM Types == Spec => []TypeOK
<1>1. IInv => TypeOK
    BY DEF IInv
<1>2. QED
    BY <1>1, Invariant, PTL

(* Nobody waits for an answer that was given, and the status shown is the  *)
(* present one, whichever callback changed it (_publish_connection_status).*)
THEOREM AlwaysInformed == Spec => []Informed
<1>1. IInv => Informed
  <2>1. ASSUME IInv PROVE NobodyLeftWaiting
    BY <2>1 DEF IInv, ClientInv, Quiet, NobodyLeftWaiting
  <2>2. ASSUME IInv PROVE StatusIsCurrent
    BY <2>2, Ranges DEF IInv, ClientInv, Fresh, StatusIsCurrent, Settling, Places
  <2>3. QED
    BY <2>1, <2>2 DEF Informed
<1>2. QED
    BY <1>1, Invariant, PTL

(* A client that says it is on its way is: a supervisor runs, is asked for *)
(* or the start is yet to return; and a supervisor that sleeps before a    *)
(* retry can be found by request_retry.                                    *)
THEOREM AlwaysDriven == Spec => []Driven
<1>1. IInv => Driven
    BY DEF IInv, DrivenInv, OnItsWay, Driven
<1>2. QED
    BY <1>1, Invariant, PTL

----------------------------------------------------------------------------
(* Who makes a client ready.                                               *)
Readied == cl.state # "ready" /\ cl'.state = "ready"
ReadyAgain == cl'.rtg = session' /\ sup' \in {"serving", "clearing"}

(* What the supervisor announces before it has restored a session makes    *)
(* nobody ready, and neither does a loss.                                  *)
LEMMA AttemptReadiesNobody ==
    ASSUME IInv, Followed, Attempt \/ Connected \/ End \/ CallOpens \/ CallInvalidates
    PROVE  ~Readied
<1>1. cl \in Clients /\ snap \in Snapshots /\ strict \in BOOLEAN /\ session \in Nat /\ Answering(cl)
    BY Ranges DEF Shape, Flags, IInv, ClientInv, Quiet, Answering
<1>2. PICK f \in BOOLEAN : f = FALSE
    OBVIOUS
<1>3. ~(Lost(cl).state = "ready" /\ cl.state # "ready")
  <2>1. Dropped(Lost(cl), cl, f)
    BY <1>1, LostFacts
  <2>2. QED
    BY <2>1 DEF Dropped
<1>4. CASE End \/ CallInvalidates
    BY <1>3, <1>4 DEF End, CallInvalidates, Readied
<1>5. CASE Connected
  <2>1. Raises(Up(cl, strict), cl, strict)
    BY <1>1, ConnectionFacts DEF IInv, ClientInv
  <2>2. QED
    BY <1>5, <2>1 DEF Connected, Up, Raises, Readied
<1>6. CASE CallOpens
  <2>1. cl' = Told(cl, snap) \/ cl' = cl
    BY <1>6 DEF CallOpens
  <2>2. ToldOf(Told(cl, snap), cl, snap, f)
    BY <1>1, <1>2, ToldFacts
  <2>3. QED
    BY <2>1, <2>2 DEF ToldOf, Readied
<1>7. CASE Attempt
  <2>1. cl.connected = FALSE
    BY <1>1, <1>7 DEF Attempt, IInv, LinkInv, ClientInv, Holding, Clients
  <2>2. OutOfBudget(snap.code).code \in Codes
    BY Ranges DEF OutOfBudget, Final, Retried, Codes, Exhausted
  <2>3. \A code \in Codes : Snapshot("terminal", code) \in Snapshots
    BY DEF Snapshot, Snapshots, SnapStates
  <2>4. Snapshot("connecting", NoFailure) \in Snapshots
    BY DEF Snapshot, Snapshots, SnapStates, Codes, NoFailure
  <2>5. \/ cl' = cl
        \/ \E s \in Snapshots : cl' = Told(cl, s) \/ cl' = OnRecovery(cl, s, strict, session)
    BY <1>7, <2>2, <2>3, <2>4 DEF Attempt, Terminate
  <2>6. ASSUME NEW s \in Snapshots
        PROVE  /\ Told(cl, s).state = "ready" => cl.state = "ready"
               /\ OnRecovery(cl, s, strict, session).state = "ready" => cl.state = "ready"
    <3>1. ToldOf(Told(cl, s), cl, s, f)
      BY <1>1, <2>1, ToldFacts
    <3>2. Announced(OnRecovery(cl, s, strict, session), cl, s, strict, session, strict)
      BY <1>1, <2>1, RecoveryFacts
    <3>3. QED
      BY <2>1, <3>1, <3>2 DEF ToldOf, Announced
  <2>7. QED
    BY <2>5, <2>6 DEF Readied
<1>8. QED
    BY <1>4, <1>5, <1>6, <1>7

LEMMA FailureReadiesNobody ==
    ASSUME IInv, Followed, Clear \/ (sup \in DOMAIN Fails /\ \E e \in Fails[sup] : FailEarly(e))
    PROVE  ~Readied
<1>1. PICK e \in Errors : Settle(e) /\ ~stop /\ sup \in {"resolve", "tls", "clearing"}
  <2>1. CASE Clear
    BY <2>1, Ranges DEF Clear, Shape
  <2>2. CASE sup \in DOMAIN Fails /\ \E e \in Fails[sup] : FailEarly(e)
    BY <2>2, Assumptions DEF FailEarly
  <2>3. QED
    BY <2>1, <2>2
<1>2. cl'.state = "ready" => cl.state = "ready"
    BY <1>1, Settled
<1>3. QED
    BY <1>2 DEF Readied

(* A session that is restored, a subscribe that returns within it, and the *)
(* timer of it: each tells the client which session it is.                 *)
LEMMA SessionReadies ==
    ASSUME IInv, Restored \/ CallReturns \/ (\E t \in timer : StableReset(t)), Readied
    PROVE  ReadyAgain
<1>1. cl \in Clients /\ snap \in Snapshots /\ strict \in BOOLEAN /\ session \in Nat /\ Answering(cl)
    BY Ranges DEF Shape, Flags, IInv, ClientInv, Quiet, Answering
<1>2. Inactive \in Snapshots
    BY DEF Inactive, Snapshot, Snapshots, SnapStates, Codes, NoFailure
<1>3. ASSUME NEW s \in Snapshots, NEW r \in BOOLEAN, cl' = OnRecovery(cl, s, r, session)
      PROVE  cl'.rtg = session
  <2>1. Announced(cl', cl, s, r, session, r)
    BY <1>1, <1>3, RecoveryFacts
  <2>2. QED
    BY <2>1 DEF Announced, Readied
<1>4. PICK y \in BOOLEAN : y = TRUE
    OBVIOUS
<1>5. CASE Restored
  <2>1. cl' = OnRecovery(cl, Inactive, y, session) /\ session' = session /\ sup' = "serving"
    BY <1>4, <1>5 DEF Restored
  <2>2. QED
    BY <1>2, <1>3, <2>1 DEF ReadyAgain
<1>6. CASE CallReturns
  <2>1. Restorable
    BY <1>6 DEF CallReturns, Readied
  <2>2. cl' = OnRecovery(cl, snap, y, session) /\ session' = session /\ sup' = sup
    BY <1>4, <1>6, <2>1 DEF CallReturns, Retold, link, task
  <2>3. sup \in {"serving", "clearing"}
    BY <2>1 DEF Restorable, IInv, LinkInv, Holding
  <2>4. QED
    BY <1>1, <1>3, <2>2, <2>3 DEF ReadyAgain
<1>7. CASE \E t \in timer : StableReset(t)
  <2>1. PICK t \in timer : StableReset(t)
    BY <1>7
  <2>2. ~closing /\ StillReady(t)
    BY <2>1 DEF StableReset, Readied
  <2>3. cl' = OnRecovery(cl, Inactive, strict, session) /\ session' = session /\ sup' = sup
    BY <2>1, <2>2 DEF StableReset, link, task
  <2>4. sup \in {"serving", "clearing"}
    BY <2>2 DEF StillReady, IInv, ClockInv
  <2>5. QED
    BY <1>1, <1>2, <1>3, <2>3, <2>4 DEF ReadyAgain
<1>8. QED
    BY <1>5, <1>6, <1>7

(* Nor does the client say it of itself, once its start is over.           *)
LEMMA ClientReadiesNobody ==
    ASSUME IInv, startup = "none",
           \/ Start \/ StartupStep \/ CleanupStep \/ Close \/ CloseStep
           \/ Request
           \/ \E c \in Callers : Wait(c) \/ WaitTimesOut(c)
    PROVE  ~Readied
<1>1. cl \in Clients /\ strict \in BOOLEAN
    BY Ranges DEF Shape, Flags
<1>2. CASE Start \/ Close \/ CloseEnds
  <2>1. ASSUME NEW c \in Clients, NEW st \in States PROVE SetState(c, st, strict).state = st
    <3>1. SetTo(SetState(c, st, strict), c, st, strict)
      BY <1>1, SetStateFacts
    <3>2. QED
      BY <3>1 DEF SetTo
  <2>2. [cl EXCEPT !.connected = FALSE] \in Clients
    BY <1>1 DEF Clients
  <2>3. PICK c \in Clients, st \in States : cl' = SetState(c, st, strict) /\ st # "ready"
    BY <1>1, <1>2, <2>2 DEF Start, Close, CloseEnds, States
  <2>4. QED
    BY <2>1, <2>3 DEF Readied
<1>3. CASE StartupStep
    BY <1>3 DEF StartupStep, StartupBegins, StartupFails, StartupTimesOut, StartupReady,
                StartupClosed, StartupTidied, StartupGivesUp, StartupCancelled,
                StartupCloseCancelled
<1>4. CASE CleanupBegins \/ CloseComponents
    BY <1>4 DEF CleanupBegins, CloseComponents, svars, Readied
<1>5. CASE CleanupEnds
  <2>1. PICK f \in BOOLEAN : f = FALSE
    OBVIOUS
  <2>2. Answering(cl)
    BY DEF IInv, ClientInv, Quiet, Answering
  <2>3. Dropped(Lost(cl), cl, f)
    BY <1>1, <2>2, LostFacts
  <2>4. QED
    BY <1>5, <2>3 DEF CleanupEnds, Dropped, Readied
<1>6. CASE Request
  <2>1. PICK allowed \in {Exhausted, CredentialCodes} : cl' = Revived(cl, snap, allowed, strict)
    BY <1>6 DEF Request, RequestRetry, NotifyCredentialsChanged, Ask
  <2>2. RevivedAs(cl', cl, snap, allowed, strict)
    BY <1>1, <2>1, RevivedFacts DEF IInv, ClientInv
  <2>3. QED
    BY <2>2 DEF RevivedAs, Readied
<1>7. CASE \E c \in Callers : Wait(c) \/ WaitTimesOut(c)
    BY <1>1, <1>7 DEF Wait, WaitTimesOut, Waits, Readied, Clients
<1>8. QED
    BY <1>2, <1>3, <1>4, <1>5, <1>6, <1>7 DEF CleanupStep, CloseStep

(* Once the start is over a client becomes ready with the session that was *)
(* restored, whoever tells it so and however late.                         *)
THEOREM ReadinessIsReal == Spec => ReadyIsReal
<1>1. ASSUME IInv, IInv', [Next]_vars, startup = "none", cl.state # "ready", IsReady(cl', strict')
      PROVE  cl'.rtg = session' /\ connected' /\ sup' \in {"serving", "clearing"}
  <2>1. Readied /\ connected'
    BY <1>1 DEF IsReady, Readied, IInv, ClientInv
  <2>2. ReadyAgain
    <3>1. cl' # cl
      BY <2>1 DEF Readied
    <3>2. Next /\ Followed
      BY <1>1, <3>1 DEF vars, svars, Next
    <3>3. ~Advance /\ ~SleepOver /\ ~Cancelled /\ ~Restart /\ ~Tick /\ (\A e : ~Fail(e))
      BY <3>1 DEF Advance, SleepOver, Cancelled, Restart, Tick, Fail
    <3>4. CASE Machinery
      BY <1>1, <2>1, <3>2, <3>3, <3>4, AttemptReadiesNobody, FailureReadiesNobody, SessionReadies
         DEF Machinery
    <3>5. QED
      BY <1>1, <2>1, <3>2, <3>4, ClientReadiesNobody DEF Next
  <2>3. QED
    BY <2>1, <2>2 DEF ReadyAgain
<1>2. IInv /\ IInv' /\ [Next]_vars =>
        [cl.state # "ready" /\ IsReady(cl', strict') /\ startup = "none"
           => cl'.rtg = session' /\ connected' /\ sup' \in {"serving", "clearing"}]_vars
    BY <1>1
<1>3. QED
    BY <1>2, Invariant, PTL DEF Spec, ReadyIsReal

----------------------------------------------------------------------------
(* Who forgets attempts.                                                   *)
Earned ==
    \/ sup \in {"serving", "clearing"} /\ readyAge >= StableAfter
    \/ snap.state = "terminal" /\ sup \in {"none", "attempt"}
    \/ startup = "begin"

(* A new episode forgets those of the one that failed.                     *)
LEMMA RequestEarned ==
    ASSUME IInv, attempts' < attempts,
           Restart \/ RequestRetry \/ NotifyCredentialsChanged
    PROVE  Earned
<1>1. attempts' # attempts
    BY Ranges
<1>2. PICK allowed : /\ NewEpisode(allowed)
                     /\ sup = "none" \/ (restart.due /\ sup \in {"none", "attempt", "ending"})
  <2>1. CASE Restart
    BY <2>1 DEF Restart, IInv, RestartInv
  <2>2. CASE RequestRetry \/ NotifyCredentialsChanged
    <3>1. PICK waking, allowed : Ask(waking, allowed)
      BY <2>2 DEF RequestRetry, NotifyCredentialsChanged
    <3>2. Schedule(allowed)
      BY <1>1, <3>1 DEF Ask, budget
    <3>3. ~MustWait /\ NewEpisode(allowed)
      BY <1>1, <3>2 DEF Schedule, budget
    <3>4. QED
      BY <3>3 DEF MustWait, Alive
  <2>3. QED
    BY <2>1, <2>2
<1>3. ~closing /\ Revivable(allowed)
    BY <1>1, <1>2 DEF NewEpisode, budget
<1>4. sup \in {"none", "attempt"}
    BY <1>2, <1>3 DEF IInv, RestartInv
<1>5. QED
    BY <1>3, <1>4 DEF Revivable, Earned

(* The others are forgotten after a stable period, or by a new start.      *)
LEMMA StableEarned ==
    ASSUME IInv, Followed, attempts' < attempts,
           \/ Clear \/ StartupBegins
           \/ sup \in DOMAIN Fails /\ \E e \in Fails[sup] : FailEarly(e)
           \/ \E t \in timer : StableReset(t)
    PROVE  Earned
<1>1. CASE StartupBegins
    BY <1>1 DEF StartupBegins, Earned
<1>2. CASE Clear \/ (sup \in DOMAIN Fails /\ \E e \in Fails[sup] : FailEarly(e))
  <2>1. PICK e \in Errors : Settle(e) /\ ~stop /\ sup \in {"resolve", "tls", "clearing"}
    <3>1. CASE Clear
      BY <3>1, Ranges DEF Clear, Shape
    <3>2. CASE sup \in DOMAIN Fails /\ \E e \in Fails[sup] : FailEarly(e)
      BY <3>2, Assumptions DEF FailEarly
    <3>3. QED
      BY <1>2, <3>1, <3>2
  <2>2. sup = "clearing" /\ readyAge >= StableAfter
    BY <2>1, Settled
  <2>3. QED
    BY <2>2 DEF Earned
<1>3. CASE \E t \in timer : StableReset(t)
  <2>1. PICK t \in timer : StableReset(t)
    BY <1>3
  <2>2. attempts' # attempts
    BY Ranges
  <2>3. ~closing /\ readyAge # None /\ t.age >= StableAfter
    BY <2>1, <2>2 DEF StableReset, StillReady, budget
  <2>4. sup \in {"serving", "clearing"} /\ t.age <= readyAge
    BY <2>3 DEF IInv, ClockInv
  <2>5. t.age \in Int
    BY Ranges DEF Timers
  <2>6. readyAge >= StableAfter
    BY <2>3, <2>4, <2>5, Ranges, Assumptions
  <2>7. QED
    BY <2>4, <2>6 DEF Earned
<1>4. QED
    BY <1>1, <1>2, <1>3

(* A connection that flaps runs out of its budget: nothing but a stable    *)
(* period, a request after a failure that is final or a new start gives it *)
(* back (_finish_ready_period, _start_new_recovery_episode).               *)
THEOREM TheBudgetIsEarned == Spec => BudgetIsEarned
<1>1. ASSUME IInv, [Next]_vars, attempts' < attempts
      PROVE  Earned
  <2>1. attempts' # attempts
    BY <1>1, Ranges
  <2>2. Next /\ Followed
    BY <1>1, <2>1 DEF vars, svars, budget, Next
  <2>3. CASE Machinery
    <3>1. ~Attempt
      <4>1. Attempt => attempts' \in {attempts, attempts + 1}
        BY DEF Attempt, BeginAttempt, budget
      <4>2. QED
        BY <1>1, <4>1, Ranges
    <3>2. ~Advance /\ ~Connected /\ ~Restored /\ ~SleepOver /\ ~Cancelled /\ ~End
      BY <2>1 DEF Advance, Connected, Restored, SleepOver, Cancelled, End, budget
    <3>3. ~CallOpens /\ ~CallReturns /\ ~CallInvalidates /\ ~Tick /\ (\A e : ~Fail(e))
      BY <2>1 DEF CallOpens, CallReturns, CallInvalidates, Tick, Fail, budget
    <3>4. QED
      BY <1>1, <2>2, <2>3, <3>1, <3>2, <3>3, RequestEarned, StableEarned DEF Machinery
  <2>4. CASE StartupStep
    <3>1. StartupBegins
      BY <2>1, <2>4 DEF StartupStep, StartupFails, StartupTimesOut, StartupReady, StartupClosed,
                        StartupTidied, StartupGivesUp, StartupCancelled, StartupCloseCancelled,
                        svars, budget
    <3>2. QED
      BY <1>1, <2>2, <3>1, StableEarned
  <2>5. ~Start /\ ~CleanupStep /\ ~Close /\ ~CloseStep
    BY <2>1 DEF Start, CleanupStep, CleanupBegins, CleanupEnds, Close, CloseStep, CloseComponents,
                CloseEnds, svars, budget
  <2>6. ~(\E c \in Callers : Wait(c) \/ WaitTimesOut(c))
    BY <2>1 DEF Wait, WaitTimesOut, budget
  <2>7. QED
    BY <1>1, <2>2, <2>3, <2>4, <2>5, <2>6, RequestEarned DEF Next, Request
<1>2. IInv /\ [Next]_vars =>
        [attempts' < attempts
           => \/ sup \in {"serving", "clearing"} /\ readyAge >= StableAfter
              \/ snap.state = "terminal" /\ sup \in {"none", "attempt"}
              \/ startup = "begin"]_vars
    BY <1>1 DEF Earned
<1>3. QED
    BY <1>2, Invariant, PTL DEF Spec, BudgetIsEarned
=============================================================================
