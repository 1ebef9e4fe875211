---------------------------- MODULE OperatorTasks ----------------------------
(***************************************************************************)
(* The operator application (operator_app/runtime.py, with the routes and   *)
(* the WebSocket of app.py and the records of state.py): a browser view     *)
(* leases its identity for the life of one state connection, prepares a     *)
(* task for a target that was observed lately, reviews it, and confirms or  *)
(* discards it.  A preparation must not outlive the view, the connection,   *)
(* the watchers, the freshness of its target or its own time.               *)
(*                                                                         *)
(* _prepared_lock and the lock of the state are never held over a           *)
(* suspension.  The three parts of prepare_task, which the tests hold       *)
(* apart, are steps of their own; every other handler is one step up to     *)
(* the call of the client's send.  A token stands for a call of             *)
(* prepare_task that reaches its target.                                    *)
(***************************************************************************)
EXTENDS Integers, Sequences, SequencesExt, FiniteSets, FiniteSetsExt

CONSTANTS Tokens, Views, Generations, Sockets, Entities,
          Targets,       \* task_entity_allowlist
          MaxEntities,   \* maximum_entities
          MaxPrepared,   \* prepared_task_limit
          MaxClients,    \* maximum_browser_clients
          MaxConnections \* bound: generations of the ECN connection

ASSUME TargetsAssumption == Targets \subseteq Entities
ASSUME LimitsArePositive ==
    {MaxEntities, MaxPrepared, MaxClients, MaxConnections} \subseteq Nat \ {0}
ASSUME GenerationsAssumption == "none" \notin Generations

VARIABLES
    records,    \* _records: the observed entities, the oldest first
    entity,     \* of each: "fresh", "stale", or "none" (a location at most)
    connection, \* the client: is it ready, and its generation
    seen,       \* what the connection loop last saw of it
    watchers,   \* "on", "failed" (one has ended), "over" (and its loop too)
    stage,      \* of the runtime: "on", "stopping", "off"
    socket,     \* each state WebSocket, and the view it is for
    lease,      \* _active_views
    retired,    \* _retired_views, the oldest first
    call,       \* each call of prepare_task, with what it holds
    prepared,   \* _prepared: tokens, the oldest first
    proofs,     \* _retired_preparations: tokens, the oldest first
    due,        \* tokens of either whose time is over
    sending,    \* tokens whose confirmation is in the client's send
    sends,      \* how often each token was handed to the client
    discarded,  \* tokens whose discard was acknowledged
    gone,       \* views whose retirement was acknowledged
    spoiled     \* preparations that should be refused from now on

world == <<records, entity, connection, seen, watchers>>
views == <<socket, lease, retired, gone>>
tokens == <<prepared, proofs, due>>
operatorVars == <<world, stage, views, call, tokens, sending, sends, discarded, spoiled>>

NoLease == [gen |-> "none", connected |-> FALSE, mutations |-> 0]
NoCall == [at |-> "none"]

OperatorInit ==
    /\ records = <<>> /\ entity = [e \in Entities |-> "none"]
    /\ connection = [ready |-> TRUE, gen |-> 1] /\ seen = connection
    /\ watchers = "on" /\ stage = "on"
    /\ socket = [s \in Sockets |-> [at |-> "idle"]]
    /\ lease = [v \in Views |-> NoLease] /\ retired = <<>>
    /\ call = [t \in Tokens |-> NoCall]
    /\ prepared = <<>> /\ proofs = <<>> /\ due = {}
    /\ sending = {} /\ sends = [t \in Tokens |-> 0]
    /\ discarded = {} /\ gone = {} /\ spoiled = {}

Held == ToSet(prepared)
Newest(seq, limit) ==
    SubSeq(seq, IF Len(seq) > limit THEN Len(seq) - limit + 1 ELSE 1, Len(seq))
(* What stands at some positions, in its order: the n-th is the one with n  *)
(* of them up to it.                                                       *)
Picked(seq, P) ==
    [n \in 1..Cardinality(P) |->
        seq[CHOOSE i \in P : Cardinality({j \in P : j <= i}) = n]]
Dropping(seq, S) == Picked(seq, {i \in DOMAIN seq : seq[i] \notin S})
Keeping(seq, S) == Picked(seq, {i \in DOMAIN seq : seq[i] \in S})

Of(v, g) == {t \in Held : call[t].view = v /\ call[t].gen = g}
Live(v, g) == lease[v].connected /\ lease[v].gen = g
Eligible(e) == entity[e] = "fresh"
Unfit == {t \in Held : ~Eligible(call[t].target)}
Watching == connection.ready /\ watchers = "on" /\ stage # "off"

(* _retire_preparation_locked, over tokens: each leaves a proof with a     *)
(* time of its own, as far as the bounded ring holds.                      *)
RetireFrom(old, S) ==
    /\ prepared' = Dropping(prepared, S)
    /\ proofs' = Newest(old \o Keeping(prepared, S), MaxPrepared)
    /\ due' = (due \ S) \cap (ToSet(prepared') \cup ToSet(proofs'))
Retire(S) == RetireFrom(proofs, S)
(* _expire_prepared first, then what else is retired                       *)
Unexpired == Dropping(proofs, due)
ExpireAndRetire(S) == RetireFrom(Unexpired, (due \cap Held) \cup S)

(* A mutation of a view that ends gives its lease up with the last one.    *)
After(l) == IF l.mutations = 1 /\ ~l.connected THEN NoLease
            ELSE [l EXCEPT !.mutations = @ - 1]
Leaves(v, g) ==
    lease' = IF lease[v].gen = g THEN [lease EXCEPT ![v] = After(@)] ELSE lease
Enters(v) == lease' = [lease EXCEPT ![v].mutations = @ + 1]

----------------------------------------------------------------------------
(* What is observed, and what it does to the preparations                  *)

Touch(e) == Newest(Append(Dropping(records, {e}), e), MaxEntities)
(* A record that is pushed out takes what was known of its entity along.   *)
Observes(e, what) ==
    /\ records' = Touch(e)
    /\ entity' = [x \in Entities |-> IF x = e THEN what
                                     ELSE IF x \in ToSet(Touch(e)) THEN entity[x] ELSE "none"]
(* Of what is still held, what should be refused: S, and what was before.  *)
Spoils(S) == spoiled' = (spoiled \cup S) \cap ToSet(prepared')

(* The entity loop looks at the target before it observes the entity: one   *)
(* that was stale must not become eligible again for an old preparation.   *)
ObservesFirst(e) == {}                      \* a defect of Lapsed
Lapsed(e) == IF Eligible(e) THEN {} ELSE {t \in Held : call[t].target = e}
Evicted(e) == {t \in Held : call[t].target \notin ToSet(Touch(e))}
EntityEvent(e) ==
    /\ watchers = "on" /\ Retire(Lapsed(e))
    /\ Observes(e, "fresh")
    /\ Spoils(Evicted(e))
    /\ UNCHANGED <<connection, seen, watchers, stage, views, call, sending, sends, discarded>>

LocationEvent(e) ==
    /\ watchers = "on"
    /\ Observes(e, entity[e])
    /\ UNCHANGED <<connection, seen, watchers, stage, views, call, tokens,
                   sending, sends, discarded>>
    /\ Spoils(Evicted(e))

GoesStale(e) ==
    /\ stage # "off" /\ Eligible(e)
    /\ entity' = [entity EXCEPT ![e] = "stale"]
    /\ UNCHANGED <<records, connection, seen, watchers, stage, views, call, tokens,
                   sending, sends, discarded>>
    /\ Spoils({t \in Held : call[t].target = e})

(* The time of a preparation, or of a proof, is over.                      *)
TimePasses(t) ==
    /\ t \in (Held \cup ToSet(proofs)) \ due /\ due' = due \cup {t}
    /\ UNCHANGED <<world, stage, views, call, prepared, proofs, sending, sends, discarded>>
    /\ Spoils({t} \cap Held)

(* The health loop                                                         *)
Sweep ==
    /\ stage = "on" /\ Retire(Unfit) /\ Spoils({})
    /\ UNCHANGED <<world, stage, views, call, sending, sends, discarded>>

ConnectionLost ==
    /\ connection.ready /\ connection' = [connection EXCEPT !.ready = FALSE]
    /\ UNCHANGED <<records, entity, seen, watchers, stage, views, call, tokens,
                   sending, sends, discarded>>
    /\ Spoils(Held)

ConnectionReady ==
    /\ ~connection.ready /\ stage # "off" /\ connection.gen < MaxConnections
    /\ connection' = [ready |-> TRUE, gen |-> connection.gen + 1]
    /\ UNCHANGED <<records, entity, seen, watchers, stage, views, call, tokens,
                   sending, sends, discarded, spoiled>>

(* The connection loop: its stream keeps the latest status only.           *)
StatusObserved ==
    /\ seen # connection /\ watchers # "over"
    /\ Retire(IF (seen.ready /\ ~connection.ready) \/ seen.gen # connection.gen
              THEN Held ELSE Unfit)
    /\ seen' = connection
    /\ Spoils({})
    /\ UNCHANGED <<records, entity, connection, watchers, stage, views, call,
                   sending, sends, discarded>>

(* A watcher ends: its stream is closed first, its loop discards then.     *)
WatcherEnds ==
    /\ watchers = "on" /\ watchers' = "failed"
    /\ UNCHANGED <<records, entity, connection, seen, stage, views, call, tokens,
                   sending, sends, discarded>>
    /\ Spoils(Held)

LoopEnds ==
    /\ watchers = "failed" /\ watchers' = "over"
    /\ RetireFrom(Unexpired, Held) /\ Spoils({})
    /\ UNCHANGED <<records, entity, connection, seen, stage, views, call,
                   sending, sends, discarded>>

----------------------------------------------------------------------------
(* Browser views                                                           *)

(* A state WebSocket is served: activate_browser_view.  The identity backs *)
(* one lease at a time, and a lease whose view is disconnected lasts as     *)
(* long as its last mutation.  What is refused closes the WebSocket.        *)
Activate(s, v, g) ==
    /\ socket[s].at = "idle" /\ stage = "on" /\ lease[v] = NoLease
    /\ lease' = [lease EXCEPT ![v] = [gen |-> g, connected |-> TRUE, mutations |-> 0]]
    /\ retired' = Dropping(retired, {<<v, g>>})
    /\ gone' = gone \ {<<v, g>>}
    /\ socket' = [socket EXCEPT ![s] = [at |-> "active", view |-> v, gen |-> g]]
    /\ UNCHANGED <<world, stage, call, tokens, sending, sends, discarded, spoiled>>

(* _remember_retired_view_locked                                           *)
Remember(v, g) ==
    retired' = Newest(Append(Dropping(retired, {<<v, g>>}), <<v, g>>), MaxClients)

(* deactivate_browser_view, when the connection ends                       *)
AlwaysFrees(l) == NoLease                   \* a defect of Disconnected
Disconnected(l) == IF l.mutations = 0 THEN NoLease ELSE [l EXCEPT !.connected = FALSE]
Deactivate(s) ==
    LET v == socket[s].view
        g == socket[s].gen
    IN /\ socket[s].at = "active"
       /\ socket' = [socket EXCEPT ![s] = [at |-> "closed"]]
       /\ IF Live(v, g)
          THEN /\ lease' = [lease EXCEPT ![v] = Disconnected(@)]
               /\ Retire(Of(v, g)) /\ Remember(v, g)
          ELSE UNCHANGED <<lease, tokens, retired>>
       /\ Spoils({})
       /\ UNCHANGED <<world, stage, gone, call, sending, sends, discarded>>

(* retire_browser_view, when it acknowledges: a proof, or a lease that no  *)
(* mutation holds.                                                         *)
RetireView(v, g) ==
    /\ gone' = gone \cup {<<v, g>>}
    /\ \/ /\ lease[v] = NoLease /\ <<v, g>> \in ToSet(retired)
          /\ Remember(v, g) /\ UNCHANGED <<lease, tokens>>
       \/ /\ lease[v].gen = g /\ lease[v].mutations = 0
          /\ lease' = [lease EXCEPT ![v] = NoLease]
          /\ Retire(Of(v, g)) /\ Remember(v, g)
    /\ Spoils({})
    /\ UNCHANGED <<world, stage, socket, call, sending, sends, discarded>>

----------------------------------------------------------------------------
(* prepare_task                                                            *)

Goes(t, where) == call' = [call EXCEPT ![t].at = where]
Refused(t) == call' = [call EXCEPT ![t] = [at |-> "refused"]]

(* Up to the target's record                                               *)
Prepare(t, v, g, e) ==
    /\ call[t] = NoCall /\ Live(v, g) /\ Watching /\ Eligible(e)
    /\ Enters(v)
    /\ call' = [call EXCEPT ![t] = [at |-> "inserting", view |-> v, gen |-> g,
                                    target |-> e, conn |-> connection.gen]]
    /\ UNCHANGED <<world, stage, socket, retired, gone, tokens, sending, sends,
                   discarded, spoiled>>

Unchanged(t) == Watching /\ connection.gen = call[t].conn

(* The preparation is kept, and pushes the oldest out of a full table.     *)
StillLive(t) == Live(call[t].view, call[t].gen)
Insert(t) ==
    LET left == Dropping(prepared, due)
        kept == Newest(Append(left, t), MaxPrepared)
        out == ToSet(left) \ ToSet(kept)
    IN /\ call[t].at = "inserting"
       /\ IF Unchanged(t) /\ StillLive(t)
          THEN /\ Goes(t, "verifying") /\ prepared' = kept
               /\ proofs' = Newest(Unexpired \o Keeping(prepared, due \cup out), MaxPrepared)
               /\ due' = {} /\ UNCHANGED lease
          ELSE /\ Refused(t) /\ Leaves(call[t].view, call[t].gen)
               /\ UNCHANGED tokens
       /\ Spoils({})
       /\ UNCHANGED <<world, stage, socket, retired, gone, sending, sends, discarded>>

(* It is looked at again before the token is given away.                   *)
Verify(t) ==
    /\ call[t].at = "verifying"
    /\ IF t \in Held /\ Eligible(call[t].target) /\ Unchanged(t) /\ StillLive(t)
       THEN Goes(t, "returned") /\ UNCHANGED tokens
       ELSE Refused(t) /\ Retire({t})
    /\ Leaves(call[t].view, call[t].gen)
    /\ Spoils({})
    /\ UNCHANGED <<world, stage, socket, retired, gone, sending, sends, discarded>>

----------------------------------------------------------------------------
(* confirm_task and discard_prepared_task                                  *)

KeepsProof(S, t) == RetireFrom(Unexpired, S \cup {t})   \* a defect of Consumes
Consumes(S, t) ==
    /\ prepared' = Dropping(prepared, S \cup {t})
    /\ proofs' = Newest(Unexpired \o Keeping(prepared, S), MaxPrepared)
    /\ due' = {}

(* The token is taken out, then looked at: what is refused now is lost.    *)
AnyGeneration(t) == TRUE                    \* a defect of SameConnection
SameConnection(t) == connection.gen = call[t].conn
Confirm(t, v, g) ==
    /\ call[t].at = "returned" /\ Live(v, g)
    /\ IF t \notin Of(v, g) \ due THEN ExpireAndRetire({})
       ELSE IF ~SameConnection(t) THEN ExpireAndRetire({t})
       ELSE Consumes(due \cap Held, t)
    /\ IF t \in Of(v, g) \ due /\ SameConnection(t) /\ Eligible(call[t].target)
          /\ Watching /\ stage = "on"
       THEN /\ sends' = [sends EXCEPT ![t] = @ + 1]
            /\ sending' = sending \cup {t} /\ Enters(v)
       ELSE UNCHANGED <<sends, sending, lease>>
    /\ Spoils({})
    /\ UNCHANGED <<world, stage, socket, retired, gone, call, discarded>>

(* The client's send returns or raises, and the outcome is recorded.       *)
SendEnds(t) ==
    /\ t \in sending /\ sending' = sending \ {t}
    /\ Leaves(call[t].view, call[t].gen)
    /\ UNCHANGED <<world, stage, socket, retired, gone, call, tokens, sends, discarded, spoiled>>

(* Acknowledged for a preparation of that view, or for its proof.          *)
Discard(t, v, g) ==
    /\ call[t].at = "returned" /\ call[t].view = v /\ call[t].gen = g
    /\ RetireFrom(Unexpired, {t} \cap Held)
    /\ discarded' = IF t \in Held \cup ToSet(Unexpired) THEN discarded \cup {t}
                    ELSE discarded
    /\ Spoils({})
    /\ UNCHANGED <<world, stage, views, call, sending, sends>>

----------------------------------------------------------------------------
(* stop                                                                    *)

Stop ==
    /\ stage = "on" /\ stage' = "stopping"
    /\ UNCHANGED <<world, views, call, tokens, sending, sends, discarded, spoiled>>

(* The tables are cleared.  Without a lease nothing can be prepared or     *)
(* confirmed any more, so what follows, the closing of the streams, of the *)
(* client and of the hub and the clearing of the records, is one step.     *)
StopClears ==
    /\ stage = "stopping" /\ stage' = "off" /\ watchers' = "over"
    /\ connection' = [connection EXCEPT !.ready = FALSE]
    /\ prepared' = <<>> /\ proofs' = <<>> /\ due' = {} /\ retired' = <<>>
    /\ lease' = [v \in Views |-> NoLease]
    /\ records' = <<>> /\ entity' = [e \in Entities |-> "none"] /\ seen' = connection'
    /\ Spoils({})
    /\ UNCHANGED <<socket, gone, call, sending, sends, discarded>>

(* Entities that are no target are seen by their locations only: a bound.  *)
OperatorNext ==
    \/ \E e \in Entities : LocationEvent(e)
    \/ \E e \in Targets : EntityEvent(e) \/ GoesStale(e)
    \/ \E t \in Tokens : TimePasses(t) \/ Insert(t) \/ Verify(t) \/ SendEnds(t)
    \/ Sweep \/ ConnectionLost \/ ConnectionReady \/ StatusObserved
    \/ WatcherEnds \/ LoopEnds \/ Stop \/ StopClears
    \/ \E s \in Sockets : Deactivate(s)
    \/ \E v \in Views, g \in Generations :
          \/ RetireView(v, g)
          \/ \E s \in Sockets : Activate(s, v, g)
          \/ \E t \in Tokens :
                \/ Confirm(t, v, g) \/ Discard(t, v, g)
                \/ \E e \in Targets : Prepare(t, v, g, e)

OperatorSpec == OperatorInit /\ [][OperatorNext]_operatorVars

----------------------------------------------------------------------------
Running == sending \cup {t \in Tokens : call[t].at \in {"inserting", "verifying"}}
Using(v) == {t \in Running : call[t].view = v}

(* A lease is there exactly for a connected view or for calls that still   *)
(* run for it, and counts them; every preparation belongs to a connected   *)
(* view of its own generation; nothing is both held and proven retired,    *)
(* and no table outgrows its limit.  Before stop() clears the tables.      *)
TablesAgree ==
    /\ Len(records) <= MaxEntities /\ Len(prepared) <= MaxPrepared
    /\ Len(proofs) <= MaxPrepared /\ Len(retired) <= MaxClients
    /\ Held \cap ToSet(proofs) = {} /\ due \subseteq Held \cup ToSet(proofs)
    /\ \A t \in Held : Live(call[t].view, call[t].gen)
    /\ \A v \in Views :
          /\ stage \in {"on", "stopping"} => lease[v].mutations = Cardinality(Using(v))
          /\ lease[v] # NoLease => lease[v].connected \/ lease[v].mutations > 0
          /\ lease[v].connected => \E s \in Sockets : /\ socket[s].at = "active"
                                                      /\ socket[s].view = v
                                                      /\ socket[s].gen = lease[v].gen

(* What the backend acknowledges stays true.  A token whose discard was    *)
(* acknowledged was not and will not be handed to the client; a view       *)
(* generation whose retirement was acknowledged holds no preparation and   *)
(* has no call running, until it is activated again (README of the         *)
(* application: "a consumed or unknown token still fails closed").         *)
AcknowledgedIsFinal ==
    /\ \A t \in discarded : sends[t] = 0
    /\ \A vg \in gone : \A t \in Held \cup Running :
          ~(call[t].view = vg[1] /\ call[t].gen = vg[2])

(* A task is handed to the client once, and as it was reviewed: since it   *)
(* was prepared its target has not been stale, forgotten, nor its view     *)
(* disconnected, nor the connection lost, nor a watcher ended, nor its     *)
(* time over, even if all of that was repaired meanwhile.                  *)
PublishedAsReviewed ==
    [][\A t \in Tokens : sends'[t] # sends[t] => sends[t] = 0 /\ t \notin spoiled]_operatorVars
=============================================================================
