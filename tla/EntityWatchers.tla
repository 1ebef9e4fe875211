--------------------------- MODULE EntityWatchers ---------------------------
(***************************************************************************)
(* EntityLocationService (_entity_locations.py): the watchers of entities   *)
(* and of locations.  A watcher opens one subscription per filter and can   *)
(* be closed, by its consumer, by a failed restoration or with the service, *)
(* while it is still opening.  TRACK entities that only latest-value        *)
(* watchers follow are not decoded as they come: the newest of each entity  *)
(* is kept, within a number and a size, for a task that drains them.        *)
(* An entity stands for its identity with its integration.                  *)
(***************************************************************************)
EXTENDS Integers, FiniteSets

CONSTANTS Watchers,
          Kinds,        \* what each may be: a "latest" or "fifo" watcher of
                        \* entities, a "location" watcher
          Filters,      \* of each: its number of subscriptions
          Entities,
          Sizes,        \* of TRACK payloads
          MaxPending,   \* _pending_track_limit
          MaxBytes,     \* _pending_track_byte_limit
          MaxMessages   \* bound: messages received

ASSUME LimitAssumption ==
    /\ Kinds \in [Watchers -> SUBSET {"latest", "fifo", "location"}]
    /\ Filters \in [Watchers -> Nat \ {0}] /\ MaxPending \in Nat \ {0}
    /\ MaxBytes \in Nat /\ \A n \in Sizes : n \in 0..MaxBytes
ASSUME BoundAssumption == MaxMessages \in Nat

VARIABLES
    kind,       \* what each watcher is
    pc,         \* where the call of watch is
    todo,       \* filters it has still to subscribe to
    inHand,     \* it has a handle that is not in handles yet
    handles,    \* how many handles the watcher owns
    ended,      \* its stream is closed
    cleaning,   \* the two cleanups of a watcher: the call's, the stream's
    open,       \* _entity_watchers and _location_watchers
    pending,    \* _pending_tracks, each at its arrival: the order they are in
    bytes,      \* _pending_track_bytes
    draining,   \* _pending_track_task
    observed,   \* the last observed location of each entity, by arrival
    got,        \* the last TRACK of each entity in each stream, by arrival
    now,        \* messages received
    closed,     \* _closed
    toClose     \* the streams close() has still to close

opening == <<pc, todo, inHand>>
ingress == <<pending, bytes, draining, observed, got, now>>
vars == <<kind, opening, handles, ended, cleaning, open, ingress, closed, toClose>>

Cleaners == {"call", "stream"}
Follows(w) == kind[w] # "location"
Free(w) == \A c \in Cleaners : cleaning[w][c] # "unsubscribing"   \* cleanup_lock
At(w, c, where) == cleaning[w][c] = where
Moves(w, c, where) == cleaning' = [cleaning EXCEPT ![w][c] = where]
Goes(w, where) == pc' = [pc EXCEPT ![w] = where]

Init ==
    /\ kind \in [Watchers -> UNION {Kinds[w] : w \in Watchers}]
    /\ \A w \in Watchers : kind[w] \in Kinds[w]
    /\ pc = [w \in Watchers |-> "idle"] /\ todo = Filters
    /\ inHand = [w \in Watchers |-> FALSE] /\ handles = [w \in Watchers |-> 0]
    /\ ended = [w \in Watchers |-> FALSE]
    /\ cleaning = [w \in Watchers |-> [c \in Cleaners |-> "none"]]
    /\ open = {} /\ pending = <<>> /\ bytes = 0 /\ draining = FALSE
    /\ observed = [e \in Entities |-> 0]
    /\ got = [w \in Watchers |-> [e \in Entities |-> 0]]
    /\ now = 0 /\ closed = FALSE /\ toClose = {}

Keep(tracks, arrivals) == [n \in arrivals |-> tracks[n]]
SizeAt(tracks, n) == IF n \in DOMAIN tracks THEN tracks[n].size ELSE 0
Size(tracks) ==
    LET total[n \in 0..MaxMessages] == IF n = 0 THEN 0 ELSE total[n - 1] + SizeAt(tracks, n)
    IN  total[MaxMessages]
Freed(left) == Size(pending) - Size(left)
Without(w) ==
    [n \in {m \in DOMAIN pending : pending[m].to \ {w} # {}} |->
        [pending[n] EXCEPT !.to = @ \ {w}]]

(* _detach_entity_watcher: what only this watcher was to get is dropped,   *)
(* and the drain is cancelled when nothing is left for it.                 *)
StopsDraining(left) == FALSE                \* a defect of KeepsDraining
KeepsDraining(left) == DOMAIN left # {} /\ draining
Detach(w, c) ==
    /\ Moves(w, c, "detached")
    /\ open' = open \ {w}
    /\ IF Follows(w)
       THEN /\ pending' = Without(w)
            /\ bytes' = bytes - Freed(pending')
            /\ draining' = KeepsDraining(pending')
       ELSE UNCHANGED <<pending, bytes, draining>>
    /\ UNCHANGED <<observed, got, now>>

(* The call gives up, and starts its own cleanup.                          *)
GivesUp(w) == Goes(w, "failing") /\ Detach(w, "call")

----------------------------------------------------------------------------
(* watch_entities and watch_locations                                      *)

(* An entity watcher is registered before its first subscription, so that  *)
(* what comes while the others open is not lost.                           *)
Watch(w) ==
    /\ pc[w] = "idle"
    /\ IF closed THEN Goes(w, "raised") /\ UNCHANGED open
       ELSE /\ Goes(w, "subscribing")
            /\ open' = IF Follows(w) THEN open \cup {w} ELSE open
    /\ UNCHANGED <<todo, inHand, handles, ended, cleaning, ingress, closed, toClose>>

Subscribed(w) ==
    /\ pc[w] = "subscribing" /\ Goes(w, "deciding")
    /\ inHand' = [inHand EXCEPT ![w] = TRUE]
    /\ UNCHANGED <<todo, handles, ended, cleaning, open, ingress, closed, toClose>>

(* The subscription fails, or the call is cancelled.                       *)
SubscribeFails(w) ==
    /\ pc[w] = "subscribing" /\ GivesUp(w)
    /\ UNCHANGED <<todo, inHand, handles, ended, closed, toClose>>

(* The handle is kept unless the watcher was closed in the meantime.       *)
OnlyService(w) == ~closed                   \* a defect of Retains
Retains(w) == ~closed /\ ~ended[w]
Decide(w) ==
    /\ pc[w] = "deciding" /\ Free(w)
    /\ IF Retains(w)
       THEN /\ handles' = [handles EXCEPT ![w] = @ + 1]
            /\ inHand' = [inHand EXCEPT ![w] = FALSE]
            /\ todo' = [todo EXCEPT ![w] = @ - 1]
            /\ Goes(w, IF todo[w] = 1 THEN "accepting" ELSE "subscribing")
       ELSE Goes(w, "discarding") /\ UNCHANGED <<todo, inHand, handles>>
    /\ UNCHANGED <<ended, cleaning, open, ingress, closed, toClose>>

(* Cancelled while a cleanup holds the lock: nobody owns the handle.       *)
CancelledInHand(w) ==
    /\ pc[w] = "deciding" /\ ~Free(w)
    /\ GivesUp(w)
    /\ UNCHANGED <<todo, inHand, handles, ended, closed, toClose>>

Discard(w) ==
    /\ pc[w] = "discarding" /\ GivesUp(w)
    /\ inHand' = [inHand EXCEPT ![w] = FALSE]
    /\ UNCHANGED <<todo, handles, ended, closed, toClose>>

(* A location watcher is registered only now.  A watcher that was closed   *)
(* waits for that, then gives up.                                          *)
Accept(w) ==
    /\ pc[w] = "accepting" /\ Retains(w) /\ (Follows(w) => w \in open)
    /\ Goes(w, "returned") /\ open' = open \cup {w}
    /\ UNCHANGED <<todo, inHand, handles, ended, cleaning, ingress, closed, toClose>>

EndStream(w) == /\ ended' = [ended EXCEPT ![w] = TRUE]
                /\ IF ended[w] THEN UNCHANGED cleaning ELSE Moves(w, "stream", "wanted")

Refuse(w) ==
    /\ pc[w] = "accepting" /\ ~(Retains(w) /\ (Follows(w) => w \in open))
    /\ Goes(w, "refused") /\ EndStream(w)
    /\ UNCHANGED <<todo, inHand, handles, open, ingress, closed, toClose>>
Refused(w) ==
    /\ pc[w] = "refused" /\ At(w, "stream", "done") /\ GivesUp(w)
    /\ UNCHANGED <<todo, inHand, handles, ended, closed, toClose>>

(* The call's own cleanup is over: the stream is closed, and waited for.   *)
CallCloses(w) ==
    /\ pc[w] = "failing" /\ At(w, "call", "done") /\ Goes(w, "closing") /\ EndStream(w)
    /\ UNCHANGED <<todo, inHand, handles, open, ingress, closed, toClose>>

Raise(w) ==
    /\ pc[w] = "closing" /\ At(w, "stream", "done") /\ Goes(w, "raised")
    /\ UNCHANGED <<todo, inHand, handles, ended, cleaning, open, ingress, closed, toClose>>

----------------------------------------------------------------------------
(* The end of a stream, and what its cleanup does.                         *)

(* The consumer closes the stream, or a subscription is not restored.      *)
StreamEnds(w) ==
    /\ ~ended[w] /\ (pc[w] = "returned" \/ handles[w] > 0)
    /\ EndStream(w)
    /\ UNCHANGED <<opening, handles, open, ingress, closed, toClose>>

StreamDetaches(w) ==
    /\ At(w, "stream", "wanted") /\ Detach(w, "stream")
    /\ UNCHANGED <<opening, handles, ended, closed, toClose>>

(* With no handle left there is nothing to wait for.                       *)
LockCleanup(w, c) ==
    /\ At(w, c, "detached") /\ Free(w)
    /\ Moves(w, c, IF handles[w] > 0 THEN "unsubscribing" ELSE "done")
    /\ UNCHANGED <<opening, handles, ended, open, ingress, closed, toClose>>

(* Every handle is given up, in turn, with the lock held.                  *)
Unsubscribe(w, c) ==
    /\ At(w, c, "unsubscribing") /\ Moves(w, c, "done")
    /\ handles' = [handles EXCEPT ![w] = 0]
    /\ UNCHANGED <<opening, ended, open, ingress, closed, toClose>>

----------------------------------------------------------------------------
(* Messages.  They come while some watcher that asked for them has a       *)
(* subscription, and a closed service ignores them.                        *)

Live(w) == handles[w] > 0 \/ inHand[w]
Arrives == ~closed /\ now < MaxMessages /\ now' = now + 1
EntityArrives == \E w \in Watchers : Follows(w) /\ Live(w)
Receivers == {w \in open : Follows(w)}

NotSuperseded(e) == pending                 \* a defect of Superseded
Superseded(e) == Keep(pending, {n \in DOMAIN pending : pending[n].entity # e})

(* _decode_and_deliver_entity, of a TRACK that is decoded.                 *)
Delivered(e, n, to) ==
    /\ observed' = [observed EXCEPT ![e] = n]
    /\ got' = [w \in Watchers |->
                  IF w \in to /\ ~ended[w] THEN [got[w] EXCEPT ![e] = n] ELSE got[w]]

(* With a FIFO watcher every TRACK is delivered as it comes, instead of    *)
(* the one that is pending.                                                *)
Undecodable == UNCHANGED <<pending, bytes, observed, got>>
DirectTrack(e) ==
    /\ EntityArrives /\ \E w \in Receivers : kind[w] = "fifo"
    /\ \/ Undecodable
       \/ /\ pending' = Superseded(e)
          /\ bytes' = bytes - Freed(pending')
          /\ Delivered(e, now', Receivers)
    /\ UNCHANGED <<opening, handles, ended, cleaning, open, draining, closed, toClose>>

(* Otherwise it replaces the pending one, at the end of the queue, and the *)
(* oldest make room, for as long as one of the limits is exceeded.         *)
Added(tracks, new) ==
    [n \in DOMAIN tracks \cup {now'} |-> IF n = now' THEN new ELSE tracks[n]]
Newest(tracks, k) == Keep(tracks, {n \in DOMAIN tracks : n > k})
Exceeded(left, total) == Cardinality(DOMAIN left) > MaxPending \/ total > MaxBytes
Replaced(e, size) == Added(Superseded(e), [entity |-> e, size |-> size, to |-> Receivers])
LatestTrack(e, size) ==
    /\ EntityArrives /\ Receivers # {} /\ \A w \in Receivers : kind[w] = "latest"
    /\ \E tracks \in {Replaced(e, size)}, added \in {bytes - Freed(Superseded(e)) + size} :
          LET Left(k) == added - (Size(tracks) - Size(Newest(tracks, k)))
              TooMuch(k) == Exceeded(Newest(tracks, k), Left(k))
          IN  \E k \in 0..now' :
                 /\ ~TooMuch(k) /\ \A j \in 0..(k - 1) : TooMuch(j)
                 /\ pending' = Newest(tracks, k) /\ bytes' = Left(k)
    /\ draining' = TRUE
    /\ UNCHANGED <<opening, handles, ended, cleaning, open, observed, got, closed, toClose>>

(* A message of a location family, for every location watcher with a       *)
(* subscription.                                                           *)
LocationMessage(e) ==
    /\ \E w \in Watchers : ~Follows(w) /\ Live(w)
    /\ observed' = [observed EXCEPT ![e] = now']
    /\ UNCHANGED <<opening, handles, ended, cleaning, open, pending, bytes, draining, got,
                   closed, toClose>>

(* _drain_pending_tracks                                                   *)
Drain ==
    /\ draining
    /\ \E n \in DOMAIN pending :
          /\ \A m \in DOMAIN pending : n <= m
          /\ pending' = Keep(pending, DOMAIN pending \ {n})
          /\ bytes' = bytes - pending[n].size
          /\ \/ UNCHANGED <<observed, got>>       \* it is not decoded
             \/ Delivered(pending[n].entity, n, pending[n].to)
    /\ UNCHANGED <<opening, handles, ended, cleaning, open, draining, now, closed, toClose>>

DrainEnds ==
    /\ draining /\ DOMAIN pending = {} /\ draining' = FALSE
    /\ UNCHANGED <<opening, handles, ended, cleaning, open, pending, bytes, observed, got, now,
                   closed, toClose>>

----------------------------------------------------------------------------
(* close()                                                                 *)

Close ==
    /\ ~closed /\ closed' = TRUE
    /\ toClose' = open /\ open' = {}
    /\ pending' = <<>> /\ bytes' = 0 /\ draining' = FALSE
    /\ UNCHANGED <<opening, handles, ended, cleaning, observed, got, now>>

CloseStream(w) ==
    /\ w \in toClose /\ toClose' = toClose \ {w} /\ EndStream(w)
    /\ UNCHANGED <<opening, handles, open, ingress, closed>>

CloseEnds ==
    /\ closed /\ toClose = {} /\ observed # [e \in Entities |-> 0]
    /\ observed' = [e \in Entities |-> 0]
    /\ UNCHANGED <<opening, handles, ended, cleaning, open, pending, bytes, draining, got, now,
                   closed, toClose>>

Opening(w) ==
    \/ Watch(w) \/ Subscribed(w) \/ SubscribeFails(w) \/ Decide(w) \/ CancelledInHand(w)
    \/ Discard(w) \/ Accept(w) \/ Refuse(w) \/ Refused(w) \/ CallCloses(w) \/ Raise(w)
Closing(w) ==
    \/ StreamEnds(w) \/ StreamDetaches(w) \/ CloseStream(w)
    \/ \E c \in Cleaners : LockCleanup(w, c) \/ Unsubscribe(w, c)
Ingress ==
    \/ Drain \/ DrainEnds
    \/ Arrives /\ \E e \in Entities : \/ DirectTrack(e) \/ LocationMessage(e)
                                      \/ \E size \in Sizes : LatestTrack(e, size)

Next ==
    /\ UNCHANGED kind
    /\ Close \/ CloseEnds \/ Ingress \/ \E w \in Watchers : Opening(w) \/ Closing(w)
Spec == Init /\ [][Next]_vars

----------------------------------------------------------------------------
TypeOK ==
    /\ pc \in [Watchers -> {"idle", "subscribing", "deciding", "discarding", "accepting", "refused",
                            "failing", "closing", "returned", "raised"}]
    /\ \A w \in Watchers : todo[w] \in 0..Filters[w] /\ handles[w] \in 0..Filters[w]
    /\ inHand \in [Watchers -> BOOLEAN] /\ ended \in [Watchers -> BOOLEAN]
    /\ cleaning \in [Watchers -> [Cleaners -> {"none", "wanted", "detached",
                                               "unsubscribing", "done"}]]
    /\ open \subseteq Watchers /\ toClose \subseteq Watchers
    /\ {draining, closed} \subseteq BOOLEAN /\ bytes \in 0..MaxBytes
    /\ observed \in [Entities -> 0..MaxMessages] /\ now \in 0..MaxMessages

(* What is pending is within both limits, its size is what was counted     *)
(* through replacements, evictions, drains and the departure of watchers,  *)
(* there is one for each entity, and a task is there to drain it: nothing  *)
(* stays pending until the next message happens to come.                   *)
PendingIsSound ==
    /\ Cardinality(DOMAIN pending) <= MaxPending /\ bytes = Size(pending)
    /\ \A m, n \in DOMAIN pending : pending[m].entity = pending[n].entity => m = n
    /\ DOMAIN pending # {} => draining

(* A stream gets the TRACKs of an entity in the order they came, also when *)
(* a FIFO watcher opens while an older one is pending.                     *)
TracksInOrder ==
    [][\A w \in Watchers, e \in Entities : got'[w][e] >= got[w][e]]_vars

(* A watcher whose stream was closed, while it was opening or later, owns  *)
(* no subscription once both cleanups and the call are over, except for a  *)
(* handle the call was cancelled with.                                     *)
Over(w) == ended[w] /\ pc[w] \in {"returned", "raised"} /\ At(w, "stream", "done")
ClosedOwnsNothing == \A w \in Watchers : Over(w) => handles[w] = 0 /\ w \notin open

(* "last_observed returns the most recently received matching location"    *)
(* (docs/concepts/locations.md:152): what is observed of an entity is      *)
(* never replaced by what came before it.                                  *)
ObservedInOrder ==
    [][\A e \in Entities : observed'[e] >= observed[e] \/ closed]_vars
=============================================================================
