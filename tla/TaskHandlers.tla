---------------------------- MODULE TaskHandlers ----------------------------
(***************************************************************************)
(* The receiving half of TaskService (_services/tasks.py: _receive,        *)
(* _run_delivery, _finish, _cache, close).  The broker delivers a QoS 1    *)
(* request at least once; the service runs its handler in a background     *)
(* task, remembers finished deliveries in a bounded LRU cache and answers  *)
(* redeliveries from it.  _receive runs on the transport's dispatcher, one *)
(* message at a time; the handler tasks run concurrently with it.          *)
(***************************************************************************)
EXTENDS Integers, Sequences, SequencesExt, FiniteSets

CONSTANTS Keys,            \* deliveries: source, entity, command and task_id
          Modes,           \* the TaskMode of each delivery
          Malformed,       \* deliveries that fail the request model
          Unreadable,      \* deliveries whose envelope is invalid
          Slots,           \* handler tasks: max_outstanding of them
          CacheSize,       \* duplicate_cache_size
          MaxReceived      \* bound: how often each delivery may arrive

ASSUME KeysAssumption == Keys # {}
ASSUME ModesAssumption ==
    Modes \in [Keys -> {"COMPLETE", "ACKNOWLEDGMENT", "FIRE_AND_FORGET"}]
ASSUME MalformedAssumption ==
    Malformed \subseteq Keys /\ Unreadable \subseteq Keys \ Malformed
ASSUME SlotsAssumption == IsFiniteSet(Slots) /\ Slots # {}
ASSUME CacheSizeAssumption == CacheSize \in Nat \ {0}
ASSUME MaxReceivedAssumption == MaxReceived \in [Keys -> Nat]

VARIABLES
    closed,       \* _closed
    closeDone,    \* close() has returned
    task,         \* the handler task in each slot
    active,       \* the keys of _deliveries
    duplicates,   \* the counts of _deliveries
    cache,        \* _delivery_cache, least recently used first
    dispatcher,   \* the answer _receive is publishing, if any
    received,     \* how often each delivery arrived
    invoked,      \* how often its handler was started
    forgotten,    \* how often the LRU dropped it
    tried         \* answers handed to the transport, whatever became of them

vars == <<closed, closeDone, task, active, duplicates, cache, dispatcher,
          received, invoked, forgotten, tried>>

Stages == {"idle", "created", "acking", "running", "answering"}
Answers == {"none", "ack", "result", "invalid", "busy", "broken"}
IdleTask == [key |-> CHOOSE k \in Keys : TRUE, stage |-> "idle", answer |-> "none",
             left |-> 0, cancel |-> FALSE]
Cached == {cache[i].key : i \in DOMAIN cache}
Place(k) == CHOOSE i \in DOMAIN cache : cache[i].key = k
CachedAnswer(k) == cache[Place(k)].answer
Idle == {s \in Slots : task[s].stage = "idle"}
Executing(s) == task[s].stage \in {"created", "acking", "running"}

TypeOK ==
    /\ closed \in BOOLEAN /\ closeDone \in BOOLEAN
    /\ task \in [Slots -> [key : Keys, stage : Stages, answer : Answers,
                           left : 0..Cardinality(Slots), cancel : BOOLEAN]]
    /\ active \subseteq Keys
    /\ duplicates \in [Keys -> 0..(Cardinality(Slots) - 1)]
    /\ cache \in Seq([key : Keys, answer : Answers])
    /\ Len(cache) <= CacheSize
    /\ \A i, j \in DOMAIN cache : cache[i].key = cache[j].key => i = j
    /\ dispatcher \in [key : Keys, answer : Answers]
    /\ received \in [Keys -> Nat] /\ invoked \in [Keys -> Nat]
    /\ \A k \in Keys : received[k] <= MaxReceived[k]
    /\ forgotten \in [Keys -> Nat]
    /\ tried \in [Keys -> SUBSET Answers]

NoAnswer == [key |-> CHOOSE k \in Keys : TRUE, answer |-> "none"]

Init ==
    /\ closed = FALSE /\ closeDone = FALSE
    /\ task = [s \in Slots |-> IdleTask]
    /\ active = {} /\ duplicates = [k \in Keys |-> 0]
    /\ cache = <<>> /\ dispatcher = NoAnswer
    /\ received = [k \in Keys |-> 0] /\ invoked = [k \in Keys |-> 0]
    /\ forgotten = [k \in Keys |-> 0]
    /\ tried = [k \in Keys |-> {}]

----------------------------------------------------------------------------
(* _cache: (re)insert as most recently used, drop the oldest beyond the    *)
(* bound.  "Touch" is the same without a new value (move_to_end).          *)
Without(k) == IF k \in Cached THEN RemoveAt(cache, Place(k)) ELSE cache
Remember(k, answer) ==
    LET all == Append(Without(k), [key |-> k, answer |-> answer]) IN
    IF Len(all) <= CacheSize
    THEN cache' = all /\ UNCHANGED forgotten
    ELSE /\ cache' = Tail(all)
         /\ forgotten' = [forgotten EXCEPT ![Head(all).key] = @ + 1]
Touch(k) == cache' = Append(Without(k), [key |-> k, answer |-> CachedAnswer(k)])

(* _publish_response from the dispatcher: nothing once the service closed. *)
Answer(k, answer) == dispatcher' = [key |-> k, answer |-> answer]

Forget(k) ==
    /\ active' = active \ {k}
    /\ duplicates' = [duplicates EXCEPT ![k] = 0]

Arrives(k) ==
    /\ ~closed /\ dispatcher.answer = "none" /\ received[k] < MaxReceived[k]
    /\ received' = [received EXCEPT ![k] = @ + 1]

----------------------------------------------------------------------------
(* _receive, one action for each way it ends.                              *)
ReceiveCached(k) ==
    /\ Arrives(k) /\ k \in Cached
    /\ Touch(k)
    /\ Answer(k, CachedAnswer(k))
    /\ UNCHANGED <<closed, closeDone, task, active, duplicates, invoked,
                   forgotten, tried>>

ReceiveDuplicate(k) ==
    /\ Arrives(k) /\ k \notin Cached /\ k \in active
    /\ duplicates' = [duplicates EXCEPT ![k] =
                        IF @ < Cardinality(Slots) - 1 THEN @ + 1 ELSE @]
    /\ UNCHANGED <<closed, closeDone, task, active, cache, dispatcher, invoked,
                   forgotten, tried>>

ReceiveMalformed(k) ==
    LET answer == IF Modes[k] = "FIRE_AND_FORGET" THEN "none" ELSE "invalid" IN
    /\ Arrives(k) /\ k \notin Cached \cup active /\ k \in Malformed
    /\ Remember(k, answer)
    /\ Answer(k, answer)
    /\ UNCHANGED <<closed, closeDone, task, active, duplicates, invoked, tried>>

(* _parse_envelope fails: whoever can be told is told each time, and the   *)
(* delivery has no key to be remembered by.                                *)
ReceiveUnreadable(k) ==
    /\ Arrives(k) /\ k \in Unreadable
    /\ Answer(k, IF Modes[k] = "FIRE_AND_FORGET" THEN "none" ELSE "invalid")
    /\ UNCHANGED <<closed, closeDone, task, active, duplicates, cache, invoked,
                   forgotten, tried>>

(* The capacity answer is not cached: a later redelivery may be executed.  *)
ReceiveBusy(k) ==
    /\ Arrives(k) /\ k \notin Cached \cup active \cup Malformed \cup Unreadable
    /\ Idle = {}
    /\ Answer(k, IF Modes[k] = "FIRE_AND_FORGET" THEN "none" ELSE "busy")
    /\ UNCHANGED <<closed, closeDone, task, active, duplicates, cache, invoked,
                   forgotten, tried>>

ReceiveNew(k) ==
    /\ Arrives(k) /\ k \notin Cached \cup active \cup Malformed \cup Unreadable
    /\ Idle # {}
    /\ LET s == CHOOSE i \in Idle : TRUE IN
       task' = [task EXCEPT ![s] = [IdleTask EXCEPT !.key = k, !.stage = "created"]]
    /\ active' = active \cup {k}
    /\ duplicates' = [duplicates EXCEPT ![k] = 0]
    /\ UNCHANGED <<closed, closeDone, cache, dispatcher, invoked, forgotten, tried>>

(* The dispatcher's own publication ends, accepted, lost or refused; the   *)
(* transport swallows the error and dispatches the next message.           *)
DispatcherPublished ==
    /\ dispatcher.answer # "none"
    /\ dispatcher' = NoAnswer
    /\ tried' = [tried EXCEPT ![dispatcher.key] = @ \cup {dispatcher.answer}]
    /\ UNCHANGED <<closed, closeDone, task, active, duplicates, cache, received,
                   invoked, forgotten>>

----------------------------------------------------------------------------
(* _run_delivery, step by step.  An answer is tried, accepted or not; only *)
(* an ACK that was refused counts as nothing done.                         *)
(* A task cancelled before its first step                                  *)
(* never runs; the key it leaves behind is dropped by close.               *)
Moves(s, stage) == task' = [task EXCEPT ![s].stage = stage, ![s].cancel = FALSE]
Ends(s) == task' = [task EXCEPT ![s] = IdleTask]

Invoke(s) ==
    /\ Moves(s, "running")
    /\ invoked' = [invoked EXCEPT ![task[s].key] = @ + 1]

Start(s) ==
    /\ task[s].stage = "created" /\ ~task[s].cancel
    /\ IF Modes[task[s].key] = "ACKNOWLEDGMENT"
       THEN Moves(s, "acking") /\ UNCHANGED invoked
       ELSE Invoke(s)
    /\ UNCHANGED <<closed, closeDone, active, duplicates, cache, dispatcher,
                   received, forgotten, tried>>

CancelledUnstarted(s) ==
    /\ task[s].stage = "created" /\ task[s].cancel
    /\ Ends(s)
    /\ UNCHANGED <<closed, closeDone, active, duplicates, cache, dispatcher,
                   received, invoked, forgotten, tried>>

(* The acknowledgement's PUBACK was recorded: publish() returns normally,  *)
(* even when the task was cancelled in the same moment.                    *)
AckPublished(s) ==
    LET k == task[s].key IN
    /\ task[s].stage = "acking"
    /\ tried' = [tried EXCEPT ![k] = @ \cup {"ack"}]
    /\ Invoke(s)
    /\ UNCHANGED <<closed, closeDone, active, duplicates, cache, dispatcher,
                   received, forgotten>>

(* A defect of AckUnknown: the key is released although the handler runs.  *)
AckUnknownReleases(s) ==
    /\ task[s].stage = "acking"
    /\ tried' = [tried EXCEPT ![task[s].key] = @ \cup {"ack"}]
    /\ Forget(task[s].key) /\ Invoke(s)
    /\ UNCHANGED <<closed, closeDone, cache, dispatcher, received, forgotten>>

(* OutcomeUnknownError: the requester may have the acknowledgement, so the *)
(* handler runs, unless close owns the task by now.                        *)
AckUnknown(s) ==
    LET k == task[s].key IN
    /\ task[s].stage = "acking"
    /\ tried' = [tried EXCEPT ![k] = @ \cup {"ack"}]
    /\ IF closed
       THEN Ends(s) /\ Forget(k) /\ UNCHANGED invoked
       ELSE Invoke(s) /\ UNCHANGED <<active, duplicates>>
    /\ UNCHANGED <<closed, closeDone, cache, dispatcher, received, forgotten>>

(* A definite failure, or a cancellation before the packet left: no effect *)
(* began and the key is free again.                                        *)
AckFailed(s) ==
    /\ task[s].stage = "acking"
    /\ Ends(s) /\ Forget(task[s].key)
    /\ UNCHANGED <<closed, closeDone, cache, dispatcher, received, invoked,
                   forgotten, tried>>

(* Defects of Finish: an answer that is not remembered, and one that is    *)
(* begun on a closed service.                                              *)
FinishUnremembered(s, answer) ==
    LET k == task[s].key IN
    /\ Forget(k) /\ UNCHANGED <<cache, forgotten>>
    /\ IF closed \/ answer = "none"
       THEN Ends(s)
       ELSE task' = [task EXCEPT ![s].stage = "answering", ![s].answer = answer,
                                 ![s].cancel = FALSE, ![s].left = duplicates[k] + 1]

FinishAfterClose(s, answer) ==
    LET k == task[s].key IN
    /\ Forget(k) /\ Remember(k, answer)
    /\ IF answer = "none"
       THEN Ends(s)
       ELSE task' = [task EXCEPT ![s].stage = "answering", ![s].answer = answer,
                                 ![s].cancel = FALSE, ![s].left = duplicates[k] + 1]

(* _finish: the delivery is remembered before its answer is published, and *)
(* each duplicate counted meanwhile is answered too.                       *)
Finish(s, answer) ==
    LET k == task[s].key IN
    /\ Forget(k)
    /\ IF closed
       THEN Ends(s) /\ UNCHANGED <<cache, forgotten>>
       ELSE /\ Remember(k, answer)
            /\ IF answer = "none"
               THEN Ends(s)
               ELSE task' = [task EXCEPT ![s].stage = "answering",
                                         ![s].answer = answer,
                                         ![s].cancel = FALSE,
                                         ![s].left = duplicates[k] + 1]

(* A defect of HandlerEnds: a handler that raises is not answered.         *)
HandlerEndsSilently(s) ==
    /\ task[s].stage = "running"
    /\ Finish(s, "none")
    /\ UNCHANGED <<closed, closeDone, dispatcher, received, invoked, tried>>

(* The handler returns or raises (a failed COMPLETE is a result as well);  *)
(* one that resists its cancellation may do so after close.                *)
HandlerEnds(s) ==
    /\ task[s].stage = "running"
    /\ Finish(s, IF Modes[task[s].key] = "COMPLETE" THEN "result" ELSE "none")
    /\ UNCHANGED <<closed, closeDone, dispatcher, received, invoked, tried>>

HandlerCancelled(s) ==
    /\ task[s].stage = "running" /\ task[s].cancel
    /\ Ends(s) /\ Forget(task[s].key)
    /\ UNCHANGED <<closed, closeDone, cache, dispatcher, received, invoked,
                   forgotten, tried>>

(* One publication of _finish's loop succeeds; after close it is skipped.  *)
AnswerPublished(s) ==
    LET k == task[s].key IN
    /\ task[s].stage = "answering"
    /\ tried' = [tried EXCEPT ![k] = @ \cup {task[s].answer}]
    /\ IF task[s].left = 1 \/ closed
       THEN Ends(s)
       ELSE task' = [task EXCEPT ![s].left = @ - 1]
    /\ UNCHANGED <<closed, closeDone, active, duplicates, cache, dispatcher,
                   received, invoked, forgotten>>

(* The publication raises, and the duplicates counted are left unanswered: *)
(* whoever asked has to ask again.  The last handler of _run_delivery      *)
(* looks for its own key in _deliveries, finds it only if another task     *)
(* took it since, and finishes that delivery with a failure.               *)
AnswerFailed(s) ==
    LET k == task[s].key IN
    /\ task[s].stage = "answering"
    /\ tried' = [tried EXCEPT ![k] = @ \cup {task[s].answer}]
    /\ IF k \in active
       THEN Finish(s, "broken")
       ELSE Ends(s) /\ UNCHANGED <<active, duplicates, cache, forgotten>>
    /\ UNCHANGED <<closed, closeDone, dispatcher, received, invoked>>

----------------------------------------------------------------------------
Close ==
    /\ ~closed /\ closed' = TRUE
    /\ task' = [s \in Slots |->
                  [task[s] EXCEPT !.cancel = task[s].stage # "idle"]]
    /\ UNCHANGED <<closeDone, active, duplicates, cache, dispatcher, received,
                   invoked, forgotten, tried>>

(* The rest of close, when the tasks have ended or shutdown_timeout passed.*)
CloseReturns ==
    /\ closed /\ ~closeDone /\ closeDone' = TRUE
    /\ active' = {} /\ duplicates' = [k \in Keys |-> 0]
    /\ cache' = <<>>
    /\ UNCHANGED <<closed, task, dispatcher, received, invoked, forgotten, tried>>

TaskStep(s) ==
    \/ Start(s) \/ CancelledUnstarted(s)
    \/ AckPublished(s) \/ AckUnknown(s) \/ AckFailed(s)
    \/ HandlerEnds(s) \/ HandlerCancelled(s)
    \/ AnswerPublished(s) \/ AnswerFailed(s)

Receive(k) ==
    \/ ReceiveCached(k) \/ ReceiveDuplicate(k) \/ ReceiveMalformed(k)
    \/ ReceiveUnreadable(k) \/ ReceiveBusy(k) \/ ReceiveNew(k)

Next ==
    \/ \E k \in Keys : Receive(k)
    \/ DispatcherPublished
    \/ \E s \in Slots : TaskStep(s)
    \/ Close \/ CloseReturns

(* Publications have an operation timeout and the event loop runs every    *)
(* task; that handlers return is the application's part of the bargain.    *)
Spec == Init /\ [][Next]_vars
FairSpec == /\ Spec /\ WF_vars(DispatcherPublished)
            /\ \A s \in Slots : WF_vars(TaskStep(s))

----------------------------------------------------------------------------
(* A handler runs once for a delivery, however often it is redelivered:    *)
(* during the handler, while its answer is being published, or later.  It  *)
(* runs again only after the bounded cache has forgotten the delivery.     *)
InvokedOncePerMemory == \A k \in Keys : invoked[k] <= 1 + forgotten[k]

(* "bounded-cache pressure cannot turn a redelivery into a second ACK or   *)
(* invocation" while the handler of an ACKNOWLEDGMENT delivery runs: two   *)
(* tasks never execute the same one, whatever the cache has forgotten.     *)
AckSingleFlight ==
    \A s, t \in Slots :
        s # t /\ Executing(s) /\ Executing(t) /\ task[s].key = task[t].key
        => Modes[task[s].key] # "ACKNOWLEDGMENT"

(* One answer is tried for a delivery, repeated as often as the delivery; a *)
(* different one only after the cache forgot it, or after the capacity     *)
(* answer, which is not remembered.                                        *)
OneAnswer ==
    \A k \in Keys : forgotten[k] = 0 => Cardinality(tried[k] \ {"busy"}) <= 1

(* A result or refusal that was tried is there for the redelivery of a     *)
(* requester whom it never reached, until the cache forgets it.            *)
AnswerRemembered ==
    \A k \in Keys \ Unreadable :
        tried[k] \cap {"result", "invalid"} # {} /\ forgotten[k] = 0 /\ ~closed
        => k \in Cached

(* A delivery is executed by one task at a time and answered in one way,   *)
(* also when the publication of its answer failed.                         *)
HandledOnce == AckSingleFlight /\ OneAnswer /\ AnswerRemembered

(* Once close began, no handler that ends late begins to answer.           *)
NoAnswerBegunAfterClose ==
    [][closed => \A s \in Slots :
          task'[s].stage = "answering" => task[s].stage = "answering"]_vars

(* An answer to a COMPLETE delivery is tried, or the service closes: no    *)
(* path through the handler, the cache and the refusals forgets it.  That  *)
(* it arrives is not promised: nothing repeats a publication that failed   *)
(* but a redelivery.  None of the three is ever taken back, so this is     *)
(* "received leads to tried or closed".                                    *)
EveryAnswerTried ==
    []<>(\A k \in Keys : Modes[k] = "COMPLETE" /\ received[k] > 0
                         => tried[k] # {} \/ closed)

(* "Service close owns cancellation and must not start new user code after *)
(* closing begins" (the comment in _run_delivery).                         *)
NoHandlerStartedAfterClose == [][closed => invoked' = invoked]_vars
============================================================================
