---------------------------- MODULE EventStream ----------------------------
(***************************************************************************)
(* The bounded local queue of decoded events that a watcher hands to the   *)
(* application (streams.py).  The dispatcher offers events with            *)
(* _put_nowait, the owner ends the stream with _fail or aclose, and the    *)
(* application's tasks iterate it.  asyncio.Queue is external: a put hands *)
(* a wake-up to the first waiting getter, which takes its item only when   *)
(* the event loop runs it again, so that another task may have taken it.   *)
(***************************************************************************)
EXTENDS Integers, Sequences, SequencesExt, FiniteSets

CONSTANTS Consumers,    \* application tasks that iterate the stream
          BufferSize,   \* buffer_size of the watcher
          MaxEvents     \* bound: events the dispatcher offers

ASSUME BufferSizeAssumption == BufferSize \in Nat \ {0}
ASSUME MaxEventsAssumption == MaxEvents \in Nat

VARIABLES
    policy,         \* _delivery_policy, fixed at construction
    queue,          \* _queue: events, or the one terminal marker
    streamClosed,   \* _closed
    terminalError,  \* _terminal_error is not None
    closeTask,      \* _close_task: none, running, done
    dropped,        \* _dropped_count
    arrived,        \* events offered before the stream closed
    consumer,       \* each consumer: idle, waiting in get(), or woken
    getters,        \* the waiting getters of the asyncio queue, oldest first
    taken,          \* events returned to the application
    endings         \* how iteration has ended so far, for any consumer

streamVars == <<policy, queue, streamClosed, terminalError, closeTask, dropped, arrived,
                consumer, getters, taken, endings>>

Event(n) == [kind |-> "event", seq |-> n]
Marker(error) == [kind |-> IF error THEN "failed" ELSE "stopped", seq |-> 0]
Items == [kind : {"event", "failed", "stopped"}, seq : 0..MaxEvents]
Queued == {queue[i].seq : i \in {j \in 1..Len(queue) : queue[j].kind = "event"}}

StreamTypes ==
    /\ policy \in {"FIFO", "LATEST"}
    /\ queue \in Seq(Items) /\ Len(queue) <= BufferSize
    /\ streamClosed \in BOOLEAN /\ terminalError \in BOOLEAN
    /\ closeTask \in {"none", "running", "done"}
    /\ dropped \in 0..MaxEvents /\ arrived \in 0..MaxEvents
    /\ consumer \in [Consumers -> {"idle", "waiting", "woken"}]
    /\ getters \in Seq(Consumers)
    /\ taken \subseteq 1..MaxEvents
    /\ endings \subseteq {"failed", "stopped"}

StreamInit ==
    /\ policy \in {"FIFO", "LATEST"}
    /\ queue = <<>> /\ getters = <<>>
    /\ streamClosed = FALSE /\ terminalError = FALSE /\ closeTask = "none"
    /\ dropped = 0 /\ arrived = 0
    /\ consumer = [c \in Consumers |-> "idle"]
    /\ taken = {} /\ endings = {}

----------------------------------------------------------------------------
(* asyncio.Queue: put_nowait wakes the oldest getter that still waits.     *)
WakeNext(p) ==
    IF getters = <<>>
    THEN consumer' = p /\ UNCHANGED getters
    ELSE consumer' = [p EXCEPT ![Head(getters)] = "woken"] /\ getters' = Tail(getters)

(* __anext__ with an item at the head of the queue.                        *)
Take(c) ==
    LET item == Head(queue) IN
    /\ queue' = Tail(queue)
    /\ consumer' = [consumer EXCEPT ![c] = "idle"]
    /\ IF item.kind = "event"
       THEN taken' = taken \cup {item.seq} /\ UNCHANGED endings
       ELSE endings' = endings \cup {item.kind} /\ UNCHANGED taken

(* __anext__ on a stream that is closed and drained raises at once.        *)
EndNow(c) ==
    /\ consumer[c] = "idle" /\ streamClosed /\ queue = <<>>
    /\ endings' = endings \cup {Marker(terminalError).kind}
    /\ UNCHANGED <<policy, queue, streamClosed, terminalError, closeTask, dropped,
                   arrived, consumer, getters, taken>>

(* __anext__ finds an item, or resumes on the item it was woken for.       *)
GetItem(c) ==
    /\ consumer[c] \in {"idle", "woken"} /\ queue # <<>>
    /\ Take(c)
    /\ UNCHANGED <<policy, streamClosed, terminalError, closeTask, dropped, arrived,
                   getters>>

(* get() blocks: on an open empty stream, or woken for an item that        *)
(* another consumer or an eviction has taken in the meantime.              *)
Block(c) ==
    /\ queue = <<>>
    /\ \/ consumer[c] = "idle" /\ ~streamClosed
       \/ consumer[c] = "woken"
    /\ consumer' = [consumer EXCEPT ![c] = "waiting"]
    /\ getters' = Append(getters, c)
    /\ UNCHANGED <<policy, queue, streamClosed, terminalError, closeTask, dropped,
                   arrived, taken, endings>>

(* The application cancels a pending get(); a getter that was already      *)
(* woken passes its wake-up on when the queue still has an item.           *)
CancelWaiting(c) ==
    /\ consumer[c] = "waiting"
    /\ consumer' = [consumer EXCEPT ![c] = "idle"]
    /\ \E i \in DOMAIN getters :
          getters[i] = c /\ getters' = RemoveAt(getters, i)
    /\ UNCHANGED <<policy, queue, streamClosed, terminalError, closeTask, dropped,
                   arrived, taken, endings>>

CancelWoken(c) ==
    /\ consumer[c] = "woken"
    /\ IF queue # <<>>
       THEN WakeNext([consumer EXCEPT ![c] = "idle"])
       ELSE consumer' = [consumer EXCEPT ![c] = "idle"] /\ UNCHANGED getters
    /\ UNCHANGED <<policy, queue, streamClosed, terminalError, closeTask, dropped,
                   arrived, taken, endings>>

----------------------------------------------------------------------------
(* A defect of Enqueue: LATEST handled like FIFO.                          *)
EnqueueOldest(n) ==
    IF Len(queue) < BufferSize
    THEN queue' = Append(queue, Event(n)) /\ WakeNext(consumer) /\ UNCHANGED dropped
    ELSE dropped' = dropped + 1 /\ UNCHANGED <<queue, consumer, getters>>

(* _put_nowait: the dispatcher never blocks; a full queue loses an event.  *)
Enqueue(n) ==
    LET item == Event(n) IN
    IF Len(queue) < BufferSize
    THEN queue' = Append(queue, item) /\ WakeNext(consumer) /\ UNCHANGED dropped
    ELSE /\ dropped' = dropped + 1
         /\ IF policy = "FIFO"
            THEN UNCHANGED <<queue, consumer, getters>>
            ELSE queue' = Append(Tail(queue), item) /\ WakeNext(consumer)

(* A defect of Put: events are still accepted while the stream closes.     *)
PutWhileClosing ==
    /\ arrived < MaxEvents
    /\ arrived' = arrived + 1
    /\ Enqueue(arrived + 1)
    /\ UNCHANGED <<policy, streamClosed, terminalError, closeTask, taken, endings>>

Put ==
    /\ ~streamClosed /\ arrived < MaxEvents
    /\ arrived' = arrived + 1
    /\ Enqueue(arrived + 1)
    /\ UNCHANGED <<policy, streamClosed, terminalError, closeTask, taken, endings>>

(* _replace_queue: the marker replaces whatever was buffered.              *)
ReplaceQueue(marker) == queue' = <<marker>> /\ WakeNext(consumer)

(* A defect of Fail: a failure overrides a close that has already begun.   *)
FailWhileClosing ==
    /\ closeTask # "done"
    /\ terminalError' = TRUE /\ streamClosed' = TRUE /\ closeTask' = "running"
    /\ ReplaceQueue(Marker(TRUE))
    /\ UNCHANGED <<policy, dropped, arrived, taken, endings>>

(* _fail: the first terminal action wins and discards the queue at once.   *)
Fail ==
    /\ closeTask = "none"
    /\ terminalError' = TRUE /\ streamClosed' = TRUE /\ closeTask' = "running"
    /\ ReplaceQueue(Marker(TRUE))
    /\ UNCHANGED <<policy, dropped, arrived, taken, endings>>

(* aclose: delivery stops, what is buffered can still be consumed until    *)
(* the close task has released the watcher.                                *)
Aclose ==
    /\ closeTask = "none"
    /\ streamClosed' = TRUE /\ closeTask' = "running"
    /\ UNCHANGED <<policy, queue, terminalError, dropped, arrived, consumer,
                   getters, taken, endings>>

(* A defect of FinishClose: the marker wakes nobody.                       *)
FinishCloseSilently ==
    /\ closeTask = "running"
    /\ closeTask' = "done"
    /\ queue' = <<Marker(terminalError)>>
    /\ UNCHANGED <<policy, streamClosed, terminalError, dropped, arrived, taken,
                   endings, consumer, getters>>

(* _finish_close, after on_close returned or raised.                       *)
FinishClose ==
    /\ closeTask = "running"
    /\ closeTask' = "done"
    /\ ReplaceQueue(Marker(terminalError))
    /\ UNCHANGED <<policy, streamClosed, terminalError, dropped, arrived, taken,
                   endings>>

StreamNext ==
    \/ Put \/ Fail \/ Aclose \/ FinishClose
    \/ \E c \in Consumers : \/ EndNow(c) \/ GetItem(c) \/ Block(c)
                            \/ CancelWaiting(c) \/ CancelWoken(c)

(* The event loop runs every woken task, and on_close ends because each    *)
(* broker operation it makes has a timeout.  Nobody is obliged to publish, *)
(* to close, to iterate or to cancel.                                      *)
Resume(c) == consumer[c] = "woken" /\ (GetItem(c) \/ Block(c))
Fairness == WF_streamVars(FinishClose) /\ \A c \in Consumers : WF_streamVars(Resume(c))
StreamSpec == StreamInit /\ [][StreamNext]_streamVars
FairSpec == StreamSpec /\ Fairness

----------------------------------------------------------------------------
(* dropped_count is exact while the stream is open: every event offered is *)
(* in the application's hands, in the queue, or counted as dropped.        *)
Conservation ==
    ~streamClosed => Cardinality(taken) + Len(queue) + dropped = arrived

(* LATEST never loses the newest event: it is queued or was returned.      *)
LatestKept ==
    policy = "LATEST" /\ ~streamClosed /\ arrived > 0 =>
        arrived \in taken \cup Queued

(* While the stream is open nothing is lost but what is counted as dropped, *)
(* and under LATEST never the newest event.                                *)
NothingLost == Conservation /\ LatestKept

(* The first terminal action wins: whichever of _fail and aclose began     *)
(* first decides how every consumer's iteration ends, in every order of    *)
(* closing, draining, waking and cancelling, and none ends before it.      *)
OneEnding ==
    endings \subseteq (IF streamClosed THEN {Marker(terminalError).kind} ELSE {})

(* After one consumer was told that the stream ended, no consumer receives *)
(* a further event, although aclose leaves the buffer consumable.          *)
NothingAfterEnding == [][endings # {} => taken' = taken]_streamVars

(* When the stream closes on a consumer that is inside get(), the consumer *)
(* leaves it, or at least some consumer is told that the stream ended (a   *)
(* sole consumer, therefore, always gets out).                             *)
EndingIsTold ==
    \A c \in Consumers :
        (streamClosed /\ consumer[c] # "idle") ~> (consumer[c] = "idle" \/ endings # {})

(* What aclose's comment says: it "unblocks iteration waiting for an       *)
(* event".  Every consumer inside get() when the stream closes leaves it.  *)
CloseUnblocks ==
    \A c \in Consumers : (streamClosed /\ consumer[c] # "idle") ~> (consumer[c] = "idle")
============================================================================
