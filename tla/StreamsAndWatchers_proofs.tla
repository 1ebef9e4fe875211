-------------------- MODULE StreamsAndWatchers_proofs ----------------------
(***************************************************************************)
(* What is delivered to the application: first EventStream, the queue it    *)
(* iterates, then EntityWatchers, the watchers that fill such queues.       *)
(*                                                                         *)
(* EventStream, for any number of consumers, any buffer size and any number *)
(* of events: the types of the stream, that it ends once, in one way and    *)
(* without a further event, and that no event of an open stream goes        *)
(* unaccounted.  The invariant that carries the ending says what the queue  *)
(* may hold: only events while nobody began to close, and the marker of the *)
(* recorded terminal state, alone, once anybody put it there.  The one that *)
(* carries the accounting says that an open stream is in order: what was    *)
(* taken comes before what is queued.                                       *)
(*                                                                         *)
(* EntityWatchers, for any number of watchers, any filters, any limits and  *)
(* any number of messages: what is pending stays within its limits and      *)
(* counted, TRACKs come in order, and a watcher that is over owns nothing.  *)
(* The bytes pending are a sum, a function defined by recursion over the    *)
(* arrivals, so that part starts with an induction over the natural numbers *)
(* that is about sets.                                                      *)
(***************************************************************************)
EXTENDS EventStream, EntityWatchers, SequenceTheorems, FiniteSetTheorems,
        WellFoundedInduction, TLAPS

(* The numbers of the events, without which the types are not inductive.   *)
Numbered ==
    /\ dropped <= arrived
    /\ \A i \in 1..Len(queue) :
          queue[i].kind = "event" => queue[i].seq \in 1..arrived

(* closed is set in the step that creates the close task, and never reset. *)
StreamClosing == /\ streamClosed <=> closeTask # "none"
                 /\ terminalError => streamClosed

MarkerAlone ==
    \A i \in 1..Len(queue) :
        queue[i].kind # "event" =>
            streamClosed /\ Len(queue) = 1 /\ queue[i].kind = Marker(terminalError).kind

DrainedAtEnd ==
    endings # {} => \A i \in 1..Len(queue) : queue[i].kind # "event"

ArrivalOrder == ~streamClosed =>
    /\ \A i, j \in 1..Len(queue) : i < j => queue[i].seq < queue[j].seq
    /\ \A n \in taken : n <= arrived
    /\ \A n \in taken, i \in 1..Len(queue) : n < queue[i].seq

TypeInv == StreamTypes /\ Numbered /\ StreamClosing
EndInv == MarkerAlone /\ DrainedAtEnd /\ OneEnding
CountInv == ArrivalOrder /\ Conservation /\ LatestKept

----------------------------------------------------------------------------
(* The items the code creates are items.                                   *)
LEMMA ItemTypes ==
    /\ \A n \in 1..MaxEvents : Event(n) \in Items
    /\ \A e \in BOOLEAN : Marker(e) \in Items
BY MaxEventsAssumption DEF Event, Marker, Items

(* Cutting one element out of a sequence leaves a sequence.                *)
LEMMA RemoveAtType ==
    ASSUME NEW S, NEW s \in Seq(S), NEW i \in 1..Len(s)
    PROVE  RemoveAt(s, i) \in Seq(S)
<1>1. SubSeq(s, 1, i-1) \in Seq(S)
    BY SubSeqProperties, ElementOfSeq
<1>2. SubSeq(s, i+1, Len(s)) \in Seq(S)
    BY SubSeqProperties, ElementOfSeq, LenProperties
<1>3. QED
    BY <1>1, <1>2, ConcatProperties DEF RemoveAt

(* A wake-up moves the oldest getter out of the queue of getters.          *)
LEMMA WakeType ==
    ASSUME getters \in Seq(Consumers),
           NEW p \in [Consumers -> {"idle", "waiting", "woken"}], WakeNext(p)
    PROVE  /\ consumer' \in [Consumers -> {"idle", "waiting", "woken"}]
           /\ getters' \in Seq(Consumers)
<1>1. CASE getters = <<>>
    BY <1>1 DEF WakeNext
<1>2. CASE getters # <<>>
    <2>1. Head(getters) \in Consumers /\ Tail(getters) \in Seq(Consumers)
        BY <1>2, HeadTailProperties
    <2>2. QED
        BY <1>2, <2>1 DEF WakeNext
<1>3. QED
    BY <1>1, <1>2

(* Replacing the queue by a marker.                                        *)
LEMMA ReplaceType ==
    ASSUME StreamTypes, NEW e \in BOOLEAN, ReplaceQueue(Marker(e))
    PROVE  /\ queue' \in Seq(Items) /\ Len(queue') = 1
           /\ queue'[1] = Marker(e)
           /\ consumer' \in [Consumers -> {"idle", "waiting", "woken"}]
           /\ getters' \in Seq(Consumers)
<1>1. queue' = <<Marker(e)>> /\ WakeNext(consumer)
    BY DEF ReplaceQueue
<1>2. Marker(e) \in Items
    BY ItemTypes
<1>3. QED
    BY <1>1, <1>2, WakeType DEF StreamTypes

(* Taking the head of the queue.                                           *)
LEMMA TakeHead ==
    ASSUME StreamTypes, queue # <<>>, queue' = Tail(queue)
    PROVE  /\ queue' \in Seq(Items) /\ Len(queue') = Len(queue) - 1
           /\ Len(queue) \in 1..BufferSize
           /\ Head(queue) = queue[1] /\ queue[1] \in Items
           /\ \A i \in 1..Len(queue') : queue'[i] = queue[i+1]
<1>1. queue \in Seq(Items) /\ Len(queue) <= BufferSize
    BY DEF StreamTypes
<1>2. Len(queue) \in Nat /\ Len(queue) # 0
    BY <1>1, LenProperties, EmptySeq
<1>3. QED
    BY <1>1, <1>2, HeadTailProperties, ElementOfSeq, BufferSizeAssumption

(* What _put_nowait does to the queue: it drops the newcomer, appends it,  *)
(* or replaces the oldest item by it at the other end.                     *)
Discards == /\ queue' = queue /\ dropped' = dropped + 1
            /\ Len(queue) = BufferSize /\ policy = "FIFO"
Appends == /\ Len(queue') = Len(queue) + 1 /\ dropped' = dropped
           /\ Len(queue) < BufferSize
           /\ \A i \in 1..Len(queue) : queue'[i] = queue[i]
           /\ queue'[Len(queue')] = Event(arrived + 1)
Evicts == /\ Len(queue') = Len(queue) /\ dropped' = dropped + 1
          /\ Len(queue) = BufferSize
          /\ \A i \in 1..(Len(queue) - 1) : queue'[i] = queue[i+1]
          /\ queue'[Len(queue')] = Event(arrived + 1)

LEMMA PutShape ==
    ASSUME StreamTypes, Put
    PROVE  /\ queue' \in Seq(Items)
           /\ consumer' \in [Consumers -> {"idle", "waiting", "woken"}]
           /\ getters' \in Seq(Consumers)
           /\ Discards \/ Appends \/ Evicts
<1>1. Event(arrived + 1) \in Items
    BY ItemTypes, MaxEventsAssumption DEF Put, StreamTypes
<1>2. CASE Len(queue) < BufferSize
    <2>1. queue' = Append(queue, Event(arrived + 1)) /\ WakeNext(consumer)
          /\ dropped' = dropped
        BY <1>2 DEF Put, Enqueue
    <2>2. /\ queue' \in Seq(Items) /\ Len(queue') = Len(queue) + 1
          /\ \A i \in 1..Len(queue) : queue'[i] = queue[i]
          /\ queue'[Len(queue) + 1] = Event(arrived + 1)
        BY <1>1, <2>1, AppendProperties DEF StreamTypes
    <2>3. QED
        BY <1>2, <2>1, <2>2, WakeType DEF StreamTypes, Appends
<1>3. CASE Len(queue) = BufferSize /\ policy = "FIFO"
    <2>1. UNCHANGED <<queue, consumer, getters>> /\ dropped' = dropped + 1
        BY <1>3, BufferSizeAssumption DEF Put, Enqueue
    <2>2. QED
        BY <1>3, <2>1 DEF StreamTypes, Discards
<1>4. CASE Len(queue) = BufferSize /\ policy # "FIFO"
    <2>1. /\ queue' = Append(Tail(queue), Event(arrived + 1)) /\ WakeNext(consumer)
          /\ dropped' = dropped + 1
        BY <1>4, BufferSizeAssumption DEF Put, Enqueue
    <2>2. queue # <<>>
        BY <1>4, BufferSizeAssumption
    <2>3. /\ Tail(queue) \in Seq(Items) /\ Len(Tail(queue)) = Len(queue) - 1
          /\ \A i \in 1..Len(Tail(queue)) : Tail(queue)[i] = queue[i+1]
        BY <2>2, HeadTailProperties DEF StreamTypes
    <2>4. /\ queue' \in Seq(Items) /\ Len(queue') = Len(queue)
          /\ \A i \in 1..(Len(queue) - 1) : queue'[i] = queue[i+1]
          /\ queue'[Len(queue)] = Event(arrived + 1)
        BY <1>1, <2>1, <2>3, AppendProperties, LenProperties DEF StreamTypes
    <2>5. QED
        BY <1>4, <2>1, <2>4, WakeType DEF StreamTypes, Evicts
<1>5. QED
    BY <1>2, <1>3, <1>4, BufferSizeAssumption, LenProperties DEF StreamTypes

----------------------------------------------------------------------------
(* The types.  Only the steps on the queue and on the getters need more    *)
(* than their definitions.                                                 *)
LEMMA TypeStep == TypeInv /\ [StreamNext]_streamVars => TypeInv'
<1> SUFFICES ASSUME TypeInv, [StreamNext]_streamVars PROVE TypeInv'
    OBVIOUS
<1> USE DEF TypeInv
<1>1. ASSUME Put PROVE TypeInv'
    <2>1. /\ queue' \in Seq(Items)
          /\ consumer' \in [Consumers -> {"idle", "waiting", "woken"}]
          /\ getters' \in Seq(Consumers)
          /\ Discards \/ Appends \/ Evicts
        BY <1>1, PutShape
    <2>2. Len(queue) \in Nat /\ Len(queue') \in Nat
        BY <2>1, LenProperties DEF StreamTypes
    <2>3. Len(queue') <= BufferSize
        BY <2>1, <2>2, BufferSizeAssumption DEF Discards, Appends, Evicts, StreamTypes
    <2>4. dropped' \in 0..MaxEvents /\ dropped' <= arrived' /\ arrived' \in 0..MaxEvents
        BY <1>1, <2>1, MaxEventsAssumption
        DEF Discards, Appends, Evicts, StreamTypes, Numbered, Put
    <2>5. StreamTypes'
        BY <1>1, <2>1, <2>3, <2>4 DEF StreamTypes, Put
    <2>6. ASSUME NEW i \in 1..Len(queue'), queue'[i].kind = "event"
          PROVE  queue'[i].seq \in 1..arrived'
        <3>1. CASE queue'[i] = Event(arrived + 1)
            BY <1>1, <3>1 DEF Event, Put, StreamTypes
        <3>2. CASE queue'[i] # Event(arrived + 1)
            <4>1. PICK j \in 1..Len(queue) : queue'[i] = queue[j]
                BY <2>1, <2>2, <3>2 DEF Discards, Appends, Evicts
            <4>2. queue[j].seq \in 1..arrived
                BY <2>6, <4>1 DEF Numbered
            <4>3. QED
                BY <1>1, <4>1, <4>2 DEF Put, StreamTypes
        <3>3. QED
            BY <3>1, <3>2
    <2>7. QED
        BY <1>1, <2>4, <2>5, <2>6 DEF Numbered, StreamClosing, Put
<1>2. ASSUME Fail PROVE TypeInv'
    <2>1. ReplaceQueue(Marker(TRUE))
        BY <1>2 DEF Fail
    <2>2. /\ queue' \in Seq(Items) /\ Len(queue') = 1 /\ queue'[1] = Marker(TRUE)
          /\ consumer' \in [Consumers -> {"idle", "waiting", "woken"}]
          /\ getters' \in Seq(Consumers)
        BY <2>1, ReplaceType
    <2>3. StreamTypes'
        BY <1>2, <2>2, BufferSizeAssumption DEF StreamTypes, Fail
    <2>4. Numbered'
        BY <1>2, <2>2 DEF Numbered, Marker, Fail
    <2>5. QED
        BY <1>2, <2>3, <2>4 DEF StreamClosing, Fail
<1>3. ASSUME Aclose PROVE TypeInv'
    BY <1>3 DEF Aclose, StreamTypes, Numbered, StreamClosing
<1>4. ASSUME FinishClose PROVE TypeInv'
    <2>1. ReplaceQueue(Marker(terminalError)) /\ terminalError \in BOOLEAN
        BY <1>4 DEF FinishClose, StreamTypes
    <2>2. /\ queue' \in Seq(Items) /\ Len(queue') = 1
          /\ queue'[1] = Marker(terminalError)
          /\ consumer' \in [Consumers -> {"idle", "waiting", "woken"}]
          /\ getters' \in Seq(Consumers)
        BY <2>1, ReplaceType
    <2>3. StreamTypes'
        BY <1>4, <2>2, BufferSizeAssumption DEF StreamTypes, FinishClose
    <2>4. Numbered'
        BY <1>4, <2>2 DEF Numbered, Marker, FinishClose
    <2>5. QED
        BY <1>4, <2>3, <2>4 DEF StreamClosing, FinishClose
<1>5. ASSUME NEW c \in Consumers, EndNow(c) PROVE TypeInv'
    <2>1. Marker(terminalError).kind \in {"failed", "stopped"}
        BY DEF Marker
    <2>2. QED
        BY <1>5, <2>1 DEF EndNow, StreamTypes, Numbered, StreamClosing
<1>6. ASSUME NEW c \in Consumers, GetItem(c) PROVE TypeInv'
    <2>1. queue # <<>> /\ queue' = Tail(queue)
        BY <1>6 DEF GetItem, Take
    <2>2. Head(queue) = queue[1] /\ queue[1] \in Items /\ Len(queue) \in 1..BufferSize
        BY <2>1, TakeHead
    <2>3. /\ queue[1].kind = "event" => queue[1].seq \in 1..MaxEvents
          /\ queue[1].kind # "event" => queue[1].kind \in {"failed", "stopped"}
        BY <2>2 DEF Numbered, StreamTypes, Items
    <2>4. taken' \subseteq 1..MaxEvents /\ endings' \subseteq {"failed", "stopped"}
        BY <1>6, <2>2, <2>3 DEF GetItem, Take, StreamTypes
    <2>5. StreamTypes'
        BY <1>6, <2>1, <2>4, TakeHead, BufferSizeAssumption DEF GetItem, Take, StreamTypes
    <2>6. Numbered'
        BY <1>6, <2>1, TakeHead, LenProperties, BufferSizeAssumption
        DEF GetItem, Numbered
    <2>7. QED
        BY <1>6, <2>5, <2>6 DEF GetItem, StreamClosing
<1>7. ASSUME NEW c \in Consumers, Block(c) PROVE TypeInv'
    BY <1>7, AppendProperties DEF Block, StreamTypes, Numbered, StreamClosing
<1>8. ASSUME NEW c \in Consumers, CancelWaiting(c) PROVE TypeInv'
    <2>1. getters' \in Seq(Consumers)
        BY <1>8, RemoveAtType, LenProperties DEF CancelWaiting, StreamTypes
    <2>2. QED
        BY <1>8, <2>1 DEF CancelWaiting, StreamTypes, Numbered, StreamClosing
<1>9. ASSUME NEW c \in Consumers, CancelWoken(c) PROVE TypeInv'
    <2>1. /\ consumer' \in [Consumers -> {"idle", "waiting", "woken"}]
          /\ getters' \in Seq(Consumers)
        BY <1>9, WakeType DEF CancelWoken, StreamTypes
    <2>2. QED
        BY <1>9, <2>1 DEF CancelWoken, StreamTypes, Numbered, StreamClosing
<1>10. CASE UNCHANGED streamVars
    BY <1>10 DEF streamVars, StreamTypes, Numbered, StreamClosing
<1>11. QED
    BY <1>1, <1>2, <1>3, <1>4, <1>5, <1>6, <1>7, <1>8, <1>9, <1>10 DEF StreamNext

LEMMA TypeInit == StreamInit => TypeInv
<1> SUFFICES ASSUME StreamInit PROVE TypeInv
    OBVIOUS
<1>1. queue \in Seq(Items) /\ getters \in Seq(Consumers) /\ Len(queue) = 0
    BY EmptySeq DEF StreamInit
<1>2. consumer \in [Consumers -> {"idle", "waiting", "woken"}]
    BY DEF StreamInit
<1>3. Len(queue) <= BufferSize /\ 0 \in 0..MaxEvents
    BY <1>1, BufferSizeAssumption, MaxEventsAssumption
<1>4. StreamTypes
    BY <1>1, <1>2, <1>3 DEF StreamInit, StreamTypes
<1>5. QED
    BY <1>1, <1>4 DEF StreamInit, TypeInv, Numbered, StreamClosing

LEMMA TypeInvariant == StreamSpec => []TypeInv
BY TypeInit, TypeStep, PTL DEF StreamSpec

(* The queue never exceeds buffer_size and every part of the stream has    *)
(* its type, whatever the dispatcher, the owner and the consumers do.      *)
THEOREM TypeCorrect == StreamSpec => []StreamTypes
<1>1. TypeInv => StreamTypes
    BY DEF TypeInv
<1>2. QED
    BY <1>1, TypeInvariant, PTL

----------------------------------------------------------------------------
(* How the stream ends.                                                    *)
LEMMA EndStep == TypeInv /\ EndInv /\ [StreamNext]_streamVars => EndInv'
<1> SUFFICES ASSUME TypeInv, EndInv, [StreamNext]_streamVars PROVE EndInv'
    OBVIOUS
<1> USE DEF TypeInv, EndInv
<1>1. ASSUME Put PROVE EndInv'
    <2>1. ~streamClosed /\ ~streamClosed' /\ endings = {} /\ endings' = {}
        BY <1>1 DEF Put, OneEnding
    <2>2. \A i \in 1..Len(queue) : queue[i].kind = "event"
        BY <2>1 DEF MarkerAlone
    <2>3. queue' \in Seq(Items) /\ (Discards \/ Appends \/ Evicts)
        BY <1>1, PutShape
    <2>4. Len(queue) \in Nat /\ Len(queue') \in Nat
        BY <2>3, LenProperties DEF StreamTypes
    <2>5. \A i \in 1..Len(queue') : queue'[i].kind = "event"
        BY <2>2, <2>3, <2>4 DEF Discards, Appends, Evicts, Event
    <2>6. QED
        BY <2>1, <2>5 DEF MarkerAlone, DrainedAtEnd, OneEnding
<1>2. ASSUME Fail PROVE EndInv'
    <2>1. endings' = {}
        BY <1>2 DEF Fail, OneEnding, StreamClosing
    <2>2. Len(queue') = 1 /\ queue'[1] = Marker(TRUE)
        BY <1>2, ReplaceType DEF Fail
    <2>3. QED
        BY <1>2, <2>1, <2>2 DEF Fail, MarkerAlone, DrainedAtEnd, OneEnding, Marker
<1>3. ASSUME Aclose PROVE EndInv'
    BY <1>3 DEF Aclose, StreamClosing, MarkerAlone, DrainedAtEnd, OneEnding
<1>4. ASSUME FinishClose PROVE EndInv'
    <2>1. streamClosed /\ streamClosed' /\ terminalError' = terminalError /\ endings' = endings
        BY <1>4 DEF FinishClose, StreamClosing
    <2>2. ReplaceQueue(Marker(terminalError)) /\ terminalError \in BOOLEAN
        BY <1>4 DEF FinishClose, StreamTypes
    <2>3. Len(queue') = 1 /\ queue'[1] = Marker(terminalError)
        BY <2>2, ReplaceType
    <2>4. queue'[1].kind = Marker(terminalError').kind /\ queue'[1].kind # "event"
        BY <2>1, <2>3 DEF Marker
    <2>5. QED
        BY <2>1, <2>3, <2>4 DEF MarkerAlone, DrainedAtEnd, OneEnding
<1>5. ASSUME NEW c \in Consumers, EndNow(c) PROVE EndInv'
    <2>1. streamClosed /\ queue = <<>>
        BY <1>5 DEF EndNow
    <2>2. QED
        BY <1>5, <2>1 DEF EndNow, MarkerAlone, DrainedAtEnd, OneEnding, Marker
<1>6. ASSUME NEW c \in Consumers, GetItem(c) PROVE EndInv'
    <2>1. queue # <<>> /\ queue' = Tail(queue)
        BY <1>6 DEF GetItem, Take
    <2>2. /\ Head(queue) = queue[1] /\ Len(queue) \in 1..BufferSize
          /\ Len(queue') = Len(queue) - 1
          /\ \A i \in 1..Len(queue') : queue'[i] = queue[i+1]
        BY <2>1, TakeHead
    <2>3. UNCHANGED <<streamClosed, terminalError>>
        BY <1>6 DEF GetItem
    <2>4. MarkerAlone'
        BY <2>2, <2>3, BufferSizeAssumption DEF MarkerAlone, Marker
    <2>5. CASE queue[1].kind = "event"
        <3>1. endings' = endings /\ endings = {}
            BY <1>6, <2>2, <2>5, BufferSizeAssumption DEF GetItem, Take, DrainedAtEnd
        <3>2. QED
            BY <2>4, <3>1 DEF DrainedAtEnd, OneEnding
    <2>6. CASE queue[1].kind # "event"
        <3>1. streamClosed /\ Len(queue) = 1 /\ queue[1].kind = Marker(terminalError).kind
            BY <2>2, <2>6, BufferSizeAssumption DEF MarkerAlone
        <3>2. endings' = endings \cup {Marker(terminalError).kind}
            BY <1>6, <2>2, <2>6, <3>1 DEF GetItem, Take
        <3>3. QED
            BY <2>2, <2>3, <2>4, <3>1, <3>2 DEF DrainedAtEnd, OneEnding, Marker
    <2>7. QED
        BY <2>5, <2>6
<1>7. ASSUME NEW c \in Consumers, Block(c) \/ CancelWaiting(c) \/ CancelWoken(c)
      PROVE EndInv'
    <2>1. UNCHANGED <<queue, streamClosed, terminalError, endings>>
        BY <1>7 DEF Block, CancelWaiting, CancelWoken
    <2>2. QED
        BY <2>1 DEF MarkerAlone, DrainedAtEnd, OneEnding, Marker
<1>8. CASE UNCHANGED streamVars
    BY <1>8 DEF streamVars, MarkerAlone, DrainedAtEnd, OneEnding, Marker
<1>9. QED
    BY <1>1, <1>2, <1>3, <1>4, <1>5, <1>6, <1>7, <1>8 DEF StreamNext

LEMMA EndInit == StreamInit => EndInv
BY EmptySeq DEF StreamInit, EndInv, MarkerAlone, DrainedAtEnd, OneEnding

LEMMA EndInvariant == StreamSpec => []EndInv
BY EndInit, EndStep, TypeInvariant, PTL DEF StreamSpec

(* Whichever of _fail and aclose began first decides how the iteration of  *)
(* every consumer ends.                                                    *)
THEOREM EndsOneWay == StreamSpec => []OneEnding
<1>1. EndInv => OneEnding
    BY DEF EndInv
<1>2. QED
    BY <1>1, EndInvariant, PTL

(* No event is returned after the end of iteration has been told.          *)
THEOREM SilentAfterEnding == StreamSpec => NothingAfterEnding
<1>1. TypeInv /\ EndInv /\ [StreamNext]_streamVars => [endings # {} => taken' = taken]_streamVars
    <2> SUFFICES ASSUME TypeInv, EndInv, StreamNext, endings # {} PROVE taken' = taken
        BY DEF streamVars
    <2>1. ~Put
        BY DEF Put, EndInv, OneEnding
    <2>2. ASSUME NEW c \in Consumers, GetItem(c) PROVE taken' = taken
        <3>1. Head(queue) = queue[1] /\ Len(queue) \in 1..BufferSize
            BY <2>2, TakeHead DEF GetItem, Take, TypeInv
        <3>2. queue[1].kind # "event"
            BY <3>1, BufferSizeAssumption DEF EndInv, DrainedAtEnd
        <3>3. QED
            BY <2>2, <3>1, <3>2 DEF GetItem, Take
    <2>3. QED
        BY <2>1, <2>2
        DEF StreamNext, Fail, Aclose, FinishClose, EndNow, Block, CancelWaiting, CancelWoken
<1>2. QED
    BY <1>1, TypeInvariant, EndInvariant, PTL DEF StreamSpec, NothingAfterEnding

----------------------------------------------------------------------------
(* The accounting of an open stream.                                       *)
LEMMA TakenFinite ==
    ASSUME StreamTypes PROVE IsFiniteSet(taken) /\ Cardinality(taken) \in Nat
<1>1. IsFiniteSet(1..MaxEvents)
    BY FS_Interval, MaxEventsAssumption
<1>2. QED
    BY <1>1, FS_Subset, FS_CardinalityType DEF StreamTypes

LEMMA CountPut ==
    ASSUME TypeInv, EndInv, CountInv, Put PROVE CountInv'
<1> USE DEF TypeInv, EndInv, CountInv
<1>1. queue' \in Seq(Items) /\ (Discards \/ Appends \/ Evicts)
    BY PutShape
<1>2. Len(queue) \in Nat /\ Len(queue') \in Nat /\ Len(queue') # 0
    BY <1>1, LenProperties, BufferSizeAssumption
    DEF StreamTypes, Discards, Appends, Evicts
<1>3. /\ ~streamClosed /\ arrived' = arrived + 1 /\ arrived \in Nat /\ taken' = taken
      /\ policy' = policy /\ dropped \in Nat
    BY MaxEventsAssumption DEF Put, StreamTypes
<1>4. \A i \in 1..Len(queue) : queue[i].kind = "event" /\ queue[i].seq \in 1..arrived
    BY <1>3 DEF MarkerAlone, Numbered
<1>5. Event(arrived + 1).seq = arrived + 1 /\ Event(arrived + 1).kind = "event"
    BY DEF Event
<1>6. ArrivalOrder'
    <2>1. \A i, j \in 1..Len(queue') : i < j => queue'[i].seq < queue'[j].seq
        <3>1. CASE Discards
            BY <1>3, <3>1 DEF Discards, ArrivalOrder
        <3>2. CASE Appends
            BY <1>2, <1>3, <1>4, <1>5, <3>2 DEF Appends, ArrivalOrder
        <3>3. CASE Evicts
            <4> SUFFICES ASSUME NEW i \in 1..Len(queue'), NEW j \in 1..Len(queue'), i < j
                         PROVE  queue'[i].seq < queue'[j].seq
                OBVIOUS
            <4>1. /\ i \in 1..(Len(queue) - 1) /\ i + 1 \in 1..Len(queue)
                  /\ queue'[i] = queue[i+1]
                BY <1>2, <3>3 DEF Evicts
            <4>2. CASE j = Len(queue)
                BY <1>3, <1>4, <1>5, <3>3, <4>1, <4>2 DEF Evicts
            <4>3. CASE j # Len(queue)
                <5>1. /\ j \in 1..(Len(queue) - 1) /\ j + 1 \in 1..Len(queue)
                      /\ queue'[j] = queue[j+1]
                    BY <1>2, <3>3, <4>3 DEF Evicts
                <5>2. QED
                    BY <1>2, <1>3, <4>1, <5>1 DEF ArrivalOrder
            <4>4. QED
                BY <4>2, <4>3
        <3>4. QED
            BY <1>1, <3>1, <3>2, <3>3
    <2>2. \A n \in taken : n <= arrived'
        BY <1>3, MaxEventsAssumption DEF ArrivalOrder, StreamTypes
    <2>3. ASSUME NEW n \in taken, NEW i \in 1..Len(queue') PROVE n < queue'[i].seq
        <3>1. n \in Nat /\ n <= arrived
            BY <1>3, MaxEventsAssumption DEF ArrivalOrder, StreamTypes
        <3>2. CASE queue'[i] = Event(arrived + 1)
            BY <1>3, <1>5, <3>1, <3>2
        <3>3. CASE queue'[i] # Event(arrived + 1)
            <4>1. PICK j \in 1..Len(queue) : queue'[i] = queue[j]
                BY <1>1, <1>2, <3>3 DEF Discards, Appends, Evicts
            <4>2. QED
                BY <1>3, <4>1 DEF ArrivalOrder
        <3>4. QED
            BY <3>2, <3>3
    <2>4. QED
        BY <1>3, <2>1, <2>2, <2>3 DEF ArrivalOrder
<1>7. Conservation'
    <2>1. Cardinality(taken') = Cardinality(taken) /\ Cardinality(taken) \in Nat
        BY <1>3, TakenFinite
    <2>2. Cardinality(taken) + Len(queue) + dropped = arrived
        BY <1>3 DEF Conservation
    <2>3. \/ Len(queue') = Len(queue) /\ dropped' = dropped + 1
          \/ Len(queue') = Len(queue) + 1 /\ dropped' = dropped
        BY <1>1 DEF Discards, Appends, Evicts
    <2>4. Len(queue') + dropped' = Len(queue) + dropped + 1
        BY <1>2, <1>3, <2>3
    <2>5. QED
        BY <1>2, <1>3, <2>1, <2>2, <2>3, <2>4 DEF Conservation
<1>8. LatestKept'
    <2> SUFFICES ASSUME policy = "LATEST" PROVE arrived' \in Queued'
        BY <1>3 DEF LatestKept
    <2>1. queue'[Len(queue')] = Event(arrived + 1)
        BY <1>1 DEF Discards, Appends, Evicts
    <2>2. Len(queue') \in 1..Len(queue')
        BY <1>2
    <2>3. QED
        BY <1>3, <1>5, <2>1, <2>2 DEF Queued
<1>9. QED
    BY <1>6, <1>7, <1>8

LEMMA CountGet ==
    ASSUME TypeInv, EndInv, CountInv, NEW c \in Consumers, GetItem(c) PROVE CountInv'
<1> USE DEF TypeInv, EndInv, CountInv
<1>1. /\ queue # <<>> /\ queue' = Tail(queue)
      /\ UNCHANGED <<policy, streamClosed, arrived, dropped>>
    BY DEF GetItem, Take
<1>2. CASE streamClosed
    BY <1>1, <1>2 DEF ArrivalOrder, Conservation, LatestKept
<1>3. CASE ~streamClosed
    <2>1. /\ Head(queue) = queue[1] /\ Len(queue) \in 1..BufferSize
          /\ Len(queue') = Len(queue) - 1
          /\ \A i \in 1..Len(queue') : queue'[i] = queue[i+1]
        BY <1>1, TakeHead
    <2>2. 1 \in 1..Len(queue) /\ \A i \in 1..Len(queue') : i + 1 \in 1..Len(queue) /\ i \in Nat
        BY <2>1, BufferSizeAssumption
    <2>3. \A i \in 1..Len(queue) : queue[i].kind = "event" /\ queue[i].seq \in 1..arrived
        BY <1>3 DEF MarkerAlone, Numbered
    <2>4. taken' = taken \cup {queue[1].seq}
        BY <2>1, <2>2, <2>3 DEF GetItem, Take
    <2>5. queue[1].seq \notin taken
        BY <1>3, <2>2, <2>3 DEF ArrivalOrder, StreamTypes
    <2>6. ArrivalOrder'
        <3>1. \A i, j \in 1..Len(queue') : i < j => queue'[i].seq < queue'[j].seq
            BY <1>3, <2>1, <2>2 DEF ArrivalOrder
        <3>2. \A n \in taken' : n <= arrived'
            BY <1>1, <1>3, <2>2, <2>3, <2>4 DEF ArrivalOrder, StreamTypes
        <3>3. \A n \in taken', i \in 1..Len(queue') : n < queue'[i].seq
            BY <1>3, <2>1, <2>2, <2>4 DEF ArrivalOrder
        <3>4. QED
            BY <3>1, <3>2, <3>3 DEF ArrivalOrder
    <2>7. Conservation'
        <3>1. Cardinality(taken') = Cardinality(taken) + 1
            BY <2>4, <2>5, TakenFinite, FS_AddElement
        <3>2. QED
            BY <1>1, <1>3, <2>1, <3>1, TakenFinite, MaxEventsAssumption, BufferSizeAssumption
            DEF Conservation, StreamTypes
    <2>8. LatestKept'
        <3> SUFFICES ASSUME policy = "LATEST", arrived > 0, arrived \notin taken'
                     PROVE  arrived \in Queued'
            BY <1>1 DEF LatestKept
        <3>1. arrived \in Queued
            BY <1>3, <2>4 DEF LatestKept
        <3>2. PICK i \in 1..Len(queue) : queue[i].seq = arrived
            BY <3>1 DEF Queued
        <3>3. i # 1
            BY <2>4, <3>2
        <3>4. i - 1 \in 1..Len(queue') /\ queue'[i-1] = queue[i]
            BY <2>1, <3>3, BufferSizeAssumption
        <3>5. QED
            BY <2>3, <3>2, <3>4 DEF Queued
    <2>9. QED
        BY <2>6, <2>7, <2>8
<1>4. QED
    BY <1>2, <1>3

LEMMA CountStep == TypeInv /\ EndInv /\ CountInv /\ [StreamNext]_streamVars => CountInv'
<1> SUFFICES ASSUME TypeInv, EndInv, CountInv, [StreamNext]_streamVars PROVE CountInv'
    OBVIOUS
<1>1. ASSUME Fail \/ Aclose \/ FinishClose PROVE CountInv'
    <2>1. streamClosed'
        BY <1>1 DEF Fail, Aclose, FinishClose, TypeInv, StreamClosing
    <2>2. QED
        BY <2>1 DEF CountInv, ArrivalOrder, Conservation, LatestKept
<1>2. ASSUME \/ UNCHANGED streamVars
             \/ \E c \in Consumers :
                   EndNow(c) \/ Block(c) \/ CancelWaiting(c) \/ CancelWoken(c)
      PROVE CountInv'
    <2>1. UNCHANGED <<policy, queue, streamClosed, dropped, arrived, taken>>
        BY <1>2 DEF streamVars, EndNow, Block, CancelWaiting, CancelWoken
    <2>2. QED
        BY <2>1 DEF CountInv, ArrivalOrder, Conservation, LatestKept, Queued
<1>3. QED
    BY <1>1, <1>2, CountPut, CountGet DEF StreamNext

LEMMA CountInit == StreamInit => CountInv
<1> SUFFICES ASSUME StreamInit PROVE CountInv
    OBVIOUS
<1>1. Len(queue) = 0 /\ Cardinality(taken) = 0
    BY EmptySeq, FS_EmptySet DEF StreamInit
<1>2. QED
    BY <1>1 DEF StreamInit, CountInv, ArrivalOrder, Conservation, LatestKept

LEMMA CountInvariant == StreamSpec => []CountInv
BY CountInit, CountStep, TypeInvariant, EndInvariant, PTL DEF StreamSpec

(* dropped_count accounts for exactly the events of an open stream that    *)
(* are neither queued nor returned, whatever the policy.                   *)
THEOREM CountIsExact == StreamSpec => []Conservation
<1>1. CountInv => Conservation
    BY DEF CountInv
<1>2. QED
    BY <1>1, CountInvariant, PTL

(* LATEST never loses the newest event of an open stream.                  *)
THEOREM NewestIsKept == StreamSpec => []LatestKept
<1>1. CountInv => LatestKept
    BY DEF CountInv
<1>2. QED
    BY <1>1, CountInvariant, PTL

(* An open stream loses only what it counts, and never the newest event     *)
(* under LATEST.                                                           *)
THEOREM NothingIsLost == StreamSpec => []NothingLost
<1>1. CountInv => NothingLost
    BY DEF CountInv, NothingLost
<1>2. QED
    BY <1>1, CountInvariant, PTL

----------------------------------------------------------------------------
(* EntityWatchers                                                          *)

----------------------------------------------------------------------------
(* Induction and recursion                                                 *)

(* A set with 0 and with the successor of each of its elements has every   *)
(* natural number: the intervals 0..n are well-founded by inclusion.       *)
LEMMA Induction ==
    ASSUME NEW P \in SUBSET Nat, 0 \in P, \A n \in P : n + 1 \in P
    PROVE  P = Nat
<1> SUFFICES ASSUME Nat \ P # {} PROVE FALSE
    OBVIOUS
<1> DEFINE T == {0..n : n \in Nat \ P}
<1>1. T \subseteq FiniteSubsetsOf(Nat)
    <2>1. \A n \in Nat : 0..n \in SUBSET Nat /\ IsFiniteSet(0..n)
        BY FS_Interval
    <2> QED BY <2>1 DEF FiniteSubsetsOf
<1>2. T # {}
    OBVIOUS
<1>3. PICK t \in T : \A u \in T : ~(<<u, t>> \in StrictSubsetOrdering(Nat))
    BY <1>1, <1>2, FS_StrictSubsetOrderingWellFounded, WFMin
<1>4. PICK m \in Nat \ P : t = 0..m
    OBVIOUS
<1>5. m # 0 /\ m - 1 \in Nat /\ (m - 1) + 1 = m
    OBVIOUS
<1>6. m - 1 \notin P
    BY <1>5
<1>7. 0..(m - 1) \in T
    BY <1>5, <1>6
<1>8. 0..(m - 1) \subseteq 0..m /\ 0..(m - 1) # 0..m /\ 0..m \subseteq Nat
    BY <1>5
<1>9. <<0..(m - 1), t>> \in StrictSubsetOrdering(Nat)
    BY <1>4, <1>8 DEF StrictSubsetOrdering
<1> QED BY <1>3, <1>7, <1>9

(* A function on an interval may be defined by what each of its values is, *)
(* given the one before it.                                                *)
LEMMA Recursion ==
    ASSUME NEW n \in Nat, NEW step \in [(1..n) \X Nat -> Nat]
    PROVE  \E f \in [0..n -> Nat] : f[0] = 0 /\ \A i \in 1..n : f[i] = step[<<i, f[i - 1]>>]
<1> DEFINE Good(m, f) == f[0] = 0 /\ \A i \in 1..m : f[i] = step[<<i, f[i - 1]>>]
           P == {m \in Nat : m <= n => \E f \in [0..m -> Nat] : Good(m, f)}
<1>1. 0 \in P
    <2>1. [i \in 0..0 |-> 0] \in [0..0 -> Nat] /\ Good(0, [i \in 0..0 |-> 0])
        OBVIOUS
    <2> QED BY <2>1
<1>2. ASSUME NEW m \in P PROVE m + 1 \in P
    <2>1. SUFFICES ASSUME m + 1 <= n PROVE \E f \in [0..(m + 1) -> Nat] : Good(m + 1, f)
        <3> HIDE DEF Good
        <3> QED OBVIOUS
    <2>2. PICK f \in [0..m -> Nat] : Good(m, f)
        BY <2>1
    <2> DEFINE g == [i \in 0..(m + 1) |-> IF i = m + 1 THEN step[<<m + 1, f[m]>>] ELSE f[i]]
    <2>3. f[m] \in Nat /\ <<m + 1, f[m]>> \in (1..n) \X Nat
        BY <2>1
    <2>4. step[<<m + 1, f[m]>>] \in Nat
        BY <2>3
    <2>5. g \in [0..(m + 1) -> Nat]
        BY <2>4
    <2>6. g[0] = 0
        BY <2>2
    <2>7. ASSUME NEW i \in 1..(m + 1) PROVE g[i] = step[<<i, g[i - 1]>>]
        <3>1. CASE i = m + 1
            <4>1. i - 1 = m /\ m # m + 1 /\ m \in 0..(m + 1) /\ i \in 0..(m + 1)
                BY <3>1
            <4>2. g[i - 1] = f[m] /\ g[i] = step[<<m + 1, f[m]>>]
                BY <3>1, <4>1
            <4> QED BY <3>1, <4>2
        <3>2. CASE i # m + 1
            <4>1. i \in 1..m /\ i - 1 \in 0..m /\ i \in 0..m /\ i - 1 # m + 1
                BY <3>2
            <4>2. g[i] = f[i] /\ g[i - 1] = f[i - 1]
                BY <4>1
            <4> QED BY <4>1, <4>2, <2>2
        <3> QED BY <3>1, <3>2
    <2> QED BY <2>5, <2>6, <2>7
<1>3. P = Nat
    <2> HIDE DEF P
    <2>1. P \in SUBSET Nat BY DEF P
    <2> QED BY <1>1, <1>2, <2>1, Induction
<1>4. n \in P
    BY <1>3
<1>5. \E f \in [0..n -> Nat] : Good(n, f)
    <2> HIDE DEF Good
    <2> QED BY <1>4
<1> QED BY <1>5

----------------------------------------------------------------------------
(* The size of what is pending                                             *)

Weighed(tracks) == \A n \in 1..MaxMessages : SizeAt(tracks, n) \in Nat

(* The running total of sizes exists, and its last value is the size.      *)
LEMMA SizeTotals ==
    ASSUME NEW t, Weighed(t)
    PROVE  \E f \in [0..MaxMessages -> Nat] :
              /\ f[0] = 0 /\ \A n \in 1..MaxMessages : f[n] = f[n - 1] + SizeAt(t, n)
              /\ Size(t) = f[MaxMessages]
<1> DEFINE step == [p \in (1..MaxMessages) \X Nat |-> p[2] + SizeAt(t, p[1])]
           Total(f) == f = [n \in 0..MaxMessages |->
                               IF n = 0 THEN 0 ELSE f[n - 1] + SizeAt(t, n)]
           total == CHOOSE f : Total(f)
<1>1. step \in [(1..MaxMessages) \X Nat -> Nat]
    BY DEF Weighed
<1>2. PICK f \in [0..MaxMessages -> Nat] :
          f[0] = 0 /\ \A n \in 1..MaxMessages : f[n] = step[<<n, f[n - 1]>>]
    <2> HIDE DEF step
    <2> QED BY <1>1, BoundAssumption, Recursion
<1>3. \A n \in 1..MaxMessages : f[n] = f[n - 1] + SizeAt(t, n)
    <2>1. \A n \in 1..MaxMessages : f[n - 1] \in Nat
        BY BoundAssumption
    <2> QED BY <1>2, <2>1
<1>4. Total(f)
    <2>1. ASSUME NEW n \in 0..MaxMessages, n # 0 PROVE n \in 1..MaxMessages
        BY <2>1, BoundAssumption
    <2> QED BY <1>2, <1>3, <2>1
<1>5. Total(total)
    <2> HIDE DEF Total
    <2> QED BY <1>4
<1>6. total[0] = 0 /\ \A n \in 1..MaxMessages : total[n] = total[n - 1] + SizeAt(t, n)
    <2> HIDE DEF total
    <2>1. 0 \in 0..MaxMessages /\ \A n \in 1..MaxMessages : n \in 0..MaxMessages /\ n # 0
        BY BoundAssumption
    <2> QED BY <1>5, <2>1
<1> DEFINE P == {n \in Nat : n <= MaxMessages => total[n] = f[n]}
<1>7. P = Nat
    <2> HIDE DEF total
    <2>1. 0 \in P
        BY <1>2, <1>6
    <2>2. ASSUME NEW n \in P PROVE n + 1 \in P
        <3>1. SUFFICES ASSUME n + 1 <= MaxMessages PROVE total[n + 1] = f[n + 1]
            OBVIOUS
        <3>2. n + 1 \in 1..MaxMessages /\ (n + 1) - 1 = n /\ n <= MaxMessages
            BY <3>1, BoundAssumption
        <3> QED BY <1>3, <1>6, <3>2
    <2> HIDE DEF P
    <2>3. P \in SUBSET Nat BY DEF P
    <2> QED BY <2>1, <2>2, <2>3, Induction
<1>8. total[MaxMessages] = f[MaxMessages]
    BY <1>7, BoundAssumption
<1>9. Size(t) = total[MaxMessages]
    BY DEF Size
<1> QED BY <1>2, <1>3, <1>8, <1>9

LEMMA SizeIsNatural ==
    ASSUME NEW t, Weighed(t)
    PROVE  Size(t) \in Nat
BY SizeTotals, BoundAssumption

(* What weighs no more at any arrival has no greater size.                 *)
LEMMA SizeGrows ==
    ASSUME NEW t, NEW u, Weighed(t), Weighed(u),
           \A n \in 1..MaxMessages : SizeAt(u, n) <= SizeAt(t, n)
    PROVE  Size(u) <= Size(t)
<1>1. PICK f \in [0..MaxMessages -> Nat] :
          /\ f[0] = 0 /\ \A n \in 1..MaxMessages : f[n] = f[n - 1] + SizeAt(t, n)
          /\ Size(t) = f[MaxMessages]
    BY SizeTotals
<1>2. PICK g \in [0..MaxMessages -> Nat] :
          /\ g[0] = 0 /\ \A n \in 1..MaxMessages : g[n] = g[n - 1] + SizeAt(u, n)
          /\ Size(u) = g[MaxMessages]
    BY SizeTotals
<1> DEFINE P == {n \in Nat : n <= MaxMessages => g[n] <= f[n]}
<1>3. 0 \in P
    BY <1>1, <1>2
<1>4. ASSUME NEW n \in P PROVE n + 1 \in P
    <2>1. SUFFICES ASSUME n + 1 <= MaxMessages PROVE g[n + 1] <= f[n + 1]
        OBVIOUS
    <2>2. n + 1 \in 1..MaxMessages /\ (n + 1) - 1 = n /\ n \in 0..MaxMessages
        BY <2>1, BoundAssumption
    <2>3. /\ f[n + 1] = f[n] + SizeAt(t, n + 1) /\ g[n + 1] = g[n] + SizeAt(u, n + 1)
          /\ SizeAt(u, n + 1) <= SizeAt(t, n + 1) /\ g[n] <= f[n]
        BY <1>1, <1>2, <2>2
    <2>4. SizeAt(u, n + 1) \in Nat /\ SizeAt(t, n + 1) \in Nat /\ f[n] \in Nat /\ g[n] \in Nat
        BY <2>2 DEF Weighed
    <2> QED BY <2>3, <2>4
<1>5. P = Nat
    <2> HIDE DEF P
    <2>1. P \in SUBSET Nat BY DEF P
    <2> QED BY <1>3, <1>4, <2>1, Induction
<1> QED BY <1>1, <1>2, <1>5, BoundAssumption

(* What differs at one arrival, where it has nothing, is smaller by what   *)
(* the other has there.                                                    *)
LEMMA SizeLessOne ==
    ASSUME NEW t, NEW u, Weighed(t), Weighed(u), NEW k \in 1..MaxMessages, SizeAt(u, k) = 0,
           \A n \in 1..MaxMessages : n # k => SizeAt(u, n) = SizeAt(t, n)
    PROVE  Size(t) = Size(u) + SizeAt(t, k)
<1>1. PICK f \in [0..MaxMessages -> Nat] :
          /\ f[0] = 0 /\ \A n \in 1..MaxMessages : f[n] = f[n - 1] + SizeAt(t, n)
          /\ Size(t) = f[MaxMessages]
    BY SizeTotals
<1>2. PICK g \in [0..MaxMessages -> Nat] :
          /\ g[0] = 0 /\ \A n \in 1..MaxMessages : g[n] = g[n - 1] + SizeAt(u, n)
          /\ Size(u) = g[MaxMessages]
    BY SizeTotals
<1> DEFINE P == {n \in Nat : n <= MaxMessages =>
                    f[n] = g[n] + (IF n < k THEN 0 ELSE SizeAt(t, k))}
<1>3. 0 \in P
    BY <1>1, <1>2
<1>4. ASSUME NEW n \in P PROVE n + 1 \in P
    <2>1. SUFFICES ASSUME n + 1 <= MaxMessages
                   PROVE  f[n + 1] = g[n + 1] + (IF n + 1 < k THEN 0 ELSE SizeAt(t, k))
        OBVIOUS
    <2>2. n + 1 \in 1..MaxMessages /\ (n + 1) - 1 = n /\ n \in 0..MaxMessages
        BY <2>1, BoundAssumption
    <2>3. /\ f[n + 1] = f[n] + SizeAt(t, n + 1) /\ g[n + 1] = g[n] + SizeAt(u, n + 1)
          /\ f[n] = g[n] + (IF n < k THEN 0 ELSE SizeAt(t, k))
        BY <1>1, <1>2, <2>2
    <2>4. /\ SizeAt(u, n + 1) \in Nat /\ SizeAt(t, n + 1) \in Nat /\ SizeAt(t, k) \in Nat
          /\ f[n] \in Nat /\ g[n] \in Nat
        BY <2>2 DEF Weighed
    <2>5. CASE n + 1 = k
        BY <2>3, <2>4, <2>5
    <2>6. CASE n + 1 # k
        <3>1. SizeAt(u, n + 1) = SizeAt(t, n + 1)
            BY <2>2, <2>6
        <3> QED BY <2>3, <2>4, <2>6, <3>1
    <2> QED BY <2>5, <2>6
<1>5. P = Nat
    <2> HIDE DEF P
    <2>1. P \in SUBSET Nat BY DEF P
    <2> QED BY <1>3, <1>4, <2>1, Induction
<1>6. MaxMessages \in P /\ ~(MaxMessages < k)
    <2> HIDE DEF P
    <2> QED BY <1>5, BoundAssumption
<1>7. f[MaxMessages] = g[MaxMessages] + SizeAt(t, k)
    BY <1>6, BoundAssumption
<1> QED BY <1>1, <1>2, <1>7

(* Nothing has no size.                                                    *)
LEMMA SizeOfNone ==
    ASSUME NEW t, DOMAIN t = {}
    PROVE  Size(t) = 0
<1>1. \A n \in 1..MaxMessages : SizeAt(t, n) = 0
    BY DEF SizeAt
<1>2. PICK f \in [0..MaxMessages -> Nat] :
          /\ f[0] = 0 /\ \A n \in 1..MaxMessages : f[n] = f[n - 1] + SizeAt(t, n)
          /\ Size(t) = f[MaxMessages]
    <2>1. Weighed(t)
        BY <1>1 DEF Weighed
    <2> QED BY <2>1, SizeTotals
<1> DEFINE P == {n \in Nat : n <= MaxMessages => f[n] = 0}
<1>3. 0 \in P
    BY <1>2
<1>4. ASSUME NEW n \in P PROVE n + 1 \in P
    <2>1. SUFFICES ASSUME n + 1 <= MaxMessages PROVE f[n + 1] = 0
        OBVIOUS
    <2>2. n + 1 \in 1..MaxMessages /\ (n + 1) - 1 = n /\ n <= MaxMessages
        BY <2>1, BoundAssumption
    <2> QED BY <1>1, <1>2, <2>2
<1>5. P = Nat
    <2> HIDE DEF P
    <2>1. P \in SUBSET Nat BY DEF P
    <2> QED BY <1>3, <1>4, <2>1, Induction
<1> QED BY <1>2, <1>5, BoundAssumption

----------------------------------------------------------------------------
(* The inductive invariant                                                 *)

Tracks == [entity : Entities, size : 0..MaxBytes, to : SUBSET Watchers]

(* What a watcher owns: the handles it has and the filters it has to open  *)
(* are never more than its filters; a stream that ended has its cleanup,   *)
(* which leaves it no handle and takes it out of the open ones for good.   *)
OwnerInv(w) ==
    /\ handles[w] + todo[w] <= Filters[w]
    /\ pc[w] \in {"idle", "subscribing", "deciding"} => todo[w] > 0
    /\ ended[w] <=> cleaning[w]["stream"] # "none"
    /\ At(w, "stream", "done") => handles[w] = 0
    /\ cleaning[w]["stream"] \in {"detached", "unsubscribing", "done"} => w \notin open
    /\ pc[w] = "idle" => ~ended[w] /\ handles[w] = 0 /\ w \notin open /\ w \notin toClose
WatcherTypes ==
    /\ pc \in [Watchers -> {"idle", "subscribing", "deciding", "discarding", "accepting",
                            "refused", "failing", "closing", "returned", "raised"}]
    /\ todo \in [Watchers -> Nat] /\ handles \in [Watchers -> Nat]
    /\ inHand \in [Watchers -> BOOLEAN] /\ ended \in [Watchers -> BOOLEAN]
    /\ cleaning \in [Watchers -> [Cleaners -> {"none", "wanted", "detached",
                                               "unsubscribing", "done"}]]
    /\ open \subseteq Watchers /\ toClose \subseteq Watchers /\ closed \in BOOLEAN
WatchersInv == WatcherTypes /\ \A w \in Watchers : OwnerInv(w)

(* What is pending came already, is within the limits and counted, one for *)
(* each entity.  Nobody that is to get it got a TRACK of the same entity   *)
(* that came later.                                                        *)
PendingInv ==
    /\ DOMAIN pending \subseteq 1..now /\ pending \in [DOMAIN pending -> Tracks]
    /\ bytes \in 0..MaxBytes /\ bytes = Size(pending)
    /\ Cardinality(DOMAIN pending) <= MaxPending
    /\ \A m, n \in DOMAIN pending : pending[m].entity = pending[n].entity => m = n
OrderInv ==
    /\ got \in [Watchers -> [Entities -> 0..MaxMessages]]
    /\ \A w \in Watchers, e \in Entities : got[w][e] <= now
    /\ \A w \in Watchers, n \in DOMAIN pending : got[w][pending[n].entity] < n
IngressInv ==
    /\ draining \in BOOLEAN /\ now \in 0..MaxMessages
    /\ observed \in [Entities -> 0..MaxMessages]
    /\ PendingInv /\ OrderInv /\ (DOMAIN pending # {} => draining)

IInv == WatchersInv /\ IngressInv

----------------------------------------------------------------------------
(* What watchers own                                                       *)

(* A watcher that a step does not touch owns what it owned.                *)
LEMMA OthersOwn ==
    ASSUME NEW v \in Watchers, OwnerInv(v),
           pc'[v] = pc[v], todo'[v] = todo[v], handles'[v] = handles[v], ended'[v] = ended[v],
           cleaning'[v] = cleaning[v], v \in open' <=> v \in open, v \in toClose' => v \in toClose
    PROVE  OwnerInv(v)'
BY DEF OwnerInv, At

LEMMA OwnersKept ==
    ASSUME WatchersInv, UNCHANGED <<opening, handles, ended, cleaning, open, closed, toClose>>
    PROVE  WatchersInv'
BY DEF WatchersInv, WatcherTypes, OwnerInv, At, opening

LEMMA WatchOwns ==
    ASSUME WatchersInv, NEW w \in Watchers, Watch(w)
    PROVE  WatchersInv'
<1>1. WatcherTypes'
    BY DEF WatchersInv, WatcherTypes, OwnerInv, Cleaners, At, Watch, Goes, opening
<1>2. OwnerInv(w)'
    BY LimitAssumption DEF WatchersInv, WatcherTypes, OwnerInv, Cleaners, At, Watch, Goes, opening
<1>3. ASSUME NEW v \in Watchers, v # w PROVE OwnerInv(v)'
    <2>1. /\ OwnerInv(v)
          /\ pc'[v] = pc[v] /\ todo'[v] = todo[v] /\ handles'[v] = handles[v]
          /\ ended'[v] = ended[v] /\ cleaning'[v] = cleaning[v]
          /\ v \in open' <=> v \in open
          /\ v \in toClose' => v \in toClose
        BY <1>3 DEF WatchersInv, WatcherTypes, Watch, Goes, opening
    <2> QED BY <2>1, OthersOwn
<1> QED BY <1>1, <1>2, <1>3 DEF WatchersInv

LEMMA SubscribedOwns ==
    ASSUME WatchersInv, NEW w \in Watchers, Subscribed(w)
    PROVE  WatchersInv'
<1>1. WatcherTypes'
    BY DEF WatchersInv, WatcherTypes, OwnerInv, Cleaners, At, Subscribed, Goes, opening
<1>2. OwnerInv(w)'
    BY LimitAssumption DEF WatchersInv, WatcherTypes, OwnerInv, Cleaners, At, Subscribed, Goes, opening
<1>3. ASSUME NEW v \in Watchers, v # w PROVE OwnerInv(v)'
    <2>1. /\ OwnerInv(v)
          /\ pc'[v] = pc[v] /\ todo'[v] = todo[v] /\ handles'[v] = handles[v]
          /\ ended'[v] = ended[v] /\ cleaning'[v] = cleaning[v]
          /\ v \in open' <=> v \in open
          /\ v \in toClose' => v \in toClose
        BY <1>3 DEF WatchersInv, WatcherTypes, Subscribed, Goes, opening
    <2> QED BY <2>1, OthersOwn
<1> QED BY <1>1, <1>2, <1>3 DEF WatchersInv

LEMMA SubscribeFailsOwns ==
    ASSUME WatchersInv, NEW w \in Watchers, SubscribeFails(w)
    PROVE  WatchersInv'
<1>1. WatcherTypes'
    BY DEF WatchersInv, WatcherTypes, OwnerInv, Cleaners, At, SubscribeFails, GivesUp, Goes, Detach, Moves, opening
<1>2. OwnerInv(w)'
    BY LimitAssumption DEF WatchersInv, WatcherTypes, OwnerInv, Cleaners, At, SubscribeFails, GivesUp, Goes, Detach, Moves, opening
<1>3. ASSUME NEW v \in Watchers, v # w PROVE OwnerInv(v)'
    <2>1. /\ OwnerInv(v)
          /\ pc'[v] = pc[v] /\ todo'[v] = todo[v] /\ handles'[v] = handles[v]
          /\ ended'[v] = ended[v] /\ cleaning'[v] = cleaning[v]
          /\ v \in open' <=> v \in open
          /\ v \in toClose' => v \in toClose
        BY <1>3 DEF WatchersInv, WatcherTypes, SubscribeFails, GivesUp, Goes, Detach, Moves, opening
    <2> QED BY <2>1, OthersOwn
<1> QED BY <1>1, <1>2, <1>3 DEF WatchersInv

LEMMA DecideOwns ==
    ASSUME WatchersInv, NEW w \in Watchers, Decide(w)
    PROVE  WatchersInv'
<1>1. WatcherTypes'
    <2>1. todo[w] - 1 \in Nat /\ handles[w] + 1 \in Nat
        BY DEF WatchersInv, WatcherTypes, OwnerInv, Decide
    <2>2. /\ todo \in [Watchers -> Nat] /\ handles \in [Watchers -> Nat]
          /\ inHand \in [Watchers -> BOOLEAN]
        BY DEF WatchersInv, WatcherTypes
    <2>3. CASE Retains(w)
        <3>1. /\ handles' = [handles EXCEPT ![w] = handles[w] + 1]
              /\ inHand' = [inHand EXCEPT ![w] = FALSE]
              /\ todo' = [todo EXCEPT ![w] = todo[w] - 1]
            BY <2>3 DEF Decide
        <3>2. todo' \in [Watchers -> Nat]
            BY ONLY <2>1, <2>2, <3>1, w \in Watchers
        <3>3. handles' \in [Watchers -> Nat]
            BY ONLY <2>1, <2>2, <3>1, w \in Watchers
        <3>4. inHand' \in [Watchers -> BOOLEAN]
            BY ONLY <2>2, <3>1, w \in Watchers
        <3> QED BY <2>3, <3>2, <3>3, <3>4 DEF WatchersInv, WatcherTypes, Decide, Goes
    <2>4. CASE ~Retains(w)
        BY <2>2, <2>4 DEF WatchersInv, WatcherTypes, Decide, Goes
    <2> QED BY <2>3, <2>4
<1>2. OwnerInv(w)'
    BY LimitAssumption DEF WatchersInv, WatcherTypes, OwnerInv, Cleaners, At, Decide, Goes, Retains, opening
<1>3. ASSUME NEW v \in Watchers, v # w PROVE OwnerInv(v)'
    <2>1. /\ OwnerInv(v)
          /\ pc'[v] = pc[v] /\ todo'[v] = todo[v] /\ handles'[v] = handles[v]
          /\ ended'[v] = ended[v] /\ cleaning'[v] = cleaning[v]
          /\ v \in open' <=> v \in open
          /\ v \in toClose' => v \in toClose
        BY <1>3 DEF WatchersInv, WatcherTypes, Decide, Goes, Retains, opening
    <2> QED BY <2>1, OthersOwn
<1> QED BY <1>1, <1>2, <1>3 DEF WatchersInv

LEMMA CancelledInHandOwns ==
    ASSUME WatchersInv, NEW w \in Watchers, CancelledInHand(w)
    PROVE  WatchersInv'
<1>1. WatcherTypes'
    BY DEF WatchersInv, WatcherTypes, OwnerInv, Cleaners, At, CancelledInHand, GivesUp, Goes, Detach, Moves, opening
<1>2. OwnerInv(w)'
    BY LimitAssumption DEF WatchersInv, WatcherTypes, OwnerInv, Cleaners, At, CancelledInHand, GivesUp, Goes, Detach, Moves, opening
<1>3. ASSUME NEW v \in Watchers, v # w PROVE OwnerInv(v)'
    <2>1. /\ OwnerInv(v)
          /\ pc'[v] = pc[v] /\ todo'[v] = todo[v] /\ handles'[v] = handles[v]
          /\ ended'[v] = ended[v] /\ cleaning'[v] = cleaning[v]
          /\ v \in open' <=> v \in open
          /\ v \in toClose' => v \in toClose
        BY <1>3 DEF WatchersInv, WatcherTypes, CancelledInHand, GivesUp, Goes, Detach, Moves, opening
    <2> QED BY <2>1, OthersOwn
<1> QED BY <1>1, <1>2, <1>3 DEF WatchersInv

LEMMA DiscardOwns ==
    ASSUME WatchersInv, NEW w \in Watchers, Discard(w)
    PROVE  WatchersInv'
<1>1. WatcherTypes'
    BY DEF WatchersInv, WatcherTypes, OwnerInv, Cleaners, At, Discard, GivesUp, Goes, Detach, Moves, opening
<1>2. OwnerInv(w)'
    BY LimitAssumption DEF WatchersInv, WatcherTypes, OwnerInv, Cleaners, At, Discard, GivesUp, Goes, Detach, Moves, opening
<1>3. ASSUME NEW v \in Watchers, v # w PROVE OwnerInv(v)'
    <2>1. /\ OwnerInv(v)
          /\ pc'[v] = pc[v] /\ todo'[v] = todo[v] /\ handles'[v] = handles[v]
          /\ ended'[v] = ended[v] /\ cleaning'[v] = cleaning[v]
          /\ v \in open' <=> v \in open
          /\ v \in toClose' => v \in toClose
        BY <1>3 DEF WatchersInv, WatcherTypes, Discard, GivesUp, Goes, Detach, Moves, opening
    <2> QED BY <2>1, OthersOwn
<1> QED BY <1>1, <1>2, <1>3 DEF WatchersInv

LEMMA AcceptOwns ==
    ASSUME WatchersInv, NEW w \in Watchers, Accept(w)
    PROVE  WatchersInv'
<1>1. WatcherTypes'
    BY DEF WatchersInv, WatcherTypes, OwnerInv, Cleaners, At, Accept, Goes, Retains, opening
<1>2. OwnerInv(w)'
    BY LimitAssumption DEF WatchersInv, WatcherTypes, OwnerInv, Cleaners, At, Accept, Goes, Retains, opening
<1>3. ASSUME NEW v \in Watchers, v # w PROVE OwnerInv(v)'
    <2>1. /\ OwnerInv(v)
          /\ pc'[v] = pc[v] /\ todo'[v] = todo[v] /\ handles'[v] = handles[v]
          /\ ended'[v] = ended[v] /\ cleaning'[v] = cleaning[v]
          /\ v \in open' <=> v \in open
          /\ v \in toClose' => v \in toClose
        BY <1>3 DEF WatchersInv, WatcherTypes, Accept, Goes, Retains, opening
    <2> QED BY <2>1, OthersOwn
<1> QED BY <1>1, <1>2, <1>3 DEF WatchersInv

LEMMA RefuseOwns ==
    ASSUME WatchersInv, NEW w \in Watchers, Refuse(w)
    PROVE  WatchersInv'
<1>1. WatcherTypes'
    BY DEF WatchersInv, WatcherTypes, OwnerInv, Cleaners, At, Refuse, Goes, EndStream, Moves, opening
<1>2. OwnerInv(w)'
    BY LimitAssumption DEF WatchersInv, WatcherTypes, OwnerInv, Cleaners, At, Refuse, Goes, EndStream, Moves, opening
<1>3. ASSUME NEW v \in Watchers, v # w PROVE OwnerInv(v)'
    <2>1. /\ OwnerInv(v)
          /\ pc'[v] = pc[v] /\ todo'[v] = todo[v] /\ handles'[v] = handles[v]
          /\ ended'[v] = ended[v] /\ cleaning'[v] = cleaning[v]
          /\ v \in open' <=> v \in open
          /\ v \in toClose' => v \in toClose
        BY <1>3 DEF WatchersInv, WatcherTypes, Refuse, Goes, EndStream, Moves, opening
    <2> QED BY <2>1, OthersOwn
<1> QED BY <1>1, <1>2, <1>3 DEF WatchersInv

LEMMA RefusedOwns ==
    ASSUME WatchersInv, NEW w \in Watchers, Refused(w)
    PROVE  WatchersInv'
<1>1. WatcherTypes'
    BY DEF WatchersInv, WatcherTypes, OwnerInv, Cleaners, At, Refused, GivesUp, Goes, Detach, Moves, opening
<1>2. OwnerInv(w)'
    BY LimitAssumption DEF WatchersInv, WatcherTypes, OwnerInv, Cleaners, At, Refused, GivesUp, Goes, Detach, Moves, opening
<1>3. ASSUME NEW v \in Watchers, v # w PROVE OwnerInv(v)'
    <2>1. /\ OwnerInv(v)
          /\ pc'[v] = pc[v] /\ todo'[v] = todo[v] /\ handles'[v] = handles[v]
          /\ ended'[v] = ended[v] /\ cleaning'[v] = cleaning[v]
          /\ v \in open' <=> v \in open
          /\ v \in toClose' => v \in toClose
        BY <1>3 DEF WatchersInv, WatcherTypes, Refused, GivesUp, Goes, Detach, Moves, opening
    <2> QED BY <2>1, OthersOwn
<1> QED BY <1>1, <1>2, <1>3 DEF WatchersInv

LEMMA CallClosesOwns ==
    ASSUME WatchersInv, NEW w \in Watchers, CallCloses(w)
    PROVE  WatchersInv'
<1>1. WatcherTypes'
    BY DEF WatchersInv, WatcherTypes, OwnerInv, Cleaners, At, CallCloses, Goes, EndStream, Moves, opening
<1>2. OwnerInv(w)'
    BY LimitAssumption DEF WatchersInv, WatcherTypes, OwnerInv, Cleaners, At, CallCloses, Goes, EndStream, Moves, opening
<1>3. ASSUME NEW v \in Watchers, v # w PROVE OwnerInv(v)'
    <2>1. /\ OwnerInv(v)
          /\ pc'[v] = pc[v] /\ todo'[v] = todo[v] /\ handles'[v] = handles[v]
          /\ ended'[v] = ended[v] /\ cleaning'[v] = cleaning[v]
          /\ v \in open' <=> v \in open
          /\ v \in toClose' => v \in toClose
        BY <1>3 DEF WatchersInv, WatcherTypes, CallCloses, Goes, EndStream, Moves, opening
    <2> QED BY <2>1, OthersOwn
<1> QED BY <1>1, <1>2, <1>3 DEF WatchersInv

LEMMA RaiseOwns ==
    ASSUME WatchersInv, NEW w \in Watchers, Raise(w)
    PROVE  WatchersInv'
<1>1. WatcherTypes'
    BY DEF WatchersInv, WatcherTypes, OwnerInv, Cleaners, At, Raise, Goes, opening
<1>2. OwnerInv(w)'
    BY LimitAssumption DEF WatchersInv, WatcherTypes, OwnerInv, Cleaners, At, Raise, Goes, opening
<1>3. ASSUME NEW v \in Watchers, v # w PROVE OwnerInv(v)'
    <2>1. /\ OwnerInv(v)
          /\ pc'[v] = pc[v] /\ todo'[v] = todo[v] /\ handles'[v] = handles[v]
          /\ ended'[v] = ended[v] /\ cleaning'[v] = cleaning[v]
          /\ v \in open' <=> v \in open
          /\ v \in toClose' => v \in toClose
        BY <1>3 DEF WatchersInv, WatcherTypes, Raise, Goes, opening
    <2> QED BY <2>1, OthersOwn
<1> QED BY <1>1, <1>2, <1>3 DEF WatchersInv

LEMMA StreamEndsOwns ==
    ASSUME WatchersInv, NEW w \in Watchers, StreamEnds(w)
    PROVE  WatchersInv'
<1>1. WatcherTypes'
    BY DEF WatchersInv, WatcherTypes, OwnerInv, Cleaners, At, StreamEnds, EndStream, Moves, opening
<1>2. OwnerInv(w)'
    BY LimitAssumption DEF WatchersInv, WatcherTypes, OwnerInv, Cleaners, At, StreamEnds, EndStream, Moves, opening
<1>3. ASSUME NEW v \in Watchers, v # w PROVE OwnerInv(v)'
    <2>1. /\ OwnerInv(v)
          /\ pc'[v] = pc[v] /\ todo'[v] = todo[v] /\ handles'[v] = handles[v]
          /\ ended'[v] = ended[v] /\ cleaning'[v] = cleaning[v]
          /\ v \in open' <=> v \in open
          /\ v \in toClose' => v \in toClose
        BY <1>3 DEF WatchersInv, WatcherTypes, StreamEnds, EndStream, Moves, opening
    <2> QED BY <2>1, OthersOwn
<1> QED BY <1>1, <1>2, <1>3 DEF WatchersInv

LEMMA StreamDetachesOwns ==
    ASSUME WatchersInv, NEW w \in Watchers, StreamDetaches(w)
    PROVE  WatchersInv'
<1>1. WatcherTypes'
    BY DEF WatchersInv, WatcherTypes, OwnerInv, Cleaners, At, StreamDetaches, Detach, Moves, opening
<1>2. OwnerInv(w)'
    BY LimitAssumption DEF WatchersInv, WatcherTypes, OwnerInv, Cleaners, At, StreamDetaches, Detach, Moves, opening
<1>3. ASSUME NEW v \in Watchers, v # w PROVE OwnerInv(v)'
    <2>1. /\ OwnerInv(v)
          /\ pc'[v] = pc[v] /\ todo'[v] = todo[v] /\ handles'[v] = handles[v]
          /\ ended'[v] = ended[v] /\ cleaning'[v] = cleaning[v]
          /\ v \in open' <=> v \in open
          /\ v \in toClose' => v \in toClose
        BY <1>3 DEF WatchersInv, WatcherTypes, StreamDetaches, Detach, Moves, opening
    <2> QED BY <2>1, OthersOwn
<1> QED BY <1>1, <1>2, <1>3 DEF WatchersInv

LEMMA CloseStreamOwns ==
    ASSUME WatchersInv, NEW w \in Watchers, CloseStream(w)
    PROVE  WatchersInv'
<1>1. WatcherTypes'
    BY SMTT(30) DEF WatchersInv, WatcherTypes, OwnerInv, Cleaners, At, CloseStream, EndStream, Moves, opening
<1>2. OwnerInv(w)'
    BY LimitAssumption DEF WatchersInv, WatcherTypes, OwnerInv, Cleaners, At, CloseStream, EndStream, Moves, opening
<1>3. ASSUME NEW v \in Watchers, v # w PROVE OwnerInv(v)'
    <2>1. /\ OwnerInv(v)
          /\ pc'[v] = pc[v] /\ todo'[v] = todo[v] /\ handles'[v] = handles[v]
          /\ ended'[v] = ended[v] /\ cleaning'[v] = cleaning[v]
          /\ v \in open' <=> v \in open
          /\ v \in toClose' => v \in toClose
        BY <1>3 DEF WatchersInv, WatcherTypes, CloseStream, EndStream, Moves, opening
    <2> QED BY <2>1, OthersOwn
<1> QED BY <1>1, <1>2, <1>3 DEF WatchersInv

LEMMA LockCleanupOwns ==
    ASSUME WatchersInv, NEW w \in Watchers, NEW c \in Cleaners, LockCleanup(w, c)
    PROVE  WatchersInv'
<1>1. WatcherTypes'
    BY DEF WatchersInv, WatcherTypes, OwnerInv, Cleaners, At, LockCleanup, Moves, opening
<1>2. OwnerInv(w)'
    BY LimitAssumption DEF WatchersInv, WatcherTypes, OwnerInv, Cleaners, At, LockCleanup, Moves, opening
<1>3. ASSUME NEW v \in Watchers, v # w PROVE OwnerInv(v)'
    <2>1. /\ OwnerInv(v)
          /\ pc'[v] = pc[v] /\ todo'[v] = todo[v] /\ handles'[v] = handles[v]
          /\ ended'[v] = ended[v] /\ cleaning'[v] = cleaning[v]
          /\ v \in open' <=> v \in open
          /\ v \in toClose' => v \in toClose
        BY <1>3 DEF WatchersInv, WatcherTypes, LockCleanup, Moves, opening
    <2> QED BY <2>1, OthersOwn
<1> QED BY <1>1, <1>2, <1>3 DEF WatchersInv

LEMMA UnsubscribeOwns ==
    ASSUME WatchersInv, NEW w \in Watchers, NEW c \in Cleaners, Unsubscribe(w, c)
    PROVE  WatchersInv'
<1>1. WatcherTypes'
    BY DEF WatchersInv, WatcherTypes, OwnerInv, Cleaners, At, Unsubscribe, Moves, opening
<1>2. OwnerInv(w)'
    <2>1. /\ handles'[w] = 0 /\ todo'[w] = todo[w] /\ todo[w] \in Nat /\ Filters[w] \in Nat
          /\ handles[w] \in Nat
        BY LimitAssumption DEF WatchersInv, WatcherTypes, Unsubscribe, opening
    <2>2. CASE c = "call"
        BY <2>1, <2>2 DEF WatchersInv, WatcherTypes, OwnerInv, Cleaners, At, Unsubscribe, Moves,
                          opening
    <2>3. CASE c = "stream"
        BY <2>1, <2>3 DEF WatchersInv, WatcherTypes, OwnerInv, Cleaners, At, Unsubscribe, Moves,
                          opening
    <2> QED BY <2>2, <2>3 DEF Cleaners
<1>3. ASSUME NEW v \in Watchers, v # w PROVE OwnerInv(v)'
    <2>1. /\ OwnerInv(v)
          /\ pc'[v] = pc[v] /\ todo'[v] = todo[v] /\ handles'[v] = handles[v]
          /\ ended'[v] = ended[v] /\ cleaning'[v] = cleaning[v]
          /\ v \in open' <=> v \in open
          /\ v \in toClose' => v \in toClose
        BY <1>3 DEF WatchersInv, WatcherTypes, Unsubscribe, Moves, opening
    <2> QED BY <2>1, OthersOwn
<1> QED BY <1>1, <1>2, <1>3 DEF WatchersInv

LEMMA CloseOwns ==
    ASSUME WatchersInv, Close
    PROVE  WatchersInv'
BY DEF WatchersInv, WatcherTypes, OwnerInv, At, Close, opening

----------------------------------------------------------------------------
(* What is pending                                                         *)

(* The sizes of tracks are natural numbers.                                *)
LEMMA TracksWeigh ==
    ASSUME NEW D, NEW t \in [D -> Tracks]
    PROVE  Weighed(t)
BY LimitAssumption DEF Tracks, Weighed, SizeAt

LEMMA SmallerSize ==
    ASSUME NEW D, NEW t \in [D -> Tracks], NEW E \in SUBSET D, NEW u \in [E -> Tracks],
           \A n \in E : u[n].size = t[n].size
    PROVE  Size(t) \in Nat /\ Size(u) \in Nat /\ Size(u) <= Size(t)
<1>1. Weighed(t) /\ Weighed(u)
    BY TracksWeigh
<1>2. \A n \in 1..MaxMessages : SizeAt(u, n) <= SizeAt(t, n)
    BY LimitAssumption DEF Tracks, SizeAt
<1>3. Size(u) <= Size(t)
    BY <1>1, <1>2, SizeGrows
<1> QED BY <1>1, <1>3, SizeIsNatural

(* What only loses some of its tracks stays within the limits and counted. *)
LEMMA PendingShrinks ==
    ASSUME PendingInv, now \in Nat, now' \in Nat, now <= now',
           DOMAIN pending' \subseteq DOMAIN pending, pending' \in [DOMAIN pending' -> Tracks],
           \A n \in DOMAIN pending' : /\ pending'[n].entity = pending[n].entity
                                      /\ pending'[n].size = pending[n].size,
           bytes' = bytes - (Size(pending) - Size(pending'))
    PROVE  PendingInv'
<1>1. DOMAIN pending' \subseteq 1..now'
    BY DEF PendingInv
<1>2. Size(pending) \in Nat /\ Size(pending') \in Nat /\ Size(pending') <= Size(pending)
    <2>1. pending \in [DOMAIN pending -> Tracks]
        BY DEF PendingInv
    <2> QED BY <2>1, SmallerSize
<1>3. bytes' = Size(pending') /\ bytes' \in 0..MaxBytes
    BY <1>2, LimitAssumption DEF PendingInv
<1>4. Cardinality(DOMAIN pending') <= MaxPending
    <2>1. IsFiniteSet(1..now)
        <3>1. 1 \in Int /\ now \in Int
            OBVIOUS
        <3> QED BY <3>1, FS_Interval
    <2>2. IsFiniteSet(DOMAIN pending)
        BY <2>1, FS_Subset DEF PendingInv
    <2>3. /\ Cardinality(DOMAIN pending') <= Cardinality(DOMAIN pending)
          /\ Cardinality(DOMAIN pending) \in Nat /\ Cardinality(DOMAIN pending') \in Nat
        BY <2>2, FS_Subset, FS_CardinalityType
    <2> QED BY <2>3, LimitAssumption DEF PendingInv
<1>5. \A m, n \in DOMAIN pending' : pending'[m].entity = pending'[n].entity => m = n
    BY DEF PendingInv
<1> QED BY <1>1, <1>3, <1>4, <1>5 DEF PendingInv

(* A step that leaves what is pending and what was got keeps them sound.   *)
LEMMA PendingKept ==
    ASSUME PendingInv, OrderInv, now \in Nat, now' \in Nat, now <= now',
           UNCHANGED <<pending, bytes, got>>
    PROVE  PendingInv' /\ OrderInv'
<1>1. PendingInv'
    BY DEF PendingInv
<1>2. OrderInv'
    BY DEF OrderInv
<1> QED BY <1>1, <1>2

(* _detach_entity_watcher                                                  *)
LEMMA DetachSound ==
    ASSUME IngressInv, NEW w \in Watchers, NEW c \in Cleaners, Detach(w, c)
    PROVE  IngressInv'
<1>1. now \in Nat /\ now' = now /\ got' = got /\ observed' = observed
    BY BoundAssumption DEF Detach, IngressInv
<1>2. CASE Follows(w)
    <2>1. pending' = Without(w) /\ bytes' = bytes - Freed(pending')
          /\ draining' = KeepsDraining(pending')
        BY <1>2 DEF Detach
    <2>2. /\ DOMAIN pending' \subseteq DOMAIN pending
          /\ \A n \in DOMAIN pending' : pending'[n] = [pending[n] EXCEPT !.to = @ \ {w}]
          /\ pending' = [n \in DOMAIN pending' |-> pending'[n]]
        BY <2>1 DEF Without
    <2>3. ASSUME NEW n \in DOMAIN pending'
          PROVE  /\ pending'[n] \in Tracks
                 /\ pending'[n].entity = pending[n].entity /\ pending'[n].size = pending[n].size
        <3>1. pending[n] \in Tracks
            BY <2>2 DEF IngressInv, PendingInv
        <3> QED BY <2>2, <3>1 DEF Tracks
    <2>4. pending' \in [DOMAIN pending' -> Tracks]
        BY <2>2, <2>3
    <2>5. PendingInv'
        BY <1>1, <2>1, <2>2, <2>3, <2>4, PendingShrinks DEF IngressInv, Freed
    <2>6. OrderInv'
        BY <1>1, <2>2, <2>3 DEF IngressInv, OrderInv
    <2> QED BY <1>1, <2>1, <2>2, <2>5, <2>6 DEF IngressInv, KeepsDraining
<1>3. CASE ~Follows(w)
    <2>1. UNCHANGED <<pending, bytes, draining>>
        BY <1>3 DEF Detach
    <2> QED BY <1>1, <2>1, PendingKept DEF IngressInv
<1> QED BY <1>2, <1>3

(* _decode_and_deliver_entity: what is delivered came after all that was   *)
(* got of its entity, of which nothing else is pending.                    *)
LEMMA DeliveredInOrder ==
    ASSUME OrderInv, now \in Nat, now' \in Nat, now <= now', now' <= MaxMessages,
           NEW e \in Entities, NEW n \in 1..now', NEW to, Delivered(e, n, to),
           \A w \in Watchers : got[w][e] < n,
           DOMAIN pending' \subseteq DOMAIN pending,
           \A m \in DOMAIN pending' : /\ pending'[m].entity = pending[m].entity
                                      /\ pending[m].entity # e /\ pending[m].entity \in Entities
    PROVE  OrderInv' /\ \A w \in Watchers, d \in Entities : got'[w][d] >= got[w][d]
<1>1. ASSUME NEW w \in Watchers
      PROVE  /\ got'[w] \in [Entities -> 0..MaxMessages]
             /\ \A d \in Entities : /\ got'[w][d] <= now' /\ got'[w][d] >= got[w][d]
                                    /\ d # e => got'[w][d] = got[w][d]
    <2>1. /\ got[w] \in [Entities -> 0..MaxMessages] /\ got[w][e] < n
          /\ \A d \in Entities : got[w][d] <= now
        BY DEF OrderInv
    <2>2. CASE w \in to /\ ~ended[w]
        <3>1. got'[w] = [got[w] EXCEPT ![e] = n]
            BY <2>2 DEF Delivered
        <3> QED BY <2>1, <3>1, BoundAssumption
    <2>3. CASE ~(w \in to /\ ~ended[w])
        <3>1. got'[w] = got[w]
            BY <2>3 DEF Delivered
        <3> QED BY <2>1, <3>1, BoundAssumption
    <2> QED BY <2>2, <2>3
<1>2. got' \in [Watchers -> [Entities -> 0..MaxMessages]]
    <2>1. got' = [w \in Watchers |-> got'[w]]
        BY DEF Delivered
    <2> QED BY <1>1, <2>1
<1>3. ASSUME NEW w \in Watchers, NEW m \in DOMAIN pending'
      PROVE  got'[w][pending'[m].entity] < m
    <2>1. got'[w][pending'[m].entity] = got[w][pending[m].entity]
        BY <1>1
    <2> QED BY <2>1 DEF OrderInv
<1> QED BY <1>1, <1>2, <1>3 DEF OrderInv

InOrder == \A w \in Watchers, e \in Entities : got'[w][e] >= got[w][e]

LEMMA NothingGot ==
    ASSUME OrderInv, got' = got
    PROVE  InOrder
BY BoundAssumption DEF OrderInv, InOrder

(* What is superseded leaves the tracks of the other entities.             *)
LEMMA SupersededLess ==
    ASSUME PendingInv, NEW e \in Entities
    PROVE  /\ DOMAIN Superseded(e) = {n \in DOMAIN pending : pending[n].entity # e}
           /\ \A n \in DOMAIN Superseded(e) : Superseded(e)[n] = pending[n]
           /\ Superseded(e) \in [DOMAIN Superseded(e) -> Tracks]
           /\ Size(pending) \in Nat /\ Size(Superseded(e)) \in Nat
           /\ Size(Superseded(e)) <= Size(pending)
<1>1. /\ DOMAIN Superseded(e) = {n \in DOMAIN pending : pending[n].entity # e}
      /\ \A n \in DOMAIN Superseded(e) : Superseded(e)[n] = pending[n]
      /\ Superseded(e) \in [DOMAIN Superseded(e) -> Tracks]
    BY DEF Superseded, Keep, PendingInv
<1>2. pending \in [DOMAIN pending -> Tracks] /\ DOMAIN Superseded(e) \in SUBSET DOMAIN pending
    BY <1>1 DEF PendingInv
<1>3. \A n \in DOMAIN Superseded(e) : Superseded(e)[n].size = pending[n].size
    BY <1>1
<1> HIDE DEF Superseded
<1> QED BY <1>1, <1>2, <1>3, SmallerSize

LEMMA DirectTrackSound ==
    ASSUME IngressInv, Arrives, NEW e \in Entities, DirectTrack(e)
    PROVE  IngressInv' /\ InOrder
<1>1. /\ now \in Nat /\ now' \in 0..MaxMessages /\ now' \in Nat /\ now <= now'
      /\ now' \in 1..now' /\ now < now'
    BY BoundAssumption DEF IngressInv, Arrives
<1>2. draining' = draining
    BY DEF DirectTrack
<1>3. CASE Undecodable
    BY <1>1, <1>2, <1>3, PendingKept, NothingGot DEF Undecodable, IngressInv
<1>4. CASE /\ pending' = Superseded(e) /\ bytes' = bytes - Freed(pending')
           /\ Delivered(e, now', Receivers)
    <2>1. /\ DOMAIN pending' = {n \in DOMAIN pending : pending[n].entity # e}
          /\ \A n \in DOMAIN pending' : pending'[n] = pending[n]
          /\ pending' \in [DOMAIN pending' -> Tracks]
        BY <1>4, SupersededLess DEF IngressInv
    <2>2. PendingInv'
        BY <1>1, <1>4, <2>1, PendingShrinks DEF IngressInv, Freed
    <2>3. \A w \in Watchers : got[w][e] < now'
        <3>1. \A w \in Watchers : got[w][e] <= now /\ got[w][e] \in Nat
            BY BoundAssumption DEF IngressInv, OrderInv
        <3> QED BY <1>1, <3>1
    <2>4. \A m \in DOMAIN pending' : /\ pending'[m].entity = pending[m].entity
                                     /\ pending[m].entity # e /\ pending[m].entity \in Entities
        BY <2>1 DEF IngressInv, PendingInv, Tracks
    <2>5. DOMAIN pending' \subseteq DOMAIN pending /\ now' <= MaxMessages
        BY <1>1, <2>1, BoundAssumption
    <2>6. OrderInv' /\ InOrder
        BY <1>1, <1>4, <2>3, <2>4, <2>5, DeliveredInOrder DEF IngressInv, InOrder
    <2>7. observed' \in [Entities -> 0..MaxMessages]
        BY <1>1, <1>4 DEF Delivered, IngressInv
    <2> QED BY <1>1, <1>2, <2>1, <2>2, <2>6, <2>7 DEF IngressInv
<1> QED BY <1>3, <1>4 DEF DirectTrack

(* What replaces a pending TRACK is counted, and what makes room for it is *)
(* taken off, until both limits are respected.                             *)
LEMMA LatestTrackSound ==
    ASSUME WatcherTypes, IngressInv, Arrives, NEW e \in Entities, NEW size \in Sizes,
           LatestTrack(e, size)
    PROVE  IngressInv' /\ InOrder
<1>1. /\ now \in Nat /\ now' = now + 1 /\ now' \in 0..MaxMessages /\ now' \in 1..MaxMessages
    BY BoundAssumption DEF IngressInv, Arrives
<1> DEFINE rest == Superseded(e)
           new == [entity |-> e, size |-> size, to |-> Receivers]
<1>2. PICK k \in 0..now', tracks \in {Replaced(e, size)}, added \in {bytes - Freed(rest) + size} :
          /\ ~Exceeded(Newest(tracks, k), added - (Size(tracks) - Size(Newest(tracks, k))))
          /\ pending' = Newest(tracks, k)
          /\ bytes' = added - (Size(tracks) - Size(Newest(tracks, k)))
    BY DEF LatestTrack
<1>3. /\ draining' = TRUE /\ observed' = observed /\ got' = got
    BY DEF LatestTrack
<1>4. /\ DOMAIN rest = {n \in DOMAIN pending : pending[n].entity # e}
      /\ \A n \in DOMAIN rest : rest[n] = pending[n]
      /\ rest \in [DOMAIN rest -> Tracks]
      /\ Size(pending) \in Nat /\ Size(rest) \in Nat
    BY SupersededLess DEF IngressInv
<1>5. new \in Tracks /\ size \in Nat
    <2>1. Receivers \in SUBSET Watchers
        BY DEF Receivers, WatcherTypes
    <2> QED BY <2>1, LimitAssumption DEF Tracks
<1>6. /\ DOMAIN tracks = DOMAIN rest \cup {now'} /\ now' \notin DOMAIN rest
      /\ tracks[now'] = new /\ \A n \in DOMAIN rest : tracks[n] = rest[n]
      /\ tracks = [n \in DOMAIN tracks |-> tracks[n]]
    <2>1. now' \notin DOMAIN rest
        BY <1>1, <1>4 DEF IngressInv, PendingInv
    <2>2. tracks = Added(rest, new)
        BY DEF Replaced
    <2> HIDE DEF rest, new
    <2> QED BY <2>1, <2>2 DEF Added
<1>7. tracks \in [DOMAIN tracks -> Tracks]
    <2>1. \A n \in DOMAIN tracks : tracks[n] \in Tracks
        <3> HIDE DEF rest, new
        <3> QED BY <1>4, <1>5, <1>6
    <2> QED BY <1>6, <2>1
<1>8. Size(tracks) = Size(rest) + size
    <2>1. Weighed(tracks) /\ Weighed(rest)
        <3> HIDE DEF rest
        <3> QED BY <1>4, <1>7, TracksWeigh
    <2>2. SizeAt(rest, now') = 0 /\ SizeAt(tracks, now') = size
        BY <1>6 DEF SizeAt
    <2>3. \A n \in 1..MaxMessages : n # now' => SizeAt(rest, n) = SizeAt(tracks, n)
        <3> HIDE DEF rest, new
        <3> QED BY <1>6 DEF SizeAt
    <2> HIDE DEF rest, new
    <2> QED BY <1>1, <2>1, <2>2, <2>3, SizeLessOne
<1>9. /\ DOMAIN pending' = {n \in DOMAIN tracks : n > k}
      /\ \A n \in DOMAIN pending' : pending'[n] = tracks[n]
      /\ pending' \in [DOMAIN pending' -> Tracks]
    <2> HIDE DEF rest, new
    <2> QED BY <1>2, <1>7 DEF Newest, Keep
<1>10. bytes' = Size(pending') /\ Size(pending') \in Nat
    <2>1. added = bytes - Freed(rest) + size
        OBVIOUS
    <2>2. bytes = Size(pending) /\ Freed(rest) = Size(pending) - Size(rest)
        BY DEF IngressInv, PendingInv, Freed
    <2>3. Size(pending') \in Nat
        <3>1. Weighed(pending')
            BY <1>9, TracksWeigh
        <3> QED BY <3>1, SizeIsNatural
    <2>4. bytes' = added - (Size(tracks) - Size(pending'))
        BY <1>2
    <2> HIDE DEF rest, new
    <2> QED BY <1>4, <1>5, <1>8, <2>1, <2>2, <2>3, <2>4
<1>11. Cardinality(DOMAIN pending') <= MaxPending /\ bytes' <= MaxBytes
    <2>1. ~Exceeded(pending', bytes')
        BY <1>2
    <2>2. DOMAIN pending' \subseteq 1..now'
        BY <1>1, <1>4, <1>6, <1>9 DEF IngressInv, PendingInv
    <2>3. IsFiniteSet(1..now')
        <3>1. 1 \in Int /\ now' \in Int
            BY <1>1
        <3> QED BY <3>1, FS_Interval
    <2>4. Cardinality(DOMAIN pending') \in Nat
        BY <2>2, <2>3, FS_Subset, FS_CardinalityType
    <2> QED BY <1>10, <2>1, <2>4, LimitAssumption DEF Exceeded
<1>12. \A n \in DOMAIN pending' :
          \/ n = now' /\ pending'[n].entity = e
          \/ n \in DOMAIN pending /\ pending'[n].entity = pending[n].entity
             /\ pending[n].entity # e
    <2>1. new.entity = e
        OBVIOUS
    <2> QED BY <1>4, <1>6, <1>9, <2>1
<1>13. PendingInv'
    <2>1. DOMAIN pending' \subseteq 1..now'
        BY <1>1, <1>12 DEF IngressInv, PendingInv
    <2>2. \A m, n \in DOMAIN pending' : pending'[m].entity = pending'[n].entity => m = n
        BY <1>12 DEF IngressInv, PendingInv
    <2>3. bytes' \in 0..MaxBytes
        BY <1>10, <1>11, LimitAssumption
    <2> QED BY <1>9, <1>10, <1>11, <2>1, <2>2, <2>3 DEF PendingInv
<1>14. OrderInv' /\ InOrder
    <2>1. \A w \in Watchers, d \in Entities : got[w][d] \in Nat /\ got[w][d] <= now
        BY BoundAssumption DEF IngressInv, OrderInv
    <2>2. \A w \in Watchers, d \in Entities : got'[w][d] < now' /\ got'[w][d] <= now'
        BY <1>1, <1>3, <2>1
    <2>3. ASSUME NEW w \in Watchers, NEW n \in DOMAIN pending'
          PROVE  got'[w][pending'[n].entity] < n
        <3>1. CASE n = now' /\ pending'[n].entity = e
            BY <2>2, <3>1
        <3>2. CASE n \in DOMAIN pending /\ pending'[n].entity = pending[n].entity
            BY <1>3, <3>2 DEF IngressInv, OrderInv
        <3> QED BY <1>12, <3>1, <3>2
    <2>4. OrderInv'
        BY <1>3, <2>2, <2>3 DEF IngressInv, OrderInv
    <2> QED BY <1>3, <2>4, NothingGot DEF IngressInv
<1> QED BY <1>1, <1>3, <1>13, <1>14 DEF IngressInv

LEMMA LocationMessageSound ==
    ASSUME IngressInv, Arrives, NEW e \in Entities, LocationMessage(e)
    PROVE  IngressInv' /\ InOrder
<1>1. now \in Nat /\ now' \in 0..MaxMessages /\ now' \in Nat /\ now <= now'
    BY BoundAssumption DEF IngressInv, Arrives
<1>2. UNCHANGED <<pending, bytes, draining, got>>
    BY DEF LocationMessage
<1>3. observed' \in [Entities -> 0..MaxMessages]
    BY <1>1 DEF LocationMessage, IngressInv
<1>4. PendingInv' /\ OrderInv' /\ InOrder
    BY <1>1, <1>2, PendingKept, NothingGot DEF IngressInv
<1> QED BY <1>1, <1>2, <1>3, <1>4 DEF IngressInv

(* _drain_pending_tracks: the oldest leaves, to who still listens.         *)
LEMMA DrainSound ==
    ASSUME IngressInv, Drain
    PROVE  IngressInv' /\ InOrder
<1>1. PICK n \in DOMAIN pending :
          /\ pending' = Keep(pending, DOMAIN pending \ {n})
          /\ bytes' = bytes - pending[n].size
          /\ \/ UNCHANGED <<observed, got>>
             \/ Delivered(pending[n].entity, n, pending[n].to)
    BY DEF Drain
<1>2. now' = now /\ draining' = draining /\ now \in Nat /\ now <= MaxMessages /\ draining
    BY BoundAssumption DEF Drain, IngressInv
<1>3. /\ DOMAIN pending' = DOMAIN pending \ {n}
      /\ \A m \in DOMAIN pending' : pending'[m] = pending[m]
      /\ pending' \in [DOMAIN pending' -> Tracks]
    BY <1>1 DEF Keep, IngressInv, PendingInv
<1>4. n \in 1..now /\ n \in 1..MaxMessages /\ pending[n] \in Tracks
    <2>1. n \in 1..now /\ pending[n] \in Tracks
        BY DEF IngressInv, PendingInv
    <2> QED BY <1>2, <2>1, BoundAssumption
<1>5. Size(pending) = Size(pending') + pending[n].size
    <2>1. pending \in [DOMAIN pending -> Tracks]
        BY DEF IngressInv, PendingInv
    <2>2. Weighed(pending) /\ Weighed(pending')
        BY <1>3, <2>1, TracksWeigh
    <2>3. SizeAt(pending', n) = 0 /\ SizeAt(pending, n) = pending[n].size
        BY <1>3 DEF SizeAt
    <2>4. \A m \in 1..MaxMessages : m # n => SizeAt(pending', m) = SizeAt(pending, m)
        BY <1>3 DEF SizeAt
    <2> QED BY <1>4, <2>2, <2>3, <2>4, SizeLessOne
<1>6. bytes' = bytes - (Size(pending) - Size(pending'))
    <2>1. pending[n].size \in Nat
        BY <1>4, LimitAssumption DEF Tracks
    <2>2. Size(pending') \in Nat
        <3>1. Weighed(pending')
            BY <1>3, TracksWeigh
        <3> QED BY <3>1, SizeIsNatural
    <2>3. bytes' = bytes - pending[n].size
        BY <1>1
    <2> QED BY <1>5, <2>1, <2>2, <2>3
<1>7. PendingInv'
    <2>1. DOMAIN pending' \subseteq DOMAIN pending
        BY <1>3
    <2>2. \A m \in DOMAIN pending' : /\ pending'[m].entity = pending[m].entity
                                     /\ pending'[m].size = pending[m].size
        BY <1>3
    <2>3. now' \in Nat /\ now <= now'
        BY <1>2
    <2> QED BY <1>2, <1>3, <1>6, <2>1, <2>2, <2>3, PendingShrinks DEF IngressInv
<1>8. CASE UNCHANGED <<observed, got>>
    <2>1. OrderInv'
        BY <1>2, <1>3, <1>8 DEF IngressInv, OrderInv
    <2>2. InOrder
        BY <1>8, NothingGot DEF IngressInv
    <2> QED BY <1>2, <1>3, <1>7, <1>8, <2>1, <2>2 DEF IngressInv
<1>9. CASE Delivered(pending[n].entity, n, pending[n].to)
    <2>1. PICK e \in Entities : e = pending[n].entity
        BY <1>4 DEF Tracks
    <2>2. PICK to : to = pending[n].to
        OBVIOUS
    <2>3. Delivered(e, n, to)
        BY <1>9, <2>1, <2>2
    <2>4. \A w \in Watchers : got[w][e] < n
        BY <2>1 DEF IngressInv, OrderInv
    <2>5. \A m \in DOMAIN pending' : /\ pending'[m].entity = pending[m].entity
                                     /\ pending[m].entity # e /\ pending[m].entity \in Entities
        BY <1>3, <2>1 DEF IngressInv, PendingInv, Tracks
    <2>6. /\ DOMAIN pending' \subseteq DOMAIN pending /\ n \in 1..now'
          /\ now' \in Nat /\ now <= now' /\ now' <= MaxMessages
        BY <1>2, <1>3, <1>4
    <2>7. OrderInv' /\ InOrder
        BY <1>2, <2>3, <2>4, <2>5, <2>6, DeliveredInOrder DEF IngressInv, InOrder
    <2>8. observed' \in [Entities -> 0..MaxMessages]
        BY <1>4, <2>3 DEF Delivered, IngressInv
    <2> QED BY <1>2, <1>7, <2>7, <2>8 DEF IngressInv
<1> QED BY <1>1, <1>8, <1>9

LEMMA DrainEndsSound ==
    ASSUME IngressInv, DrainEnds
    PROVE  IngressInv' /\ InOrder
<1>1. now \in Nat /\ now' = now /\ UNCHANGED <<pending, bytes, got, observed>>
      /\ draining' = FALSE /\ DOMAIN pending = {}
    BY BoundAssumption DEF DrainEnds, IngressInv
<1>2. PendingInv' /\ OrderInv' /\ InOrder
    BY <1>1, PendingKept, NothingGot DEF IngressInv
<1>3. DOMAIN pending' = {} /\ now' \in 0..MaxMessages /\ observed' \in [Entities -> 0..MaxMessages]
    BY <1>1 DEF IngressInv
<1> QED BY <1>1, <1>2, <1>3 DEF IngressInv

LEMMA CloseSound ==
    ASSUME IngressInv, Close
    PROVE  IngressInv' /\ InOrder
<1>1. /\ pending' = <<>> /\ bytes' = 0 /\ draining' = FALSE
      /\ UNCHANGED <<observed, got, now>>
    BY DEF Close
<1>2. DOMAIN pending' = {} /\ pending' \in [DOMAIN pending' -> Tracks]
    BY <1>1
<1>3. Size(pending') = 0
    BY <1>2, SizeOfNone
<1>4. Cardinality(DOMAIN pending') <= MaxPending
    BY <1>2, FS_EmptySet, LimitAssumption
<1>5. PendingInv'
    BY <1>1, <1>2, <1>3, <1>4, LimitAssumption DEF PendingInv
<1>6. OrderInv' /\ InOrder
    BY <1>1, <1>2, NothingGot DEF IngressInv, OrderInv
<1> QED BY <1>1, <1>2, <1>5, <1>6 DEF IngressInv

LEMMA CloseEndsSound ==
    ASSUME IngressInv, CloseEnds
    PROVE  IngressInv' /\ InOrder
<1>1. now \in Nat /\ now' = now /\ UNCHANGED <<pending, bytes, got, draining>>
      /\ observed' \in [Entities -> 0..MaxMessages]
    BY BoundAssumption DEF CloseEnds, IngressInv
<1> QED BY <1>1, PendingKept, NothingGot DEF IngressInv

----------------------------------------------------------------------------
(* Every step                                                              *)

LEMMA InitSound == Init => IInv
<1> SUFFICES ASSUME Init PROVE IInv
    OBVIOUS
<1>1. WatcherTypes
    BY LimitAssumption DEF Init, WatcherTypes
<1>2. \A w \in Watchers : OwnerInv(w)
    BY LimitAssumption DEF Init, OwnerInv, Cleaners, At
<1>3. DOMAIN pending = {} /\ pending \in [DOMAIN pending -> Tracks]
    BY DEF Init
<1>4. PendingInv
    <2>1. Size(pending) = 0
        BY <1>3, SizeOfNone
    <2>2. Cardinality(DOMAIN pending) <= MaxPending
        BY <1>3, FS_EmptySet, LimitAssumption
    <2>3. bytes = 0
        BY DEF Init
    <2> QED BY <1>3, <2>1, <2>2, <2>3, LimitAssumption DEF PendingInv
<1>5. OrderInv
    BY <1>3, BoundAssumption DEF Init, OrderInv
<1>6. IngressInv
    <2>1. draining = FALSE /\ now = 0 /\ observed = [e \in Entities |-> 0]
        BY DEF Init
    <2>2. now \in 0..MaxMessages /\ observed \in [Entities -> 0..MaxMessages]
        BY <2>1, BoundAssumption
    <2> QED BY <1>3, <1>4, <1>5, <2>1, <2>2 DEF IngressInv
<1> QED BY <1>1, <1>2, <1>6 DEF IInv, WatchersInv

(* A step of a call: its cleanup may drop what is pending, nothing else    *)
(* touches it.                                                             *)
LEMMA CallSteps ==
    ASSUME IInv, NEW w \in Watchers, Opening(w) \/ Closing(w)
    PROVE  IInv' /\ InOrder
<1>1. WatchersInv'
    <2>1. WatchersInv
        BY DEF IInv
    <2>2. CASE Opening(w)
        BY <2>1, <2>2, WatchOwns, SubscribedOwns, SubscribeFailsOwns, DecideOwns,
           CancelledInHandOwns, DiscardOwns, AcceptOwns, RefuseOwns, RefusedOwns, CallClosesOwns,
           RaiseOwns DEF Opening
    <2>3. CASE Closing(w)
        BY <2>1, <2>3, StreamEndsOwns, StreamDetachesOwns, CloseStreamOwns, LockCleanupOwns,
           UnsubscribeOwns DEF Closing
    <2> QED BY <2>2, <2>3
<1>2. CASE \E c \in Cleaners : Detach(w, c)
    <2>1. IngressInv'
        BY <1>2, DetachSound DEF IInv
    <2>2. InOrder
        BY <1>2, NothingGot DEF Detach, IInv, IngressInv
    <2> QED BY <1>1, <2>1, <2>2 DEF IInv
<1>3. CASE UNCHANGED ingress
    <2>1. IngressInv' /\ InOrder
        BY <1>3, BoundAssumption, PendingKept, NothingGot DEF ingress, IInv, IngressInv
    <2> QED BY <1>1, <2>1 DEF IInv
<1>4. (\E c \in Cleaners : Detach(w, c)) \/ UNCHANGED ingress
    BY DEF Opening, Closing, Watch, Subscribed, SubscribeFails, Decide, CancelledInHand, Discard,
           Accept, Refuse, Refused, CallCloses, Raise, StreamEnds, StreamDetaches, CloseStream,
           LockCleanup, Unsubscribe, GivesUp, Cleaners
<1> QED BY <1>2, <1>3, <1>4

LEMMA NextSound ==
    ASSUME IInv, [Next]_vars
    PROVE  IInv' /\ InOrder
<1>1. CASE Close
    BY <1>1, CloseOwns, CloseSound DEF IInv
<1>2. CASE CloseEnds
    BY <1>2, CloseEndsSound, OwnersKept DEF IInv, CloseEnds
<1>3. CASE Ingress
    <2>1. UNCHANGED <<opening, handles, ended, cleaning, open, closed, toClose>>
        BY <1>3 DEF Ingress, Drain, DrainEnds, DirectTrack, LocationMessage, LatestTrack
    <2>2. WatchersInv'
        BY <2>1, OwnersKept DEF IInv
    <2>3. IngressInv /\ WatcherTypes
        BY DEF IInv, WatchersInv
    <2>4. IngressInv' /\ InOrder
        BY <1>3, <2>3, DrainSound, DrainEndsSound, DirectTrackSound, LocationMessageSound,
           LatestTrackSound DEF Ingress
    <2> QED BY <2>2, <2>4 DEF IInv
<1>4. CASE \E w \in Watchers : Opening(w) \/ Closing(w)
    BY <1>4, CallSteps
<1>5. CASE UNCHANGED vars
    <2>1. WatchersInv'
        BY <1>5, OwnersKept DEF IInv, vars
    <2>2. IngressInv' /\ InOrder
        BY <1>5, BoundAssumption, PendingKept, NothingGot DEF vars, ingress, IInv, IngressInv
    <2> QED BY <2>1, <2>2 DEF IInv
<1> QED BY <1>1, <1>2, <1>3, <1>4, <1>5 DEF Next

----------------------------------------------------------------------------
(* What is proved of every watcher                                         *)

(* The watchers own what they should, and what is pending is sound, in     *)
(* every state the service reaches.                                        *)
THEOREM Invariant == Spec => []IInv
<1>1. IInv /\ [Next]_vars => IInv'
    BY NextSound
<1> QED BY <1>1, InitSound, PTL DEF Spec

(* Every variable keeps its type: a watcher has no more handles than it    *)
(* has filters, and the bytes pending never exceed their limit.            *)
THEOREM Types == Spec => []TypeOK
<1>1. IInv => TypeOK
    <2> SUFFICES ASSUME IInv PROVE TypeOK
        OBVIOUS
    <2>1. WatcherTypes /\ IngressInv /\ \A w \in Watchers : OwnerInv(w)
        BY DEF IInv, WatchersInv
    <2>2. \A w \in Watchers : todo[w] \in 0..Filters[w] /\ handles[w] \in 0..Filters[w]
        BY <2>1, LimitAssumption DEF WatcherTypes, OwnerInv
    <2> QED BY <2>1, <2>2 DEF TypeOK, WatcherTypes, IngressInv, PendingInv
<1> QED BY <1>1, Invariant, PTL

(* What is pending is within both limits, counted as it is, one TRACK for  *)
(* each entity, and has a task to drain it.                                *)
THEOREM PendingStaysSound == Spec => []PendingIsSound
<1>1. IInv => PendingIsSound
    BY DEF IInv, IngressInv, PendingInv, PendingIsSound
<1> QED BY <1>1, Invariant, PTL

(* A watcher whose stream was closed and cleaned up after, at whatever     *)
(* point of its opening, owns no handle and is not among the open ones.    *)
THEOREM NothingIsLeftOwned == Spec => []ClosedOwnsNothing
<1>1. IInv => ClosedOwnsNothing
    BY DEF IInv, WatchersInv, OwnerInv, ClosedOwnsNothing, Over, At
<1> QED BY <1>1, Invariant, PTL

(* No stream gets a TRACK of an entity after a later one.                  *)
THEOREM NoTrackGoesBack == Spec => TracksInOrder
<1>1. IInv /\ [Next]_vars => [\A w \in Watchers, e \in Entities : got'[w][e] >= got[w][e]]_vars
    BY NextSound DEF InOrder
<1> QED BY <1>1, Invariant, PTL DEF Spec, TracksInOrder
============================================================================
