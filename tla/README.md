# A TLA+ verification of the Picogrid ECN SDK for Python

The SDK (`src/src/picogrid_ecn_client`) is an asyncio library: one process, one
event loop, many tasks. It talks MQTT 5 through Paho and aiomqtt to a broker,
and over it sends tasks to remote assets, answers tasks sent to it, and streams
entity and location messages. Beside it the repository holds an application for
operators (`src/operator-app`, a FastAPI backend over the SDK and a browser
view) and the verification of a release (`src/scripts`). What is difficult in
all of them happens between two `await`s, or between two threads: a
cancellation, a timeout, a late answer, a lost connection and a close meet in
the same few statements. These modules model those statements; TLC explores
their interleavings on small instances, and TLAPS proves the main invariants of
eleven of them for every instance.

File names below are relative to `src/src/picogrid_ecn_client/`, unless they
begin with `operator-app/`, `scripts/`, `docs/` or `tests/`.

## The system

| Component | Source | State it keeps | What is hard | Module |
| --- | --- | --- | --- | --- |
| Event stream | `streams.py` | bounded queue, closed flag, terminal error, drop count | several consumers, close racing failure, eviction of the item a woken consumer was to get | `EventStream` |
| Task dispatch (requester) | `_services/tasks.py` | reserved identifiers, pending futures, delivery phases, response subscriptions | PUBACK, response, loss, timeout, cancellation and close in any order; what the caller may retry | `TaskDispatch`, `DeliveryContract` |
| Task handlers (receiver) | `_services/tasks.py` | deliveries in progress, bounded cache of answers, handler tasks | redelivery during and after the handler, eviction, capacity, an acknowledgement of unknown outcome | `TaskHandlers` |
| Acknowledgement ledger | `_transport/mqtt.py`, `_MQTTV5Client` | pending and retired packet identifiers, first protocol failure | late acknowledgement, reuse of identifiers, callback and cancellation in one turn of the loop | `AckLedger` |
| Connection opening | `_transport/mqtt.py`, `_MQTTV5Client.__aenter__` | resolver process, socket, the descriptors the loop watches | close and deadline at every phase; callbacks that run when the descriptor is another file's | `ConnectionOpening` |
| Subscription table | `_transport/mqtt.py`, `MQTTTransport` | handles, the lock, readiness, connection generation | cancellation while the broker decides, ambiguous SUBACK, unsubscribe during restore, loss while the lock is held | `Subscriptions` |
| Recovery supervisor | `_transport/mqtt.py`, `MQTTTransport._run` | budgets of attempts and time, backoff, wake-up generation, stable-reset task | wake-up racing the retry sleep, a new episode racing the old supervisor, timers of earlier sessions | `RecoverySupervisor`, `FailureClasses` |
| Client lifecycle | `client.py` | status, recovery state, startup task, close task, waiters | start racing close, a failed start beside a supervisor that goes on | `ClientLifecycle`, `ClientState` |
| Entity and location watchers | `_entity_locations.py` | watchers, coalesced TRACKs within a byte budget, observed locations | close while filters open, coalescing beside a FIFO watcher, eviction and drain | `EntityWatchers` |
| Operator backend | `operator-app/backend/operator_app` | views, prepared tasks, eligible targets, connection generations | a preparation that outlives what it was reviewed against; retirement racing a confirmation | `OperatorTasks` |
| Operator frontend | `operator-app/frontend/src` | the dialog, its requests, the WebSocket, captured generations | answers that come after the view has moved on, page and network changes at every `await` | `OperatorView` |
| Release verification | `scripts/_release_stages.py`, `scripts/verify_release.py` | stages, worker permits, what the stages share on disk | nested graphs on shared permits, a missing dependency, edits during the run | `ReleaseStages`, `ReleaseGates`, `VerifyRelease` |

How they interact. The client starts and closes the transport and the services,
services first and transport last, and hears of the transport by callbacks that
do not suspend. The supervisor opens a connection, restores the subscription
table, dispatches inbound messages one after the other in its own task, and
clears the table when the session ends. The services own handles of the table
and publish through `MQTTTransport.publish`, which waits in the ledger; the
watchers feed event streams. The operator's backend is a user of the client, and
its frontend a user of the backend over HTTP and one WebSocket.

Composed are `ClientLifecycle` with `RecoverySupervisor`, `ClientState` and
`FailureClasses`; `VerifyRelease` with `ReleaseStages` and `ReleaseGates`;
`TaskDispatch` with the contract it implements. Elsewhere a module replaces its
neighbours by what they may do: `TaskDispatch` sees a publication succeed, fail
before or after the packet left, or be cancelled; `Subscriptions` sees a broker
request granted, denied or failed; `AckLedger` sees callers that cancel and
brokers that answer, repeat or stay silent; `RecoverySupervisor` sees one
representative subscribe; `OperatorView` sees the backend that `OperatorTasks`
details, behind a network that delays requests and loses answers.

## What makes it correct

* A stream tells every consumer one ending, returns nothing after it, and counts
  everything it drops.
* A caller of `send` is never told that something is safe to retry when it may
  have been executed; a response that is there is not thrown away.
* A handler runs once for a delivery as long as the delivery is remembered, and
  nobody is sent two different answers.
* An acknowledgement completes its own operation or is recognised as late.
* The broker has exactly the subscriptions somebody holds, and readiness comes
  back after everything that suspended it.
* Every socket and the resolver process have somebody who will close them, and
  the event loop watches no descriptor that became another file's.
* A client that says it is recovering is recovering, one that says it is ready
  has its session, and a flapping connection runs out of its budget.
* A watcher that is closed owns nothing, and no stream gets an older TRACK of an
  entity after a newer one.
* An operator's task is published once, as it was reviewed, under the conditions
  it was reviewed under, and never after the operator was told it will not be.
* A promoted release was verified as it is.
* Nothing blocks: every send, subscription, broker operation and stage ends
  although the broker, the network and the authors of handlers owe nothing.

`PROJECT.json` lists the hazards behind these, each at its line.

## The modules

An action is one uninterrupted stretch between two suspension points of a
coroutine, or one callback: only there can the event loop switch tasks.
Cancellation is a flag that another task sets and the cancelled one sees at its
next resumption. Operators with the comment "a defect of X" are alternatives of
the operator X that follows them; no specification uses them, they exist to
confirm that the properties notice such a bug.

**EventStream.** `queue` is `_queue`, with the terminal marker as an item;
`getters` is the asyncio queue's list of waiting getters. A consumer goes from
`idle` to `waiting` to `woken`, because a woken getter must still find its item.
`Put`, `Fail`, `Aclose` and `FinishClose` are `_put_nowait`, `_fail`, `aclose`
and the close task. Payloads are arrival numbers.

**DeliveryContract** is abstract: a request has a *fate* (local, sent, accepted,
refused, answered) and its caller gets a *verdict* the fate supports.
**TaskDispatch** models `send` from the reservation of the identifier over the
response subscription, the queue for the connection, the publication, the wait
and the nested `finally` blocks, with `close`, disconnects and the remote side.
It implements `DeliveryContract` (`HonoursContract`).

**TaskHandlers** models `_receive` in the dispatcher's task (cached answer,
duplicate, unreadable or malformed envelope, busy, new) and the stages of the
handler task: created, acking, running, answering. `cache` is the LRU of
answers. Registering and unregistering a task is left to the subscription table.

**AckLedger** models `_MQTTV5Client`. `owed` is what the broker still has to
acknowledge, `pend` and `retired` are the tables. A callback only schedules the
completion of a future (`ack = "read"`); a second step completes it; a third
resumes the task. Publications shield their future and prefer an answer that is
there; subscriptions use `asyncio.wait_for`, whose result for a timeout that
meets an answer depends on the Python version, so both are allowed.
`MalformedAck` is an acknowledgement that the packet guards reject.

**ConnectionOpening** follows one attempt through the resolver process, the
addresses in turn, TCP, TLS, the hand-over of the socket to Paho and the wait
for the CONNACK. `loop` holds the readers and writers that are installed by
callbacks that run later; a descriptor that was closed may be taken by a file of
other code (`foreign`). Any free descriptor may be reused, where the kernel takes
the smallest.

**Subscriptions** models `subscribe` and `unsubscribe` (`pc`), the supervisor's
`restoring`, `serving` and `clearing`, and the broker as a FIFO of requests that
dies with the session. The lock is held exactly in the states `Holding`; it is
not FIFO here, any waiting call may be next. A broker request is a task of its
own (`task`, `reply`) that may outlive a caller cancelled twice, and whose
failure, for an unsubscription, takes the session down. `Pinned` are the calls that
give `expected_connection_generation` (`_services/tasks.py:466`): only they are
refused when the connection is another than the one they saw (2395).

**FailureClasses** is `_classify_failure`: the ordered rules over the class of
an exception, with the class each inherits from. **RecoverySupervisor** is
`_run` and what starts, wakes and closes it. Time is kept as ages in units of
the smallest interval. **ClientState** is the record the callbacks of the
transport change, **ClientLifecycle** the coroutines around it. Announcements do
not suspend, so they belong to the step that makes them.

**EntityWatchers** models the opening of a watcher filter by filter, its closing
by consumer, service, cancellation or failed restoration, and `_pending_tracks`
with its limits and the drain task. An entity stands for its identity with its
integration; a message is its arrival number with its size. `pending` maps the
arrival of each pending TRACK to it: a replacement goes to the end of the ordered
dictionary (`_entity_locations.py:508`), so the order of its entries is the order
of arrival, while what a departing watcher leaves keeps its place (617).

**OperatorTasks** models the runtime's locks as what they are, never held over a
suspension, so each handler is one step; the three parts of `prepare_task` are
steps of their own, as is the client's `send` inside `confirm`. A token stands
for a call of `prepare_task` that reaches its target. **OperatorView** is the
document of `main.ts` as a record and its functions as operators from records to
records. The two generation counters are only compared with captured values, so
what captured them has a flag instead. Requests may be served after the document
gave them up, and answers may be lost.

**ReleaseStages** is `run_stages`: threads, worker permits, the network lock,
nested runs that lend the permit of their stage. **ReleaseGates** is the graph of
`verify_release.py` as data: each stage is a script of operations with what they
read, make, drop, occupy and leave, a pair `<<place, part>>` each. What is read before
the stages and given to them (the policy, the base path of the site, the commit
and tag, the interpreters) is data of the place `verify_release`.
**VerifyRelease** adds what an earlier run left, what is loaded, reset and scanned
before the stages, the digests of the inputs, the promotion, the final scan, and
somebody who edits the repository, commits an edit or checks out another commit.
What the checks ask of the contents of files is left out: such a check is an
operation that reads and may fail, and `map` names for it only where it begins.

## The runs

| Run | Instance | States | Properties |
| --- | --- | --- | --- |
| `stream` | 2 consumers, queue of 2, 5 events | 4 thousand | `NothingLost`, `OneEnding`, `NothingAfterEnding`, `EndingIsTold` |
| `dispatch` | 2 sends, table of 1 | 306 thousand | `RetrySafety`, `HonoursContract`, `ResponseNotLost`, `EverySendEnds` |
| `handlers` | 5 deliveries (each mode, one malformed, one unreadable), 2 tasks, cache of 1 | 0.8 million | `InvokedOncePerMemory`, `HandledOnce`, `NoAnswerBegunAfterClose`, `EveryAnswerTried` |
| `acks` | 3 operations over 1 identifier, 2 places, 1 forged acknowledgement | 0.6 million | `OwnAcknowledgement`, `HonestNeverUnmatched`, `NothingAcceptedAfterInvalidation`, `EveryOperationEnds`, `EveryAckHasAHome` |
| `subs` | 3 calls over 2 filters, one bound to a connection, 2 connections, 2 cancellations | 1.9 million | `RestIsSound`, `RegisteredIsSubscribed`, `TransientStaysInSession`, `NobodyIsStuck` |
| `lifecycle` | 1 waiter, 2 attempts, 2 units of time, 2 sessions | 1.5 million | `Informed`, `Driven`, `ReadyIsReal`, `BudgetIsEarned` |
| `lifecycle_single` | the same | violation | `OneSupervisor` |
| `watchers` | 2 watchers of any kind, 3 entities, sizes 1 and 2, 3 messages | 2.2 million | `PendingIsSound`, `ClosedOwnsNothing`, `TracksInOrder` |
| `opening` | 2 attempts, 2 addresses, 3 descriptors, 2 writes | 0.2 million | `DescriptorsAreOwned`, `CloseIsHeard` |
| `operator` | 2 preparations, 2 generations of a view, 2 WebSockets, 2 entities | 1.6 million | `AcknowledgedIsFinal`, `PublishedAsReviewed` |
| `view` | up to 2 preparations, 3 generations, 2 identities (see `MCBound`) | 2.0 million | `DialogWaits`, `NothingPublished`, `PublishedInView` |
| `release` | 1 or 2 jobs, one failure, edit or checkout | 0.2 million | `PermitsAreSound`, `Drained`, `StagesAreOrdered`, `PromotedIsVerified`, `OutputsAddUp` |

Every property is stated in words above its definition.

### Bounds

The bounds appear only in guards of what the environment may do.

* `stream`: two consumers and two places let a woken consumer lose its item to
  another and to an eviction; a third would only queue behind them.
* `dispatch`: one send is followed through everything while the other is refused
  by the full table or comes after it.
* `handlers`: with a cache of one every finished delivery forgets another.
* `acks`: with one identifier three operations reuse it in every state of one
  another; distinct identifiers do not interact in the tables, and the theorems
  cover them. Two identifiers have been explored with the same result.
* `subs`: a durable and a transient call share a filter and a third is
  independent; two connections give one restore, two cancellations reach a
  call's own cleanup.
* `lifecycle`: two attempts and two units of time exhaust either budget first;
  two sessions let a timer or subscribe of the first meet the second. With two
  attempts the third protocol failure in a row, which stops the supervisor, is
  not reached.
* `watchers`: two places and three units of size let either limit evict first;
  a third entity forces an eviction. Messages and entities are symmetric.
* `opening`: three descriptors let a closed one be taken by other code while the
  attempt opens the next.
* `operator`: one prepared place and one target make the table and the watch of
  entities overflow; a second generation is what retirement races.
* `view`: `MCBound` limits the sum of the preparations, WebSockets and identities
  used to five. With one identity two preparations meet two generations, or one
  meets three; with a second identity one preparation meets two generations, or two
  meet one. What lies beyond, two preparations over three generations for one, is
  left to the theorems, which have no such bound.
* `release`: `OneMishap` explores one failure, or one edit or checkout, in a run. Once
  the worktree was found clean nothing reads what is committed, so `CommitsMatter`
  follows a later edit only as a checkout. With three jobs and no mishap the
  scheduler has been explored with the same result.

Deadlock is checked for the stream. The other systems end when everything was
called and closed; that nobody waits for something that never comes is a property
of its own there (`NobodyIsStuck`, `PermitsAreSound`, the liveness properties).

### Fairness

The event loop runs every task that can run, and every wait on the broker has a
timeout. That is weak fairness of the program's own steps: `FinishClose` and
`Resume` in the stream; `Progress` of each send; `DispatcherPublished` and
`TaskStep`, where that a handler returns is the application's part;
`Step` of each operation in the ledger. In `ConnectionOpening` only the steps
that a cancelled task takes are fair, and the death of a killed resolver: nothing
else is needed for a close to be heard. Consumers, callers, the broker and the
network owe nothing. Where what is to happen is never taken back, "leads to" is
written `<>[]` or `[]<>` of a state predicate, which TLC checks much faster; the
comment says so.

`lifecycle`, `subs`, `operator`, `view` and `release` state no fairness. What has
to happen there is an invariant: somebody is at work on it, or waits for a timer
(`Driven`, `NobodyIsStuck`, `PermitsAreSound`) or, in the browser, a rule for the
steps: none takes away what a dialog waits for and leaves it up (`DialogWaits`).

## What the runs found

`lifecycle_single`, `OneSupervisor`. A recovery request leaves a done-callback on
the supervisor that is ending; a second request that comes when that task is
done, before its callbacks have run, finds no running task and creates a
supervisor; the callback then creates another (`_transport/mqtt.py:2031`). Two
supervisors share one transport, where `_transport/mqtt.py:1987` promises none
is created beside another.

These sentences of the documentation do not hold either. They are kept as
definitions in their modules, for who wants to run them, and the properties above
are stated so as to hold beside them.

| Definition | What happens |
| --- | --- |
| `EventStream!CloseUnblocks` | `aclose` "also unblocks iteration" (`streams.py:154`), but puts one marker: with two tasks iterating, one stays blocked (198). |
| `TaskDispatch!SubscriptionRemoved` | A cancellation in the inner `finally` of `send` skips the removal of the pending entry and of the response subscription until `close` (`_services/tasks.py:535`, `docs/how-to/dispatch-mesh-tasks.md:59`). |
| `TaskHandlers!NoHandlerStartedAfterClose` | A handler begins after close when the PUBACK of its acknowledgement was recorded in the moment of the cancellation (`_services/tasks.py:709` and 717). |
| `AckLedger!RetiredAwaitsAck` | A subscription cancelled between its callback and the completion retires an identifier whose callback will not come again (`_transport/mqtt.py:1343`, `tests/unit/test_transport_mqtt.py:1709`). |
| `Subscriptions!ReadyMeansConnected` | A SUBACK followed at once by the loss of the connection: the subscriber sets readiness after the supervisor cleared it, and `ready` stays true without a connection (`_transport/mqtt.py:2647` and 1938). |
| `ConnectionOpening!CancellationKept`, `LossIsTold` | A cancellation that comes while the resolver is cleaned up may be replaced by the deadline (354), and a loss before the CONNACK was accepted is noticed at the deadline only (923). |
| `EntityWatchers!ObservedInOrder` | The drain of an older TRACK replaces the newer location that a location message brought meanwhile (`docs/concepts/locations.md:152`). |
| `OperatorView!RecoversSettled` | After the WebSocket was lost, a change of the network strands a review whose confirmation is still on its way and offers its recovery (`operator-app/frontend/src/main.ts:1763` and 630). |
| `VerifyRelease!TypingInstallsLast` | The typing stage "waits on every other installing stage" (`scripts/verify_release.py:4068`), but not on all of them (4065). |

Exceptions stated inside properties: a subscribe cancelled twice leaves readiness
suspended until the next connection (`~escaped`, `_transport/mqtt.py:2443`); a
watcher cancelled with a handle in its hands leaks it (`CancelledInHand`); a
failed start that closed the transport leaves a supervisor that revives nothing
(`Driven`); `start` may end on readiness that was lost in the same turn
(`ReadyIsReal`); a recovery whose retirement is answered, or given up, while its page is
hidden returns and leaves the dialog invalidating (`EndsUnseen` in `DialogWaits`,
`operator-app/frontend/src/main.ts:1468` and 1473).

Three more things a reader of the code may want to know. They are not among the
properties, because the code does not promise otherwise.

* An answer of a handler is published once. When the publication fails or is
  refused, its requester has none until the request is redelivered
  (`_services/tasks.py:753`), and the counted duplicates after one that was refused
  have none either (775). `EveryAnswerTried` therefore says that every accepted
  request has its publication attempted, not that it arrives; `HandledOnce`
  includes that a remembered answer is the one that a redelivery gets.
* `verify_release` reads the policy and the base path (`scripts/verify_release.py:4112`
  to 4117) before it digests the inputs (4124): after a checkout between them a
  release of one commit is held to the policy of another, and nothing notices.
* The commit that the reports name is read (4128) before the worktree is found clean
  (4130). An edit that was there when the inputs were digested, and is committed
  between the two, is released under the name of the commit before it.
  `PromotedIsVerified` is about the commit that the worktree was a clean copy of.

## The proofs

A proof module extends the modules that it is about and TLAPS. Where it is about two
of them, their variables, specifications and invariants have names of their own
(`OperatorSpec`, `StreamSpec`, `LedgerSpec`). The theorems hold for every value of the
constants that satisfies the modules' named assumptions.

* `StreamsAndWatchers_proofs`, about `EventStream`: `TypeCorrect`, `EndsOneWay`,
  `SilentAfterEnding`, `CountIsExact`, `NewestIsKept`, and from the last two
  `NothingIsLost`. `TypeInv` adds to the types when a stream counts as closed.
  `EndInv` says that a terminal marker is alone in the queue and agrees with the
  terminal error, and that no event is queued once an ending was told: without these
  `OneEnding` is not preserved. `CountInv` adds to the sum of returned, queued and
  dropped that an open queue is in order and newer than everything returned, so that
  no event is counted twice.
* The same module, about `EntityWatchers`: `PendingStaysSound`, `NothingIsLeftOwned`,
  `NoTrackGoesBack` and `Types`. `OwnerInv` says of each watcher that a stream
  ended exactly when its cleanup began, that the cleanup takes it out of the open
  watchers for good, and that handles and filters still to open are no more than
  its filters. `OrderInv` says that whoever is pending for a TRACK got nothing of
  its entity that came later; it needs that one TRACK of an entity is pending,
  which only `PendingInv` knows. The bytes pending are a sum over the arrivals, a
  recursive function: `Induction` proves the principle of induction from the
  well-foundedness of finite sets under inclusion, `Recursion` that such a function
  exists, and four lemmas (`SizeGrows`, `SizeLessOne`, `SizeOfNone`,
  `SmallerSize`) how the sum changes with one entry.
* `RequestedTasks_proofs`, about `TaskDispatch`: `TypeCorrect`, `RetryIsSafe`,
  `ImplementsContract`, `CloseLeavesNothing`, `ResponseIsKept`. The invariant `Truth`
  says for every program position what the phase, the futures and the verdict about to
  be told are evidence of; no position can be left out, since the verdict is decided
  several steps before it is told. `Closing` says that a closed service has no
  pending future, and no subscription once `close` has returned;
  `FutureNeedsReply` that only replies are waited for. The refinement maps `fate`
  to itself and `verdict` of ended sends to `told`: a step of the dispatcher is a
  step of the contract or a stutter.
* The same module, about `OperatorTasks`: `LeasesAreSound`, `AcknowledgedStays`,
  `PublishedWasReviewed` and `OperatorInvariant`. `TokenInv` says in which tables a
  token may be at each point of its call, `LeaseInv` whom a lease is there for and that
  it counts its calls, `GoneInv` that nothing is left of a retired generation: a discard
  is only final because the call it would race still has its lease. `SpoiledInv` says of
  a preparation whose conditions have lapsed that a confirmation would still see it;
  since entities, readiness and watchers may recover, this is what a step must take the
  token out of the tables for. What a table keeps when its oldest entries go would be a
  fact about `SelectSeq`, which needs induction; `Picked` is the same sequence by the
  rank of each element, and all that is used of it is proved from that.
* `OneConnection_proofs`, about `AckLedger`: `LedgerTypeCorrect`, `AcksHaveHomes`,
  `AnswersAreOwn`, `HonestIsMatched`, `InvalidAcceptsNothing`. `Structure` says that
  table entries and waiting operations correspond one to one, that only sent packets are
  owed and that idle operations are fresh; `Homes` that, in a sound session, what is
  owed is expected by exactly one table, and that no two owed acknowledgements of
  a table have the same identifier; `Honest` that an operation holds its own
  answer. That every acknowledgement has a home is not inductive alone: it does
  not exclude that two owed acknowledgements share an identifier.
* The same module, about `ConnectionOpening`: `EveryDescriptorIsOwned`,
  `OneSocketAtATime`, `OpeningTypes` and `OpeningInvariant`. `OwnerInv` says in which
  phases the task or Paho owns a socket. `QueueInv` is what is needed beyond it: a
  callback in the queue that is of the present connection and of the newest generation
  still agrees with Paho's wish to write, so that when it runs it watches an open
  descriptor; of older ones nothing may be assumed. `SocketsInv` bounds the sockets of
  an attempt by its addresses.
* `TaskHandlers_proofs`: `NeverInvokedTwice`, `InvokedForArrivals`,
  `OneExecutionOneAnswer`, `TheRightAnswer`, `CloseBeginsNoAnswer` and `Types`. A
  delivery that comes again after the cache forgot it is executed again, so that
  it runs once is a sum and not a fact: `Ledger` says that the invocations, with
  the tasks that have yet to invoke, are at most the times it was forgotten, and
  one more while it is remembered, by the active keys, the cache or a closed
  service. `Agreed` says what is tried is the one right answer until the first time
  it is forgotten, which also needs to be known of the cache and of the dispatcher;
  `Standing` what each stage of a handler task can count on, and `Recorded` that an
  answer of a handler is remembered before it is tried, so that a redelivery finds it.
* `Subscriptions_proofs`: `SubscribedWhileUsable`, `TransientEndsWithItsSession`,
  `SoundAtRest`, `HoldersWait` and `Types`, which includes that one call or the supervisor holds
  the lock. None of them is inductive, for the broker's table changes when a
  request is served and the client's when its answer is read, or never.
  `CallInv`, `RestoringInv` and `ServingInv` say for every stage what the broker
  has that the client has not recorded yet and what is still in the queue;
  `ReadyOwed`, `SubsAwaited` and `FiltersOwed` name who will make up each
  difference, a call on its way, a cleanup, or the session that is ending.
  `HoldersWait` states the part of `NobodyIsStuck` that is about the protocol,
  `HolderAwaits`: whoever holds the lock has a request under way, whose time runs out,
  or something to go on with. `AnswerInv` says which answers can come to which stage.
* `ClientLifecycle_proofs`, about the client with its supervisor: `AlwaysInformed`,
  `AlwaysDriven`, `ReadinessIsReal`, `TheBudgetIsEarned` and `Types`. The lemmas
  about the record of the client come first, one for each callback: what it keeps,
  what it shows and whom it answers, given that nobody waits who was answered.
  `ClosingInv` says that a supervisor is cancelled only while somebody waits for its
  end, the startup task, the cleanup or a `close` that has cancelled both: without
  it a new start could find a cancelled one and run beside it. `LinkInv` says what
  is left of the connection in each place of the supervisor, `ClockInv` that the
  stable period is measured from the readiness that stands, so that a timer of an
  earlier session finds either no readiness or one that is as old. `RestartInv` says
  that the failure a new episode was asked for is still there when the old
  supervisor has ended, and `ClientInv` that the status shown is stale at most while
  a loss is decided and yet to be announced. The theorems hold as far as the model
  goes: until a second supervisor is created (`OneSupervisor`, above) or a request
  is left over for a later failure (`Followed`).
* `VerifyRelease_proofs`, about `VerifyRelease` with `ReleaseStages`, for any graph that
  `_validate_graph` accepts: `PermitsSuffice`, `RunsDrain`, `Promoted` and `Invariant`.
  `RunsInv` counts the permits by the threads that hold one and gives the network one
  owner. That some thread can always go on is shown from the innermost of the stages
  that wait for a run of their own (`SomeoneGoesOn`); that a run leaves nobody behind,
  and that without a failure it has collected every stage, from the first stage in the
  order of the graph of which it would not be true (`AllCollected`). `InputsInv` says
  phase by phase which state of the repository was read: the inputs
  that were digested are not newer than the commit the worktree was a clean copy of,
  and not older either, since they were still there afterwards; and when they are still
  there after the stages, these read nothing else.
* `OperatorView_proofs`: `NothingWasPublished`, `PublicationIsSeen`, `DialogsWait`,
  `ViewTypes` and `ViewInvariant`. A request may be served long after the document gave it up, so the
  invariant is about requests still on their way. `FlowInv` says of every preparation
  whether its confirmation was asked for; what the document says was not published was
  never asked for, or refused. `SeenInv` says that a confirmation on its way is under
  review, or that its generation has lost its lease, and will be refused; it needs
  `RecoveryInv` for the moment in which a recovery lets a review go, and `AcceptedInv`
  for which generations a preparation may belong to. Most functions of the document only
  take away from all this: `Keeps` says so, and is proved once for each of them.
  `DialogsWait` is about steps. It needs to know that a dialog which waits has its own
  request, a retirement of its own recovery, or the binding of its own recovery, whose
  WebSocket is the one that a close gives the review back from (`WaitsInv`); whoever
  opens, loses or refuses a WebSocket would otherwise end a recovery unnoticed.
  `Attends` is to it what `Keeps` is to the first invariant, with one lemma for each
  action that ends a transition.

The inductive invariants were model-checked on the instances of the runs before
they were proved.

What the theorems assume of the constants is what the code has. `KeysAssumption`
and `SlotsAssumption`: there is something to deliver, and there are finitely many
handler tasks, but at least one (`max_outstanding`). `OpsAssumption` and
`PinnedAssumption`: the supervisor is none of the calls, and whoever gives a
connection is one. `OpeningAssumption`, `LimitAssumption` and
`BoundAssumption`: limits, addresses and attempts are positive numbers,
descriptors are numbers, and no payload is larger than the byte limit of the
pending TRACKs, which is chosen that way (`_entity_locations.py:124`).
`FailsAssumption` and `BudgetAssumption`: the phases of an attempt are those of
`_run`, and the budgets are positive (`config.py:99` to 125); a policy without a
budget is one whose bound is not reached.
`TargetsAssumption`, `LimitsArePositive` and `GenerationsAssumption`: a target is an
entity, the tables of the operator's backend have room for one entry, and no generation
is called like the absence of one. `GraphIsValid` is what `_validate_graph` accepts, the
dependencies told by the place in `topological_order`; with `OrderIsFinite`,
`NoStageIsCalled` and `RunIsNotLast` (a stage still works on what its nested run returned,
and does not run it while it holds the network) it holds of the graph of `verify_release.py`,
which TLC confirms. `NoneIsNoToken` keeps null apart from the tokens; the other assumptions
say that bounds are numbers.
`CycleAssumption` is part of the
model of the ledger, not of its proofs: a waiting operation has ended before 65535
more packets are sent, and QoS 0 does not get the identifier of an unanswered
QoS 1 publication (`_transport/mqtt.py:1498` and 1660).

Only model-checked are

* the liveness properties, and the other two parts of `NobodyIsStuck`, that whoever has
  something to go on with has a step: fairness and ENABLED are outside the prover;
* `StagesAreOrdered` and `OutputsAddUp`: they are about what the scripts of one given
  graph read and make, and TLC explores all of it; a theorem for every graph would be
  about another program.

## Not modelled

Whole components: the message dispatcher (`_dispatch` keeps no state; the
services take one message at a time because of it), clock diagnostics and
geodesy (floating point), credentials, profiles, configuration and preflight
(I/O of a single task), wire codecs and models (stateless), workflows, the command
line, the testing mock, and the other scripts (single-threaded tools over files).

Inside the components that are modelled:

* Ledger: the reason codes inside an acknowledgement, and acknowledgements that
  reach the callback within the call into Paho, but for those of QoS 0.
* Handlers: registering and unregistering.
* Opening: the keepalive task, the arithmetic of address deadlines. That
  cancelling `create_subprocess_exec` leaves no process is asyncio's promise.
* Lifecycle: the streams of `connection_events` and the facades of the services.
  A cancelled supervisor is assumed to end within `shutdown_timeout`. A request
  left over by an ended episode may cause one more; that is in the model.
* Watchers: a second cancellation during the cleanup of an opening.
* Operator backend: the hub's queues and broadcasts, the registration limit,
  internal calls without a view, the mock feed, the texts of outcomes.
* Operator frontend: the map, layers and rendering; failures of the storage.
* Release: what the checks look for inside the files; the npm cache, which is
  addressed by content; the publication of the source tree, whose tooling is not
  in the repository; the interruption of a run from the keyboard.
