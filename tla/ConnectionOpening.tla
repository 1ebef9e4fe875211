------------------------ MODULE ConnectionOpening ------------------------
(***************************************************************************)
(* How one attempt of the supervisor opens its connection                  *)
(* (_transport/mqtt.py, _MQTTV5Client.__aenter__): a resolver process, the *)
(* addresses in turn, TCP, TLS, the handing over of the socket to Paho, and*)
(* the wait for the CONNACK; with the callbacks that Paho has the event    *)
(* loop install later, when the socket may be closed and its descriptor    *)
(* another file's; with deadlines, close() and the failure of every phase. *)
(* A step is what runs between two suspensions of the task, or one callback*)
(* of the event loop; the process and the network go their own way.        *)
(***************************************************************************)
EXTENDS Integers, Sequences

CONSTANTS MaxAttempts,   \* bound: attempts, each with a client of its own
          MaxAddresses,  \* addresses a name resolves to (32)
          Descriptors,   \* the file descriptors there are
          MaxWrites      \* bound: packets Paho queues after the CONNECT

ASSUME OpeningAssumption ==
    /\ MaxAttempts \in Nat \ {0} /\ MaxAddresses \in Nat \ {0}
    /\ Descriptors \subseteq Nat \ {0} /\ MaxWrites \in Nat

Clients == 1..MaxAttempts
Sockets == 1..(MaxAttempts * MaxAddresses)

VARIABLES
    endpoint,     \* the host is an address; the connection uses TLS
    pc,           \* idle, spawning, resolving, cleaning, connecting,
                  \* handshaking, connack, open, over
    client,       \* the client of this attempt
    interrupt,    \* the cancellation that is to be delivered, or is under
                  \* way: none, deadline, close
    closing,      \* MQTTTransport._closing
    resolver,     \* the child process: none, running, answered, killed
    left,         \* the addresses after this one
    prepared,     \* the socket the task owns, 0 for none
    used,         \* sockets made so far
    at,           \* the descriptor of each socket, 0 when it is closed
    foreign,      \* the descriptors other code has open
    paho,         \* the socket each client's Paho owns
    opens,        \* _socket_registration_generation
    writes,       \* _socket_write_registration_generation
    writing,      \* Paho has registered its interest in writing
    queue,        \* the callbacks that are to install a reader or writer
    reader,       \* the socket whose callback reads from each descriptor
    writer,
    answer,       \* _connected: pending, accepted, refused
    disconnected, \* _disconnected is done
    queued        \* packets queued after the CONNECT

task == <<pc, interrupt>>
run == <<endpoint, client, closing>>
files == <<at, foreign, used, prepared>>
generations == <<opens, writes>>
loop == <<reader, writer>>
adopted == <<paho, generations, writing>>
futures == <<answer, disconnected>>
vars == <<task, run, resolver, left, files, adopted, queue, loop, futures, queued>>

Busy == {"spawning", "resolving", "connecting", "handshaking", "connack", "open"}

TypeOK ==
    /\ endpoint \in [literal : BOOLEAN, tls : BOOLEAN]
    /\ pc \in Busy \cup {"idle", "cleaning", "over"}
    /\ client \in 0..MaxAttempts /\ closing \in BOOLEAN
    /\ interrupt \in {"none", "deadline", "close"}
    /\ resolver \in {"none", "running", "answered", "killed"}
    /\ left \in 0..MaxAddresses /\ prepared \in Sockets \cup {0}
    /\ used \in Sockets \cup {0} /\ at \in [Sockets -> Descriptors \cup {0}]
    /\ foreign \subseteq Descriptors /\ paho \in [Clients -> Sockets \cup {0}]
    /\ opens \in [Clients -> Nat] /\ writes \in [Clients -> Nat]
    /\ writing \in [Clients -> BOOLEAN] /\ queued \in 0..MaxWrites
    /\ queue \in Seq([what : {"reader", "writer"}, client : Clients,
                      socket : Sockets, at : Descriptors, generation : Nat])
    /\ reader \in [Descriptors -> Sockets \cup {0}]
    /\ writer \in [Descriptors -> Sockets \cup {0}]
    /\ answer \in {"pending", "accepted", "refused"} /\ disconnected \in BOOLEAN

Init ==
    /\ endpoint \in [literal : BOOLEAN, tls : BOOLEAN]
    /\ pc = "idle" /\ client = 0 /\ interrupt = "none" /\ closing = FALSE
    /\ resolver = "none" /\ left = 0 /\ prepared = 0 /\ used = 0
    /\ at = [s \in Sockets |-> 0] /\ foreign = {}
    /\ paho = [c \in Clients |-> 0] /\ opens = [c \in Clients |-> 0]
    /\ writes = [c \in Clients |-> 0] /\ writing = [c \in Clients |-> FALSE]
    /\ queue = <<>> /\ reader = [d \in Descriptors |-> 0]
    /\ writer = [d \in Descriptors |-> 0]
    /\ answer = "pending" /\ disconnected = FALSE /\ queued = 0

----------------------------------------------------------------------------
Here(where) == pc = where /\ interrupt = "none"
Free == Descriptors \ (foreign \cup {at[s] : s \in Sockets})

(* What the event loop watches for the task while it waits for a socket.   *)
Watch(d, s, kind) ==
    IF kind = "read" THEN reader' = [reader EXCEPT ![d] = s] /\ UNCHANGED writer
    ELSE writer' = [writer EXCEPT ![d] = s] /\ UNCHANGED reader
Unwatched(f, d) == IF d = 0 THEN f ELSE [f EXCEPT ![d] = 0]

(* _sock_close of Paho: the interest in writing, the close callback, and   *)
(* then the descriptor.  Both callbacks count the generations on.          *)
PahoCloses ==
    LET c == client s == paho[c] IN
    IF s = 0 THEN UNCHANGED <<at, adopted, loop>>
    ELSE /\ paho' = [paho EXCEPT ![c] = 0] /\ at' = [at EXCEPT ![s] = 0]
         /\ opens' = [opens EXCEPT ![c] = @ + 1]
         /\ writes' = [writes EXCEPT ![c] = @ + IF writing[c] THEN 2 ELSE 1]
         /\ writing' = [writing EXCEPT ![c] = FALSE]
         /\ reader' = [reader EXCEPT ![at[s]] = 0]
         /\ writer' = IF writing[c] THEN [writer EXCEPT ![at[s]] = 0] ELSE writer

ForceDisconnect == PahoCloses /\ disconnected' = TRUE

(* The attempt is over: the task closes what it still owns, and _run calls *)
(* _force_disconnect in the same step.  When it is given up because of     *)
(* close() the supervisor ends.                                            *)
Fails(because) ==
    /\ pc' = (IF because = "close" THEN "over" ELSE "idle") /\ interrupt' = "none"
    /\ prepared' = 0
    /\ IF prepared = 0 THEN ForceDisconnect
       ELSE /\ at' = [at EXCEPT ![prepared] = 0] /\ disconnected' = TRUE
            /\ reader' = Unwatched(reader, at[prepared])
            /\ writer' = Unwatched(writer, at[prepared])
            /\ UNCHANGED adopted

----------------------------------------------------------------------------
(* A defect of MayBegin: the loop of _run relies on its cancellation.      *)
MayBeginAnyway == TRUE
MayBegin == ~closing

(* A socket for the next address; the one before it is closed.             *)
Prepare(n, d) ==
    LET s == used + 1 old == IF prepared = 0 THEN 0 ELSE at[prepared] IN
    /\ pc' = "connecting" /\ interrupt' = "none" /\ left' = n - 1
    /\ used' = s /\ prepared' = s
    /\ at' = [x \in Sockets |-> IF x = s THEN d ELSE IF x = prepared THEN 0 ELSE at[x]]
    /\ reader' = Unwatched(reader, old)
    /\ writer' = [Unwatched(writer, old) EXCEPT ![d] = s]
    /\ UNCHANGED adopted

(* There is none, the deadline has passed, or no descriptor is left.       *)
TryNext(n) ==
    \/ /\ n > 0 /\ UNCHANGED disconnected
       /\ \E d \in Free \cup {at[s] : s \in {prepared} \ {0}} : Prepare(n, d)
    \/ Fails("error") /\ UNCHANGED <<left, used>>

(* A new client; the host is resolved unless it is an address.  Without a  *)
(* descriptor for it the attempt would end where it began.                 *)
Begin ==
    /\ Here("idle") /\ MayBegin /\ client < MaxAttempts
    /\ client' = client + 1
    /\ answer' = "pending" /\ disconnected' = FALSE
    /\ IF endpoint.literal
       THEN \E d \in Free : Prepare(1, d)
       ELSE pc' = "spawning"
            /\ UNCHANGED <<interrupt, left, at, used, prepared, adopted, loop>>
    /\ UNCHANGED <<endpoint, closing, resolver, foreign, queue, queued>>

Stops ==
    /\ pc = "idle" /\ closing /\ pc' = "over" /\ interrupt' = "none"
    /\ UNCHANGED <<run, resolver, left, files, adopted, queue, loop, futures, queued>>

Spawned ==
    /\ Here("spawning") /\ pc' = "resolving" /\ resolver' = "running"
    /\ UNCHANGED <<interrupt, run, left, files, adopted, queue, loop, futures, queued>>

ResolverAnswers ==
    /\ resolver = "running" /\ resolver' = "answered"
    /\ UNCHANGED <<task, run, left, files, adopted, queue, loop, futures, queued>>

(* The answer is decoded, checked and restricted to the addresses the host *)
(* and the reviewed network allow.                                         *)
Resolved(n) ==
    /\ Here("resolving") /\ resolver = "answered"
    /\ TryNext(n) /\ resolver' = "none"
    /\ UNCHANGED <<run, foreign, queue, answer, queued>>

(* No process, a useless answer, or no address that is allowed.            *)
Unresolved ==
    /\ Here("spawning") \/ (Here("resolving") /\ resolver = "answered")
    /\ Fails("error") /\ resolver' = "none"
    /\ UNCHANGED <<run, left, used, foreign, queue, answer, queued>>

(* The process is killed, and reaped for a second at most; no cancellation *)
(* ends that wait.                                                         *)
Kill ==
    /\ pc' = "cleaning"
    /\ resolver' = IF resolver = "running" THEN "killed" ELSE resolver
    /\ UNCHANGED <<interrupt, run, left, files, adopted, queue, loop, futures, queued>>

KillsResolver == pc = "resolving" /\ interrupt # "none" /\ Kill
ExchangeBreaks == Here("resolving") /\ resolver = "running" /\ Kill

Reaped ==
    /\ resolver = "killed" /\ resolver' = "none"
    /\ UNCHANGED <<task, run, left, files, adopted, queue, loop, futures, queued>>

CleanedUp ==
    /\ pc = "cleaning" /\ Fails(interrupt)
    /\ UNCHANGED <<run, resolver, left, used, foreign, queue, answer, queued>>

----------------------------------------------------------------------------
(* The TCP connection stands; the TLS handshake waits for the peer.        *)
Connected(kind) ==
    /\ Here("connecting") /\ endpoint.tls /\ pc' = "handshaking"
    /\ LET d == at[prepared] IN
       IF kind = "read"
       THEN reader' = [reader EXCEPT ![d] = prepared] /\ writer' = [writer EXCEPT ![d] = 0]
       ELSE UNCHANGED loop
    /\ UNCHANGED <<interrupt, run, resolver, left, files, adopted, queue, futures, queued>>

Handshakes(kind) ==
    /\ Here("handshaking")
    /\ LET d == at[prepared] IN
       /\ reader' = [reader EXCEPT ![d] = IF kind = "read" THEN prepared ELSE 0]
       /\ writer' = [writer EXCEPT ![d] = IF kind = "write" THEN prepared ELSE 0]
    /\ UNCHANGED <<task, run, resolver, left, files, adopted, queue, futures, queued>>

(* Refused, broken or late: the next address.  A peer that is not who it   *)
(* should be ends the attempt.                                             *)
AddressFails ==
    /\ Here("connecting") \/ Here("handshaking")
    /\ TryNext(left)
    /\ UNCHANGED <<run, resolver, foreign, queue, answer, queued>>

Install(what, s, d, generation) ==
    [what |-> what, client |-> client, socket |-> s, at |-> d, generation |-> generation]

(* The socket is ready: Paho takes it and queues the CONNECT, from where   *)
(* it may still fail; or fails before it takes it.                         *)
Secured == Here(IF endpoint.tls THEN "handshaking" ELSE "connecting")
Adopted ==
    LET d == at[prepared] IN
    /\ Secured
    /\ pc' = "connack" /\ prepared' = 0
    /\ paho' = [paho EXCEPT ![client] = prepared]
    /\ opens' = [opens EXCEPT ![client] = @ + 1]
    /\ writes' = [writes EXCEPT ![client] = @ + 1]
    /\ writing' = [writing EXCEPT ![client] = TRUE]
    /\ queue' = queue \o <<Install("reader", prepared, d, opens'[client]),
                           Install("writer", prepared, d, writes'[client])>>
    /\ reader' = [reader EXCEPT ![d] = 0] /\ writer' = [writer EXCEPT ![d] = 0]
    /\ UNCHANGED <<interrupt, run, resolver, left, at, used, foreign, futures, queued>>

NotAdopted ==
    LET d == at[prepared] IN
    /\ Secured
    /\ Fails("error")
    /\ queue' \in {queue, queue \o <<Install("reader", prepared, d, opens[client] + 1),
                                     Install("writer", prepared, d, writes[client] + 1)>>}
    /\ UNCHANGED <<run, resolver, left, used, foreign, answer, queued>>

----------------------------------------------------------------------------
(* The callbacks of the event loop.  A reader or a writer is installed for *)
(* the very socket it was asked for, as long as Paho has it.               *)
AnyInstall(h) == TRUE                       \* a defect of Current
Current(h) ==
    /\ h.generation = (IF h.what = "reader" THEN opens ELSE writes)[h.client]
    /\ paho[h.client] = h.socket /\ at[h.socket] = h.at

Installs ==
    LET h == Head(queue) IN
    /\ queue # <<>> /\ queue' = Tail(queue)
    /\ IF Current(h) THEN Watch(h.at, h.socket, IF h.what = "reader" THEN "read" ELSE "write")
       ELSE UNCHANGED loop
    /\ UNCHANGED <<task, run, resolver, left, files, adopted, futures, queued>>

Ours == IF client = 0 THEN 0 ELSE paho[client]
Reads == Ours # 0 /\ reader[at[Ours]] = Ours
Writes == Ours # 0 /\ writer[at[Ours]] = Ours
Calm == UNCHANGED <<task, run, resolver, left, used, prepared, foreign, queue>>

(* Everything is written: Paho takes its interest back.                    *)
Written ==
    /\ Writes
    /\ writing' = [writing EXCEPT ![client] = FALSE]
    /\ writes' = [writes EXCEPT ![client] = @ + 1]
    /\ writer' = [writer EXCEPT ![at[Ours]] = 0]
    /\ Calm /\ UNCHANGED <<at, paho, opens, reader, futures, queued>>

Queues ==
    /\ pc = "open" /\ Ours # 0 /\ ~writing[client] /\ queued < MaxWrites
    /\ queued' = queued + 1
    /\ writing' = [writing EXCEPT ![client] = TRUE]
    /\ writes' = [writes EXCEPT ![client] = @ + 1]
    /\ queue' = Append(queue, Install("writer", Ours, at[Ours], writes'[client]))
    /\ UNCHANGED <<task, run, resolver, left, files, paho, opens, loop, futures>>

(* The task is woken before the loop looks at the socket again.            *)
Unread == answer = "pending" \/ pc = "open"

ConnackAccepted ==
    /\ Reads /\ answer = "pending" /\ answer' = "accepted"
    /\ Calm /\ UNCHANGED <<at, adopted, loop, disconnected, queued>>

(* Refused, malformed, with a session, or with a reference to another      *)
(* server, which alone disconnects by itself.                              *)
ConnackRefused ==
    /\ Reads /\ answer = "pending" /\ answer' = "refused"
    /\ PahoCloses /\ disconnected' \in BOOLEAN
    /\ Calm /\ UNCHANGED queued

(* Before the CONNACK a lost connection is not told: the wait for the      *)
(* CONNACK runs into its deadline.                                         *)
ConnectionLost ==
    /\ Reads \/ Writes
    /\ Unread
    /\ PahoCloses /\ disconnected' = (disconnected \/ answer = "accepted")
    /\ Calm /\ UNCHANGED <<answer, queued>>

(* TLS may have decrypted both before the callback returns.                *)
AcceptedAndLost ==
    /\ Reads /\ endpoint.tls /\ answer = "pending" /\ answer' = "accepted"
    /\ PahoCloses /\ disconnected' = TRUE
    /\ Calm /\ UNCHANGED queued

(* The connection is used; a loss that was already told is forgotten.      *)
Opened ==
    /\ Here("connack") /\ answer = "accepted"
    /\ pc' = "open" /\ disconnected' = FALSE
    /\ UNCHANGED <<interrupt, run, resolver, left, files, adopted, queue, loop, answer, queued>>

NotOpened ==
    /\ Here("connack") /\ answer # "accepted"
    /\ Fails("error")
    /\ UNCHANGED <<run, resolver, left, used, foreign, queue, answer, queued>>

(* The session ends, whoever noticed.                                      *)
Ends ==
    /\ Here("open") /\ Fails("error")
    /\ UNCHANGED <<run, resolver, left, used, foreign, queue, answer, queued>>

----------------------------------------------------------------------------
(* close() and the deadline of the phase cancel the task; one that comes   *)
(* while the resolver is cleaned up is taken back, and a deadline that     *)
(* expired then turns what is raised into its timeout.                     *)
Close ==
    /\ ~closing /\ pc # "over" /\ closing' = TRUE
    /\ interrupt' = IF pc \in Busy \/ (pc = "cleaning" /\ interrupt = "none")
                    THEN "close" ELSE interrupt
    /\ UNCHANGED <<pc, endpoint, client, resolver, left, files, adopted, queue, loop,
                   futures, queued>>

Deadline ==
    /\ \/ pc \in Busy \ {"open"} /\ interrupt = "none"
       \/ pc = "cleaning" /\ interrupt # "deadline"
    /\ interrupt' = "deadline"
    /\ UNCHANGED <<pc, run, resolver, left, files, adopted, queue, loop, futures, queued>>

Interrupted ==
    /\ interrupt # "none" /\ pc \in Busy \ {"resolving"}
    /\ Fails(interrupt)
    /\ UNCHANGED <<run, resolver, left, used, foreign, queue, answer, queued>>

(* Other code of the program opens and closes files.                       *)
ForeignFile ==
    /\ \/ \E d \in Free : foreign' = foreign \cup {d}
       \/ \E d \in foreign : foreign' = foreign \ {d}
    /\ UNCHANGED <<task, run, resolver, left, at, used, prepared, adopted, queue, loop,
                   futures, queued>>

Next ==
    \/ Begin \/ Stops \/ Spawned \/ ResolverAnswers \/ Unresolved \/ ExchangeBreaks
    \/ KillsResolver \/ Reaped \/ CleanedUp \/ Opened \/ NotOpened \/ Interrupted
    \/ (\E n \in 1..MaxAddresses : Resolved(n)) \/ AddressFails
    \/ (\E kind \in {"read", "write"} : Connected(kind) \/ Handshakes(kind))
    \/ Adopted \/ NotAdopted \/ Installs \/ Written \/ Queues
    \/ ConnackAccepted \/ ConnackRefused \/ ConnectionLost \/ AcceptedAndLost
    \/ Ends \/ Close \/ Deadline \/ ForeignFile

(* A cancelled task is resumed, and the cleanup of the resolver is bounded.*)
Spec == Init /\ [][Next]_vars
FairSpec == Spec /\ WF_vars(Stops \/ KillsResolver \/ CleanedUp \/ Interrupted)

----------------------------------------------------------------------------
(* What the event loop watches is a socket that is open at that very       *)
(* descriptor, never one that was closed or a file that took its place.    *)
WatchesItsOwn ==
    \A d \in Descriptors : \A s \in {reader[d], writer[d]} \ {0} : at[s] = d

(* Every open socket has an owner that will close it, and the resolver     *)
(* runs only while the task waits for it, however the attempt ended.       *)
HasOwner ==
    /\ \A s \in Sockets : at[s] # 0 => s = prepared \/ s = Ours
    /\ prepared # 0 => pc \in {"connecting", "handshaking"}
    /\ Ours # 0 => pc \in {"connack", "open"}
    /\ resolver = "running" => pc = "resolving"

DescriptorsAreOwned == WatchesItsOwn /\ HasOwner

(* A close ends the supervisor, although a cancellation that comes while   *)
(* the resolver is cleaned up may be lost to the deadline.                 *)
CloseIsHeard == closing ~> pc = "over"

(* "so cancellation is never lost" (_terminate_resolver_process): what is  *)
(* raised to the supervisor that is being closed is its cancellation.      *)
CancellationKept == [][closing /\ pc = "cleaning" /\ pc' # "cleaning" => pc' = "over"]_vars

(* "wake aiomqtt's iterator": an open connection whose socket is closed is *)
(* told to whoever reads from it.                                          *)
LossIsTold == pc = "open" /\ Ours = 0 => disconnected
=============================================================================
