------------------------ MODULE OneConnection_proofs ------------------------
(***************************************************************************)
(* One connection of the MQTT transport: first AckLedger, what becomes of   *)
(* its acknowledgements, then ConnectionOpening, how it came about.         *)
(*                                                                         *)
(* AckLedger, for any set of operations, any size of the identifier space   *)
(* and any number of made-up acknowledgements: the tables, that every       *)
(* acknowledgement of an honest broker has one home, that an operation is   *)
(* completed by its own acknowledgement, and that an invalidated session    *)
(* reports no publication as accepted.                                      *)
(*                                                                         *)
(* ConnectionOpening, for any number of attempts, addresses, descriptors    *)
(* and packets: the types, and that the event loop watches and the task     *)
(* owns exactly what is open.  The inductive invariant says who has a       *)
(* socket in which phase, that Paho's interest in writing is known whenever *)
(* its socket is watched for it, and that of the callbacks in the queue     *)
(* only the newest of the client whose connection stands can still bring    *)
(* that about.                                                              *)
(***************************************************************************)
EXTENDS AckLedger, ConnectionOpening, SequenceTheorems, TLAPS

(* The conjuncts of LedgerTypes that are types.                                 *)
TableTypes ==
    /\ kind \in [Ops -> Kinds] /\ mid \in [Ops -> 0..MaxMid]
    /\ stage \in [Ops -> {"idle", "waiting", "done"}]
    /\ ack \in [Ops -> {"none", "read", "value", "failed"}]
    /\ got \in [Ops -> Ops \cup {NoOp}]
    /\ cancel \in [Ops -> {"no", "early", "late"}]
    /\ outcome \in [Ops -> {"none", "answered", "unknown", "not_sent"}]
    /\ lastMid \in 0..MaxMid /\ inUse \subseteq Mids
    /\ pend \in [Tables -> [Mids -> Ops \cup {NoOp}]]
    /\ retired \in [Tables -> SUBSET Mids]
    /\ owed \subseteq [kind : Kinds, mid : Mids, op : Ops]
    /\ failure \in {"none", "unmatched", "reused"} /\ down \in BOOLEAN
    /\ forged \in 0..MaxForged

(* A table entry and the operation that waits for it name each other.      *)
EntryOfWaiter ==
    \A t \in Tables, m \in Mids : pend[t][m] # NoOp =>
        stage[pend[t][m]] = "waiting" /\ mid[pend[t][m]] = m
        /\ Table(kind[pend[t][m]]) = t
WaiterHasEntry ==
    \A o \in Ops : stage[o] = "waiting" =>
        mid[o] \in Mids /\ pend[Table(kind[o])][mid[o]] = o

(* What is owed is owed to an operation of this session, which was sent.   *)
OwedWasSent ==
    \A a \in owed : /\ ~down /\ stage[a.op] # "idle"
                    /\ a.kind = kind[a.op] /\ a.mid = mid[a.op]

(* While the session is sound: every acknowledgement has its home, a       *)
(* waiter whose acknowledgement is owed has not been answered, Paho knows  *)
(* every publication, and no two share an identifier within a table.       *)
Sound == forged = 0 /\ failure = "none"
Home(a) ==
    IF stage[a.op] = "waiting"
    THEN pend[Table(a.kind)][a.mid] = a.op /\ a.mid \notin retired[Table(a.kind)]
    ELSE a.mid \in retired[Table(a.kind)]
Expected(a) == /\ stage[a.op] = "waiting" => ack[a.op] = "none"
               /\ a.kind = "pub1" => a.mid \in inUse
Distinct(a, b) == Table(a.kind) = Table(b.kind) /\ a.mid = b.mid => a = b
Homes == Sound => \A a \in owed :
            Home(a) /\ Expected(a) /\ \A b \in owed : Distinct(a, b)

(* What an operation got is its own.                                       *)
Own(o) == (ack[o] \in {"read", "value"} \/ outcome[o] = "answered") => got[o] = o
Honest == forged = 0 => failure # "unmatched" /\ \A o \in Ops : Own(o)

(* An operation that does not wait has no future.                          *)
Fresh == \A o \in Ops : stage[o] # "waiting" => ack[o] = "none"

Structure == TableTypes /\ EntryOfWaiter /\ WaiterHasEntry /\ OwedWasSent /\ Fresh
LedgerInv == Structure /\ Homes /\ Honest

----------------------------------------------------------------------------
LEMMA NextMidIsMid == TableTypes => NextMid \in Mids
BY MaxMidAssumption DEF TableTypes, NextMid, Mids

LEMMA TableIsTable == \A k \in Kinds : Table(k) \in Tables
BY DEF Kinds, Tables, Table

(* The call: types of what it assigns.                                     *)
LEMMA CallType ==
    ASSUME TableTypes, NEW o \in Ops, NEW k \in Kinds, Call(o, k)
    PROVE  kind' \in [Ops -> Kinds] /\ mid' \in [Ops -> 0..MaxMid]
           /\ lastMid' \in 0..MaxMid
BY NextMidIsMid DEF Call, TableTypes, Mids

LEMMA EndedType ==
    ASSUME TableTypes, NEW o \in Ops, NEW r \in {"answered", "unknown", "not_sent"},
           Ended(o, r)
    PROVE  /\ stage' \in [Ops -> {"idle", "waiting", "done"}]
           /\ outcome' \in [Ops -> {"none", "answered", "unknown", "not_sent"}]
           /\ ack' \in [Ops -> {"none", "read", "value", "failed"}]
           /\ cancel' \in [Ops -> {"no", "early", "late"}]
BY DEF Ended, TableTypes

LEMMA SentType ==
    ASSUME TableTypes, NEW o \in Ops, NEW k \in Kinds, PacketSent(o, k)
    PROVE  owed' \subseteq [kind : Kinds, mid : Mids, op : Ops] /\ inUse' \subseteq Mids
BY NextMidIsMid DEF PacketSent, TableTypes

LEMMA ForgetType ==
    ASSUME TableTypes, NEW o \in Ops, Forget(o)
    PROVE  pend' \in [Tables -> [Mids -> Ops \cup {NoOp}]]
BY TableIsTable DEF Forget, TableTypes

LEMMA RetireType ==
    ASSUME TableTypes, NEW o \in Ops, mid[o] \in Mids, Retire(o)
    PROVE  retired' \in [Tables -> SUBSET Mids]
<1>1. CASE UNCHANGED retired
    BY <1>1 DEF TableTypes
<1>2. CASE retired' = [retired EXCEPT ![Table(kind[o])] = @ \cup {mid[o]}]
    BY <1>2 DEF TableTypes
<1>3. QED
    BY <1>1, <1>2 DEF Retire

LEMMA ReadsType ==
    ASSUME TableTypes, NEW t \in Tables, NEW m \in Mids, NEW q \in BOOLEAN,
           NEW from \in Ops \cup {NoOp}, ReadsAck(t, m, q, from)
    PROVE  /\ inUse' \subseteq Mids /\ retired' \in [Tables -> SUBSET Mids]
           /\ ack' \in [Ops -> {"none", "read", "value", "failed"}]
           /\ got' \in [Ops -> Ops \cup {NoOp}]
           /\ failure' \in {"none", "unmatched", "reused"}
<1>1. inUse' \subseteq Mids
    BY DEF ReadsAck, TableTypes
<1>2. CASE Invalidate("unmatched") /\ UNCHANGED <<retired, ack, got>>
    BY <1>1, <1>2 DEF TableTypes, Invalidate
<1>3. CASE Callback(t, m, from)
    <2>1. retired' \in [Tables -> SUBSET Mids]
        BY <1>3 DEF Callback, TableTypes
    <2>2. failure' \in {"none", "unmatched", "reused"}
        BY <1>3 DEF Callback, TableTypes, Invalidate
    <2>3. ack' \in [Ops -> {"none", "read", "value", "failed"}]
          /\ got' \in [Ops -> Ops \cup {NoOp}]
        BY <1>3 DEF Callback, TableTypes
    <2>4. QED
        BY <1>1, <2>1, <2>2, <2>3
<1>4. QED
    BY <1>2, <1>3 DEF ReadsAck

LEMMA TypeStep == Structure /\ [LedgerNext]_ledgerVars => TableTypes'
<1> SUFFICES ASSUME Structure, [LedgerNext]_ledgerVars PROVE TableTypes'
    OBVIOUS
<1> USE DEF Structure, operation, session
<1>1. ASSUME NEW o \in Ops, NEW k \in Kinds, SendRefused(o, k) PROVE TableTypes'
    <2>1. retired' \in [Tables -> SUBSET Mids]
        BY <1>1, NextMidIsMid DEF SendRefused, TableTypes, Tables
    <2>2. QED
        BY <1>1, <2>1, CallType, EndedType DEF SendRefused, TableTypes
<1>2. ASSUME NEW o \in Ops, NEW k \in Kinds, SendAmbiguous(o, k) PROVE TableTypes'
    BY <1>2, CallType, EndedType, SentType
    DEF SendAmbiguous, HandsOver, Invalidate, TableTypes
<1>3. ASSUME NEW o \in Ops, NEW k \in Kinds, SendWaits(o, k) PROVE TableTypes'
    <2>1. pend' \in [Tables -> [Mids -> Ops \cup {NoOp}]]
        BY <1>3, TableIsTable, NextMidIsMid DEF SendWaits, TableTypes
    <2>2. QED
        BY <1>3, <2>1, CallType, SentType DEF SendWaits, HandsOver, TableTypes
<1>4. ASSUME NEW o \in Ops, SendAtOnce(o) PROVE TableTypes'
    <2>1. retired' \in [Tables -> SUBSET Mids] /\ got' \in [Ops -> Ops \cup {NoOp}]
        BY <1>4 DEF SendAtOnce, TableTypes
    <2>2. QED
        BY <1>4, <2>1, CallType, EndedType DEF SendAtOnce, HandsOver, TableTypes, Kinds
<1>5. ASSUME NEW o \in Ops, Cancel(o) \/ Complete(o) PROVE TableTypes'
    <2>1. CASE Cancel(o)
        BY <2>1 DEF Cancel, TableTypes
    <2>2. CASE Complete(o)
        BY <2>2 DEF Complete, TableTypes
    <2>3. QED
        BY <1>5, <2>1, <2>2
<1>6. ASSUME NEW o \in Ops, Answered(o) PROVE TableTypes'
    BY <1>6, ForgetType, EndedType DEF Answered, TableTypes
<1>7. ASSUME NEW o \in Ops, GiveUp(o) PROVE TableTypes'
    <2>1. mid[o] \in Mids
        BY <1>7 DEF GiveUp, WaiterHasEntry
    <2>2. QED
        BY <1>7, <2>1, ForgetType, RetireType, EndedType DEF GiveUp, TableTypes
<1>8. ASSUME NEW a \in owed, AckRead(a) PROVE TableTypes'
    <2>1. Table(a.kind) \in Tables /\ a.mid \in Mids /\ a.op \in Ops
        BY TableIsTable DEF TableTypes
    <2>2. (a.kind = "pub1") \in BOOLEAN
        OBVIOUS
    <2>3. owed' \subseteq [kind : Kinds, mid : Mids, op : Ops]
        BY <1>8 DEF AckRead, TableTypes
    <2>4. ReadsAck(Table(a.kind), a.mid, a.kind = "pub1", a.op)
        BY <1>8 DEF AckRead
    <2>5. /\ inUse' \subseteq Mids /\ retired' \in [Tables -> SUBSET Mids]
          /\ ack' \in [Ops -> {"none", "read", "value", "failed"}]
          /\ got' \in [Ops -> Ops \cup {NoOp}]
          /\ failure' \in {"none", "unmatched", "reused"}
        BY <2>1, <2>2, <2>4, ReadsType
    <2>6. QED
        BY <1>8, <2>3, <2>5 DEF AckRead, TableTypes
<1>9. ASSUME NEW t \in Tables, NEW m \in Mids, ForgedAck(t, m) PROVE TableTypes'
    <2>1. ReadsAck(t, m, t = "pub", NoOp) /\ (t = "pub") \in BOOLEAN
        BY <1>9 DEF ForgedAck
    <2>2. /\ inUse' \subseteq Mids /\ retired' \in [Tables -> SUBSET Mids]
          /\ ack' \in [Ops -> {"none", "read", "value", "failed"}]
          /\ got' \in [Ops -> Ops \cup {NoOp}]
          /\ failure' \in {"none", "unmatched", "reused"}
        BY <2>1, ReadsType
    <2>3. forged' \in 0..MaxForged
        BY <1>9, MaxForgedAssumption DEF ForgedAck, TableTypes
    <2>4. QED
        BY <1>9, <2>2, <2>3 DEF ForgedAck, TableTypes
<1>10. CASE SessionEnds
    <2>1. ack' \in [Ops -> {"none", "read", "value", "failed"}]
        BY <1>10 DEF SessionEnds, TableTypes
    <2>2. retired' \in [Tables -> SUBSET Mids]
        BY <1>10 DEF SessionEnds, TableTypes
    <2>3. QED
        BY <1>10, <2>1, <2>2 DEF SessionEnds, TableTypes
<1>11. CASE MalformedAck
    BY <1>11, MaxForgedAssumption DEF MalformedAck, Invalidate, TableTypes
<1>12. CASE UNCHANGED ledgerVars
    BY <1>12 DEF ledgerVars, TableTypes
<1>13. QED
    BY <1>1, <1>2, <1>3, <1>4, <1>5, <1>6, <1>7, <1>8, <1>9, <1>10, <1>11, <1>12
    DEF LedgerNext, Step, ApplyFailure, Disconnect

----------------------------------------------------------------------------
(* The tables and the waiters name each other.  A call that ends at once   *)
(* leaves both as they are, for the operation was idle.                    *)
LEMMA EndedCallKeepsLinks ==
    ASSUME Structure, NEW o \in Ops, NEW k \in Kinds, Call(o, k),
           stage' = [stage EXCEPT ![o] = "done"], UNCHANGED pend
    PROVE  EntryOfWaiter' /\ WaiterHasEntry'
<1>1. stage[o] = "idle"
    BY DEF Call
<1>2. ASSUME NEW p \in Ops, stage[p] = "waiting"
      PROVE  stage'[p] = "waiting" /\ mid'[p] = mid[p] /\ kind'[p] = kind[p]
    BY <1>1, <1>2 DEF Call, Structure, TableTypes
<1>3. ASSUME NEW p \in Ops, stage'[p] = "waiting"
      PROVE  stage[p] = "waiting"
    BY <1>3 DEF Structure, TableTypes
<1>4. EntryOfWaiter'
    BY <1>2 DEF Structure, TableTypes, EntryOfWaiter
<1>5. WaiterHasEntry'
    BY <1>2, <1>3 DEF Structure, TableTypes, WaiterHasEntry
<1>6. QED
    BY <1>4, <1>5

(* Ending a waiter removes exactly its own entry.                          *)
LEMMA ForgetKeepsLinks ==
    ASSUME Structure, NEW o \in Ops, stage[o] = "waiting", Forget(o),
           stage' = [stage EXCEPT ![o] = "done"], UNCHANGED <<kind, mid>>
    PROVE  EntryOfWaiter' /\ WaiterHasEntry'
<1>1. mid[o] \in Mids /\ Table(kind[o]) \in Tables
      /\ pend[Table(kind[o])][mid[o]] = o
    BY TableIsTable DEF Structure, TableTypes, WaiterHasEntry
<1>2. ASSUME NEW t \in Tables, NEW m \in Mids
      PROVE  pend'[t][m] = IF t = Table(kind[o]) /\ m = mid[o] THEN NoOp
                           ELSE pend[t][m]
    BY <1>1 DEF Forget, Structure, TableTypes
<1>3. ASSUME NEW t \in Tables, NEW m \in Mids, pend'[t][m] # NoOp
      PROVE  /\ stage'[pend'[t][m]] = "waiting"
             /\ mid'[pend'[t][m]] = m /\ Table(kind'[pend'[t][m]]) = t
    <2>1. pend'[t][m] = pend[t][m] /\ ~(t = Table(kind[o]) /\ m = mid[o])
        BY <1>2, <1>3
    <2>2. pend[t][m] \in Ops /\ pend[t][m] # o
        BY <1>3, <2>1 DEF Structure, TableTypes, EntryOfWaiter
    <2>3. QED
        BY <1>3, <2>1, <2>2 DEF Structure, TableTypes, EntryOfWaiter
<1>4. ASSUME NEW p \in Ops, stage'[p] = "waiting"
      PROVE  mid'[p] \in Mids /\ pend'[Table(kind'[p])][mid'[p]] = p
    <2>1. p # o /\ stage[p] = "waiting"
        BY <1>4 DEF Structure, TableTypes
    <2>2. mid[p] \in Mids /\ Table(kind[p]) \in Tables
          /\ pend[Table(kind[p])][mid[p]] = p
        BY <2>1, TableIsTable DEF Structure, TableTypes, WaiterHasEntry
    <2>3. QED
        BY <1>1, <1>2, <2>1, <2>2
<1>5. QED
    BY <1>3, <1>4 DEF EntryOfWaiter, WaiterHasEntry

LEMMA LinkStep == Structure /\ [LedgerNext]_ledgerVars => EntryOfWaiter' /\ WaiterHasEntry'
<1> SUFFICES ASSUME Structure, [LedgerNext]_ledgerVars PROVE EntryOfWaiter' /\ WaiterHasEntry'
    OBVIOUS
<1> USE DEF operation, session
<1>1. ASSUME NEW o \in Ops, NEW k \in Kinds, SendRefused(o, k) \/ SendAmbiguous(o, k)
      PROVE  EntryOfWaiter' /\ WaiterHasEntry'
    <2>1. Call(o, k) /\ stage' = [stage EXCEPT ![o] = "done"] /\ UNCHANGED pend
        BY <1>1 DEF SendRefused, SendAmbiguous, HandsOver, Ended
    <2>2. QED
        BY <2>1, EndedCallKeepsLinks
<1>2. ASSUME NEW o \in Ops, SendAtOnce(o) PROVE EntryOfWaiter' /\ WaiterHasEntry'
    <2>1. Call(o, "pub0") /\ stage' = [stage EXCEPT ![o] = "done"] /\ UNCHANGED pend
          /\ "pub0" \in Kinds
        BY <1>2 DEF SendAtOnce, HandsOver, Ended, Kinds
    <2>2. QED
        BY <2>1, EndedCallKeepsLinks
<1>3. ASSUME NEW o \in Ops, NEW k \in Kinds, SendWaits(o, k)
      PROVE  EntryOfWaiter' /\ WaiterHasEntry'
    <2>1. stage[o] = "idle" /\ NextMid \in Mids /\ Table(k) \in Tables
          /\ pend[Table(k)][NextMid] = NoOp
        BY <1>3, NextMidIsMid, TableIsTable
        DEF SendWaits, HandsOver, Call, CycleAssumption, Structure
    <2>2. /\ kind' = [kind EXCEPT ![o] = k] /\ mid' = [mid EXCEPT ![o] = NextMid]
          /\ stage' = [stage EXCEPT ![o] = "waiting"]
        BY <1>3 DEF SendWaits, HandsOver, Call
    <2>3. ASSUME NEW t \in Tables, NEW m \in Mids
          PROVE  pend'[t][m] = IF t = Table(k) /\ m = NextMid THEN o ELSE pend[t][m]
        BY <1>3, <2>1 DEF SendWaits, Structure, TableTypes
    <2>4. ASSUME NEW t \in Tables, NEW m \in Mids, pend'[t][m] # NoOp
          PROVE  /\ stage'[pend'[t][m]] = "waiting"
                 /\ mid'[pend'[t][m]] = m /\ Table(kind'[pend'[t][m]]) = t
        <3>1. CASE t = Table(k) /\ m = NextMid
            BY <3>1, <2>2, <2>3 DEF Structure, TableTypes
        <3>2. CASE ~(t = Table(k) /\ m = NextMid)
            <4>1. pend'[t][m] = pend[t][m] /\ pend[t][m] \in Ops
                BY <3>2, <2>3, <2>4 DEF Structure, TableTypes
            <4>2. stage[pend[t][m]] = "waiting" /\ mid[pend[t][m]] = m
                  /\ Table(kind[pend[t][m]]) = t
                BY <2>4, <4>1 DEF Structure, EntryOfWaiter
            <4>3. QED
                BY <2>1, <2>2, <4>1, <4>2 DEF Structure, TableTypes
        <3>3. QED
            BY <3>1, <3>2
    <2>5. ASSUME NEW p \in Ops, stage'[p] = "waiting"
          PROVE  mid'[p] \in Mids /\ pend'[Table(kind'[p])][mid'[p]] = p
        <3>1. CASE p = o
            BY <3>1, <2>1, <2>2, <2>3 DEF Structure, TableTypes
        <3>2. CASE p # o
            <4>1. stage[p] = "waiting" /\ mid'[p] = mid[p] /\ kind'[p] = kind[p]
                BY <3>2, <2>2, <2>5 DEF Structure, TableTypes
            <4>2. mid[p] \in Mids /\ Table(kind[p]) \in Tables
                  /\ pend[Table(kind[p])][mid[p]] = p
                BY <4>1, TableIsTable DEF Structure, TableTypes, WaiterHasEntry
            <4>3. p # NoOp
                BY OpsAssumption
            <4>4. QED
                BY <2>1, <2>3, <4>1, <4>2, <4>3
        <3>3. QED
            BY <3>1, <3>2
    <2>6. QED
        BY <2>4, <2>5 DEF EntryOfWaiter, WaiterHasEntry
<1>4. ASSUME NEW o \in Ops, Answered(o) \/ GiveUp(o)
      PROVE  EntryOfWaiter' /\ WaiterHasEntry'
    <2>1. stage[o] = "waiting" /\ Forget(o) /\ UNCHANGED <<kind, mid>>
          /\ stage' = [stage EXCEPT ![o] = "done"]
        BY <1>4 DEF Answered, GiveUp, Ended
    <2>2. QED
        BY <2>1, ForgetKeepsLinks
<1>5. CASE UNCHANGED <<kind, mid, stage, pend>>
    BY <1>5 DEF Structure, EntryOfWaiter, WaiterHasEntry
<1>6. QED
    BY <1>1, <1>2, <1>3, <1>4, <1>5
    DEF LedgerNext, Step, ApplyFailure, Disconnect, SessionEnds, AckRead, ForgedAck,
        MalformedAck, Cancel, Complete, ledgerVars

(* Nothing is owed on a connection that is gone, nor to an idle operation. *)
LEMMA OwedStep == Structure /\ [LedgerNext]_ledgerVars => OwedWasSent'
<1> SUFFICES ASSUME Structure, [LedgerNext]_ledgerVars PROVE OwedWasSent'
    OBVIOUS
<1> USE DEF Structure, operation, session
<1>1. ASSUME NEW o \in Ops, NEW k \in Kinds,
             SendRefused(o, k) \/ SendAmbiguous(o, k) \/ SendWaits(o, k)
      PROVE  OwedWasSent'
    <2>1. stage[o] = "idle" /\ stage'[o] # "idle" /\ kind'[o] = k /\ mid'[o] = NextMid
        BY <1>1 DEF SendRefused, SendAmbiguous, SendWaits, HandsOver, Call, Ended, TableTypes
    <2>2. \A p \in Ops : p # o =>
              stage'[p] = stage[p] /\ kind'[p] = kind[p] /\ mid'[p] = mid[p]
        BY <1>1 DEF SendRefused, SendAmbiguous, SendWaits, HandsOver, Call, Ended, TableTypes
    <2>3. ASSUME NEW a \in owed
          PROVE  /\ a.op \in Ops /\ a.op # o /\ ~down /\ stage'[a.op] # "idle"
                 /\ a.kind = kind'[a.op] /\ a.mid = mid'[a.op]
        BY <2>1, <2>2 DEF OwedWasSent, TableTypes
    <2>4. CASE owed' = owed /\ down' = down
        BY <2>3, <2>4 DEF OwedWasSent
    <2>5. CASE ~down' /\ owed' = owed \cup {[kind |-> k, mid |-> NextMid, op |-> o]}
        BY <2>1, <2>3, <2>5 DEF OwedWasSent
    <2>6. QED
        BY <1>1, <2>4, <2>5 DEF SendRefused, SendAmbiguous, SendWaits, HandsOver, PacketSent
<1>2. ASSUME NEW o \in Ops, SendAtOnce(o) PROVE OwedWasSent'
    <2>1. stage[o] = "idle" /\ stage'[o] # "idle"
        BY <1>2 DEF SendAtOnce, HandsOver, Call, Ended, TableTypes
    <2>2. \A p \in Ops : p # o =>
              stage'[p] = stage[p] /\ kind'[p] = kind[p] /\ mid'[p] = mid[p]
        BY <1>2 DEF SendAtOnce, HandsOver, Call, Ended, TableTypes
    <2>3. owed' = owed /\ down' = down
        BY <1>2 DEF SendAtOnce
    <2>4. QED
        BY <2>1, <2>2, <2>3 DEF OwedWasSent, TableTypes
<1>3. ASSUME NEW o \in Ops, Answered(o) \/ GiveUp(o) PROVE OwedWasSent'
    BY <1>3 DEF Answered, GiveUp, Ended, OwedWasSent, TableTypes
<1>4. ASSUME NEW a \in owed, AckRead(a) PROVE OwedWasSent'
    BY <1>4 DEF AckRead, OwedWasSent
<1>5. CASE SessionEnds
    BY <1>5 DEF SessionEnds, OwedWasSent
<1>6. CASE UNCHANGED <<kind, mid, stage, owed, down>>
    BY <1>6 DEF OwedWasSent
<1>7. QED
    BY <1>1, <1>2, <1>3, <1>4, <1>5, <1>6
    DEF LedgerNext, Step, ApplyFailure, Disconnect, ForgedAck, MalformedAck, Cancel, Complete, ledgerVars

LEMMA FreshStep == Structure /\ [LedgerNext]_ledgerVars => Fresh'
<1> SUFFICES ASSUME Structure, [LedgerNext]_ledgerVars PROVE Fresh'
    OBVIOUS
<1> USE DEF Structure, operation, session
<1>1. ASSUME NEW o \in Ops, NEW r, Ended(o, r) PROVE Fresh'
    BY <1>1 DEF Ended, Fresh, TableTypes
<1>2. ASSUME NEW o \in Ops, NEW k \in Kinds, SendWaits(o, k) PROVE Fresh'
    BY <1>2 DEF SendWaits, Fresh, TableTypes
<1>3. ASSUME NEW o \in Ops, Cancel(o) \/ Complete(o) PROVE Fresh'
    BY <1>3 DEF Cancel, Complete, Fresh, TableTypes
<1>4. ASSUME NEW t \in Tables, NEW m \in Mids, NEW q \in BOOLEAN, NEW from,
             ReadsAck(t, m, q, from), UNCHANGED stage
      PROVE  Fresh'
    <2>1. CASE UNCHANGED ack
        BY <1>4, <2>1 DEF Fresh
    <2>2. CASE pend[t][m] # NoOp /\ ack' = [ack EXCEPT ![pend[t][m]] = "read"]
        BY <1>4, <2>2 DEF Fresh, TableTypes, EntryOfWaiter
    <2>3. QED
        BY <1>4, <2>1, <2>2 DEF ReadsAck, Callback
<1>5. ASSUME NEW a \in owed, AckRead(a) PROVE Fresh'
    <2>1. Table(a.kind) \in Tables /\ a.mid \in Mids /\ (a.kind = "pub1") \in BOOLEAN
        BY TableIsTable DEF TableTypes
    <2>2. ReadsAck(Table(a.kind), a.mid, a.kind = "pub1", a.op) /\ UNCHANGED stage
        BY <1>5 DEF AckRead
    <2>3. QED
        BY <1>4, <2>1, <2>2
<1>6. ASSUME NEW t \in Tables, NEW m \in Mids, ForgedAck(t, m) PROVE Fresh'
    <2>1. ReadsAck(t, m, t = "pub", NoOp) /\ UNCHANGED stage /\ (t = "pub") \in BOOLEAN
        BY <1>6 DEF ForgedAck
    <2>2. QED
        BY <1>4, <2>1
<1>7. CASE SessionEnds
    BY <1>7 DEF SessionEnds, Fresh, TableTypes
<1>8. CASE UNCHANGED ledgerVars \/ MalformedAck
    BY <1>8 DEF ledgerVars, MalformedAck, Fresh
<1>9. QED
    BY <1>1, <1>2, <1>3, <1>5, <1>6, <1>7, <1>8
    DEF LedgerNext, Step, ApplyFailure, Disconnect, SendRefused, SendAmbiguous, SendAtOnce,
        Answered, GiveUp

LEMMA StructureStep == Structure /\ [LedgerNext]_ledgerVars => Structure'
BY TypeStep, LinkStep, OwedStep, FreshStep DEF Structure

LEMMA StructureInit == LedgerInit => Structure
<1> SUFFICES ASSUME LedgerInit PROVE Structure
    OBVIOUS
<1>1. TableTypes
    <2>1. /\ kind \in [Ops -> Kinds] /\ mid \in [Ops -> 0..MaxMid]
          /\ lastMid \in 0..MaxMid /\ forged \in 0..MaxForged
        BY MaxForgedAssumption, MaxMidAssumption DEF LedgerInit, Kinds
    <2>2. /\ pend \in [Tables -> [Mids -> Ops \cup {NoOp}]]
          /\ retired \in [Tables -> SUBSET Mids]
        BY DEF LedgerInit
    <2>3. owed \subseteq [kind : Kinds, mid : Mids, op : Ops] /\ inUse \subseteq Mids
        BY DEF LedgerInit
    <2>4. QED
        BY <2>1, <2>2, <2>3 DEF LedgerInit, TableTypes
<1>2. EntryOfWaiter
    BY DEF LedgerInit, EntryOfWaiter
<1>3. WaiterHasEntry /\ OwedWasSent /\ Fresh
    BY DEF LedgerInit, WaiterHasEntry, OwedWasSent, Fresh
<1>4. QED
    BY <1>1, <1>2, <1>3 DEF Structure

(* Every variable has its type, and an entry of a table always belongs to  *)
(* an operation that still waits for that identifier.                      *)
THEOREM LedgerTypeCorrect == LedgerSpec => []LedgerTypes
<1>1. Structure => LedgerTypes
    BY DEF Structure, TableTypes, EntryOfWaiter, LedgerTypes
<1>2. QED
    BY StructureInit, StructureStep, <1>1, PTL DEF LedgerSpec

----------------------------------------------------------------------------
(* An acknowledgement of an operation that a step leaves alone keeps its   *)
(* home when the step leaves the tables at its identifier alone.           *)
LEMMA HomeKept ==
    ASSUME Structure, Homes, Sound', NEW a \in owed, NEW o \in Ops, a.op # o, Sound,
           \A p \in Ops : p # o => stage'[p] = stage[p] /\ ack'[p] = ack[p],
           \/ UNCHANGED retired
           \/ \A m \in Mids, t \in Tables :
                 (m \in retired'[t]) # (m \in retired[t]) => ~(t = Table(a.kind) /\ m = a.mid),
           pend'[Table(a.kind)][a.mid] = pend[Table(a.kind)][a.mid],
           a.kind = "pub1" /\ a.mid \in inUse => a.mid \in inUse'
    PROVE  Home(a)' /\ Expected(a)'
<1>1. Home(a) /\ Expected(a)
    BY DEF Homes
<1>2. a.op \in Ops /\ a.mid \in Mids /\ Table(a.kind) \in Tables
    BY TableIsTable DEF Structure, TableTypes
<1>3. stage'[a.op] = stage[a.op] /\ ack'[a.op] = ack[a.op]
    BY <1>2
<1>4. (a.mid \in retired'[Table(a.kind)]) = (a.mid \in retired[Table(a.kind)])
    BY <1>2
<1>5. QED
    BY <1>1, <1>3, <1>4 DEF Home, Expected

LEMMA SendsKeepHomes ==
    ASSUME LedgerInv, NEW o \in Ops, NEW k \in Kinds, Sound',
           SendRefused(o, k) \/ SendAmbiguous(o, k) \/ SendWaits(o, k)
    PROVE  Homes'
<1> USE DEF LedgerInv, operation, session
<1>1. /\ stage[o] = "idle" /\ NextMid \in Mids /\ Table(k) \in Tables
      /\ \A p \in Ops : p # o => stage'[p] = stage[p] /\ ack'[p] = ack[p]
    BY NextMidIsMid, TableIsTable
    DEF SendRefused, SendAmbiguous, SendWaits, HandsOver, Call, Ended, Structure, TableTypes
<1>2. \A a \in owed : a.op \in Ops /\ a.op # o /\ a.mid \in Mids /\ Table(a.kind) \in Tables
    BY <1>1, TableIsTable DEF Structure, TableTypes, OwedWasSent
<1>3. CASE SendRefused(o, k)
    <2>1. owed' = owed /\ pend' = pend /\ inUse' = inUse /\ Sound
        BY <1>3 DEF SendRefused, Sound
    <2>2. owed = {} \/ UNCHANGED retired
        BY <1>3 DEF SendRefused, Structure, OwedWasSent
    <2>3. ASSUME NEW a \in owed PROVE Home(a)' /\ Expected(a)'
        BY <1>1, <1>2, <2>1, <2>2, <2>3, HomeKept
    <2>4. QED
        BY <2>1, <2>3 DEF Homes, Distinct
<1>4. CASE SendAmbiguous(o, k)
    BY <1>4 DEF SendAmbiguous, Invalidate, Sound
<1>5. CASE SendWaits(o, k)
    <2>0. PICK n : n = [kind |-> k, mid |-> NextMid, op |-> o]
        OBVIOUS
    <2>1. /\ owed' = owed \cup {n} /\ UNCHANGED <<ack, retired>> /\ Sound
          /\ NextMid \notin retired[Table(k)] /\ pend[Table(k)][NextMid] = NoOp
          /\ inUse' = (IF k = "pub1" THEN inUse \cup {NextMid} ELSE inUse)
          /\ stage'[o] = "waiting"
        BY <1>5, <2>0 DEF SendWaits, PacketSent, Reused, HandsOver, CycleAssumption, Sound,
                          Structure, TableTypes
    <2>2. ASSUME NEW t \in Tables, NEW m \in Mids
          PROVE  pend'[t][m] = IF t = Table(k) /\ m = NextMid THEN o ELSE pend[t][m]
        BY <1>1, <1>5 DEF SendWaits, Structure, TableTypes
    <2>3. ASSUME NEW b \in owed
          PROVE  ~(Table(b.kind) = Table(k) /\ b.mid = NextMid)
        <3>1. Home(b) /\ b.op \in Ops /\ b.op # NoOp
            BY <2>1, <2>3, <1>2, OpsAssumption DEF Homes
        <3>2. QED
            BY <2>1, <3>1 DEF Home
    <2>4. ASSUME NEW b \in owed PROVE Home(b)' /\ Expected(b)'
        <3>1. pend'[Table(b.kind)][b.mid] = pend[Table(b.kind)][b.mid]
            BY <1>2, <2>2, <2>3, <2>4
        <3>2. QED
            BY <1>1, <1>2, <2>1, <2>4, <3>1, HomeKept
    <2>5. Home(n)' /\ Expected(n)'
        <3>1. ack[o] = "none"
            BY <1>1 DEF Structure, Fresh
        <3>2. n.kind = k /\ n.mid = NextMid /\ n.op = o
            BY <2>0
        <3>3. pend'[Table(k)][NextMid] = o
            BY <1>1, <2>2
        <3>4. QED
            BY <2>1, <3>1, <3>2, <3>3 DEF Home, Expected
    <2>6. ASSUME NEW a \in owed', NEW b \in owed' PROVE Distinct(a, b)
        <3>1. CASE a \in owed /\ b \in owed
            BY <2>1, <3>1 DEF Homes
        <3>2. CASE a = n /\ b = n
            BY <3>2 DEF Distinct
        <3>3. CASE a = n /\ b \in owed
            BY <2>0, <2>3, <3>3 DEF Distinct
        <3>4. CASE a \in owed /\ b = n
            BY <2>0, <2>3, <3>4 DEF Distinct
        <3>5. QED
            BY <2>1, <2>6, <3>1, <3>2, <3>3, <3>4
    <2>7. ASSUME NEW a \in owed' PROVE Home(a)' /\ Expected(a)'
        BY <2>1, <2>4, <2>5, <2>7
    <2>8. QED
        BY <2>6, <2>7 DEF Homes, Distinct
<1>6. QED
    BY <1>3, <1>4, <1>5

LEMMA AtOnceKeepsHomes ==
    ASSUME LedgerInv, NEW o \in Ops, Sound', SendAtOnce(o)
    PROVE  Homes'
<1> USE DEF LedgerInv, operation, session
<1>1. /\ stage[o] = "idle" /\ NextMid \in Mids /\ Sound
      /\ \A p \in Ops : p # o => stage'[p] = stage[p] /\ ack'[p] = ack[p]
      /\ owed' = owed /\ UNCHANGED <<pend, inUse>> /\ NextMid \notin inUse
      /\ \A a \in owed : a.kind # "pub0"
    BY NextMidIsMid DEF SendAtOnce, HandsOver, Call, Ended, CycleAssumption, Sound,
                        Structure, TableTypes
<1>2. retired' = [retired EXCEPT !["pub"] = @ \ {NextMid}] /\ retired \in [Tables -> SUBSET Mids]
    BY DEF SendAtOnce, Structure, TableTypes
<1>3. ASSUME NEW a \in owed PROVE Home(a)' /\ Expected(a)'
    <2>1. a.op \in Ops /\ a.op # o /\ a.mid \in Mids /\ a.kind \in Kinds
        BY <1>1 DEF Structure, TableTypes, OwedWasSent
    <2>2. Table(a.kind) = "pub" => a.mid # NextMid
        BY <1>1, <1>3, <2>1 DEF Homes, Expected, Table, Kinds
    <2>3. \A m \in Mids, t \in Tables :
             (m \in retired'[t]) # (m \in retired[t]) => ~(t = Table(a.kind) /\ m = a.mid)
        BY <1>2, <2>2
    <2>4. QED
        BY <1>1, <2>1, <2>3, HomeKept
<1>4. QED
    BY <1>1, <1>3 DEF Homes, Distinct

LEMMA EndsKeepHomes ==
    ASSUME LedgerInv, NEW o \in Ops, Sound', Answered(o) \/ GiveUp(o)
    PROVE  Homes'
<1> USE DEF LedgerInv, operation, session
<1>1. /\ stage[o] = "waiting" /\ stage'[o] = "done" /\ Sound /\ Forget(o)
      /\ owed' = owed /\ inUse' = inUse
      /\ \A p \in Ops : p # o => stage'[p] = stage[p] /\ ack'[p] = ack[p]
    BY DEF Answered, GiveUp, Ended, Sound, Structure, TableTypes
<1>2. mid[o] \in Mids /\ Table(kind[o]) \in Tables /\ pend[Table(kind[o])][mid[o]] = o
    BY <1>1, TableIsTable DEF Structure, TableTypes, WaiterHasEntry
<1>3. ASSUME NEW t \in Tables, NEW m \in Mids, ~(t = Table(kind[o]) /\ m = mid[o])
      PROVE  pend'[t][m] = pend[t][m]
    BY <1>1, <1>2, <1>3 DEF Forget, Structure, TableTypes
<1>4. \A a \in owed : /\ a.op \in Ops /\ a.mid \in Mids /\ Table(a.kind) \in Tables
                      /\ a.kind = kind[a.op] /\ a.mid = mid[a.op] /\ ~down
    BY TableIsTable DEF Structure, TableTypes, OwedWasSent
<1>5. ASSUME NEW a \in owed, a.op = o PROVE GiveUp(o) /\ Home(a)' /\ Expected(a)'
    <2>1. ack[o] = "none"
        BY <1>1, <1>5 DEF Homes, Expected
    <2>2. GiveUp(o)
        BY <2>1 DEF Answered
    <2>3. a.mid \in retired'[Table(a.kind)]
        BY <1>2, <1>4, <1>5, <2>2 DEF GiveUp, Retire, Structure, TableTypes
    <2>4. QED
        BY <1>1, <1>5, <2>2, <2>3 DEF Home, Expected, Homes
<1>6. ASSUME NEW a \in owed, a.op # o PROVE Home(a)' /\ Expected(a)'
    <2>1. CASE Table(a.kind) = Table(kind[o]) /\ a.mid = mid[o]
        <3>1. stage[a.op] # "waiting" /\ a.mid \in retired[Table(a.kind)]
            BY <1>1, <1>2, <1>6, <2>1 DEF Homes, Home
        <3>2. a.mid \in retired'[Table(a.kind)]
            BY <1>2, <2>1, <3>1 DEF Answered, GiveUp, Retire, Structure, TableTypes
        <3>3. stage'[a.op] # "waiting"
            BY <1>1, <1>4, <1>6, <3>1
        <3>4. QED
            BY <1>1, <1>6, <3>2, <3>3 DEF Home, Expected, Homes
    <2>2. CASE ~(Table(a.kind) = Table(kind[o]) /\ a.mid = mid[o])
        <3>1. pend'[Table(a.kind)][a.mid] = pend[Table(a.kind)][a.mid]
            BY <1>3, <1>4, <2>2
        <3>2. \A m \in Mids, t \in Tables :
                 (m \in retired'[t]) # (m \in retired[t]) => ~(t = Table(a.kind) /\ m = a.mid)
            BY <1>2, <2>2 DEF Answered, GiveUp, Retire, Structure, TableTypes
        <3>3. QED
            BY <1>1, <1>6, <3>1, <3>2, HomeKept
    <2>3. QED
        BY <2>1, <2>2
<1>7. QED
    BY <1>1, <1>5, <1>6 DEF Homes, Distinct

(* What reading an owed acknowledgement does while the session is sound:   *)
(* it answers the waiter, or it is the late one that was retired.          *)
LEMMA ReadsOwed ==
    ASSUME LedgerInv, Sound, NEW a \in owed, AckRead(a)
    PROVE  /\ failure' = failure
           /\ inUse' = (IF a.kind = "pub1" THEN inUse \ {a.mid} ELSE inUse)
           /\ \/ /\ stage[a.op] = "waiting" /\ UNCHANGED retired
                 /\ ack' = [ack EXCEPT ![a.op] = "read"]
                 /\ got' = [got EXCEPT ![a.op] = a.op]
              \/ /\ retired' = [retired EXCEPT ![Table(a.kind)] = @ \ {a.mid}]
                 /\ UNCHANGED <<ack, got>>
<1> USE DEF LedgerInv
<1>1. /\ Home(a) /\ Expected(a) /\ failure = "none" /\ a.op \in Ops /\ a.op # NoOp
      /\ ReadsAck(Table(a.kind), a.mid, a.kind = "pub1", a.op)
    BY OpsAssumption DEF Homes, Sound, AckRead, Structure, TableTypes
<1>2. /\ inUse' = (IF a.kind = "pub1" THEN inUse \ {a.mid} ELSE inUse)
      /\ Callback(Table(a.kind), a.mid, a.op)
    BY <1>1 DEF ReadsAck, Expected
<1>3. CASE stage[a.op] = "waiting"
    <2>1. /\ pend[Table(a.kind)][a.mid] = a.op /\ a.mid \notin retired[Table(a.kind)]
          /\ ack[a.op] = "none"
        BY <1>1, <1>3 DEF Home, Expected
    <2>2. QED
        BY <1>1, <1>2, <1>3, <2>1 DEF Callback
<1>4. CASE stage[a.op] # "waiting"
    BY <1>1, <1>2, <1>4 DEF Callback, Home
<1>5. QED
    BY <1>3, <1>4

LEMMA AckKeepsHomes ==
    ASSUME LedgerInv, NEW a \in owed, AckRead(a), Sound'
    PROVE  Homes'
<1> USE DEF LedgerInv, operation
<1>1. Sound /\ owed' = owed \ {a} /\ UNCHANGED <<stage, pend>>
    BY DEF AckRead, Sound, ReadsAck, Callback, Invalidate
<1>2. a.op \in Ops /\ retired \in [Tables -> SUBSET Mids] /\ ack \in [Ops -> {"none", "read", "value", "failed"}]
    BY DEF Structure, TableTypes
<1>3. ASSUME NEW b \in owed, b # a PROVE Home(b)' /\ Expected(b)'
    <2>1. ~(Table(b.kind) = Table(a.kind) /\ b.mid = a.mid)
        BY <1>1, <1>3 DEF Homes, Distinct
    <2>2. b.op # a.op
        BY <2>1 DEF Structure, OwedWasSent
    <2>3. \A p \in Ops : p # a.op => stage'[p] = stage[p] /\ ack'[p] = ack[p]
        BY <1>1, <1>2, ReadsOwed
    <2>4. \/ UNCHANGED retired
          \/ \A m \in Mids, t \in Tables :
                (m \in retired'[t]) # (m \in retired[t]) => ~(t = Table(b.kind) /\ m = b.mid)
        BY <1>1, <1>2, <2>1, ReadsOwed
    <2>5. b.kind = "pub1" /\ b.mid \in inUse => b.mid \in inUse'
        BY <1>1, <2>1, ReadsOwed
    <2>6. QED
        BY <1>1, <1>2, <1>3, <2>2, <2>3, <2>4, <2>5, HomeKept
<1>4. QED
    BY <1>1, <1>3 DEF Homes, Distinct

LEMMA HomesStep == LedgerInv /\ [LedgerNext]_ledgerVars => Homes'
<1> SUFFICES ASSUME LedgerInv, [LedgerNext]_ledgerVars, Sound' PROVE Homes'
    BY DEF Homes
<1> USE DEF operation, session
<1>1. ASSUME NEW o \in Ops, Cancel(o) \/ Complete(o) PROVE Homes'
    <2>1. /\ UNCHANGED <<stage, inUse, pend, retired, owed, failure, forged>>
          /\ \A p \in Ops : ack[p] = "none" => ack'[p] = "none"
        BY <1>1 DEF Cancel, Complete, LedgerInv, Structure, TableTypes
    <2>2. \A a \in owed : a.op \in Ops
        BY DEF LedgerInv, Structure, TableTypes
    <2>3. Sound
        BY <2>1 DEF Sound
    <2>4. QED
        BY <2>1, <2>2, <2>3 DEF LedgerInv, Homes, Home, Expected, Distinct
<1>2. ASSUME NEW t \in Tables, NEW m \in Mids, ForgedAck(t, m) PROVE Homes'
    BY <1>2 DEF ForgedAck, Sound, LedgerInv, Structure, TableTypes
<1>3. CASE SessionEnds \/ MalformedAck
    BY <1>3 DEF SessionEnds, MalformedAck, Homes, Sound, LedgerInv, Structure, TableTypes
<1>4. CASE UNCHANGED ledgerVars
    BY <1>4 DEF ledgerVars, LedgerInv, Homes, Home, Expected, Distinct, Sound
<1>5. QED
    BY <1>1, <1>2, <1>3, <1>4, SendsKeepHomes, AtOnceKeepsHomes, EndsKeepHomes, AckKeepsHomes
    DEF LedgerNext, Step, ApplyFailure, Disconnect

----------------------------------------------------------------------------
(* An operation only ever gets its own acknowledgement, and no honest one  *)
(* is found unmatched.                                                     *)
LEMMA HonestStep == LedgerInv /\ [LedgerNext]_ledgerVars => Honest'
<1> SUFFICES ASSUME LedgerInv, [LedgerNext]_ledgerVars, forged' = 0
             PROVE  failure' # "unmatched" /\ \A o \in Ops : Own(o)'
    BY DEF Honest
<1> USE DEF operation, session, LedgerInv
<1>0. forged = 0
    BY DEF LedgerNext, ledgerVars, SendRefused, SendAmbiguous, SendWaits, SendAtOnce, Cancel, Step, Complete,
           Answered, GiveUp, AckRead, ForgedAck, MalformedAck, ApplyFailure, Disconnect,
           SessionEnds, Structure, TableTypes
<1>1. failure # "unmatched" /\ \A o \in Ops : Own(o)
    BY <1>0 DEF Honest
<1>2. ASSUME NEW o \in Ops, NEW k \in Kinds,
             SendRefused(o, k) \/ SendAmbiguous(o, k) \/ SendWaits(o, k)
      PROVE  failure' # "unmatched" /\ \A p \in Ops : Own(p)'
    BY <1>1, <1>2 DEF SendRefused, SendAmbiguous, SendWaits, Ended, Invalidate, Own,
                      Structure, TableTypes
<1>3. ASSUME NEW o \in Ops, SendAtOnce(o)
      PROVE  failure' # "unmatched" /\ \A p \in Ops : Own(p)'
    BY <1>1, <1>3 DEF SendAtOnce, Ended, Own, Structure, TableTypes
<1>4. ASSUME NEW o \in Ops, Cancel(o) \/ Complete(o)
      PROVE  failure' # "unmatched" /\ \A p \in Ops : Own(p)'
    BY <1>1, <1>4 DEF Cancel, Complete, Own, Structure, TableTypes
<1>5. ASSUME NEW o \in Ops, Answered(o) \/ GiveUp(o)
      PROVE  failure' # "unmatched" /\ \A p \in Ops : Own(p)'
    BY <1>1, <1>5 DEF Answered, GiveUp, Ended, Own, Structure, TableTypes
<1>6. ASSUME NEW a \in owed, AckRead(a)
      PROVE  failure' # "unmatched" /\ \A p \in Ops : Own(p)'
    <2>1. UNCHANGED outcome
        BY <1>6 DEF AckRead
    <2>2. CASE failure = "none"
        <3>1. Sound
            BY <1>0, <2>2 DEF Sound
        <3>2. QED
            BY <1>1, <1>6, <2>1, <3>1, ReadsOwed DEF Own, Structure, TableTypes
    <2>3. CASE failure # "none"
        <3>1. UNCHANGED <<ack, got, failure>>
            BY <1>6, <2>3 DEF AckRead, ReadsAck, Callback, Invalidate
        <3>2. QED
            BY <1>1, <2>1, <3>1 DEF Own
    <2>4. QED
        BY <2>2, <2>3
<1>7. ASSUME NEW t \in Tables, NEW m \in Mids, ForgedAck(t, m) PROVE FALSE
    BY <1>0, <1>7 DEF ForgedAck
<1>8. ~MalformedAck
    BY <1>0 DEF MalformedAck
<1>9. CASE SessionEnds
    BY <1>1, <1>9 DEF SessionEnds, Own, Structure, TableTypes
<1>10. CASE UNCHANGED ledgerVars
    BY <1>1, <1>10 DEF ledgerVars, Own
<1>11. QED
    BY <1>2, <1>3, <1>4, <1>5, <1>6, <1>7, <1>8, <1>9, <1>10
    DEF LedgerNext, Step, ApplyFailure, Disconnect

LEMMA LedgerInvariant == LedgerSpec => []LedgerInv
<1>1. LedgerInit => LedgerInv
    BY StructureInit DEF LedgerInit, LedgerInv, Homes, Honest, Own
<1>2. LedgerInv /\ [LedgerNext]_ledgerVars => LedgerInv'
    BY StructureStep, HomesStep, HonestStep DEF LedgerInv
<1>3. QED
    BY <1>1, <1>2, PTL DEF LedgerSpec

(* While the session is sound, every acknowledgement still to come has one *)
(* home: its waiting operation, or the retired identifiers.                *)
THEOREM AcksHaveHomes == LedgerSpec => []EveryAckHasAHome
<1>1. LedgerInv => EveryAckHasAHome
    BY DEF LedgerInv, Homes, Home, Sound, EveryAckHasAHome
<1>2. QED
    BY <1>1, LedgerInvariant, PTL

(* An answered operation was answered by the acknowledgement of its own    *)
(* packet, whatever the order, the delays and the reuse of identifiers.    *)
THEOREM AnswersAreOwn == LedgerSpec => []OwnAcknowledgement
<1>1. LedgerInv => OwnAcknowledgement
    BY DEF LedgerInv, Honest, Own, OwnAcknowledgement
<1>2. QED
    BY <1>1, LedgerInvariant, PTL

(* An honest broker never makes the client invalidate the session for an   *)
(* acknowledgement that matches nothing.                                   *)
THEOREM HonestIsMatched == LedgerSpec => []HonestNeverUnmatched
<1>1. LedgerInv => HonestNeverUnmatched
    BY DEF LedgerInv, Honest, HonestNeverUnmatched
<1>2. QED
    BY <1>1, LedgerInvariant, PTL

(* After the session was invalidated no step reports a publication as      *)
(* accepted.                                                               *)
THEOREM InvalidAcceptsNothing == LedgerSpec => NothingAcceptedAfterInvalidation
<1>1. Structure /\ [LedgerNext]_ledgerVars =>
          [failure # "none" => \A o \in Ops :
              Table(kind[o]) = "pub" /\ outcome'[o] = "answered"
              => outcome[o] = "answered"]_ledgerVars
    <2> SUFFICES ASSUME Structure, LedgerNext, failure # "none", NEW o \in Ops,
                        Table(kind[o]) = "pub", outcome'[o] = "answered"
                 PROVE  outcome[o] = "answered"
        OBVIOUS
    <2> USE DEF operation, session
    <2>1. ASSUME NEW p \in Ops, NEW r \in {"unknown", "not_sent"}, Ended(p, r)
          PROVE  outcome[o] = "answered"
        BY <2>1 DEF Ended, Structure, TableTypes
    <2>2. ASSUME NEW p \in Ops, Answered(p) PROVE outcome[o] = "answered"
        BY <2>2 DEF Answered, Ended, Structure, TableTypes
    <2>3. CASE UNCHANGED outcome
        BY <2>3
    <2>4. ASSUME NEW p \in Ops, SendAtOnce(p) PROVE FALSE
        BY <2>4 DEF SendAtOnce
    <2>5. QED
        BY <2>1, <2>2, <2>3, <2>4
        DEF LedgerNext, Step, SendRefused, SendAmbiguous, SendWaits, Cancel, Complete, GiveUp,
            AckRead, ForgedAck, MalformedAck, ApplyFailure, Disconnect, SessionEnds
<1>2. QED
    BY <1>1, StructureInit, StructureStep, PTL DEF LedgerSpec, NothingAcceptedAfterInvalidation

----------------------------------------------------------------------------
(* ConnectionOpening                                                       *)

Adopting == {"connecting", "handshaking"}
Standing == {"connack", "open"}

(* Who has a socket: the task while it connects, then Paho.                *)
OwnerInv ==
    /\ pc \notin {"idle", "over"} => client # 0
    /\ pc \in Adopting => prepared # 0 /\ at[prepared] # 0
    /\ \A c \in Clients : paho[c] # 0 => c = client /\ at[paho[c]] # 0
    /\ prepared <= used /\ \A c \in Clients : paho[c] <= used

WriterInv ==
    \A d \in Descriptors : writer[d] # 0 /\ writer[d] = Ours => writing[client]

QueueInv ==
    \A i \in DOMAIN queue :
        /\ queue[i].client <= client
        /\ queue[i].client = client => pc \in Standing \cup {"idle", "over"}
        /\ queue[i].client = client /\ pc \in Standing /\ queue[i].what = "writer" =>
              /\ queue[i].generation <= writes[client]
              /\ queue[i].generation = writes[client] => writing[client]

(* Each attempt makes no more sockets than there may be addresses.         *)
SocketsInv ==
    /\ pc \in {"spawning", "resolving", "cleaning"} => used <= (client - 1) * MaxAddresses
    /\ pc \in Adopting => used + left <= client * MaxAddresses
    /\ used <= client * MaxAddresses

OpeningInv == TypeOK /\ WatchesItsOwn /\ HasOwner /\ OwnerInv /\ WriterInv /\ QueueInv /\ SocketsInv
----------------------------------------------------------------------------
(* What is open and watched, as one; and the state in which nothing is.     *)
LoopOK ==
    /\ at \in [Sockets -> Descriptors \cup {0}] /\ paho \in [Clients -> Sockets \cup {0}]
    /\ opens \in [Clients -> Nat] /\ writes \in [Clients -> Nat]
    /\ writing \in [Clients -> BOOLEAN]
    /\ reader \in [Descriptors -> Sockets \cup {0}]
    /\ writer \in [Descriptors -> Sockets \cup {0}]

Shut ==
    /\ \A s \in Sockets : at[s] = 0
    /\ \A c \in Clients : paho[c] = 0
    /\ \A d \in Descriptors : reader[d] = 0 /\ writer[d] = 0

LEMMA Bounds ==
    /\ MaxAttempts \in Nat \ {0} /\ MaxAddresses \in Nat \ {0} /\ MaxWrites \in Nat
    /\ Descriptors \subseteq Nat \ {0} /\ 0 \notin Descriptors
    /\ Clients \subseteq Nat \ {0} /\ Sockets \subseteq Nat \ {0}
BY OpeningAssumption DEF Clients, Sockets

LEMMA Products ==
    ASSUME NEW c \in Nat, c \in Clients
    PROVE  /\ (c - 1) * MaxAddresses + MaxAddresses = c * MaxAddresses
           /\ c * MaxAddresses <= MaxAttempts * MaxAddresses
           /\ (c - 1) * MaxAddresses \in Nat /\ c * MaxAddresses \in Nat
           /\ MaxAttempts * MaxAddresses \in Nat
<1>1. MaxAttempts \in Nat /\ MaxAddresses \in Nat /\ c <= MaxAttempts /\ c >= 1
    BY Bounds DEF Clients
<1>2. \A m, n, k \in Nat : m <= n => m * k <= n * k
    OBVIOUS
<1>3. \A k \in Nat : (c - 1) * k + k = c * k
    BY <1>1
<1>4. c - 1 \in Nat
    BY <1>1
<1>5. \A m, n \in Nat : m * n \in Nat
    OBVIOUS
<1>6. QED
    BY <1>1, <1>2, <1>3, <1>4, <1>5

(* One socket is open at most: the task's or Paho's, by the phase.          *)
LEMMA Owners ==
    ASSUME OpeningInv
    PROVE  /\ LoopOK /\ prepared \in Sockets \cup {0} /\ Ours \in Sockets \cup {0}
           /\ client # 0 => client \in Clients /\ Ours = paho[client]
           /\ pc \notin {"idle", "over"} => client \in Clients
           /\ prepared # 0 => pc \in Adopting /\ Ours = 0
           /\ Ours # 0 => client \in Clients /\ pc \in Standing /\ prepared = 0 /\ at[Ours] \in Descriptors
           /\ \A c \in Clients : paho[c] # 0 => c = client /\ paho[c] = Ours
           /\ \A s \in Sockets : at[s] # 0 => s = prepared \/ s = Ours
           /\ prepared = 0 /\ Ours = 0 => Shut
           /\ \A d \in Descriptors : \A s \in {reader[d], writer[d]} \ {0} : at[s] = d
<1>1. TypeOK /\ HasOwner /\ OwnerInv /\ WatchesItsOwn
    BY DEF OpeningInv
<1>2. client # 0 => client \in Clients /\ Ours = paho[client]
    BY <1>1 DEF TypeOK, Clients, Ours
<1>3. LoopOK /\ prepared \in Sockets \cup {0} /\ Ours \in Sockets \cup {0}
    BY <1>1, <1>2 DEF TypeOK, LoopOK, Ours
<1>4. Ours # 0 => client # 0 /\ pc \in Standing
    BY <1>1 DEF HasOwner, Standing, Ours
<1>5. prepared # 0 => pc \in Adopting
    BY <1>1 DEF HasOwner, Adopting
<1>6. Adopting \cap Standing = {}
    BY DEF Adopting, Standing
<1>7. Ours # 0 => at[Ours] \in Descriptors
    BY <1>1, <1>2, <1>3, <1>4 DEF OwnerInv, LoopOK
<1>8. \A c \in Clients : paho[c] # 0 => c = client /\ paho[c] = Ours
    BY <1>1, <1>2, Bounds DEF OwnerInv
<1>9. \A s \in Sockets : at[s] # 0 => s = prepared \/ s = Ours
    BY <1>1 DEF HasOwner
<1>10. \A d \in Descriptors : \A s \in {reader[d], writer[d]} \ {0} : at[s] = d
    BY <1>1 DEF WatchesItsOwn
<1>11. ASSUME prepared = 0, Ours = 0 PROVE Shut
  <2>1. \A s \in Sockets : at[s] = 0
    BY <1>9, <1>11, Bounds
  <2>2. \A d \in Descriptors : reader[d] = 0 /\ writer[d] = 0
    BY <1>3, <1>10, <2>1, Bounds DEF LoopOK
  <2>3. QED
    BY <1>8, <1>11, <2>1, <2>2 DEF Shut
<1>12. QED
    BY <1>1, <1>2, <1>3, <1>4, <1>5, <1>6, <1>7, <1>8, <1>9, <1>10, <1>11 DEF OwnerInv

(* Paho closes its socket: nothing is open or watched any more, and what    *)
(* was asked for before is not of its newest generation.                    *)
LEMMA ClosedByPaho ==
    ASSUME OpeningInv, client \in Clients, prepared = 0, PahoCloses
    PROVE  /\ Shut' /\ LoopOK'
           /\ \/ UNCHANGED <<at, adopted, loop>>
              \/ writes'[client] > writes[client]
<1>1. LoopOK /\ Ours = paho[client] /\ Ours \in Sockets \cup {0}
    BY Owners, Bounds
<1> DEFINE s == paho[client]
<1>2. CASE s = 0
  <2>1. UNCHANGED <<at, adopted, loop>>
    BY <1>2 DEF PahoCloses
  <2>2. Shut
    BY <1>1, <1>2, Owners
  <2>3. QED
    BY <1>1, <2>1, <2>2 DEF Shut, LoopOK, adopted, generations, loop
<1>3. CASE s # 0
  <2>1. /\ paho' = [paho EXCEPT ![client] = 0] /\ at' = [at EXCEPT ![s] = 0]
        /\ opens' = [opens EXCEPT ![client] = @ + 1]
        /\ writes' = [writes EXCEPT ![client] = @ + IF writing[client] THEN 2 ELSE 1]
        /\ writing' = [writing EXCEPT ![client] = FALSE]
        /\ reader' = [reader EXCEPT ![at[s]] = 0]
        /\ writer' = IF writing[client] THEN [writer EXCEPT ![at[s]] = 0] ELSE writer
    BY <1>3 DEF PahoCloses
  <2>2. s \in Sockets /\ s # 0 /\ s = Ours
    BY <1>1, <1>3
  <2>3. at[s] \in Descriptors
    BY <1>3, <2>2, Owners
  <2>4. \A x \in Sockets : at'[x] = 0
    BY <1>1, <2>1, <2>2, Owners, Bounds DEF LoopOK
  <2>5. \A c \in Clients : paho'[c] = 0
    BY <1>1, <2>1, Owners DEF LoopOK
  <2>6. \A d \in Descriptors : /\ reader[d] # 0 => d = at[s]
                               /\ writer[d] # 0 => d = at[s] /\ writer[d] = Ours
    <3>1. \A d \in Descriptors : \A x \in {reader[d], writer[d]} \ {0} : at[x] = d
      BY Owners
    <3>2. \A x \in Sockets : at[x] # 0 => x = s
      BY <2>2, Owners, Bounds
    <3>3. \A d \in Descriptors : reader[d] \in Sockets \cup {0} /\ writer[d] \in Sockets \cup {0} /\ d # 0
      BY <1>1, Bounds DEF LoopOK
    <3>4. QED
      BY <2>2, <3>1, <3>2, <3>3
  <2>7. \A d \in Descriptors : reader'[d] = 0
    BY <1>1, <2>1, <2>6 DEF LoopOK
  <2>8. \A d \in Descriptors : writer'[d] = 0
    <3>1. CASE writing[client]
      BY <1>1, <2>1, <2>6, <3>1 DEF LoopOK
    <3>2. CASE ~writing[client]
      <4>1. \A d \in Descriptors : writer[d] = 0
        BY <2>6, <3>2 DEF OpeningInv, WriterInv
      <4>2. QED
        BY <2>1, <3>2, <4>1
    <3>3. QED
      BY <3>1, <3>2
  <2>9. writes'[client] > writes[client] /\ writes' \in [Clients -> Nat]
    <3>1. CASE writing[client]
      BY <1>1, <2>1, <3>1 DEF LoopOK
    <3>2. CASE ~writing[client]
      BY <1>1, <2>1, <3>2 DEF LoopOK
    <3>3. QED
      BY <3>1, <3>2
  <2>10. LoopOK'
    <3>1. paho' \in [Clients -> Sockets \cup {0}] /\ at' \in [Sockets -> Descriptors \cup {0}]
      BY <1>1, <2>1 DEF LoopOK
    <3>2. opens' \in [Clients -> Nat] /\ writing' \in [Clients -> BOOLEAN]
      BY <1>1, <2>1 DEF LoopOK
    <3>3. reader' \in [Descriptors -> Sockets \cup {0}] /\ writer' \in [Descriptors -> Sockets \cup {0}]
      BY <1>1, <2>1 DEF LoopOK
    <3>4. QED
      BY <2>9, <3>1, <3>2, <3>3 DEF LoopOK
  <2>11. QED
    BY <2>4, <2>5, <2>7, <2>8, <2>9, <2>10 DEF Shut
<1>4. QED
    BY <1>2, <1>3

(* An attempt that ends leaves nothing behind.                              *)
LEMMA FailedShut ==
    ASSUME OpeningInv, NEW because, Fails(because), pc \notin {"idle", "over"}
    PROVE  /\ Shut' /\ LoopOK' /\ prepared' = 0 /\ pc' \in {"idle", "over"}
           /\ interrupt' = "none" /\ disconnected' \in BOOLEAN
<1>1. /\ pc' = (IF because = "close" THEN "over" ELSE "idle") /\ interrupt' = "none"
      /\ prepared' = 0
    BY DEF Fails
<1>2. client \in Clients /\ LoopOK
    BY Owners
<1>3. CASE prepared = 0
  <2>1. PahoCloses /\ disconnected' = TRUE
    BY <1>3 DEF Fails, ForceDisconnect
  <2>2. QED
    BY <1>1, <1>2, <1>3, <2>1, ClosedByPaho
<1>4. CASE prepared # 0
  <2>1. /\ at' = [at EXCEPT ![prepared] = 0] /\ disconnected' = TRUE
        /\ reader' = Unwatched(reader, at[prepared]) /\ writer' = Unwatched(writer, at[prepared])
        /\ UNCHANGED adopted
    BY <1>4 DEF Fails
  <2>2. /\ Ours = 0 /\ prepared \in Sockets /\ at[prepared] \in Descriptors \cup {0}
        /\ \A x \in Sockets : at[x] # 0 => x = prepared
        /\ \A c \in Clients : paho[c] = 0
    <3>1. Ours = 0 /\ prepared \in Sockets
      BY <1>4, Owners
    <3>2. at[prepared] \in Descriptors \cup {0}
      BY <1>2, <3>1 DEF LoopOK
    <3>3. \A x \in Sockets : at[x] # 0 => x = prepared \/ x = Ours
      BY Owners
    <3>4. \A c \in Clients : paho[c] # 0 => paho[c] = Ours
      BY Owners
    <3>5. \A x \in Sockets : x # 0
      BY Bounds
    <3>6. QED
      BY <3>1, <3>2, <3>3, <3>4, <3>5
  <2>3. \A x \in Sockets : at'[x] = 0
    BY <1>2, <2>1, <2>2 DEF LoopOK
  <2>4. \A d \in Descriptors : reader[d] # 0 \/ writer[d] # 0 => d = at[prepared]
    <3>1. \A d \in Descriptors : \A x \in {reader[d], writer[d]} \ {0} : at[x] = d
      BY Owners
    <3>2. \A d \in Descriptors : reader[d] \in Sockets \cup {0} /\ writer[d] \in Sockets \cup {0} /\ d # 0
      BY <1>2, Bounds DEF LoopOK
    <3>3. QED
      BY <2>2, <3>1, <3>2
  <2>5. CASE at[prepared] = 0
    <3>1. \A d \in Descriptors : reader[d] = 0 /\ writer[d] = 0
      BY <2>4, <2>5, Bounds
    <3>2. reader' = reader /\ writer' = writer
      BY <2>1, <2>5 DEF Unwatched
    <3>3. QED
      BY <1>1, <1>2, <2>1, <2>2, <2>3, <3>1, <3>2 DEF Shut, LoopOK, adopted, generations
  <2>6. CASE at[prepared] \in Descriptors
    <3>1. at[prepared] # 0
      BY <2>6, Bounds
    <3>2. /\ reader' = [reader EXCEPT ![at[prepared]] = 0]
          /\ writer' = [writer EXCEPT ![at[prepared]] = 0]
      BY <2>1, <3>1 DEF Unwatched
    <3>3. \A d \in Descriptors : reader'[d] = 0 /\ writer'[d] = 0
      BY <1>2, <2>4, <3>2 DEF LoopOK
    <3>4. QED
      BY <1>1, <1>2, <2>1, <2>2, <2>3, <3>2, <3>3 DEF Shut, LoopOK, adopted, generations
  <2>7. QED
    BY <2>2, <2>5, <2>6
<1>5. QED
    BY <1>3, <1>4

(* A new socket is the only one that is open, and watched for writing.      *)
LEMMA NewSocket ==
    ASSUME OpeningInv, Ours = 0, used + 1 \in Sockets, NEW n,
           NEW d \in Free \cup {at[s] : s \in {prepared} \ {0}}, Prepare(n, d)
    PROVE  /\ LoopOK' /\ pc' = "connecting" /\ interrupt' = "none" /\ left' = n - 1
           /\ used' = used + 1 /\ prepared' = used + 1 /\ d \in Descriptors
           /\ \A s \in Sockets : at'[s] = (IF s = used + 1 THEN d ELSE 0)
           /\ \A c \in Clients : paho'[c] = 0
           /\ \A e \in Descriptors : reader'[e] = 0 /\ writer'[e] = (IF e = d THEN used + 1 ELSE 0)
           /\ UNCHANGED adopted
<1> DEFINE new == used + 1
           old == IF prepared = 0 THEN 0 ELSE at[prepared]
<1>1. /\ pc' = "connecting" /\ interrupt' = "none" /\ left' = n - 1
      /\ used' = new /\ prepared' = new
      /\ at' = [x \in Sockets |-> IF x = new THEN d ELSE IF x = prepared THEN 0 ELSE at[x]]
      /\ reader' = Unwatched(reader, old)
      /\ writer' = [Unwatched(writer, old) EXCEPT ![d] = new]
      /\ UNCHANGED adopted
    BY DEF Prepare
<1>2. /\ LoopOK /\ (\A s \in Sockets : s # 0) /\ (\A e \in Descriptors : e # 0)
      /\ \A s \in Sockets : at[s] # 0 => s = prepared \/ s = Ours
      /\ \A c \in Clients : paho[c] # 0 => paho[c] = Ours
      /\ prepared \in Sockets \cup {0}
      /\ prepared # 0 => pc \in Adopting
    BY Owners, Bounds
<1>3. prepared # 0 => at[prepared] \in Descriptors
    BY <1>2 DEF OpeningInv, OwnerInv, LoopOK
<1>4. d \in Descriptors
    BY <1>2, <1>3 DEF Free
<1>5. \A s \in Sockets : at'[s] = (IF s = new THEN d ELSE 0)
    BY <1>1, <1>2
<1>6. \A c \in Clients : paho'[c] = 0
    BY <1>1, <1>2 DEF adopted
<1>7. \A e \in Descriptors : reader[e] # 0 \/ writer[e] # 0 => e = old
  <2>1. \A e \in Descriptors : \A x \in {reader[e], writer[e]} \ {0} : at[x] = e
    BY Owners
  <2>2. \A e \in Descriptors : reader[e] \in Sockets \cup {0} /\ writer[e] \in Sockets \cup {0}
    BY <1>2 DEF LoopOK
  <2>3. QED
    BY <1>2, <2>1, <2>2
<1>8. \A f \in [Descriptors -> Sockets \cup {0}] :
         /\ Unwatched(f, old) \in [Descriptors -> Sockets \cup {0}]
         /\ \A e \in Descriptors : Unwatched(f, old)[e] = (IF e = old THEN 0 ELSE f[e])
    BY <1>2, <1>3 DEF Unwatched
<1> HIDE DEF new, old
<1>9. \A e \in Descriptors : reader'[e] = 0
    BY <1>1, <1>2, <1>7, <1>8 DEF LoopOK
<1>10. \A e \in Descriptors : writer'[e] = (IF e = d THEN new ELSE 0)
  <2>1. Unwatched(writer, old) \in [Descriptors -> Sockets \cup {0}]
    BY <1>2, <1>8 DEF LoopOK
  <2>2. \A e \in Descriptors : Unwatched(writer, old)[e] = 0
    BY <1>2, <1>7, <1>8 DEF LoopOK
  <2>3. QED
    BY <1>1, <1>4, <2>1, <2>2
<1>11. LoopOK'
  <2>1. new \in Sockets
    BY DEF new
  <2>2. reader' \in [Descriptors -> Sockets \cup {0}]
    BY <1>1, <1>2, <1>8 DEF LoopOK
  <2>3. writer' \in [Descriptors -> Sockets \cup {0}]
    <3>1. Unwatched(writer, old) \in [Descriptors -> Sockets \cup {0}]
      BY <1>2, <1>8 DEF LoopOK
    <3>2. QED
      BY <1>1, <1>4, <2>1, <3>1
  <2>4. at' \in [Sockets -> Descriptors \cup {0}]
    BY <1>1, <1>2, <1>4 DEF LoopOK
  <2>5. QED
    BY <1>1, <1>2, <2>2, <2>3, <2>4 DEF LoopOK, adopted, generations
<1>12. QED
    BY <1>1, <1>4, <1>5, <1>6, <1>9, <1>10, <1>11 DEF new

----------------------------------------------------------------------------
(* What kinds of step preserve the invariant.                              *)
Installations == [what : {"reader", "writer"}, client : Clients, socket : Sockets,
                  at : Descriptors, generation : Nat]

RestOK ==
    /\ endpoint \in [literal : BOOLEAN, tls : BOOLEAN]
    /\ pc \in Busy \cup {"idle", "cleaning", "over"}
    /\ client \in 0..MaxAttempts /\ closing \in BOOLEAN
    /\ interrupt \in {"none", "deadline", "close"}
    /\ resolver \in {"none", "running", "answered", "killed"}
    /\ left \in 0..MaxAddresses /\ prepared \in Sockets \cup {0}
    /\ used \in Sockets \cup {0} /\ foreign \subseteq Descriptors
    /\ queued \in 0..MaxWrites /\ queue \in Seq(Installations)
    /\ answer \in {"pending", "accepted", "refused"} /\ disconnected \in BOOLEAN

LEMMA AllTypes == (TypeOK <=> RestOK /\ LoopOK) /\ (TypeOK' <=> RestOK' /\ LoopOK')
BY DEF TypeOK, RestOK, LoopOK, Installations

LEMMA QueueTypes ==
    ASSUME queue \in Seq(Installations)
    PROVE  /\ Len(queue) \in Nat /\ DOMAIN queue = 1..Len(queue)
           /\ \A i \in DOMAIN queue : queue[i] \in Installations
OBVIOUS

(* The task ends its attempt; what is in the queue stays.                  *)
LEMMA AfterFailure ==
    ASSUME OpeningInv, NEW because, Fails(because), pc \notin {"idle", "over"},
           UNCHANGED <<run, left, used, foreign, answer, queued>>,
           resolver' \in {"none", "answered", "killed"},
           queue' \in Seq(Installations),
           \A i \in DOMAIN queue' : queue'[i].client <= client
    PROVE  OpeningInv'
<1>1. /\ Shut' /\ LoopOK' /\ prepared' = 0 /\ pc' \in {"idle", "over"}
      /\ interrupt' = "none" /\ disconnected' \in BOOLEAN
    BY FailedShut
<1>2. RestOK /\ SocketsInv /\ client \in Clients
    BY AllTypes, Owners DEF OpeningInv
<1>3. RestOK'
    BY <1>1, <1>2 DEF RestOK, run
<1>4. TypeOK'
    BY <1>1, <1>3, AllTypes
<1>5. client' = client /\ Ours' = 0 /\ used' = used
    BY <1>1, <1>2 DEF run, Ours, Shut
<1>6. WatchesItsOwn' /\ HasOwner'
  <2>1. \A s \in Sockets : at'[s] = 0
    BY <1>1 DEF Shut
  <2>2. \A d \in Descriptors : reader'[d] = 0 /\ writer'[d] = 0
    BY <1>1 DEF Shut
  <2>3. QED
    BY <1>1, <1>5, <2>1, <2>2 DEF WatchesItsOwn, HasOwner
<1>7. OwnerInv'
  <2>1. \A c \in Clients : paho'[c] = 0
    BY <1>1 DEF Shut
  <2>2. 0 <= used'
    <3>1. used' \in Sockets \cup {0}
      BY <1>2, <1>5 DEF RestOK
    <3>2. QED
      BY <3>1, Bounds
  <2>3. QED
    BY <1>1, <2>1, <2>2 DEF OwnerInv, Adopting
<1>8. WriterInv' /\ QueueInv' /\ SocketsInv'
    BY <1>1, <1>2, <1>5 DEF WriterInv, QueueInv, SocketsInv, Shut, Standing, Adopting
<1>9. QED
    BY <1>4, <1>6, <1>7, <1>8 DEF OpeningInv

(* The task goes on with a new socket.                                     *)
LEMMA AfterPrepare ==
    ASSUME OpeningInv, Ours = 0, NEW n \in 1..MaxAddresses,
           NEW d \in Free \cup {at[s] : s \in {prepared} \ {0}}, Prepare(n, d),
           UNCHANGED <<endpoint, closing, foreign, queue, queued>>,
           client' \in Clients, used + n <= client' * MaxAddresses,
           \A i \in DOMAIN queue : queue[i].client < client',
           resolver' \in {"none", "answered", "killed"},
           answer' \in {"pending", "accepted", "refused"}, disconnected' \in BOOLEAN
    PROVE  OpeningInv'
<1>1. RestOK /\ LoopOK /\ used \in Nat /\ MaxAddresses \in Nat
  <2>1. RestOK /\ LoopOK
    BY AllTypes DEF OpeningInv
  <2>2. used \in Sockets \cup {0}
    BY <2>1 DEF RestOK
  <2>3. QED
    BY <2>1, <2>2, Bounds
<1>2. used + 1 \in Sockets
  <2>1. client' * MaxAddresses <= MaxAttempts * MaxAddresses /\ MaxAttempts * MaxAddresses \in Nat
        /\ client' * MaxAddresses \in Nat
    BY Products, Bounds
  <2>2. QED
    BY <1>1, <2>1 DEF Sockets
<1>3. /\ LoopOK' /\ pc' = "connecting" /\ interrupt' = "none" /\ left' = n - 1
      /\ used' = used + 1 /\ prepared' = used + 1 /\ d \in Descriptors
      /\ \A s \in Sockets : at'[s] = (IF s = used + 1 THEN d ELSE 0)
      /\ \A c \in Clients : paho'[c] = 0
      /\ \A e \in Descriptors : reader'[e] = 0 /\ writer'[e] = (IF e = d THEN used + 1 ELSE 0)
    BY <1>2, NewSocket
<1>4. client' \in 0..MaxAttempts /\ client' # 0 /\ d # 0 /\ used + 1 # 0
    BY <1>1, <1>3, Bounds DEF Clients
<1>5. RestOK'
    BY <1>1, <1>2, <1>3, <1>4 DEF RestOK, Busy
<1>6. TypeOK'
    BY <1>3, <1>5, AllTypes
<1>7. Ours' = 0
    BY <1>3 DEF Ours
<1>8. WatchesItsOwn'
    BY <1>2, <1>3 DEF WatchesItsOwn
<1>9. HasOwner'
    BY <1>3, <1>7 DEF HasOwner
<1>10. OwnerInv'
    BY <1>1, <1>2, <1>3, <1>4 DEF OwnerInv, Adopting
<1>11. WriterInv'
    BY <1>7 DEF WriterInv
<1>12. QueueInv'
  <2>1. \A i \in DOMAIN queue : queue[i].client \in Nat
    BY <1>1, QueueTypes, Bounds DEF RestOK, Installations
  <2>2. \A i \in DOMAIN queue' : queue'[i].client <= client' /\ queue'[i].client # client'
    BY <2>1, Bounds
  <2>3. QED
    BY <2>2 DEF QueueInv
<1>13. SocketsInv'
  <2>1. client' * MaxAddresses \in Nat
    BY Products, Bounds
  <2>2. used' + left' <= client' * MaxAddresses /\ used' <= client' * MaxAddresses
    BY <1>1, <1>3, <2>1
  <2>3. QED
    BY <1>3, <2>2 DEF SocketsInv
<1>14. QED
    BY <1>6, <1>8, <1>9, <1>10, <1>11, <1>12, <1>13 DEF OpeningInv

Phases == {Standing, Adopting, {"idle", "over"}}

(* Nothing is opened or closed: what is watched, if anything, is open, and  *)
(* callbacks may leave the queue.                                          *)
LEMMA AfterWatch ==
    ASSUME OpeningInv, RestOK', UNCHANGED <<client, used, left, prepared, at, adopted>>,
           \A phase \in Phases : pc' \in phase <=> pc \in phase,
           resolver' = "running" => pc' = "resolving",
           reader' \in [Descriptors -> Sockets \cup {0}],
           writer' \in [Descriptors -> Sockets \cup {0}],
           \A d \in Descriptors : /\ reader'[d] # 0 => at[reader'[d]] = d
                                  /\ writer'[d] # 0 => at[writer'[d]] = d
                                  /\ writer'[d] # 0 /\ writer'[d] = Ours => writing[client],
           \A i \in DOMAIN queue' : \E j \in DOMAIN queue : queue'[i] = queue[j]
    PROVE  OpeningInv'
<1>1. RestOK /\ LoopOK /\ HasOwner /\ OwnerInv /\ QueueInv /\ SocketsInv
    BY AllTypes DEF OpeningInv
<1>2. UNCHANGED <<paho, opens, writes, writing>> /\ Ours' = Ours
    BY DEF adopted, generations, Ours
<1>3. /\ pc' \in Standing <=> pc \in Standing
      /\ pc' \in Adopting <=> pc \in Adopting
      /\ pc' \in {"idle", "over"} <=> pc \in {"idle", "over"}
    BY DEF Phases
<1>4. LoopOK' /\ TypeOK'
    BY <1>1, <1>2, AllTypes DEF LoopOK
<1>5. WatchesItsOwn'
    BY DEF WatchesItsOwn
<1>6. HasOwner'
    BY <1>1, <1>2, <1>3 DEF HasOwner, Standing, Adopting
<1>7. OwnerInv'
    BY <1>1, <1>2, <1>3 DEF OwnerInv
<1>8. WriterInv'
    BY <1>2 DEF WriterInv
<1>9. QueueInv'
  <2>1. ASSUME NEW i \in DOMAIN queue'
        PROVE  /\ queue'[i].client <= client
               /\ queue'[i].client = client => pc' \in Standing \cup {"idle", "over"}
               /\ queue'[i].client = client /\ pc' \in Standing /\ queue'[i].what = "writer" =>
                     /\ queue'[i].generation <= writes[client]
                     /\ queue'[i].generation = writes[client] => writing[client]
    <3>1. PICK j \in DOMAIN queue : queue'[i] = queue[j]
      BY <2>1
    <3>2. QED
      BY <1>1, <1>3, <3>1 DEF QueueInv
  <2>2. QED
    BY <1>2, <2>1 DEF QueueInv
<1>10. SocketsInv'
  <2>1. pc' \in {"spawning", "resolving", "cleaning"} => pc \in {"spawning", "resolving", "cleaning"}
    BY <1>1, <1>3 DEF RestOK, Busy, Standing, Adopting
  <2>2. QED
    BY <1>1, <1>3, <2>1 DEF SocketsInv
<1>11. QED
    BY <1>4, <1>5, <1>6, <1>7, <1>8, <1>9, <1>10 DEF OpeningInv

LEMMA AfterNothing ==
    ASSUME OpeningInv, RestOK', UNCHANGED <<client, used, left, prepared, at, adopted, loop, queue>>,
           \A phase \in Phases : pc' \in phase <=> pc \in phase,
           resolver' = "running" => pc' = "resolving"
    PROVE  OpeningInv'
<1>1. UNCHANGED <<reader, writer>> /\ LoopOK
    BY Owners DEF loop
<1>2. \A d \in Descriptors : /\ reader[d] # 0 => at[reader[d]] = d
                             /\ writer[d] # 0 => at[writer[d]] = d
                             /\ writer[d] # 0 /\ writer[d] = Ours => writing[client]
    BY DEF OpeningInv, WatchesItsOwn, WriterInv
<1>3. QED
    BY <1>1, <1>2, AfterWatch DEF LoopOK

(* Paho's callbacks: the socket is closed under the task.                  *)
LEMMA AfterPahoCloses ==
    ASSUME OpeningInv, Ours # 0, PahoCloses, RestOK',
           UNCHANGED <<pc, client, resolver, left, used, prepared, queue>>
    PROVE  OpeningInv'
<1>1. client \in Clients /\ prepared = 0 /\ pc \in Standing
    BY Owners
<1>2. /\ Shut' /\ LoopOK'
      /\ UNCHANGED <<at, adopted, loop>> \/ writes'[client] > writes[client]
    BY <1>1, ClosedByPaho
<1>3. TypeOK' /\ RestOK /\ LoopOK
    BY <1>2, AllTypes DEF OpeningInv
<1>4. HasOwner /\ OwnerInv /\ QueueInv /\ SocketsInv
    BY DEF OpeningInv
<1>5. /\ \A s \in Sockets : at'[s] = 0
      /\ \A c \in Clients : paho'[c] = 0
      /\ \A d \in Descriptors : reader'[d] = 0 /\ writer'[d] = 0
    BY <1>2 DEF Shut
<1>6. Ours' = 0
    BY <1>1, <1>5 DEF Ours
<1>7. WatchesItsOwn' /\ HasOwner'
    BY <1>1, <1>4, <1>5, <1>6 DEF WatchesItsOwn, HasOwner
<1>8. OwnerInv'
  <2>1. 0 <= used
    <3>1. used \in Sockets \cup {0}
      BY <1>3 DEF RestOK
    <3>2. QED
      BY <3>1, Bounds
  <2>2. QED
    BY <1>1, <1>4, <1>5, <2>1 DEF OwnerInv, Standing, Adopting
<1>9. WriterInv' /\ SocketsInv'
    BY <1>4, <1>5 DEF WriterInv, SocketsInv
<1>10. QueueInv'
  <2>1. writes[client] \in Nat /\ writes'[client] \in Nat
    BY <1>1, <1>2, <1>3 DEF LoopOK
  <2>2. \A i \in DOMAIN queue : queue[i].generation \in Nat
    BY <1>3, QueueTypes DEF RestOK, Installations
  <2>3. CASE writes'[client] > writes[client]
    BY <1>4, <2>1, <2>2, <2>3 DEF QueueInv
  <2>4. CASE UNCHANGED <<at, adopted, loop>>
    BY <1>4, <2>4 DEF QueueInv, adopted, generations
  <2>5. QED
    BY <1>2, <2>3, <2>4
<1>11. QED
    BY <1>3, <1>7, <1>8, <1>9, <1>10 DEF OpeningInv

(* The interest in writing comes and goes with a generation of its own.    *)
LEMMA AfterWritten ==
    ASSUME OpeningInv, Written
    PROVE  OpeningInv'
<1>1. /\ Ours # 0
      /\ writing' = [writing EXCEPT ![client] = FALSE]
      /\ writes' = [writes EXCEPT ![client] = @ + 1]
      /\ writer' = [writer EXCEPT ![at[Ours]] = 0]
      /\ UNCHANGED <<pc, interrupt, endpoint, client, closing, resolver, left, used, prepared,
                     foreign, queue, at, paho, opens, reader, answer, disconnected, queued>>
    BY DEF Written, Writes, Calm, task, run, futures
<1>2. client \in Clients /\ pc \in Standing /\ at[Ours] \in Descriptors
    BY <1>1, Owners
<1>3. RestOK /\ LoopOK /\ WatchesItsOwn /\ HasOwner /\ OwnerInv /\ WriterInv /\ QueueInv /\ SocketsInv
    BY AllTypes DEF OpeningInv
<1>4. LoopOK'
    BY <1>1, <1>2, <1>3 DEF LoopOK
<1>5. RestOK'
    BY <1>1, <1>3 DEF RestOK
<1>6. Ours' = Ours
    BY <1>1 DEF Ours
<1>7. \A d \in Descriptors : writer'[d] = (IF d = at[Ours] THEN 0 ELSE writer[d])
    BY <1>1, <1>3 DEF LoopOK
<1>8. WatchesItsOwn'
    BY <1>1, <1>3, <1>7 DEF WatchesItsOwn
<1>9. HasOwner' /\ OwnerInv' /\ SocketsInv'
    BY <1>1, <1>3, <1>6 DEF HasOwner, OwnerInv, SocketsInv
<1>10. WriterInv'
    BY <1>3, <1>6, <1>7 DEF WriterInv, WatchesItsOwn
<1>11. QueueInv'
  <2>1. writes[client] \in Nat /\ writes'[client] = writes[client] + 1
    BY <1>1, <1>2, <1>3 DEF LoopOK
  <2>2. \A i \in DOMAIN queue : queue[i].generation \in Nat
    BY <1>3, QueueTypes DEF RestOK, Installations
  <2>3. QED
    BY <1>1, <1>3, <2>1, <2>2 DEF QueueInv
<1>12. QED
    BY <1>4, <1>5, <1>8, <1>9, <1>10, <1>11, AllTypes DEF OpeningInv

LEMMA AfterQueues ==
    ASSUME OpeningInv, Queues
    PROVE  OpeningInv'
<1> DEFINE h == Install("writer", Ours, at[Ours], writes'[client])
<1>1. /\ Ours # 0 /\ pc = "open" /\ queued < MaxWrites /\ queued' = queued + 1
      /\ writing' = [writing EXCEPT ![client] = TRUE]
      /\ writes' = [writes EXCEPT ![client] = @ + 1]
      /\ queue' = Append(queue, h)
      /\ UNCHANGED <<pc, interrupt, endpoint, client, closing, resolver, left, used, prepared,
                     foreign, at, paho, opens, reader, writer, answer, disconnected>>
    BY DEF Queues, task, run, files, loop, futures
<1>2. client \in Clients /\ pc \in Standing /\ at[Ours] \in Descriptors /\ Ours \in Sockets
    BY <1>1, Owners
<1>3. RestOK /\ LoopOK /\ WatchesItsOwn /\ HasOwner /\ OwnerInv /\ WriterInv /\ QueueInv /\ SocketsInv
    BY AllTypes DEF OpeningInv
<1>4. LoopOK' /\ writes[client] \in Nat /\ writes'[client] = writes[client] + 1 /\ writing'[client]
    BY <1>1, <1>2, <1>3 DEF LoopOK
<1>5. h \in Installations /\ h.client = client /\ h.generation = writes'[client]
    BY <1>2, <1>4 DEF Install, Installations
<1>6. queue \in Seq(Installations)
    BY <1>3 DEF RestOK
<1> HIDE DEF h
<1>7. /\ queue' \in Seq(Installations)
      /\ \A i \in DOMAIN queue' : queue'[i] = h \/ (i \in DOMAIN queue /\ queue'[i] = queue[i])
    BY <1>1, <1>5, <1>6
<1>8. RestOK'
  <2>1. queued' \in 0..MaxWrites
    BY <1>1, <1>3, Bounds DEF RestOK
  <2>2. QED
    BY <1>1, <1>3, <1>7, <2>1 DEF RestOK
<1>9. Ours' = Ours
    BY <1>1 DEF Ours
<1>10. WatchesItsOwn' /\ HasOwner' /\ OwnerInv' /\ SocketsInv'
    BY <1>1, <1>3, <1>9 DEF WatchesItsOwn, HasOwner, OwnerInv, SocketsInv
<1>11. WriterInv'
    BY <1>1, <1>4 DEF WriterInv
<1>12. QueueInv'
  <2>1. \A i \in DOMAIN queue : queue[i].generation \in Nat
    BY <1>6, QueueTypes DEF Installations
  <2>2. client <= client /\ writes'[client] <= writes'[client]
    BY <1>2, <1>4, Bounds
  <2>3. QED
    BY <1>1, <1>2, <1>3, <1>4, <1>5, <1>7, <2>1, <2>2 DEF QueueInv
<1>13. QED
    BY <1>4, <1>8, <1>10, <1>11, <1>12, AllTypes DEF OpeningInv

(* Paho takes the socket of the task, and asks for both of its callbacks.  *)
LEMMA AfterAdopted ==
    ASSUME OpeningInv, Adopted
    PROVE  OpeningInv'
<1> DEFINE d == at[prepared]
           h1 == Install("reader", prepared, d, opens'[client])
           h2 == Install("writer", prepared, d, writes'[client])
<1>1. /\ pc \in Adopting /\ pc' = "connack" /\ prepared' = 0
      /\ paho' = [paho EXCEPT ![client] = prepared]
      /\ opens' = [opens EXCEPT ![client] = @ + 1]
      /\ writes' = [writes EXCEPT ![client] = @ + 1]
      /\ writing' = [writing EXCEPT ![client] = TRUE]
      /\ queue' = queue \o <<h1, h2>>
      /\ reader' = [reader EXCEPT ![d] = 0] /\ writer' = [writer EXCEPT ![d] = 0]
      /\ UNCHANGED <<interrupt, endpoint, client, closing, resolver, left, at, used, foreign,
                     answer, disconnected, queued>>
    BY DEF Adopted, Secured, Here, Adopting, run, futures
<1>2. RestOK /\ LoopOK /\ WatchesItsOwn /\ HasOwner /\ OwnerInv /\ QueueInv /\ SocketsInv
    BY AllTypes DEF OpeningInv
<1>3. prepared \in Sockets /\ d \in Descriptors /\ prepared # 0
    BY <1>1, <1>2, Bounds DEF OwnerInv, RestOK, LoopOK
<1>4. client \in Clients /\ Ours = 0 /\ \A c \in Clients : paho[c] = 0
    BY <1>1, <1>3, Owners DEF Adopting
<1>5. LoopOK' /\ writes'[client] \in Nat /\ opens'[client] \in Nat /\ writing'[client]
    BY <1>1, <1>2, <1>3, <1>4 DEF LoopOK
<1>6. /\ h1 \in Installations /\ h2 \in Installations /\ h1.client = client /\ h2.client = client
      /\ h1.what = "reader" /\ h2.generation = writes'[client]
    BY <1>3, <1>4, <1>5 DEF Install, Installations
<1>7. queue \in Seq(Installations)
    BY <1>2 DEF RestOK
<1>8. prepared' = 0 /\ Ours' = prepared
    BY <1>1, <1>2, <1>4, Bounds DEF Ours, LoopOK
<1> HIDE DEF h1, h2
<1>9. /\ queue' \in Seq(Installations)
      /\ \A i \in DOMAIN queue' : \/ queue'[i] \in {h1, h2}
                                  \/ i \in DOMAIN queue /\ queue'[i] = queue[i]
  <2>1. <<h1, h2>> \in Seq(Installations) /\ Len(<<h1, h2>>) = 2
    BY <1>6
  <2>2. \A i \in 1..2 : <<h1, h2>>[i] \in {h1, h2}
    OBVIOUS
  <2>3. /\ queue' \in Seq(Installations) /\ Len(queue') = Len(queue) + 2
        /\ \A i \in 1..(Len(queue) + 2) :
              queue'[i] = IF i <= Len(queue) THEN queue[i] ELSE <<h1, h2>>[i - Len(queue)]
    BY <1>1, <1>7, <2>1, ConcatProperties
  <2>4. Len(queue) \in Nat /\ DOMAIN queue = 1..Len(queue)
    BY <1>7
  <2>5. DOMAIN queue' = 1..(Len(queue) + 2)
    BY <2>3, <2>4
  <2>6. ASSUME NEW i \in DOMAIN queue'
        PROVE  \/ queue'[i] \in {h1, h2}
               \/ i \in DOMAIN queue /\ queue'[i] = queue[i]
    <3>1. CASE i <= Len(queue)
      BY <2>3, <2>4, <2>5, <3>1
    <3>2. CASE i > Len(queue)
      <4>1. i - Len(queue) \in 1..2 /\ queue'[i] = <<h1, h2>>[i - Len(queue)]
        BY <2>3, <2>4, <2>5, <3>2
      <4>2. QED
        BY <2>2, <4>1
    <3>3. QED
      BY <2>4, <2>5, <3>1, <3>2
  <2>7. QED
    BY <2>3, <2>6
<1>10. RestOK'
    BY <1>1, <1>2, <1>9, <1>8 DEF RestOK, Busy
<1>11. WatchesItsOwn'
  <2>1. \A e \in Descriptors : /\ reader'[e] = (IF e = d THEN 0 ELSE reader[e])
                               /\ writer'[e] = (IF e = d THEN 0 ELSE writer[e])
    BY <1>1, <1>2 DEF LoopOK
  <2>2. QED
    BY <1>1, <1>2, <2>1 DEF WatchesItsOwn
<1>12. HasOwner'
  <2>1. \A s \in Sockets : at[s] # 0 => s = prepared
    BY <1>2, <1>4, Bounds DEF HasOwner
  <2>2. resolver # "running"
    BY <1>1, <1>2 DEF HasOwner, Adopting
  <2>3. QED
    BY <1>1, <1>8, <2>1, <2>2 DEF HasOwner
<1>13. OwnerInv'
  <2>1. \A c \in Clients : paho'[c] = (IF c = client THEN prepared ELSE 0)
    BY <1>1, <1>2, <1>4 DEF LoopOK
  <2>2. prepared <= used /\ 0 <= used /\ at[prepared] # 0
    <3>1. prepared <= used /\ at[prepared] # 0
      BY <1>1, <1>2 DEF OwnerInv
    <3>2. used \in Sockets \cup {0}
      BY <1>2 DEF RestOK
    <3>3. QED
      BY <3>1, <3>2, Bounds
  <2>3. QED
    BY <1>1, <1>4, <2>1, <2>2, Bounds DEF OwnerInv, Adopting
<1>14. WriterInv'
    BY <1>1, <1>5 DEF WriterInv
<1>15. QueueInv'
  <2>1. \A i \in DOMAIN queue : queue[i].client <= client /\ queue[i].client # client
    BY <1>1, <1>2 DEF QueueInv, Adopting, Standing
  <2>2. client <= client /\ writes'[client] <= writes'[client]
    BY <1>4, <1>5, Bounds
  <2>3. QED
    BY <1>1, <1>5, <1>6, <1>9, <2>1, <2>2 DEF QueueInv, Standing
<1>16. SocketsInv'
  <2>1. used <= client * MaxAddresses
    BY <1>2 DEF SocketsInv
  <2>2. QED
    BY <1>1, <2>1 DEF SocketsInv, Adopting
<1>17. QED
    BY <1>5, <1>10, <1>11, <1>12, <1>13, <1>14, <1>15, <1>16, AllTypes DEF OpeningInv

(* Paho fails: before it takes the socket, or after it asked for both.      *)
LEMMA AfterNotAdopted ==
    ASSUME OpeningInv, NotAdopted
    PROVE  OpeningInv'
<1> DEFINE d == at[prepared]
           h1 == Install("reader", prepared, d, opens[client] + 1)
           h2 == Install("writer", prepared, d, writes[client] + 1)
<1>1. /\ pc \in Adopting /\ Fails("error")
      /\ queue' \in {queue, queue \o <<h1, h2>>}
      /\ UNCHANGED <<run, resolver, left, used, foreign, answer, queued>>
    BY DEF NotAdopted, Secured, Here, Adopting
<1>2. RestOK /\ LoopOK /\ HasOwner /\ OwnerInv /\ QueueInv
    BY AllTypes DEF OpeningInv
<1>3. prepared \in Sockets /\ d \in Descriptors
    BY <1>1, <1>2, Bounds DEF OwnerInv, RestOK, LoopOK
<1>4. client \in Clients
    BY <1>1, Owners DEF Adopting
<1>5. opens[client] + 1 \in Nat /\ writes[client] + 1 \in Nat
    BY <1>2, <1>4 DEF LoopOK
<1>6. h1 \in Installations /\ h2 \in Installations /\ h1.client = client /\ h2.client = client
    BY <1>3, <1>4, <1>5 DEF Install, Installations
<1>7. queue \in Seq(Installations) /\ client <= client
    BY <1>2, <1>4, Bounds DEF RestOK
<1> HIDE DEF h1, h2
<1>8. /\ queue' \in Seq(Installations)
      /\ \A i \in DOMAIN queue' : queue'[i].client <= client
  <2>1. CASE queue' = queue
    BY <1>2, <1>7, <2>1 DEF QueueInv
  <2>2. CASE queue' = queue \o <<h1, h2>>
    <3>1. <<h1, h2>> \in Seq(Installations) /\ Len(<<h1, h2>>) = 2
      BY <1>6
    <3>2. \A i \in 1..2 : <<h1, h2>>[i] \in {h1, h2}
      OBVIOUS
    <3>3. /\ queue' \in Seq(Installations) /\ Len(queue') = Len(queue) + 2
          /\ \A i \in 1..(Len(queue) + 2) :
                queue'[i] = IF i <= Len(queue) THEN queue[i] ELSE <<h1, h2>>[i - Len(queue)]
      BY <1>7, <2>2, <3>1, ConcatProperties
    <3>4. Len(queue) \in Nat /\ DOMAIN queue = 1..Len(queue)
      BY <1>7
    <3>5. DOMAIN queue' = 1..(Len(queue) + 2)
      BY <3>3, <3>4
    <3>6. ASSUME NEW i \in DOMAIN queue' PROVE queue'[i].client <= client
      <4>1. CASE i <= Len(queue)
        BY <1>2, <3>3, <3>4, <3>5, <4>1 DEF QueueInv
      <4>2. CASE i > Len(queue)
        <5>1. i - Len(queue) \in 1..2 /\ queue'[i] = <<h1, h2>>[i - Len(queue)]
          BY <3>3, <3>4, <3>5, <4>2
        <5>2. QED
          BY <1>6, <1>7, <3>2, <5>1
      <4>3. QED
        BY <3>4, <3>5, <4>1, <4>2
    <3>7. QED
      BY <3>3, <3>6
  <2>3. QED
    BY <1>1, <2>1, <2>2
<1>9. resolver' \in {"none", "answered", "killed"}
    BY <1>1, <1>2 DEF HasOwner, RestOK, Adopting
<1>10. QED
    BY <1>1, <1>8, <1>9, AfterFailure DEF Adopting

----------------------------------------------------------------------------
(* The attempt goes on with the next address, or begins.                   *)
LEMMA AfterTryNext ==
    ASSUME OpeningInv, NEW n \in Nat, TryNext(n), n <= MaxAddresses,
           pc = "resolving" \/ (pc \in Adopting /\ n = left),
           UNCHANGED <<run, foreign, queue, answer, queued>>,
           resolver' \in {"none", "answered", "killed"}
    PROVE  OpeningInv'
<1>1. RestOK /\ OwnerInv /\ QueueInv /\ SocketsInv /\ client \in Clients
    BY AllTypes, Owners DEF OpeningInv, Adopting
<1>2. pc \notin {"idle", "over"} /\ pc \notin Standing
    BY DEF Adopting, Standing
<1>3. CASE Fails("error") /\ UNCHANGED <<left, used>>
  <2>1. queue' \in Seq(Installations) /\ \A i \in DOMAIN queue' : queue'[i].client <= client
    BY <1>1 DEF RestOK, QueueInv
  <2>2. QED
    BY <1>2, <1>3, <2>1, AfterFailure
<1>4. ASSUME n > 0, UNCHANGED disconnected,
             NEW d \in Free \cup {at[s] : s \in {prepared} \ {0}}, Prepare(n, d)
      PROVE  OpeningInv'
  <2>1. Ours = 0
    BY <1>2, Owners
  <2>2. n \in 1..MaxAddresses /\ used \in Nat
    <3>1. used \in Sockets \cup {0}
      BY <1>1 DEF RestOK
    <3>2. QED
      BY <1>4, <3>1, Bounds
  <2>3. used + n <= client * MaxAddresses
    <3>1. CASE pc = "resolving"
      <4>1. used <= (client - 1) * MaxAddresses
        BY <1>1, <3>1 DEF SocketsInv
      <4>2. /\ (client - 1) * MaxAddresses + MaxAddresses = client * MaxAddresses
            /\ (client - 1) * MaxAddresses \in Nat
        BY <1>1, Products, Bounds
      <4>3. \A a \in Nat : used <= a => used + n <= a + MaxAddresses
        BY <2>2, Bounds
      <4>4. QED
        BY <4>1, <4>2, <4>3
    <3>2. CASE pc \in Adopting /\ n = left
      BY <1>1, <3>2 DEF SocketsInv
    <3>3. QED
      BY <3>1, <3>2
  <2>4. client' = client /\ UNCHANGED <<endpoint, closing, answer>>
    BY DEF run
  <2>5. \A i \in DOMAIN queue : queue[i].client < client
    <3>1. \A i \in DOMAIN queue : queue[i].client \in Nat
      BY <1>1, QueueTypes, Bounds DEF RestOK, Installations
    <3>2. QED
      BY <1>1, <1>2, <3>1, Bounds DEF QueueInv
  <2>6. answer' \in {"pending", "accepted", "refused"} /\ disconnected' \in BOOLEAN
    BY <1>1, <1>4, <2>4 DEF RestOK
  <2>7. QED
    BY <1>1, <1>4, <2>1, <2>2, <2>3, <2>4, <2>5, <2>6, AfterPrepare
<1>5. QED
    BY <1>3, <1>4 DEF TryNext

LEMMA AfterBegin ==
    ASSUME OpeningInv, Begin
    PROVE  OpeningInv'
<1>1. /\ pc = "idle" /\ interrupt = "none" /\ client < MaxAttempts /\ client' = client + 1
      /\ answer' = "pending" /\ disconnected' = FALSE
      /\ UNCHANGED <<endpoint, closing, resolver, foreign, queue, queued>>
    BY DEF Begin, Here
<1>2. RestOK /\ LoopOK /\ HasOwner /\ OwnerInv /\ QueueInv /\ SocketsInv
    BY AllTypes DEF OpeningInv
<1>3. client \in Nat /\ client' \in Clients /\ client' \in 0..MaxAttempts /\ client' # 0
    BY <1>1, <1>2, Bounds DEF RestOK, Clients
<1>4. prepared = 0 /\ Ours = 0 /\ Shut /\ resolver \in {"none", "answered", "killed"}
    BY <1>1, <1>2, Owners DEF Adopting, Standing, HasOwner, RestOK
<1>5. used \in Nat /\ used <= client * MaxAddresses
  <2>1. used \in Sockets \cup {0}
    BY <1>2 DEF RestOK
  <2>2. QED
    BY <1>2, <2>1, Bounds DEF SocketsInv
<1>6. client * MaxAddresses = (client' - 1) * MaxAddresses
    BY <1>1, <1>3
<1>7. /\ (client' - 1) * MaxAddresses + MaxAddresses = client' * MaxAddresses
      /\ (client' - 1) * MaxAddresses \in Nat
    BY <1>3, Products
<1>8. used + 1 <= client' * MaxAddresses /\ used <= client' * MaxAddresses
  <2>1. \A a \in Nat : used <= a => used + 1 <= a + MaxAddresses /\ used <= a + MaxAddresses
    BY <1>5, Bounds
  <2>2. QED
    BY <1>5, <1>6, <1>7, <2>1
<1>9. \A i \in DOMAIN queue : queue[i].client < client'
  <2>1. \A i \in DOMAIN queue : queue[i].client \in Nat /\ queue[i].client <= client
    BY <1>2, QueueTypes, Bounds DEF RestOK, Installations, QueueInv
  <2>2. QED
    BY <1>1, <1>3, <2>1
<1>10. CASE endpoint.literal
  <2>1. PICK d \in Free : Prepare(1, d)
    BY <1>10 DEF Begin
  <2>2. 1 \in 1..MaxAddresses
    BY Bounds
  <2>3. QED
    BY <1>1, <1>3, <1>4, <1>8, <1>9, <2>1, <2>2, AfterPrepare
<1>11. CASE ~endpoint.literal
  <2>1. /\ pc' = "spawning"
        /\ UNCHANGED <<interrupt, left, at, used, prepared, adopted, loop>>
    BY <1>11 DEF Begin
  <2>2. RestOK' /\ LoopOK'
    BY <1>1, <1>2, <1>3, <2>1 DEF RestOK, LoopOK, Busy, adopted, generations, loop
  <2>3. /\ \A s \in Sockets : at'[s] = 0
        /\ \A c \in Clients : paho'[c] = 0
        /\ \A d \in Descriptors : reader'[d] = 0 /\ writer'[d] = 0
    BY <1>4, <2>1 DEF Shut, adopted, loop
  <2>4. Ours' = 0 /\ prepared' = 0
    BY <1>3, <1>4, <2>1, <2>3 DEF Ours
  <2>5. WatchesItsOwn' /\ HasOwner' /\ WriterInv'
    BY <1>1, <1>4, <2>3, <2>4 DEF WatchesItsOwn, HasOwner, WriterInv
  <2>6. OwnerInv'
    BY <1>3, <1>5, <2>1, <2>3, <2>4 DEF OwnerInv, Adopting
  <2>7. QueueInv'
    <3>1. \A i \in DOMAIN queue : queue[i].client <= client' /\ queue[i].client # client'
      <4>1. \A i \in DOMAIN queue : queue[i].client \in Nat
        BY <1>2, QueueTypes, Bounds DEF RestOK, Installations
      <4>2. QED
        BY <1>3, <1>9, <4>1, Bounds
    <3>2. QED
      BY <1>1, <3>1 DEF QueueInv
  <2>8. SocketsInv'
    BY <1>5, <1>6, <1>8, <2>1 DEF SocketsInv, Adopting
  <2>9. QED
    BY <2>2, <2>5, <2>6, <2>7, <2>8, AllTypes DEF OpeningInv
<1>12. QED
    BY <1>10, <1>11

(* Waiting for a socket, the loop watches the socket of the task.          *)
LEMMA AfterHandshake ==
    ASSUME OpeningInv, NEW want \in {"read", "write"}, Connected(want) \/ Handshakes(want)
    PROVE  OpeningInv'
<1> DEFINE d == at[prepared]
<1>1. /\ pc \in Adopting /\ pc' \in Adopting
      /\ UNCHANGED <<interrupt, endpoint, client, closing, resolver, left, used, prepared, foreign,
                     at, adopted, queue, answer, disconnected, queued>>
    BY DEF Connected, Handshakes, Here, Adopting, task, run, files, futures
<1>2. RestOK /\ LoopOK /\ HasOwner /\ OwnerInv /\ WatchesItsOwn /\ WriterInv
    BY AllTypes DEF OpeningInv
<1>3. prepared \in Sockets /\ d \in Descriptors /\ Ours = 0
    BY <1>1, <1>2, Owners, Bounds DEF OwnerInv, RestOK, LoopOK
<1>4. \E r \in {prepared, 0}, w \in {prepared, 0} :
         \/ reader' = [reader EXCEPT ![d] = r] /\ writer' = [writer EXCEPT ![d] = w]
         \/ UNCHANGED <<reader, writer>>
    BY DEF Connected, Handshakes, loop
<1>5. PICK r \in {prepared, 0}, w \in {prepared, 0} :
         \/ reader' = [reader EXCEPT ![d] = r] /\ writer' = [writer EXCEPT ![d] = w]
         \/ UNCHANGED <<reader, writer>>
    BY <1>4
<1>6. /\ reader' \in [Descriptors -> Sockets \cup {0}] /\ writer' \in [Descriptors -> Sockets \cup {0}]
      /\ \A e \in Descriptors : /\ reader'[e] = reader[e] \/ (e = d /\ reader'[e] \in {prepared, 0})
                                /\ writer'[e] = writer[e] \/ (e = d /\ writer'[e] \in {prepared, 0})
    BY <1>2, <1>3, <1>5 DEF LoopOK
<1>7. RestOK'
    BY <1>1, <1>2 DEF RestOK, Busy, Adopting
<1>8. \A phase \in Phases : pc' \in phase <=> pc \in phase
    BY <1>1 DEF Phases, Adopting, Standing
<1>9. resolver' # "running"
    BY <1>1, <1>2 DEF HasOwner, Adopting
<1>10. \A e \in Descriptors : /\ reader'[e] # 0 => at[reader'[e]] = e
                              /\ writer'[e] # 0 => at[writer'[e]] = e
    BY <1>2, <1>6 DEF WatchesItsOwn
<1>11. QED
    BY <1>1, <1>3, <1>6, <1>7, <1>8, <1>9, <1>10, AfterWatch

(* A callback that is still current installs its reader or writer.         *)
LEMMA AfterInstalls ==
    ASSUME OpeningInv, Installs
    PROVE  OpeningInv'
<1> DEFINE h == Head(queue)
<1>1. /\ queue # <<>> /\ queue' = Tail(queue)
      /\ IF Current(h) THEN Watch(h.at, h.socket, IF h.what = "reader" THEN "read" ELSE "write")
         ELSE UNCHANGED loop
      /\ UNCHANGED <<pc, interrupt, endpoint, client, closing, resolver, left, used, prepared,
                     foreign, at, adopted, answer, disconnected, queued>>
    BY DEF Installs, task, run, files, futures
<1>2. RestOK /\ LoopOK /\ HasOwner /\ OwnerInv /\ WatchesItsOwn /\ WriterInv /\ QueueInv
    BY AllTypes DEF OpeningInv
<1>3. queue \in Seq(Installations)
    BY <1>2 DEF RestOK
<1>4. /\ h = queue[1] /\ h \in Installations /\ 1 \in DOMAIN queue
      /\ queue' \in Seq(Installations)
      /\ \A i \in DOMAIN queue' : i + 1 \in DOMAIN queue /\ queue'[i] = queue[i + 1]
    BY <1>1, <1>3
<1>5. /\ h.what \in {"reader", "writer"} /\ h.client \in Clients /\ h.socket \in Sockets
      /\ h.at \in Descriptors /\ h.generation \in Nat
    BY <1>4 DEF Installations
<1>6. /\ h.client <= client
      /\ h.client = client /\ pc \in Standing /\ h.what = "writer" =>
            (h.generation = writes[client] => writing[client])
    BY <1>2, <1>4 DEF QueueInv
<1> HIDE DEF h
<1>7. RestOK'
    BY <1>1, <1>2, <1>4 DEF RestOK
<1>8. /\ reader' \in [Descriptors -> Sockets \cup {0}] /\ writer' \in [Descriptors -> Sockets \cup {0}]
      /\ \A d \in Descriptors :
            /\ reader'[d] # 0 => at[reader'[d]] = d
            /\ writer'[d] # 0 => at[writer'[d]] = d
            /\ writer'[d] # 0 /\ writer'[d] = Ours => writing[client]
  <2>1. \A d \in Descriptors : /\ reader[d] # 0 => at[reader[d]] = d
                               /\ writer[d] # 0 => at[writer[d]] = d
                               /\ writer[d] # 0 /\ writer[d] = Ours => writing[client]
    BY <1>2 DEF WatchesItsOwn, WriterInv
  <2>2. CASE ~Current(h)
    BY <1>1, <1>2, <2>1, <2>2 DEF loop, LoopOK
  <2>3. CASE Current(h) /\ h.what = "reader"
    <3>1. reader' = [reader EXCEPT ![h.at] = h.socket] /\ writer' = writer
      BY <1>1, <2>3 DEF Watch
    <3>2. at[h.socket] = h.at
      BY <2>3 DEF Current
    <3>3. QED
      BY <1>2, <1>5, <2>1, <3>1, <3>2 DEF LoopOK
  <2>4. CASE Current(h) /\ h.what = "writer"
    <3>1. writer' = [writer EXCEPT ![h.at] = h.socket] /\ reader' = reader
      BY <1>1, <2>4 DEF Watch
    <3>2. at[h.socket] = h.at /\ paho[h.client] = h.socket /\ h.generation = writes[h.client]
      BY <2>4 DEF Current
    <3>3. h.client = client /\ Ours = h.socket /\ Ours # 0
      BY <1>5, <3>2, Owners, Bounds
    <3>4. writing[client]
      BY <1>6, <2>4, <3>2, <3>3, Owners
    <3>5. QED
      BY <1>2, <1>5, <2>1, <3>1, <3>2, <3>4 DEF LoopOK
  <2>5. QED
    BY <1>5, <2>2, <2>3, <2>4
<1>9. \A i \in DOMAIN queue' : \E j \in DOMAIN queue : queue'[i] = queue[j]
    BY <1>4
<1>10. resolver' = "running" => pc' = "resolving"
    BY <1>1, <1>2 DEF HasOwner
<1>11. QED
    BY <1>1, <1>7, <1>8, <1>9, <1>10, AfterWatch

(* The task gives its attempt up.                                          *)
LEMMA AfterEnds ==
    ASSUME OpeningInv, Unresolved \/ CleanedUp \/ NotOpened \/ Ends \/ Interrupted
    PROVE  OpeningInv'
<1>1. /\ pc \notin {"idle", "over"}
      /\ UNCHANGED <<run, left, used, foreign, queue, answer, queued>>
      /\ \E because \in {"error", "close", "deadline", interrupt} : Fails(because)
      /\ resolver' = "none" \/ (resolver' = resolver /\ pc # "resolving")
    BY DEF Unresolved, CleanedUp, NotOpened, Ends, Interrupted, Here, Busy
<1>2. RestOK /\ HasOwner /\ QueueInv
    BY AllTypes DEF OpeningInv
<1>3. resolver' \in {"none", "answered", "killed"}
    BY <1>1, <1>2 DEF RestOK, HasOwner
<1>4. queue' \in Seq(Installations) /\ \A i \in DOMAIN queue' : queue'[i].client <= client
    BY <1>1, <1>2 DEF RestOK, QueueInv
<1>5. QED
    BY <1>1, <1>3, <1>4, AfterFailure

LEMMA OpeningStep ==
    ASSUME OpeningInv, [Next]_vars
    PROVE  OpeningInv'
<1>1. RestOK /\ HasOwner
    BY AllTypes DEF OpeningInv
<1>2. CASE Begin
    BY <1>2, AfterBegin
<1>3. CASE Unresolved \/ CleanedUp \/ NotOpened \/ Ends \/ Interrupted
    BY <1>3, AfterEnds
<1>4. ASSUME NEW n \in 1..MaxAddresses, Resolved(n) PROVE OpeningInv'
  <2>1. n \in Nat /\ n <= MaxAddresses
    BY Bounds
  <2>2. QED
    BY <1>4, <2>1, AfterTryNext DEF Resolved, Here
<1>5. CASE AddressFails
  <2>1. left \in Nat /\ left <= MaxAddresses
    BY <1>1, Bounds DEF RestOK
  <2>2. resolver' \in {"none", "answered", "killed"}
    BY <1>1, <1>5 DEF AddressFails, Here, RestOK, HasOwner
  <2>3. QED
    BY <1>5, <2>1, <2>2, AfterTryNext DEF AddressFails, Here, Adopting
<1>6. ASSUME NEW want \in {"read", "write"}, Connected(want) \/ Handshakes(want) PROVE OpeningInv'
    BY <1>6, AfterHandshake
<1>7. CASE Adopted \/ NotAdopted
    BY <1>7, AfterAdopted, AfterNotAdopted
<1>8. CASE Installs
    BY <1>8, AfterInstalls
<1>9. CASE Written \/ Queues
    BY <1>9, AfterWritten, AfterQueues
<1>10. CASE ConnackRefused \/ ConnectionLost \/ AcceptedAndLost
  <2>1. /\ Ours # 0 /\ PahoCloses
        /\ UNCHANGED <<pc, client, resolver, left, used, prepared, queue, interrupt, endpoint,
                       closing, foreign, queued>>
        /\ answer' \in {answer, "refused", "accepted"}
    BY <1>10 DEF ConnackRefused, ConnectionLost, AcceptedAndLost, Reads, Writes, Calm, task, run
  <2>2. disconnected' \in BOOLEAN
    BY <1>1, <1>10 DEF ConnackRefused, ConnectionLost, AcceptedAndLost, RestOK
  <2>3. RestOK'
    BY <1>1, <2>1, <2>2 DEF RestOK
  <2>4. QED
    BY <2>1, <2>3, AfterPahoCloses
<1>11. CASE ConnackAccepted \/ Close \/ Deadline \/ ForeignFile \/ ResolverAnswers \/ Reaped
            \/ UNCHANGED vars
  <2>1. UNCHANGED <<pc, client, endpoint, left, used, prepared, at, adopted, loop, queue, queued>>
    BY <1>11 DEF ConnackAccepted, Close, Deadline, ForeignFile, ResolverAnswers, Reaped, Calm,
                 vars, task, run, files
  <2>2. interrupt' \in {"none", "deadline", "close"} /\ closing' \in BOOLEAN
    BY <1>1, <1>11 DEF ConnackAccepted, Close, Deadline, ForeignFile, ResolverAnswers, Reaped, Calm,
                       vars, task, run, files, RestOK
  <2>3. foreign' \subseteq Descriptors
    BY <1>1, <1>11 DEF ConnackAccepted, Close, Deadline, ForeignFile, ResolverAnswers, Reaped, Calm,
                       vars, files, RestOK, Free
  <2>4. answer' \in {"pending", "accepted", "refused"} /\ disconnected' \in BOOLEAN
    BY <1>1, <1>11 DEF ConnackAccepted, Close, Deadline, ForeignFile, ResolverAnswers, Reaped, Calm,
                       vars, futures, RestOK
  <2>5. resolver' = resolver \/ (resolver' \in {"answered", "none"})
    BY <1>11 DEF ConnackAccepted, Close, Deadline, ForeignFile, ResolverAnswers, Reaped, Calm, vars
  <2>6. RestOK'
    BY <1>1, <2>1, <2>2, <2>3, <2>4, <2>5 DEF RestOK
  <2>7. resolver' = "running" => pc' = "resolving"
    BY <1>1, <2>1, <2>5 DEF HasOwner
  <2>8. \A phase \in Phases : pc' \in phase <=> pc \in phase
    BY <2>1
  <2>9. QED
    BY <2>1, <2>6, <2>7, <2>8, AfterNothing
<1>12. CASE Stops \/ Spawned \/ KillsResolver \/ ExchangeBreaks \/ Opened
  <2>1. /\ UNCHANGED <<client, endpoint, closing, left, used, prepared, foreign, at, adopted, loop,
                       queue, answer, queued>>
        /\ interrupt' \in {interrupt, "none"}
    BY <1>12 DEF Stops, Spawned, KillsResolver, ExchangeBreaks, Kill, Opened, run, files,
       futures
  <2>2. \/ pc = "idle" /\ pc' = "over" /\ resolver' = resolver
        \/ pc = "spawning" /\ pc' = "resolving" /\ resolver' = "running"
        \/ pc = "resolving" /\ pc' = "cleaning" /\ resolver' = (IF resolver = "running" THEN "killed" ELSE resolver)
        \/ pc = "connack" /\ pc' = "open" /\ resolver' = resolver
    BY <1>12 DEF Stops, Spawned, KillsResolver, ExchangeBreaks, Kill, Opened, Here
  <2>3. disconnected' \in BOOLEAN
    BY <1>1, <1>12 DEF Stops, Spawned, KillsResolver, ExchangeBreaks, Kill, Opened, futures, RestOK
  <2>4. resolver' \in {"none", "running", "answered", "killed"} /\ (resolver' = "running" => pc' = "resolving")
    BY <1>1, <2>2 DEF RestOK, HasOwner
  <2>5. RestOK'
    BY <1>1, <2>1, <2>2, <2>3, <2>4 DEF RestOK, Busy
  <2>6. \A phase \in Phases : pc' \in phase <=> pc \in phase
    BY <2>2 DEF Phases, Standing, Adopting
  <2>7. QED
    BY <2>1, <2>4, <2>5, <2>6, AfterNothing
<1>13. QED
    BY <1>2, <1>3, <1>4, <1>5, <1>6, <1>7, <1>8, <1>9, <1>10, <1>11, <1>12 DEF Next

----------------------------------------------------------------------------
(* The inductive invariant: who has the socket in which phase, what is      *)
(* watched for it, and which callbacks of the queue can still change that.  *)
THEOREM OpeningInvariant == Spec => []OpeningInv
<1>1. Init => OpeningInv
  <2> SUFFICES ASSUME Init PROVE OpeningInv
    OBVIOUS
  <2>1. /\ pc = "idle" /\ client = 0 /\ interrupt = "none" /\ ~closing /\ resolver = "none"
        /\ left = 0 /\ prepared = 0 /\ used = 0 /\ foreign = {} /\ queue = <<>> /\ queued = 0
        /\ answer = "pending" /\ ~disconnected
        /\ endpoint \in [literal : BOOLEAN, tls : BOOLEAN]
        /\ closing \in BOOLEAN /\ disconnected \in BOOLEAN
    BY DEF Init
  <2>2. LoopOK /\ Shut
    BY DEF Init, LoopOK, Shut
  <2>3. 0 \in 0..MaxAttempts /\ 0 \in 0..MaxAddresses /\ 0 \in 0..MaxWrites
    BY Bounds
  <2>4. RestOK
    BY <2>1, <2>3 DEF RestOK
  <2>5. Ours = 0 /\ DOMAIN queue = {}
    BY <2>1 DEF Ours
  <2>6. WatchesItsOwn /\ HasOwner /\ OwnerInv /\ WriterInv /\ QueueInv
    BY <2>1, <2>2, <2>5 DEF WatchesItsOwn, HasOwner, OwnerInv, WriterInv, QueueInv, Shut, Adopting
  <2>7. SocketsInv
    <3>1. 0 * MaxAddresses = 0
      BY Bounds
    <3>2. QED
      BY <2>1, <3>1 DEF SocketsInv, Adopting
  <2>8. QED
    BY <2>2, <2>4, <2>6, <2>7, AllTypes DEF OpeningInv
<1>2. OpeningInv /\ [Next]_vars => OpeningInv'
    BY OpeningStep
<1>3. QED
    BY <1>1, <1>2, PTL DEF Spec

(* The types.                                                              *)
THEOREM OpeningTypes == Spec => []TypeOK
<1>1. OpeningInv => TypeOK
    BY DEF OpeningInv
<1>2. QED
    BY <1>1, OpeningInvariant, PTL

(* The event loop watches only sockets that are open at that very           *)
(* descriptor, every open socket has an owner who will close it, and the    *)
(* resolver runs only while the task waits for it.                          *)
THEOREM EveryDescriptorIsOwned == Spec => []DescriptorsAreOwned
<1>1. OpeningInv => DescriptorsAreOwned
    BY DEF OpeningInv, DescriptorsAreOwned
<1>2. QED
    BY <1>1, OpeningInvariant, PTL

(* There is never more than one socket open, however attempts, addresses    *)
(* and closings interleave.                                                 *)
THEOREM OneSocketAtATime ==
    Spec => [](\A s, t \in Sockets : at[s] # 0 /\ at[t] # 0 => s = t)
<1>1. OpeningInv => \A s, t \in Sockets : at[s] # 0 /\ at[t] # 0 => s = t
  <2> SUFFICES ASSUME OpeningInv, NEW s \in Sockets, NEW t \in Sockets, at[s] # 0, at[t] # 0
               PROVE  s = t
    OBVIOUS
  <2>1. (s = prepared \/ s = Ours) /\ (t = prepared \/ t = Ours) /\ s # 0 /\ t # 0
    BY Owners, Bounds
  <2>2. prepared # 0 => Ours = 0
    BY Owners
  <2>3. QED
    BY <2>1, <2>2
<1>2. QED
    BY <1>1, OpeningInvariant, PTL
============================================================================
