------------------------ MODULE TaskHandlers_proofs ------------------------
(***************************************************************************)
(* For any deliveries, handler tasks and cache size: the types, and that a *)
(* delivery is handled once.  The inductive invariant keeps a ledger: what *)
(* was invoked for a delivery, with what is about to be, is at most one    *)
(* more than the cache has forgotten, and that one is accounted for by the *)
(* active key, by the cache, or by a service that has closed.              *)
(***************************************************************************)
EXTENDS TaskHandlers, FiniteSetTheorems, SequenceTheorems, TLAPS

(* The tasks that will invoke the handler of k unless they fail first.     *)
Unstarted(k) == {s \in Slots : task[s].key = k /\ task[s].stage \in {"created", "acking"}}

Remembered(k) == closed \/ k \in active \/ k \in Cached

Ledger(k) ==
    /\ invoked[k] + Cardinality(Unstarted(k)) <= forgotten[k] + (IF Remembered(k) THEN 1 ELSE 0)
    /\ invoked[k] + Cardinality(Unstarted(k)) <= received[k]

(* What every answer to k is until the cache has forgotten it.             *)
RightAnswer(k) ==
    IF k \in Malformed \cup Unreadable THEN "invalid"
    ELSE IF Modes[k] = "ACKNOWLEDGMENT" THEN "ack" ELSE "result"

Agreed(k) ==
    forgotten[k] = 0 =>
        /\ tried[k] \subseteq {RightAnswer(k), "busy"}
        /\ dispatcher.key = k => dispatcher.answer \in {RightAnswer(k), "busy", "none"}
        /\ \A i \in DOMAIN cache : cache[i].key = k => cache[i].answer \in {RightAnswer(k), "none"}

(* What is tried, or about to be by the dispatcher, is remembered first,   *)
(* or is an ACK or the capacity answer.                                    *)
Recorded(k) ==
    forgotten[k] = 0 /\ k \notin Unreadable =>
        \/ closed \/ k \in Cached
        \/ /\ tried[k] \subseteq {"ack", "busy"}
           /\ dispatcher.key = k => dispatcher.answer \in {"busy", "none"}

(* Where a task stands.                                                    *)
Standing(s) ==
    LET k == task[s].key IN
    /\ task[s].cancel => closed
    /\ task[s].stage # "idle" => k \notin Malformed \cup Unreadable
    /\ task[s].stage = "acking" => Modes[k] = "ACKNOWLEDGMENT"
    /\ task[s].stage = "answering" => Modes[k] = "COMPLETE" /\ task[s].left > 0
    /\ Executing(s) /\ Modes[k] = "ACKNOWLEDGMENT" => closed \/ k \in active
    /\ task[s].stage = "answering" /\ forgotten[k] = 0 =>
           /\ task[s].answer = RightAnswer(k)
           /\ closed \/ (k \in Cached /\ k \notin active)

IInv ==
    /\ TypeOK
    /\ \A k \in Keys : Ledger(k) /\ Agreed(k) /\ Recorded(k)
    /\ \A s \in Slots : Standing(s)
    /\ AckSingleFlight
----------------------------------------------------------------------------
(* The cache.                                                              *)
Entries == [key : Keys, answer : Answers]
CacheOK ==
    /\ cache \in Seq(Entries) /\ Len(cache) <= CacheSize
    /\ \A i, j \in DOMAIN cache : cache[i].key = cache[j].key => i = j

LEMMA FindsItsPlace ==
    ASSUME cache \in Seq(Entries), NEW k \in Cached
    PROVE  /\ Place(k) \in 1..Len(cache) /\ cache[Place(k)].key = k
           /\ cache[Place(k)] = [key |-> k, answer |-> CachedAnswer(k)]
           /\ k \in Keys /\ CachedAnswer(k) \in Answers
<1>1. PICK i \in 1..Len(cache) : cache[i].key = k
    BY DEF Cached
<1>2. Place(k) \in 1..Len(cache) /\ cache[Place(k)].key = k
    BY <1>1 DEF Place
<1>3. cache[Place(k)] \in Entries
    BY <1>2
<1>4. QED
    BY <1>2, <1>3 DEF CachedAnswer, Entries

(* Without(k) is the cache less the entry of k.                            *)
LEMMA WithoutOne ==
    ASSUME CacheOK, NEW k \in Keys
    PROVE  LET w == Without(k) IN
           /\ w \in Seq(Entries) /\ Len(w) = Len(cache) - (IF k \in Cached THEN 1 ELSE 0)
           /\ \A i \in 1..Len(w) : w[i].key # k /\ \E j \in 1..Len(cache) : w[i] = cache[j]
           /\ \A j \in 1..Len(cache) : cache[j].key # k => \E i \in 1..Len(w) : w[i] = cache[j]
           /\ \A i, j \in 1..Len(w) : w[i].key = w[j].key => i = j
<1> DEFINE w == Without(k)
           p == Place(k)
<1>1. CASE k \notin Cached
  <2>1. w = cache
    BY <1>1 DEF Without
  <2>2. QED
    BY <1>1, <2>1 DEF Cached, CacheOK
<1>2. CASE k \in Cached
  <2>1. p \in 1..Len(cache) /\ cache[p].key = k
    BY <1>2, FindsItsPlace DEF CacheOK
  <2> DEFINE before == SubSeq(cache, 1, p - 1)
             after == SubSeq(cache, p + 1, Len(cache))
             from(i) == IF i < p THEN i ELSE i + 1
  <2>2. /\ before \in Seq(Entries) /\ Len(before) = p - 1
        /\ \A i \in 1..(p - 1) : before[i] = cache[i]
    BY <2>1 DEF CacheOK
  <2>3. /\ after \in Seq(Entries) /\ Len(after) = Len(cache) - p
        /\ \A i \in 1..(Len(cache) - p) : after[i] = cache[p + i]
    BY <2>1 DEF CacheOK
  <2>4. w = before \o after
    BY <1>2 DEF Without, RemoveAt
  <2>5. /\ w \in Seq(Entries) /\ Len(w) = Len(cache) - 1
        /\ \A i \in 1..Len(w) : from(i) \in (1..Len(cache)) \ {p} /\ w[i] = cache[from(i)]
    <3> HIDE DEF before, after, w, p
    <3>1. cache \in Seq(Entries)
      BY DEF CacheOK
    <3>2. /\ w \in Seq(Entries) /\ Len(w) = Len(before) + Len(after)
          /\ \A i \in 1..(Len(before) + Len(after)) :
                w[i] = IF i <= Len(before) THEN before[i] ELSE after[i - Len(before)]
      BY <2>2, <2>3, <2>4, ConcatProperties
    <3>3. Len(cache) \in Nat /\ Len(w) = Len(cache) - 1
      BY <2>1, <2>2, <2>3, <3>1, <3>2
    <3>4. \A i \in 1..Len(w) : w[i] = cache[from(i)]
      <4>1. SUFFICES ASSUME NEW i \in 1..Len(w) PROVE w[i] = cache[from(i)]
        OBVIOUS
      <4>2. CASE i < p
        BY <2>1, <2>2, <2>3, <3>2, <3>3, <4>2
      <4>3. CASE i >= p
        <5>1. i - (p - 1) \in 1..(Len(cache) - p)
          BY <2>1, <3>3, <4>3
        <5>2. w[i] = after[i - (p - 1)]
          BY <2>1, <2>2, <2>3, <3>2, <3>3, <4>3
        <5>3. after[i - (p - 1)] = cache[p + (i - (p - 1))]
          BY <2>3, <5>1
        <5>4. p + (i - (p - 1)) = i + 1
          BY <2>1, <3>3
        <5>5. QED
          BY <2>1, <3>3, <4>3, <5>2, <5>3, <5>4
      <4>4. QED
        BY <2>1, <3>3, <4>2, <4>3
    <3>5. \A i \in 1..Len(w) : from(i) \in (1..Len(cache)) \ {p}
      BY <2>1, <3>3
    <3>6. QED
      BY <3>2, <3>3, <3>4, <3>5
  <2>6. \A j \in (1..Len(cache)) \ {p} : \E i \in 1..Len(w) : from(i) = j
    <3>1. SUFFICES ASSUME NEW j \in (1..Len(cache)) \ {p}
                   PROVE  \E i \in 1..Len(w) : from(i) = j
        OBVIOUS
    <3>2. CASE j < p
        BY <2>1, <2>5, <3>2
    <3>3. CASE j > p
      <4>1. j - 1 \in 1..Len(w) /\ from(j - 1) = j
        BY <2>1, <2>5, <3>3
      <4>2. QED
        BY <4>1
    <3>4. QED
        BY <2>1, <3>1, <3>2, <3>3
  <2>7. \A i, j \in 1..Len(cache) : cache[i].key = cache[j].key => i = j
    BY DEF CacheOK
  <2>8. \A i, j \in 1..Len(w) : from(i) = from(j) => i = j
    BY <2>1, <2>5
  <2> HIDE DEF w, from
  <2>9. \A i \in 1..Len(w) : w[i].key # k /\ \E j \in 1..Len(cache) : w[i] = cache[j]
    BY <2>1, <2>5, <2>7
  <2>10. \A j \in 1..Len(cache) : cache[j].key # k => \E i \in 1..Len(w) : w[i] = cache[j]
    BY <2>1, <2>5, <2>6
  <2>11. \A i, j \in 1..Len(w) : w[i].key = w[j].key => i = j
    BY <2>5, <2>7, <2>8
  <2>12. QED
    BY <1>2, <2>5, <2>9, <2>10, <2>11 DEF w
<1>3. QED
    BY <1>1, <1>2

LEMMA InTheCache ==
    ASSUME cache \in Seq(Entries), NEW k
    PROVE  k \in Cached <=> \E i \in 1..Len(cache) : cache[i].key = k
<1>1. DOMAIN cache = 1..Len(cache)
    OBVIOUS
<1>2. QED
    BY <1>1 DEF Cached

LEMMA InTheCacheNext ==
    ASSUME cache' \in Seq(Entries), NEW k
    PROVE  k \in Cached' <=> \E i \in 1..Len(cache') : cache'[i].key = k
<1>1. DOMAIN cache' = 1..Len(cache')
    OBVIOUS
<1>2. QED
    BY <1>1 DEF Cached

(* What is remembered is in the cache, and at most one other entry has left  *)
(* it, which is counted as forgotten.                                      *)
Kept(j) == forgotten'[j] = forgotten[j] /\ (j \in Cached => j \in Cached')
Dropped(j) == forgotten'[j] = forgotten[j] + 1 /\ j \in Cached
OldEntry(e) == \E j \in 1..Len(cache) : e = cache[j]

LEMMA AppendEntry ==
    ASSUME NEW w \in Seq(Entries), NEW e \in Entries, NEW all, all = Append(w, e),
           \A i \in 1..Len(w) : w[i].key # e.key,
           \A i, j \in 1..Len(w) : w[i].key = w[j].key => i = j
    PROVE  /\ all \in Seq(Entries) /\ Len(all) = Len(w) + 1 /\ all[Len(w) + 1] = e
           /\ \A i \in 1..Len(w) : all[i] = w[i]
           /\ \A i \in 1..Len(all) : all[i] = e \/ (i \in 1..Len(w) /\ all[i] = w[i])
           /\ \A i, j \in 1..Len(all) : all[i].key = all[j].key => i = j
<1>1. /\ all \in Seq(Entries) /\ Len(all) = Len(w) + 1 /\ all[Len(w) + 1] = e
      /\ \A i \in 1..Len(w) : all[i] = w[i]
    OBVIOUS
<1>2. Len(w) \in Nat
    OBVIOUS
<1>3. \A i \in 1..Len(all) : i = Len(w) + 1 \/ i \in 1..Len(w)
    BY <1>1, <1>2
<1>4. \A i, j \in 1..Len(all) : all[i].key = all[j].key => i = j
  <2>1. SUFFICES ASSUME NEW i \in 1..Len(all), NEW j \in 1..Len(all), all[i].key = all[j].key
                 PROVE  i = j
    OBVIOUS
  <2>2. CASE i = Len(w) + 1
    BY <1>1, <1>3, <2>1, <2>2
  <2>3. CASE i \in 1..Len(w) /\ j = Len(w) + 1
    BY <1>1, <2>1, <2>3
  <2>4. CASE i \in 1..Len(w) /\ j \in 1..Len(w)
    BY <1>1, <2>1, <2>4
  <2>5. QED
    BY <1>3, <2>1, <2>2, <2>3, <2>4
<1>5. QED
    BY <1>1, <1>3, <1>4

LEMMA RemembersIt ==
    ASSUME CacheOK, forgotten \in [Keys -> Nat], NEW k \in Keys, NEW answer \in Answers,
           Remember(k, answer)
    PROVE  /\ CacheOK' /\ forgotten' \in [Keys -> Nat] /\ k \in Cached'
           /\ \A j \in Keys : Kept(j) \/ (j # k /\ Dropped(j))
           /\ \A i \in 1..Len(cache') :
                 cache'[i] = [key |-> k, answer |-> answer] \/ OldEntry(cache'[i])
<1> DEFINE w == Without(k)
           e == [key |-> k, answer |-> answer]
           all == Append(w, e)
<1>1. /\ w \in Seq(Entries) /\ Len(w) = Len(cache) - (IF k \in Cached THEN 1 ELSE 0)
      /\ \A i \in 1..Len(w) : w[i].key # k /\ \E j \in 1..Len(cache) : w[i] = cache[j]
      /\ \A j \in 1..Len(cache) : cache[j].key # k => \E i \in 1..Len(w) : w[i] = cache[j]
      /\ \A i, j \in 1..Len(w) : w[i].key = w[j].key => i = j
    BY WithoutOne
<1>2. e \in Entries /\ e.key = k
    BY DEF Entries
<1>3. /\ cache \in Seq(Entries) /\ Len(cache) \in Nat /\ Len(cache) <= CacheSize
      /\ CacheSize \in Nat \ {0} /\ Len(w) \in Nat /\ Len(w) <= CacheSize
    BY <1>1, CacheSizeAssumption DEF CacheOK
<1>4. IF Len(all) <= CacheSize
      THEN cache' = all /\ UNCHANGED forgotten
      ELSE cache' = Tail(all) /\ forgotten' = [forgotten EXCEPT ![Head(all).key] = @ + 1]
    BY DEF Remember
<1>5a. all = Append(w, e)
    OBVIOUS
<1> HIDE DEF w, e, all
<1>5. /\ all \in Seq(Entries) /\ Len(all) = Len(w) + 1 /\ all[Len(w) + 1] = e
      /\ \A i \in 1..Len(w) : all[i] = w[i]
      /\ \A i \in 1..Len(all) : all[i] = e \/ (i \in 1..Len(w) /\ all[i] = w[i])
      /\ \A i, j \in 1..Len(all) : all[i].key = all[j].key => i = j
  <2>1. \A i \in 1..Len(w) : w[i].key # e.key
    BY <1>1, <1>2
  <2>2. \A i, j \in 1..Len(w) : w[i].key = w[j].key => i = j
    BY <1>1
  <2>3. w \in Seq(Entries) /\ e \in Entries
    BY <1>1, <1>2
  <2>4. QED
    BY <1>5a, <2>1, <2>2, <2>3, AppendEntry
<1>6. \A i, j \in 1..Len(all) : all[i].key = all[j].key => i = j
    BY <1>5
<1>7. \A i \in 1..Len(all) : all[i] = e \/ OldEntry(all[i])
    BY <1>1, <1>5 DEF OldEntry
<1>8. \A j \in Cached \ {k} : \E i \in 1..Len(w) : all[i].key = j
  <2>1. SUFFICES ASSUME NEW j \in Cached, j # k PROVE \E i \in 1..Len(w) : all[i].key = j
    OBVIOUS
  <2>2. PICK n \in 1..Len(cache) : cache[n].key = j
    BY <1>3, InTheCache
  <2>3. PICK i \in 1..Len(w) : w[i] = cache[n]
    BY <1>1, <2>1, <2>2
  <2>4. QED
    BY <1>5, <2>2, <2>3
<1>9. CASE Len(all) <= CacheSize
  <2>1. cache' = all /\ forgotten' = forgotten
    BY <1>4, <1>9
  <2>2. CacheOK'
    BY <1>5, <1>6, <1>9, <2>1 DEF CacheOK
  <2>3. k \in Cached'
    BY <1>2, <1>3, <1>5, <2>1, InTheCacheNext
  <2>4. \A j \in Keys : Kept(j)
    BY <1>3, <1>5, <1>8, <2>1, <2>3, InTheCacheNext DEF Kept
  <2>5. QED
    BY <1>7, <2>1, <2>2, <2>3, <2>4 DEF e
<1>10. CASE ~(Len(all) <= CacheSize)
  <2>1. Len(w) = CacheSize /\ Len(all) = CacheSize + 1
    BY <1>3, <1>5, <1>10
  <2>2. /\ cache' = Tail(all)
        /\ forgotten' = [forgotten EXCEPT ![Head(all).key] = @ + 1]
    BY <1>4, <1>10
  <2>3. /\ cache' \in Seq(Entries) /\ Len(cache') = Len(all) - 1
        /\ \A i \in 1..Len(cache') : cache'[i] = all[i + 1]
    BY <1>3, <1>5, <2>1, <2>2
  <2>4. Head(all) = all[1] /\ all[1] = w[1] /\ 1 \in 1..Len(w)
    BY <1>3, <1>5, <2>1
  <2>5. all[1].key \in Keys /\ all[1].key # k /\ all[1].key \in Cached
    <3>1. all[1] \in Entries /\ w[1].key # k
      BY <1>1, <2>4
    <3>2. PICK j \in 1..Len(cache) : w[1] = cache[j]
      BY <1>1, <2>4
    <3>3. QED
      BY <1>3, <2>4, <3>1, <3>2, InTheCache DEF Entries
  <2>6. CacheOK'
    <3>1. \A i, j \in 1..Len(cache') : cache'[i].key = cache'[j].key => i = j
      BY <1>3, <1>6, <2>1, <2>3
    <3>2. QED
      BY <1>3, <2>1, <2>3, <3>1 DEF CacheOK
  <2>7. k \in Cached'
    <3>1. CacheSize \in 1..Len(cache') /\ cache'[CacheSize] = e
      BY <1>3, <1>5, <2>1, <2>3
    <3>2. QED
      BY <1>2, <2>3, <3>1, InTheCacheNext
  <2>8. \A j \in Cached \ {k, all[1].key} : j \in Cached'
    <3>1. SUFFICES ASSUME NEW j \in Cached \ {k, all[1].key} PROVE j \in Cached'
      OBVIOUS
    <3>2. PICK i \in 1..Len(w) : all[i].key = j
      BY <1>8
    <3>3. i # 1 /\ i - 1 \in 1..Len(cache') /\ cache'[i - 1] = all[i]
      BY <1>3, <2>1, <2>3, <3>2
    <3>4. QED
      BY <2>3, <3>2, <3>3, InTheCacheNext
  <2>9. \A j \in Keys : Kept(j) \/ (j # k /\ Dropped(j))
    BY <2>2, <2>4, <2>5, <2>7, <2>8 DEF Kept, Dropped
  <2>10. \A i \in 1..Len(cache') : cache'[i] = e \/ OldEntry(cache'[i])
    BY <1>3, <1>7, <2>1, <2>3
  <2>11. QED
    BY <2>2, <2>4, <2>5, <2>6, <2>7, <2>9, <2>10 DEF e
<1>11. QED
    BY <1>9, <1>10

(* A cached entry that is used again stays, and so does every other.         *)
LEMMA TouchesIt ==
    ASSUME CacheOK, NEW k \in Cached, Touch(k)
    PROVE  /\ CacheOK' /\ Cached' = Cached
           /\ \A i \in 1..Len(cache') : OldEntry(cache'[i])
<1> DEFINE w == Without(k)
           e == [key |-> k, answer |-> CachedAnswer(k)]
<1>1. k \in Keys /\ Place(k) \in 1..Len(cache) /\ cache[Place(k)] = e /\ e.key = k /\ e \in Entries
    BY FindsItsPlace DEF CacheOK, Entries
<1>2. /\ w \in Seq(Entries) /\ Len(w) = Len(cache) - 1
      /\ \A i \in 1..Len(w) : w[i].key # k /\ \E j \in 1..Len(cache) : w[i] = cache[j]
      /\ \A j \in 1..Len(cache) : cache[j].key # k => \E i \in 1..Len(w) : w[i] = cache[j]
      /\ \A i, j \in 1..Len(w) : w[i].key = w[j].key => i = j
    BY <1>1, WithoutOne
<1>3. cache \in Seq(Entries) /\ Len(cache) \in Nat /\ Len(w) \in Nat /\ Len(cache) <= CacheSize
    BY <1>2 DEF CacheOK
<1>4. cache' = Append(w, e)
    BY DEF Touch
<1> HIDE DEF w, e
<1>5. /\ cache' \in Seq(Entries) /\ Len(cache') = Len(w) + 1 /\ cache'[Len(w) + 1] = e
      /\ \A i \in 1..Len(w) : cache'[i] = w[i]
      /\ \A i \in 1..Len(cache') : cache'[i] = e \/ (i \in 1..Len(w) /\ cache'[i] = w[i])
      /\ \A i, j \in 1..Len(cache') : cache'[i].key = cache'[j].key => i = j
  <2>1. \A i \in 1..Len(w) : w[i].key # e.key
    BY <1>1, <1>2
  <2>2. \A i, j \in 1..Len(w) : w[i].key = w[j].key => i = j
    BY <1>2
  <2>3. w \in Seq(Entries) /\ e \in Entries
    BY <1>1, <1>2
  <2>4. QED
    BY <1>4, <2>1, <2>2, <2>3, AppendEntry
<1>6. CacheOK'
    BY <1>2, <1>3, <1>5 DEF CacheOK
<1>7. \A i \in 1..Len(cache') : OldEntry(cache'[i])
    BY <1>1, <1>2, <1>5 DEF OldEntry
<1>8. \A j : j \in Cached' => j \in Cached
    BY <1>3, <1>5, <1>7, InTheCache, InTheCacheNext DEF OldEntry
<1>9. \A j : j \in Cached => j \in Cached'
  <2>1. SUFFICES ASSUME NEW j \in Cached PROVE j \in Cached'
    OBVIOUS
  <2>2. CASE j = k
    <3>1. Len(w) + 1 \in 1..Len(cache')
      BY <1>3, <1>5
    <3>2. QED
      BY <1>1, <1>5, <2>2, <3>1, InTheCacheNext
  <2>3. CASE j # k
    <3>1. PICK n \in 1..Len(cache) : cache[n].key = j
      BY <1>3, InTheCache
    <3>2. PICK i \in 1..Len(w) : w[i] = cache[n]
      BY <1>2, <2>3, <3>1
    <3>3. i \in 1..Len(cache') /\ cache'[i].key = j
      BY <1>3, <1>5, <3>1, <3>2
    <3>4. QED
      BY <1>5, <3>3, InTheCacheNext
  <2>4. QED
    BY <2>2, <2>3
<1>10. QED
    BY <1>6, <1>7, <1>8, <1>9

----------------------------------------------------------------------------
(* The slots.                                                              *)
Tasks == [key : Keys, stage : Stages, answer : Answers, left : 0..Cardinality(Slots),
          cancel : BOOLEAN]
Elsewhere(s) == \A t \in Slots \ {s} : task'[t] = task[t]
(* The task of s has gone to a stage, has ended, or has begun to answer.    *)
GoneTo(s, stage) == task'[s] = [task[s] EXCEPT !.stage = stage, !.cancel = FALSE]
Ended(s) == task'[s] = IdleTask
Begun(s, answer) ==
    /\ task'[s].key = task[s].key /\ task'[s].stage = "answering"
    /\ task'[s].answer = answer /\ task'[s].left > 0 /\ ~task'[s].cancel

LEMMA SlotCount == Cardinality(Slots) \in Nat \ {0}
    BY SlotsAssumption, FS_CardinalityType, FS_EmptySet

LEMMA AnIdleTask ==
    IdleTask \in Tasks /\ IdleTask.stage = "idle" /\ ~IdleTask.cancel
<1>1. (CHOOSE k \in Keys : TRUE) \in Keys
    BY KeysAssumption
<1>2. QED
    BY <1>1, SlotCount DEF IdleTask, Tasks, Stages, Answers

LEMMA MovesTask ==
    ASSUME TypeOK, NEW s \in Slots, NEW stage \in Stages, Moves(s, stage)
    PROVE  task' \in [Slots -> Tasks] /\ Elsewhere(s) /\ GoneTo(s, stage)
<1> DEFINE r == [task[s] EXCEPT !.stage = stage, !.cancel = FALSE]
<1>1. task \in [Slots -> Tasks]
    BY DEF TypeOK, Tasks
<1>2. task' = [task EXCEPT ![s] = r]
    BY <1>1 DEF Moves, Tasks
<1>3. task[s] \in Tasks
    BY <1>1
<1>4. r \in Tasks
    BY <1>3 DEF Tasks
<1>5. QED
    BY <1>1, <1>2, <1>4 DEF Elsewhere, GoneTo

LEMMA EndsTask ==
    ASSUME TypeOK, NEW s \in Slots, Ends(s)
    PROVE  task' \in [Slots -> Tasks] /\ Elsewhere(s) /\ Ended(s)
BY AnIdleTask DEF TypeOK, Tasks, Ends, Elsewhere, Ended

LEMMA FinishesTask ==
    ASSUME TypeOK, NEW s \in Slots, NEW answer \in Answers, Finish(s, answer)
    PROVE  /\ task' \in [Slots -> Tasks] /\ Elsewhere(s)
           /\ IF closed THEN Ended(s) /\ UNCHANGED <<cache, forgotten>>
              ELSE /\ Remember(task[s].key, answer)
                   /\ IF answer = "none" THEN Ended(s) ELSE Begun(s, answer)
           /\ Forget(task[s].key)
<1> DEFINE k == task[s].key
<1>1. k \in Keys /\ duplicates[k] + 1 \in 0..Cardinality(Slots) /\ duplicates[k] + 1 > 0
    BY SlotCount DEF TypeOK
<1>2. CASE closed \/ answer = "none"
  <2>1. Ends(s)
    BY <1>2 DEF Finish
  <2>2. QED
    BY <1>2, <2>1, EndsTask DEF Finish
<1>3. CASE ~closed /\ answer # "none"
  <2>1. task' = [task EXCEPT ![s].stage = "answering", ![s].answer = answer,
                             ![s].cancel = FALSE, ![s].left = duplicates[k] + 1]
    BY <1>3 DEF Finish
  <2> DEFINE r == [task[s] EXCEPT !.stage = "answering", !.answer = answer,
                                  !.cancel = FALSE, !.left = duplicates[k] + 1]
  <2>2. task \in [Slots -> Tasks]
    BY DEF TypeOK, Tasks
  <2>3. task' = [task EXCEPT ![s] = r]
    BY <2>1, <2>2 DEF Tasks
  <2>4. task[s] \in Tasks
    BY <2>2
  <2>5. /\ r \in Tasks /\ r.key = k /\ r.stage = "answering" /\ r.answer = answer
        /\ r.left > 0 /\ ~r.cancel
    BY <1>1, <2>4 DEF Tasks, Stages
  <2>6. task' \in [Slots -> Tasks] /\ Elsewhere(s) /\ Begun(s, answer)
    <3> HIDE DEF r
    <3>1. task' \in [Slots -> Tasks] /\ task'[s] = r
      BY <2>2, <2>3, <2>5
    <3>2. QED
      BY <2>2, <2>3, <2>5, <3>1 DEF Elsewhere, Begun
  <2>7. QED
    BY <1>3, <2>6 DEF Finish
<1>4. QED
    BY <1>2, <1>3

LEMMA FinishesCache ==
    ASSUME TypeOK, NEW s \in Slots, NEW answer \in Answers, Finish(s, answer)
    PROVE  /\ CacheOK' /\ forgotten' \in [Keys -> Nat]
           /\ active' \subseteq Keys
           /\ duplicates' \in [Keys -> 0..(Cardinality(Slots) - 1)]
<1> DEFINE k == task[s].key
<1>1. k \in Keys /\ CacheOK /\ forgotten \in [Keys -> Nat] /\ Forget(k)
    BY DEF TypeOK, CacheOK, Entries, Finish
<1>2. active' \subseteq Keys /\ duplicates' \in [Keys -> 0..(Cardinality(Slots) - 1)]
    BY <1>1, SlotCount DEF TypeOK, Forget
<1>3. CASE closed
    BY <1>1, <1>2, <1>3 DEF Finish, CacheOK
<1>4. CASE ~closed
    BY <1>1, <1>2, <1>4, RemembersIt DEF Finish
<1>5. QED
    BY <1>3, <1>4

(* How many tasks will invoke a handler changes with the slot that changes.  *)
Waits(s, k) == task[s].key = k /\ task[s].stage \in {"created", "acking"}

LEMMA UnstartedCount ==
    ASSUME NEW k
    PROVE  IsFiniteSet(Unstarted(k)) /\ Cardinality(Unstarted(k)) \in Nat
BY SlotsAssumption, FS_Subset, FS_CardinalityType DEF Unstarted

LEMMA UnstartedStep ==
    ASSUME NEW s \in Slots, Elsewhere(s), NEW k
    PROVE  Cardinality(Unstarted(k)') = Cardinality(Unstarted(k))
                + (IF Waits(s, k)' THEN 1 ELSE 0) - (IF Waits(s, k) THEN 1 ELSE 0)
<1> DEFINE rest == Unstarted(k) \ {s}
<1>1. IsFiniteSet(Unstarted(k)) /\ Cardinality(Unstarted(k)) \in Nat
    BY UnstartedCount
<1>2. IsFiniteSet(rest) /\ s \notin rest /\ Cardinality(rest) \in Nat
    BY <1>1, FS_Subset, FS_CardinalityType
<1>3. Cardinality(Unstarted(k)) = Cardinality(rest) + (IF Waits(s, k) THEN 1 ELSE 0)
  <2>1. CASE Waits(s, k)
    <3>1. Unstarted(k) = rest \cup {s}
      BY <2>1 DEF Unstarted, Waits
    <3>2. QED
      BY <1>2, <2>1, <3>1, FS_AddElement
  <2>2. CASE ~Waits(s, k)
    <3>1. Unstarted(k) = rest
      BY <2>2 DEF Unstarted, Waits
    <3>2. QED
      BY <1>2, <2>2, <3>1
  <2>3. QED
    BY <2>1, <2>2
<1>4. Cardinality(Unstarted(k)') = Cardinality(rest) + (IF Waits(s, k)' THEN 1 ELSE 0)
  <2>1. CASE Waits(s, k)'
    <3>1. Unstarted(k)' = rest \cup {s}
      BY <2>1 DEF Unstarted, Waits, Elsewhere
    <3>2. QED
      BY <1>2, <2>1, <3>1, FS_AddElement
  <2>2. CASE ~Waits(s, k)'
    <3>1. Unstarted(k)' = rest
      BY <2>2 DEF Unstarted, Waits, Elsewhere
    <3>2. QED
      BY <1>2, <2>2, <3>1
  <2>3. QED
    BY <2>1, <2>2
<1>5. QED
    BY <1>1, <1>2, <1>3, <1>4

----------------------------------------------------------------------------
(* The types.                                                              *)
LEMMA ReceivesType ==
    ASSUME TypeOK, NEW k \in Keys, Arrives(k)
    PROVE  /\ received' \in [Keys -> Nat] /\ \A j \in Keys : received'[j] <= MaxReceived[j]
           /\ received'[k] = received[k] + 1
           /\ \A j \in Keys \ {k} : received'[j] = received[j]
<1>1. received \in [Keys -> Nat] /\ \A j \in Keys : received[j] <= MaxReceived[j]
    BY DEF TypeOK
<1>2. received' = [received EXCEPT ![k] = received[k] + 1] /\ received[k] < MaxReceived[k]
    BY DEF Arrives
<1>3. MaxReceived[k] \in Nat /\ received[k] \in Nat
    BY <1>1, MaxReceivedAssumption
<1>4. received'[k] = received[k] + 1 /\ \A j \in Keys \ {k} : received'[j] = received[j]
    BY <1>1, <1>2
<1>5. received[k] + 1 \in Nat /\ received[k] + 1 <= MaxReceived[k]
    BY <1>2, <1>3
<1>6. received' \in [Keys -> Nat]
    BY <1>1, <1>2, <1>5
<1>7. QED
    BY <1>1, <1>4, <1>5, <1>6

LEMMA AnswersType ==
    ASSUME NEW k \in Keys, NEW answer \in Answers, Answer(k, answer)
    PROVE  /\ dispatcher' \in [key : Keys, answer : Answers]
           /\ dispatcher'.key = k /\ dispatcher'.answer = answer
BY DEF Answer

LEMMA InvokesType ==
    ASSUME TypeOK, NEW s \in Slots, Invoke(s)
    PROVE  /\ invoked' \in [Keys -> Nat] /\ invoked'[task[s].key] = invoked[task[s].key] + 1
           /\ \A j \in Keys \ {task[s].key} : invoked'[j] = invoked[j]
           /\ task' \in [Slots -> Tasks] /\ Elsewhere(s) /\ GoneTo(s, "running")
<1>1. task[s].key \in Keys /\ invoked \in [Keys -> Nat]
    BY DEF TypeOK
<1>2. task' \in [Slots -> Tasks] /\ Elsewhere(s) /\ GoneTo(s, "running")
    BY MovesTask DEF Invoke, Stages
<1>3. QED
    BY <1>1, <1>2 DEF Invoke

LEMMA TellsType ==
    ASSUME TypeOK, NEW k \in Keys, NEW answer \in Answers,
           tried' = [tried EXCEPT ![k] = @ \cup {answer}]
    PROVE  /\ tried' \in [Keys -> SUBSET Answers] /\ tried'[k] = tried[k] \cup {answer}
           /\ \A j \in Keys \ {k} : tried'[j] = tried[j]
BY DEF TypeOK

LEMMA ForgetsType ==
    ASSUME TypeOK, NEW k \in Keys, Forget(k)
    PROVE  /\ active' = active \ {k} /\ active' \subseteq Keys
           /\ duplicates' \in [Keys -> 0..(Cardinality(Slots) - 1)]
BY SlotCount DEF TypeOK, Forget

LEMMA NewTask ==
    ASSUME TypeOK, NEW k \in Keys, ReceiveNew(k)
    PROVE  \E s \in Idle :
               /\ task' \in [Slots -> Tasks] /\ Elsewhere(s)
               /\ task'[s].key = k /\ task'[s].stage = "created" /\ ~task'[s].cancel
<1> DEFINE s == CHOOSE i \in Idle : TRUE
           r == [IdleTask EXCEPT !.key = k, !.stage = "created"]
<1>1. s \in Idle /\ s \in Slots
    BY DEF ReceiveNew, Idle
<1>2. task' = [task EXCEPT ![s] = r]
    BY DEF ReceiveNew
<1>3. r \in Tasks /\ r.key = k /\ r.stage = "created" /\ ~r.cancel
    BY AnIdleTask DEF Tasks, Stages
<1>4. task \in [Slots -> Tasks]
    BY DEF TypeOK, Tasks
<1> HIDE DEF s, r
<1>5. task' \in [Slots -> Tasks] /\ Elsewhere(s) /\ task'[s] = r
    BY <1>1, <1>2, <1>3, <1>4 DEF Elsewhere
<1>6. QED
    BY <1>1, <1>3, <1>5

LEMMA TypesStep ==
    ASSUME TypeOK, \A s \in Slots : Standing(s), [Next]_vars
    PROVE  TypeOK'
<1> USE DEF TypeOK
<1>1. CacheOK /\ forgotten \in [Keys -> Nat] /\ task \in [Slots -> Tasks]
    BY DEF CacheOK, Entries, Tasks
<1>2. CacheOK' /\ task' \in [Slots -> Tasks] /\ UNCHANGED <<closed, closeDone, active, duplicates,
          dispatcher, received, invoked, forgotten, tried>> => TypeOK'
    BY DEF CacheOK, Entries, Tasks
<1>3. ASSUME NEW k \in Keys, ReceiveCached(k) PROVE TypeOK'
  <2>1. CacheOK'
    BY <1>1, <1>3, TouchesIt DEF ReceiveCached
  <2>2. CachedAnswer(k) \in Answers
    BY <1>3, FindsItsPlace DEF ReceiveCached, Entries
  <2>3. dispatcher' \in [key : Keys, answer : Answers]
    BY <1>3, <2>2, AnswersType DEF ReceiveCached
  <2>4. QED
    BY <1>3, <2>1, <2>3, ReceivesType DEF ReceiveCached, CacheOK, Entries
<1>4. ASSUME NEW k \in Keys, ReceiveDuplicate(k) PROVE TypeOK'
  <2>1. duplicates' \in [Keys -> 0..(Cardinality(Slots) - 1)]
    BY <1>4, SlotCount DEF ReceiveDuplicate
  <2>2. QED
    BY <1>4, <2>1, ReceivesType DEF ReceiveDuplicate
<1>5. ASSUME NEW k \in Keys, ReceiveMalformed(k) PROVE TypeOK'
  <2> DEFINE answer == IF Modes[k] = "FIRE_AND_FORGET" THEN "none" ELSE "invalid"
  <2>1. answer \in Answers
    BY DEF Answers
  <2>2. Arrives(k) /\ Remember(k, answer) /\ Answer(k, answer)
    BY <1>5 DEF ReceiveMalformed
  <2> HIDE DEF answer
  <2>3. CacheOK' /\ forgotten' \in [Keys -> Nat]
    BY <1>1, <2>1, <2>2, RemembersIt
  <2>4. QED
    BY <1>5, <2>1, <2>2, <2>3, ReceivesType, AnswersType DEF ReceiveMalformed, CacheOK, Entries
<1>6. ASSUME NEW k \in Keys, ReceiveUnreadable(k) \/ ReceiveBusy(k) PROVE TypeOK'
  <2>1. dispatcher' \in [key : Keys, answer : Answers]
    BY <1>6, AnswersType DEF ReceiveUnreadable, ReceiveBusy, Answer, Answers
  <2>2. QED
    BY <1>6, <2>1, ReceivesType DEF ReceiveUnreadable, ReceiveBusy
<1>7. ASSUME NEW k \in Keys, ReceiveNew(k) PROVE TypeOK'
  <2>1. task' \in [Slots -> Tasks]
    BY <1>7, NewTask
  <2>2. duplicates' \in [Keys -> 0..(Cardinality(Slots) - 1)] /\ active' \subseteq Keys
    BY <1>7, SlotCount DEF ReceiveNew
  <2>3. QED
    BY <1>7, <2>1, <2>2, ReceivesType DEF ReceiveNew, Tasks
<1>8. CASE DispatcherPublished
  <2>1. NoAnswer \in [key : Keys, answer : Answers]
    BY KeysAssumption DEF NoAnswer, Answers
  <2>2. tried' \in [Keys -> SUBSET Answers]
    BY <1>8, TellsType DEF DispatcherPublished
  <2>3. QED
    BY <1>8, <2>1, <2>2 DEF DispatcherPublished
<1>9. ASSUME NEW s \in Slots, TaskStep(s) PROVE TypeOK'
  <2> DEFINE k == task[s].key
  <2>1. k \in Keys /\ task[s].answer \in Answers /\ task[s] \in Tasks
    BY <1>1 DEF Tasks
  <2>2. CASE Start(s)
    <3>1. task' \in [Slots -> Tasks] /\ invoked' \in [Keys -> Nat]
      BY <2>2, MovesTask, InvokesType DEF Start, Stages
    <3>2. QED
      BY <2>2, <3>1 DEF Start, Tasks
  <2>3. CASE CancelledUnstarted(s)
    BY <2>3, EndsTask DEF CancelledUnstarted, Tasks
  <2>4. CASE AckPublished(s)
    <3>1. tried' \in [Keys -> SUBSET Answers]
      BY <2>1, <2>4, TellsType DEF AckPublished, Answers
    <3>2. QED
      BY <2>4, <3>1, InvokesType DEF AckPublished, Tasks
  <2>5. CASE AckUnknown(s)
    <3>1. tried' \in [Keys -> SUBSET Answers]
      BY <2>1, <2>5, TellsType DEF AckUnknown, Answers
    <3>2. CASE closed
      BY <2>1, <2>5, <3>1, <3>2, EndsTask, ForgetsType DEF AckUnknown, Tasks
    <3>3. CASE ~closed
      BY <2>5, <3>1, <3>3, InvokesType DEF AckUnknown, Tasks
    <3>4. QED
      BY <3>2, <3>3
  <2>6. CASE AckFailed(s) \/ HandlerCancelled(s)
    BY <2>1, <2>6, EndsTask, ForgetsType DEF AckFailed, HandlerCancelled, Tasks
  <2>7. CASE HandlerEnds(s)
    <3>1. PICK answer \in Answers : Finish(s, answer)
      BY <2>7 DEF HandlerEnds, Answers
    <3>2. task' \in [Slots -> Tasks]
      BY <3>1, FinishesTask
    <3>3. QED
      BY <2>7, <3>1, <3>2, FinishesCache DEF HandlerEnds, Tasks, CacheOK, Entries
  <2>8. CASE AnswerPublished(s)
    <3>1. tried' \in [Keys -> SUBSET Answers]
      BY <2>1, <2>8, TellsType DEF AnswerPublished
    <3>2. task' \in [Slots -> Tasks]
      <4>1. CASE task[s].left = 1 \/ closed
        BY <2>8, <4>1, EndsTask DEF AnswerPublished
      <4>2. CASE ~(task[s].left = 1 \/ closed)
        <5> DEFINE r == [task[s] EXCEPT !.left = @ - 1]
        <5>1. task' = [task EXCEPT ![s] = r]
          BY <1>1, <2>8, <4>2 DEF AnswerPublished, Tasks
        <5>2. task[s].left > 0
          BY <2>8 DEF AnswerPublished, Standing
        <5>3. task[s].left - 1 \in 0..Cardinality(Slots)
          BY <2>1, <5>2, SlotCount DEF Tasks
        <5>4. r \in Tasks
          BY <2>1, <5>3 DEF Tasks
        <5> QED
          BY <1>1, <5>1, <5>4
      <4>3. QED
        BY <4>1, <4>2
    <3>3. QED
      BY <2>8, <3>1, <3>2 DEF AnswerPublished, Tasks
  <2>9. CASE AnswerFailed(s)
    <3>1. tried' \in [Keys -> SUBSET Answers]
      BY <2>1, <2>9, TellsType DEF AnswerFailed
    <3>2. CASE k \in active
      <4>1. Finish(s, "broken") /\ "broken" \in Answers
        BY <2>9, <3>2 DEF AnswerFailed, Answers
      <4>2. task' \in [Slots -> Tasks]
        BY <4>1, FinishesTask
      <4>3. QED
        BY <2>9, <3>1, <4>1, <4>2, FinishesCache DEF AnswerFailed, Tasks, CacheOK, Entries
    <3>3. CASE k \notin active
      BY <2>9, <3>1, <3>3, EndsTask DEF AnswerFailed, Tasks
    <3>4. QED
      BY <3>2, <3>3
  <2>10. QED
    BY <1>9, <2>2, <2>3, <2>4, <2>5, <2>6, <2>7, <2>8, <2>9 DEF TaskStep
<1>10. CASE Close
  <2>1. \A t \in Tasks, b \in BOOLEAN : [t EXCEPT !.cancel = b] \in Tasks
    BY DEF Tasks
  <2>2. task' \in [Slots -> Tasks]
    BY <1>1, <1>10, <2>1 DEF Close
  <2>3. QED
    BY <1>10, <2>2 DEF Close, Tasks
<1>11. CASE CloseReturns
  <2>1. CacheOK'
    BY <1>11, CacheSizeAssumption DEF CloseReturns, CacheOK
  <2>2. duplicates' \in [Keys -> 0..(Cardinality(Slots) - 1)]
    BY <1>11, SlotCount DEF CloseReturns
  <2>3. QED
    BY <1>11, <2>1, <2>2 DEF CloseReturns, CacheOK, Entries
<1>12. CASE UNCHANGED vars
    BY <1>12 DEF vars
<1>13. QED
    BY <1>3, <1>4, <1>5, <1>6, <1>7, <1>8, <1>9, <1>10, <1>11, <1>12 DEF Next, Receive

----------------------------------------------------------------------------
(* What a step of one handler task may do to what the invariant speaks of. *)
TaskShape(s) ==
    LET k == task[s].key IN
    /\ Elsewhere(s) /\ UNCHANGED <<closed, dispatcher, received>>
    /\ Executing(s)' => Executing(s) /\ task'[s].key = k
    /\ \A j \in Keys : Kept(j) \/ Dropped(j)
    /\ \/ active' = active
       \/ active' = active \ {k} /\ (Executing(s) \/ Modes[k] = "COMPLETE")
    /\ AckFailed(s) \/ \A j \in active : j \in active' \/ closed \/ j \in Cached'

LEMMA SameCache ==
    ASSUME UNCHANGED <<cache, forgotten>>
    PROVE  Cached' = Cached /\ \A j \in Keys : Kept(j)
BY DEF Cached, Kept

LEMMA FinishShape ==
    ASSUME TypeOK, NEW s \in Slots, NEW answer \in Answers, Finish(s, answer),
           closed' = closed, UNCHANGED <<dispatcher, received>>,
           Executing(s) \/ Modes[task[s].key] = "COMPLETE"
    PROVE  TaskShape(s)
<1> DEFINE k == task[s].key
<1>1. k \in Keys /\ CacheOK /\ forgotten \in [Keys -> Nat]
    BY DEF TypeOK, CacheOK, Entries
<1>2. /\ Elsewhere(s) /\ Forget(k)
      /\ closed => Ended(s) /\ UNCHANGED <<cache, forgotten>>
      /\ ~closed => Remember(k, answer) /\ (Ended(s) \/ Begun(s, answer))
    BY FinishesTask
<1>3. active' = active \ {k}
    BY <1>2 DEF Forget
<1>4. ~Executing(s)'
    BY <1>2, AnIdleTask DEF Executing, Ended, Begun
<1>5. CASE closed
    BY <1>2, <1>3, <1>4, <1>5, SameCache DEF TaskShape
<1>6. CASE ~closed
  <2>1. k \in Cached' /\ \A j \in Keys : Kept(j) \/ Dropped(j)
    BY <1>1, <1>2, <1>6, RemembersIt
  <2>2. QED
    BY <1>2, <1>3, <1>4, <2>1 DEF TaskShape
<1>7. QED
    BY <1>5, <1>6

LEMMA TaskStepShape ==
    ASSUME TypeOK, NEW s \in Slots, Standing(s), TaskStep(s)
    PROVE  TaskShape(s)
<1> DEFINE k == task[s].key
<1>1. k \in Keys /\ task[s] \in Tasks
    BY DEF TypeOK, Tasks
<1>2. CASE Start(s)
  <2>1. Elsewhere(s) /\ (GoneTo(s, "acking") \/ GoneTo(s, "running"))
    BY <1>2, MovesTask, InvokesType DEF Start, Stages
  <2>2. Executing(s) /\ task'[s].key = k
    BY <1>1, <1>2, <2>1 DEF Start, Executing, GoneTo, Tasks
  <2>3. QED
    BY <1>2, <2>1, <2>2, SameCache DEF Start, TaskShape
<1>3. CASE CancelledUnstarted(s)
    BY <1>3, EndsTask, AnIdleTask, SameCache DEF CancelledUnstarted, TaskShape, Executing, Ended
<1>4. CASE AckPublished(s) \/ (AckUnknown(s) /\ ~closed)
  <2>1. Elsewhere(s) /\ GoneTo(s, "running") /\ task[s].stage = "acking"
    BY <1>4, InvokesType DEF AckPublished, AckUnknown
  <2>2. Executing(s) /\ task'[s].key = k
    BY <1>1, <2>1 DEF Executing, GoneTo, Tasks
  <2>3. QED
    BY <1>4, <2>1, <2>2, SameCache DEF AckPublished, AckUnknown, TaskShape
<1>5. CASE (AckUnknown(s) /\ closed) \/ AckFailed(s) \/ HandlerCancelled(s)
  <2>1. Elsewhere(s) /\ Ended(s) /\ Forget(k) /\ Executing(s) /\ (AckFailed(s) \/ closed)
    BY <1>5, EndsTask DEF AckUnknown, AckFailed, HandlerCancelled, Executing, Standing
  <2>2. ~Executing(s)' /\ active' = active \ {k}
    BY <2>1, AnIdleTask DEF Executing, Ended, Forget
  <2>3. UNCHANGED <<cache, forgotten, closed, dispatcher, received>>
    BY <1>5 DEF AckUnknown, AckFailed, HandlerCancelled
  <2>4. QED
    BY <2>1, <2>2, <2>3, SameCache DEF TaskShape
<1>6. CASE HandlerEnds(s)
  <2>1. PICK answer \in Answers : Finish(s, answer)
    BY <1>6 DEF HandlerEnds, Answers
  <2>2. QED
    BY <1>6, <2>1, FinishShape DEF HandlerEnds, Executing
<1>7. CASE AnswerPublished(s)
  <2>1. Elsewhere(s) /\ ~Executing(s)'
    <3>1. CASE task[s].left = 1 \/ closed
      BY <1>7, <3>1, EndsTask, AnIdleTask DEF AnswerPublished, Executing, Ended
    <3>2. CASE ~(task[s].left = 1 \/ closed)
      <4>1. task' = [task EXCEPT ![s].left = @ - 1]
        BY <1>7, <3>2 DEF AnswerPublished
      <4>2. task'[s].stage = task[s].stage /\ Elsewhere(s)
        BY <4>1, <1>1 DEF TypeOK, Tasks, Elsewhere
      <4>3. QED
        BY <1>7, <4>2 DEF AnswerPublished, Executing
    <3>3. QED
      BY <3>1, <3>2
  <2>2. QED
    BY <1>7, <2>1, SameCache DEF AnswerPublished, TaskShape
<1>8. CASE AnswerFailed(s)
  <2>1. Modes[k] = "COMPLETE"
    BY <1>8 DEF AnswerFailed, Standing
  <2>2. CASE k \in active
    <3>1. Finish(s, "broken") /\ "broken" \in Answers
      BY <1>8, <2>2 DEF AnswerFailed, Answers
    <3>2. QED
      BY <1>8, <2>1, <3>1, FinishShape DEF AnswerFailed
  <2>3. CASE k \notin active
    BY <1>8, <2>3, EndsTask, AnIdleTask, SameCache DEF AnswerFailed, TaskShape, Executing, Ended
  <2>4. QED
    BY <2>2, <2>3
<1>9. QED
    BY <1>2, <1>3, <1>4, <1>5, <1>6, <1>7, <1>8 DEF TaskStep

----------------------------------------------------------------------------
(* The ledger.                                                             *)
Due(k) == invoked[k] + Cardinality(Unstarted(k))
Memory(k) ==
    forgotten'[k] + (IF Remembered(k)' THEN 1 ELSE 0)
        >= forgotten[k] + (IF Remembered(k) THEN 1 ELSE 0)

LEMMA SameTasks ==
    ASSUME task' = task, NEW k
    PROVE  Unstarted(k)' = Unstarted(k)
BY DEF Unstarted

LEMMA KeepsMemory ==
    ASSUME TypeOK, NEW k \in Keys, closed => closed', Kept(k) \/ Dropped(k),
           k \in active => k \in active' \/ closed' \/ k \in Cached'
    PROVE  Memory(k)
<1>1. forgotten[k] \in Nat
    BY DEF TypeOK
<1>2. CASE Kept(k)
  <2>1. Remembered(k) => Remembered(k)'
    BY <1>2 DEF Remembered, Kept
  <2>2. QED
    BY <1>1, <1>2, <2>1 DEF Memory, Kept
<1>3. CASE Dropped(k)
    BY <1>1, <1>3 DEF Memory, Dropped
<1>4. QED
    BY <1>2, <1>3

LEMMA DueType ==
    ASSUME TypeOK, TypeOK', NEW k \in Keys
    PROVE  Due(k) \in Nat /\ Due(k)' \in Nat
<1>1. Cardinality(Unstarted(k)) \in Nat /\ Cardinality(Unstarted(k)') \in Nat
  <2>1. \A S \in SUBSET Slots : Cardinality(S) \in Nat
    BY SlotsAssumption, FS_Subset, FS_CardinalityType
  <2>2. QED
    BY <2>1 DEF Unstarted
<1>2. invoked[k] \in Nat /\ invoked'[k] \in Nat
    BY DEF TypeOK
<1>3. QED
    BY <1>1, <1>2 DEF Due

LEMMA KeepsLedger ==
    ASSUME TypeOK, TypeOK', NEW k \in Keys, Ledger(k), Due(k)' <= Due(k), Memory(k),
           received'[k] >= received[k]
    PROVE  Ledger(k)'
<1>1. /\ forgotten[k] \in Nat /\ forgotten'[k] \in Nat
      /\ received[k] \in Nat /\ received'[k] \in Nat
    BY DEF TypeOK
<1>2. Due(k) \in Nat /\ Due(k)' \in Nat
    BY DueType
<1>3. Due(k) <= forgotten[k] + (IF Remembered(k) THEN 1 ELSE 0) /\ Due(k) <= received[k]
    BY DEF Ledger, Due
<1> DEFINE r == IF Remembered(k) THEN 1 ELSE 0
           rr == IF Remembered(k)' THEN 1 ELSE 0
<1>4. r \in Nat /\ rr \in Nat /\ forgotten'[k] + rr >= forgotten[k] + r
    BY DEF Memory
<1>5. Due(k) <= forgotten[k] + r
    BY <1>3
<1>6. Due(k)' <= forgotten'[k] + rr /\ Due(k)' <= received'[k]
  <2> HIDE DEF r, rr
  <2>1. QED
    BY <1>1, <1>2, <1>3, <1>4, <1>5
<1>7. QED
    BY <1>6 DEF Ledger, Due

(* A task that is to invoke the handler does so, goes on, or gives up.      *)
LEMMA TaskStepDue ==
    ASSUME TypeOK, TypeOK', NEW s \in Slots, TaskStep(s), TaskShape(s), NEW k \in Keys
    PROVE  /\ Due(k)' <= Due(k)
           /\ AckFailed(s) /\ k = task[s].key => Due(k)' = Due(k) - 1
<1> DEFINE before == IF Waits(s, k) THEN 1 ELSE 0
           after == IF Waits(s, k)' THEN 1 ELSE 0
<1>1. Elsewhere(s)
    BY DEF TaskShape
<1>2. /\ Cardinality(Unstarted(k)') = Cardinality(Unstarted(k)) + after - before
      /\ Cardinality(Unstarted(k)) \in Nat
    BY <1>1, UnstartedStep, UnstartedCount
<1>3. invoked[k] \in Nat /\ invoked'[k] \in Nat /\ task[s] \in Tasks /\ task[s].key \in Keys
    BY DEF TypeOK, Tasks
<1>4. before \in {0, 1} /\ after \in {0, 1}
    OBVIOUS
<1> HIDE DEF before, after
<1>5. Waits(s, k) => before = 1
    BY DEF before
<1>6. ~Waits(s, k) => before = 0
    BY DEF before
<1>7. ~Waits(s, k)' => after = 0
    BY DEF after
<1>8. CASE UNCHANGED invoked /\ ~Waits(s, k)'
  <2>1. Due(k)' = Due(k) - before
    BY <1>2, <1>3, <1>4, <1>7, <1>8 DEF Due
  <2>2. AckFailed(s) /\ k = task[s].key => before = 1
    BY <1>5 DEF AckFailed, Waits
  <2>3. Due(k) \in Nat
    BY <1>2, <1>3 DEF Due
  <2>4. QED
    BY <1>4, <2>1, <2>2, <2>3
<1>9. CASE /\ UNCHANGED invoked /\ GoneTo(s, "acking")
           /\ task[s].stage = "created" /\ ~AckFailed(s)
  <2>1. task'[s].key = task[s].key
    BY <1>3, <1>9 DEF GoneTo, Tasks
  <2>2. Waits(s, k)' => Waits(s, k)
    BY <1>9, <2>1 DEF Waits
  <2>3. Due(k)' <= Due(k)
    BY <1>2, <1>3, <1>4, <1>5, <1>7, <1>9, <2>2 DEF Due
  <2>4. QED
    BY <1>9, <2>3
<1>10. CASE /\ Invoke(s) /\ task[s].stage \in {"created", "acking"} /\ ~AckFailed(s)
  <2>1. GoneTo(s, "running") /\ invoked'[k] = invoked[k] + (IF k = task[s].key THEN 1 ELSE 0)
    BY <1>3, <1>10, InvokesType
  <2>2. ~Waits(s, k)'
    BY <1>3, <2>1 DEF GoneTo, Tasks, Waits
  <2>3. k = task[s].key => before = 1
    BY <1>5, <1>10 DEF Waits
  <2>4. Due(k)' <= Due(k)
    BY <1>2, <1>3, <1>4, <1>7, <2>1, <2>2, <2>3 DEF Due
  <2>5. QED
    BY <1>10, <2>4
<1>11. \/ UNCHANGED invoked /\ ~Waits(s, k)'
       \/ /\ UNCHANGED invoked /\ GoneTo(s, "acking")
          /\ task[s].stage = "created" /\ ~AckFailed(s)
       \/ Invoke(s) /\ task[s].stage \in {"created", "acking"} /\ ~AckFailed(s)
  <2>1. Ended(s) => ~Waits(s, k)'
    BY AnIdleTask DEF Ended, Waits
  <2>2. CASE Start(s)
    BY <2>2, MovesTask DEF Start, Stages, AckFailed
  <2>3. CASE CancelledUnstarted(s) \/ AckFailed(s) \/ HandlerCancelled(s)
    BY <2>1, <2>3, EndsTask DEF CancelledUnstarted, AckFailed, HandlerCancelled
  <2>4. CASE AckPublished(s) \/ (AckUnknown(s) /\ ~closed)
    <3>1. Invoke(s) /\ task[s].stage = "acking"
      BY <2>4 DEF AckPublished, AckUnknown
    <3>2. task'[s].stage = "running"
      BY <1>3, <3>1, InvokesType DEF GoneTo, Tasks
    <3>3. ~AckFailed(s)
      BY <3>2, EndsTask, AnIdleTask DEF AckFailed, Ended
    <3>4. QED
      BY <3>1, <3>3
  <2>5. CASE AckUnknown(s) /\ closed
    BY <2>1, <2>5, EndsTask DEF AckUnknown
  <2>6. CASE HandlerEnds(s) \/ AnswerPublished(s) \/ AnswerFailed(s)
    <3>1. task[s].stage \in {"running", "answering"} /\ UNCHANGED invoked
      BY <2>6 DEF HandlerEnds, AnswerPublished, AnswerFailed
    <3>2. CASE task[s].stage = "answering"
      <4>1. ~Executing(s)
        BY <3>2 DEF Executing
      <4>2. ~Executing(s)'
        BY <4>1 DEF TaskShape
      <4>3. QED
        BY <3>1, <4>2 DEF Executing, Waits
    <3>3. CASE HandlerEnds(s)
      <4>1. PICK answer \in Answers : Finish(s, answer)
        BY <3>3 DEF HandlerEnds, Answers
      <4>2. Ended(s) \/ Begun(s, answer)
        BY <4>1, FinishesTask
      <4>3. QED
        BY <2>1, <3>1, <4>2 DEF Begun, Waits
    <3>4. QED
      BY <2>6, <3>2, <3>3 DEF AnswerPublished, AnswerFailed
  <2>7. QED
    BY <2>2, <2>3, <2>4, <2>5, <2>6 DEF TaskStep
<1>12. QED
    BY <1>8, <1>9, <1>10, <1>11

LEMMA LedgerStep ==
    ASSUME IInv, TypeOK', [Next]_vars, NEW k \in Keys
    PROVE  Ledger(k)'
<1>1. /\ TypeOK /\ Ledger(k) /\ CacheOK /\ forgotten \in [Keys -> Nat]
      /\ Due(k) \in Nat /\ Due(k)' \in Nat
  <2>1. TypeOK /\ Ledger(k)
    BY DEF IInv
  <2>2. QED
    BY <2>1, DueType DEF TypeOK, CacheOK, Entries
<1>2. ASSUME task' = task, UNCHANGED invoked, Memory(k), received'[k] >= received[k]
      PROVE  Ledger(k)'
  <2>1. Due(k)' = Due(k)
    BY <1>2, SameTasks DEF Due
  <2>2. QED
    BY <1>1, <1>2, <2>1, KeepsLedger
<1>3. received[k] \in Nat
    BY <1>1 DEF TypeOK
<1>4. ASSUME NEW n \in Keys, Receive(n), ~ReceiveNew(n) PROVE Ledger(k)'
  <2>1. UNCHANGED <<task, invoked, closed, active>> /\ Arrives(n)
    BY <1>4 DEF Receive, ReceiveCached, ReceiveDuplicate, ReceiveMalformed, ReceiveUnreadable,
                ReceiveBusy
  <2>2. Kept(k) \/ Dropped(k)
    <3>1. CASE ReceiveCached(n)
      BY <1>1, <3>1, TouchesIt DEF ReceiveCached, Kept
    <3>2. CASE ReceiveMalformed(n)
      <4>1. PICK answer \in Answers : Remember(n, answer)
        BY <3>2 DEF ReceiveMalformed, Answers
      <4>2. QED
        BY <1>1, <4>1, RemembersIt
    <3>3. CASE ReceiveDuplicate(n) \/ ReceiveUnreadable(n) \/ ReceiveBusy(n)
      BY <3>3, SameCache DEF ReceiveDuplicate, ReceiveUnreadable, ReceiveBusy
    <3>4. QED
      BY <1>4, <3>1, <3>2, <3>3 DEF Receive
  <2>3. Memory(k)
    BY <1>1, <2>1, <2>2, KeepsMemory
  <2>4. received'[k] >= received[k]
    BY <1>1, <1>3, <2>1, ReceivesType
  <2>5. QED
    BY <1>2, <2>1, <2>3, <2>4
<1>5. ASSUME NEW n \in Keys, ReceiveNew(n) PROVE Ledger(k)'
  <2>1. /\ UNCHANGED <<closed, invoked, cache, forgotten>> /\ active' = active \cup {n}
        /\ Arrives(n) /\ n \notin Cached \cup active
    BY <1>5 DEF ReceiveNew
  <2>2. PICK s \in Idle : /\ Elsewhere(s) /\ task'[s].key = n /\ task'[s].stage = "created"
    BY <1>1, <1>5, NewTask
  <2>3. s \in Slots /\ ~Waits(s, k) /\ (Waits(s, k)' <=> k = n)
    BY <2>2 DEF Idle, Waits
  <2>4. Cardinality(Unstarted(k)) \in Nat /\ invoked[k] \in Nat
    BY <1>1, UnstartedCount DEF TypeOK
  <2>5. Due(k)' = Due(k) + (IF k = n THEN 1 ELSE 0)
    BY <2>1, <2>2, <2>3, <2>4, UnstartedStep DEF Due
  <2>6. Kept(k)
    BY <2>1, SameCache
  <2>7. received'[k] = received[k] + (IF k = n THEN 1 ELSE 0)
    BY <1>1, <1>3, <2>1, ReceivesType
  <2>8. CASE k # n
    <3>1. Memory(k)
      BY <1>1, <2>1, <2>6, KeepsMemory
    <3>2. QED
      BY <1>1, <1>3, <2>5, <2>7, <2>8, <3>1, KeepsLedger
  <2>9. CASE k = n
    <3>1. ~Remembered(k)
      BY <2>1, <2>9 DEF Remembered, Arrives
    <3>2. Due(k) <= forgotten[k] /\ Due(k) <= received[k]
      BY <1>1, <3>1 DEF Ledger, Due, TypeOK
    <3>3. Remembered(k)'
      BY <2>1, <2>9 DEF Remembered
    <3>4. Due(k)' <= forgotten'[k] + 1 /\ Due(k)' <= received'[k]
      BY <1>1, <1>3, <2>1, <2>5, <2>7, <2>9, <3>2
    <3>5. QED
      BY <3>3, <3>4 DEF Ledger, Due
  <2>10. QED
    BY <2>8, <2>9
<1>6. ASSUME NEW s \in Slots, TaskStep(s) PROVE Ledger(k)'
  <2>1. TaskShape(s)
    BY <1>1, <1>6, TaskStepShape DEF IInv
  <2>2. Due(k)' <= Due(k) /\ (AckFailed(s) /\ k = task[s].key => Due(k)' = Due(k) - 1)
    BY <1>1, <1>6, <2>1, TaskStepDue
  <2>3. received'[k] = received[k] /\ closed' = closed /\ (Kept(k) \/ Dropped(k))
    BY <2>1 DEF TaskShape
  <2>4. CASE AckFailed(s) /\ k = task[s].key
    <3>1. UNCHANGED <<forgotten, received>>
      BY <2>4 DEF AckFailed
    <3>2. Due(k) <= forgotten[k] + 1 /\ Due(k) <= received[k]
      <4> DEFINE r == IF Remembered(k) THEN 1 ELSE 0
      <4>1. Due(k) <= forgotten[k] + r /\ Due(k) <= received[k]
        BY <1>1 DEF Ledger, Due
      <4>2. r \in {0, 1} /\ forgotten[k] \in Nat
        BY <1>1
      <4> HIDE DEF r
      <4>3. QED
        BY <1>1, <4>1, <4>2
    <3>3. Due(k)' <= forgotten'[k] /\ Due(k)' <= received'[k]
      BY <1>1, <1>3, <2>2, <2>4, <3>1, <3>2
    <3>4. forgotten'[k] \in Nat
      BY DEF TypeOK
    <3>5. Due(k)' <= forgotten'[k] + (IF Remembered(k)' THEN 1 ELSE 0)
      <4> DEFINE r == IF Remembered(k)' THEN 1 ELSE 0
      <4>1. r \in Nat
        OBVIOUS
      <4> HIDE DEF r
      <4>2. Due(k)' <= forgotten'[k] + r
        BY <1>1, <3>3, <3>4, <4>1
      <4>3. QED
        BY <4>2 DEF r
    <3>6. QED
      BY <3>3, <3>5 DEF Ledger, Due
  <2>5. CASE ~(AckFailed(s) /\ k = task[s].key)
    <3>1. k \in active => k \in active' \/ closed' \/ k \in Cached'
      BY <2>1, <2>5 DEF TaskShape, AckFailed, Forget
    <3>2. Memory(k)
      BY <1>1, <2>3, <3>1, KeepsMemory
    <3>3. QED
      BY <1>1, <1>3, <2>2, <2>3, <3>2, KeepsLedger
  <2>6. QED
    BY <2>4, <2>5
<1>7. CASE Close
  <2>1. Unstarted(k)' = Unstarted(k)
    BY <1>1, <1>7 DEF Close, Unstarted, TypeOK
  <2>2. Due(k)' = Due(k) /\ UNCHANGED <<received, active>> /\ closed'
    BY <1>7, <2>1 DEF Close, Due
  <2>3. Kept(k)
    BY <1>7, SameCache DEF Close
  <2>4. Memory(k)
    BY <1>1, <2>2, <2>3, KeepsMemory
  <2>5. QED
    BY <1>1, <1>3, <2>2, <2>4, KeepsLedger
<1>8. CASE CloseReturns
  <2>1. Remembered(k)' /\ forgotten'[k] = forgotten[k]
    BY <1>8 DEF CloseReturns, Remembered
  <2>2. Memory(k)
    BY <1>1, <2>1 DEF Memory
  <2>3. QED
    BY <1>2, <1>3, <1>8, <2>2 DEF CloseReturns
<1>9. CASE DispatcherPublished \/ UNCHANGED vars
  <2>1. UNCHANGED <<task, invoked, closed, active, cache, forgotten, received>>
    BY <1>9 DEF DispatcherPublished, vars
  <2>2. Memory(k)
    BY <1>1, <2>1, SameCache, KeepsMemory
  <2>3. QED
    BY <1>2, <1>3, <2>1, <2>2
<1>10. QED
    BY <1>4, <1>5, <1>6, <1>7, <1>8, <1>9 DEF Next

----------------------------------------------------------------------------
(* The answers.                                                            *)
LEMMA NotForgotten ==
    ASSUME TypeOK, NEW k \in Keys, Kept(k) \/ Dropped(k), forgotten'[k] = 0
    PROVE  forgotten[k] = 0 /\ (k \in Cached => k \in Cached')
BY DEF TypeOK, Kept, Dropped

LEMMA KeepsAgreed ==
    ASSUME TypeOK, TypeOK', NEW k \in Keys, Agreed(k), Kept(k) \/ Dropped(k),
           forgotten'[k] = 0 /\ forgotten[k] = 0 =>
              /\ tried'[k] \subseteq tried[k] \cup {RightAnswer(k), "busy"}
              /\ \/ dispatcher' = dispatcher
                 \/ dispatcher'.key = k =>
                        dispatcher'.answer \in {RightAnswer(k), "busy", "none"}
              /\ \A i \in 1..Len(cache') :
                    \/ OldEntry(cache'[i])
                    \/ cache'[i].key = k => cache'[i].answer \in {RightAnswer(k), "none"}
    PROVE  Agreed(k)'
<1>1. SUFFICES ASSUME forgotten'[k] = 0
               PROVE  /\ tried'[k] \subseteq {RightAnswer(k), "busy"}
                      /\ dispatcher'.key = k =>
                            dispatcher'.answer \in {RightAnswer(k), "busy", "none"}
                      /\ \A i \in DOMAIN cache' : cache'[i].key = k =>
                            cache'[i].answer \in {RightAnswer(k), "none"}
    BY DEF Agreed, RightAnswer
<1>2. forgotten[k] = 0
    BY <1>1, NotForgotten
<1>3. /\ tried[k] \subseteq {RightAnswer(k), "busy"}
      /\ dispatcher.key = k => dispatcher.answer \in {RightAnswer(k), "busy", "none"}
      /\ \A i \in DOMAIN cache : cache[i].key = k =>
            cache[i].answer \in {RightAnswer(k), "none"}
    BY <1>2 DEF Agreed
<1>4. DOMAIN cache = 1..Len(cache) /\ DOMAIN cache' = 1..Len(cache')
    BY DEF TypeOK
<1>5. \A i \in 1..Len(cache') : cache'[i].key = k =>
            cache'[i].answer \in {RightAnswer(k), "none"}
    BY <1>1, <1>2, <1>3, <1>4 DEF OldEntry
<1>6. QED
    BY <1>1, <1>2, <1>3, <1>4, <1>5

LEMMA SameEntries ==
    ASSUME TypeOK, UNCHANGED cache
    PROVE  \A i \in 1..Len(cache') : OldEntry(cache'[i])
BY DEF OldEntry

(* What a handler task does to the answers: it begins none, or the one that *)
(* its delivery deserves.                                                  *)
LEMMA FinishAgrees ==
    ASSUME TypeOK, NEW s \in Slots, NEW answer \in Answers, Finish(s, answer),
           NEW k \in Keys, ~closed /\ forgotten[k] = 0 /\ task[s].key = k
                              => answer \in {RightAnswer(k), "none"}
    PROVE  forgotten[k] = 0 =>
              \A i \in 1..Len(cache') :
                 \/ OldEntry(cache'[i])
                 \/ cache'[i].key = k => cache'[i].answer \in {RightAnswer(k), "none"}
<1>1. /\ closed => UNCHANGED cache
      /\ ~closed => Remember(task[s].key, answer)
    BY FinishesTask
<1>2. task[s].key \in Keys /\ CacheOK /\ forgotten \in [Keys -> Nat]
    BY DEF TypeOK, CacheOK, Entries
<1>3. CASE closed
    BY <1>1, <1>3, SameEntries
<1>4. CASE ~closed
  <2>1. \A i \in 1..Len(cache') :
           cache'[i] = [key |-> task[s].key, answer |-> answer] \/ OldEntry(cache'[i])
    BY <1>1, <1>2, <1>4, RemembersIt
  <2>2. QED
    BY <1>4, <2>1
<1>5. QED
    BY <1>3, <1>4

LEMMA TaskStepAgrees ==
    ASSUME IInv, TypeOK', NEW s \in Slots, TaskStep(s), NEW k \in Keys
    PROVE  Agreed(k)'
<1>1. TypeOK /\ Agreed(k) /\ Standing(s) /\ TaskShape(s)
    BY TaskStepShape DEF IInv
<1>2. task[s].key \in Keys /\ task[s].answer \in Answers
    BY <1>1 DEF TypeOK
<1>3. UNCHANGED dispatcher /\ (Kept(k) \/ Dropped(k))
    BY <1>1 DEF TaskShape
<1>4. CASE Start(s) \/ CancelledUnstarted(s) \/ AckFailed(s) \/ HandlerCancelled(s)
  <2>1. UNCHANGED <<tried, cache>>
    BY <1>4 DEF Start, CancelledUnstarted, AckFailed, HandlerCancelled
  <2>2. QED
    BY <1>1, <1>3, <2>1, SameEntries, KeepsAgreed
<1>5. CASE AckPublished(s) \/ AckUnknown(s)
  <2>1. UNCHANGED cache /\ tried' = [tried EXCEPT ![task[s].key] = @ \cup {"ack"}]
    BY <1>5 DEF AckPublished, AckUnknown
  <2>2. RightAnswer(task[s].key) = "ack"
    BY <1>1, <1>5 DEF AckPublished, AckUnknown, Standing, RightAnswer
  <2>3. tried'[k] \subseteq tried[k] \cup {RightAnswer(k)}
    BY <1>1, <1>2, <2>1, <2>2, TellsType DEF Answers
  <2>4. QED
    BY <1>1, <1>3, <2>1, <2>3, SameEntries, KeepsAgreed
<1>6. CASE HandlerEnds(s)
  <2> DEFINE answer == IF Modes[task[s].key] = "COMPLETE" THEN "result" ELSE "none"
  <2>1. answer \in Answers /\ Finish(s, answer) /\ UNCHANGED tried
    BY <1>6 DEF HandlerEnds, Answers
  <2>2. answer \in {RightAnswer(task[s].key), "none"}
    BY <1>1, <1>6, ModesAssumption DEF HandlerEnds, Standing, RightAnswer
  <2> HIDE DEF answer
  <2>3. QED
    BY <1>1, <1>3, <2>1, <2>2, FinishAgrees, KeepsAgreed
<1>7. CASE AnswerPublished(s) \/ AnswerFailed(s)
  <2>1. /\ task[s].stage = "answering"
        /\ tried' = [tried EXCEPT ![task[s].key] = @ \cup {task[s].answer}]
    BY <1>7 DEF AnswerPublished, AnswerFailed
  <2>2. forgotten[k] = 0 => tried'[k] \subseteq tried[k] \cup {RightAnswer(k)}
    BY <1>1, <1>2, <2>1, TellsType DEF Standing
  <2>3. CASE UNCHANGED cache
    BY <1>1, <1>3, <2>2, <2>3, SameEntries, KeepsAgreed
  <2>4. CASE AnswerFailed(s) /\ task[s].key \in active
    <3>1. "broken" \in Answers /\ Finish(s, "broken")
      BY <2>4 DEF Answers, AnswerFailed
    <3>2. ~(~closed /\ forgotten[k] = 0 /\ task[s].key = k)
      BY <1>1, <2>1, <2>4 DEF Standing
    <3>3. QED
      BY <1>1, <1>3, <2>2, <3>1, <3>2, FinishAgrees, KeepsAgreed
  <2>5. QED
    BY <1>7, <2>3, <2>4 DEF AnswerPublished, AnswerFailed
<1>8. QED
    BY <1>4, <1>5, <1>6, <1>7 DEF TaskStep

LEMMA ReceiveAgrees ==
    ASSUME IInv, TypeOK', NEW n \in Keys, Receive(n), NEW k \in Keys
    PROVE  Agreed(k)'
<1>1. TypeOK /\ Agreed(k) /\ CacheOK /\ forgotten \in [Keys -> Nat]
  <2>1. TypeOK /\ Agreed(k)
    BY DEF IInv
  <2>2. QED
    BY <2>1 DEF TypeOK, CacheOK, Entries
<1>2. UNCHANGED tried
    BY DEF Receive, ReceiveCached, ReceiveDuplicate, ReceiveMalformed, ReceiveUnreadable,
           ReceiveBusy, ReceiveNew
<1>3. CASE ReceiveCached(n)
  <2>1. /\ n \in Cached /\ Touch(n) /\ Answer(n, CachedAnswer(n)) /\ UNCHANGED forgotten
        /\ \A i \in 1..Len(cache') : OldEntry(cache'[i])
        /\ Cached' = Cached
    BY <1>1, <1>3, TouchesIt DEF ReceiveCached
  <2>2. /\ Place(n) \in DOMAIN cache /\ cache[Place(n)].key = n
        /\ CachedAnswer(n) = cache[Place(n)].answer
        /\ CachedAnswer(n) \in Answers
    <3>1. cache \in Seq(Entries) /\ DOMAIN cache = 1..Len(cache)
      BY <1>1 DEF CacheOK
    <3>2. QED
      BY <2>1, <3>1, FindsItsPlace DEF CachedAnswer
  <2>3. forgotten[k] = 0 /\ n = k => CachedAnswer(n) \in {RightAnswer(k), "none"}
    BY <1>1, <2>2 DEF Agreed
  <2>4. dispatcher'.key = n /\ dispatcher'.answer = CachedAnswer(n)
    BY <2>1, <2>2, AnswersType
  <2>5. Kept(k)
    BY <2>1 DEF Kept
  <2>6. QED
    BY <1>1, <1>2, <2>1, <2>3, <2>4, <2>5, KeepsAgreed
<1>4. CASE ReceiveDuplicate(n) \/ ReceiveNew(n)
  <2>1. UNCHANGED <<cache, forgotten, dispatcher>>
    BY <1>4 DEF ReceiveDuplicate, ReceiveNew
  <2>2. QED
    BY <1>1, <1>2, <2>1, SameCache, SameEntries, KeepsAgreed
<1>5. CASE ReceiveMalformed(n)
  <2> DEFINE answer == IF Modes[n] = "FIRE_AND_FORGET" THEN "none" ELSE "invalid"
  <2>1. answer \in Answers /\ Remember(n, answer) /\ Answer(n, answer)
    BY <1>5 DEF ReceiveMalformed, Answers
  <2>2. answer \in {RightAnswer(n), "none"}
    BY <1>5 DEF ReceiveMalformed, RightAnswer
  <2> HIDE DEF answer
  <2>3. dispatcher'.key = n /\ dispatcher'.answer = answer
    BY <2>1, AnswersType
  <2>4. /\ Kept(k) \/ Dropped(k)
        /\ \A i \in 1..Len(cache') :
              cache'[i] = [key |-> n, answer |-> answer] \/ OldEntry(cache'[i])
    BY <1>1, <2>1, RemembersIt
  <2>5. QED
    BY <1>1, <1>2, <2>2, <2>3, <2>4, KeepsAgreed
<1>6. CASE ReceiveUnreadable(n) \/ ReceiveBusy(n)
  <2>1. UNCHANGED <<cache, forgotten>>
    BY <1>6 DEF ReceiveUnreadable, ReceiveBusy
  <2>2. dispatcher'.key = n /\ dispatcher'.answer \in {RightAnswer(n), "busy", "none"}
    BY <1>6 DEF ReceiveUnreadable, ReceiveBusy, Answer, RightAnswer
  <2>3. QED
    BY <1>1, <1>2, <2>1, <2>2, SameCache, SameEntries, KeepsAgreed
<1>7. QED
    BY <1>3, <1>4, <1>5, <1>6 DEF Receive

LEMMA AgreedStep ==
    ASSUME IInv, TypeOK', [Next]_vars, NEW k \in Keys
    PROVE  Agreed(k)'
<1>1. TypeOK /\ Agreed(k)
    BY DEF IInv
<1>2. CASE DispatcherPublished
  <2>1. /\ UNCHANGED <<cache, forgotten>> /\ dispatcher'.answer = "none"
        /\ dispatcher.answer # "none" /\ dispatcher.key \in Keys
        /\ dispatcher.answer \in Answers
        /\ tried' = [tried EXCEPT ![dispatcher.key] = @ \cup {dispatcher.answer}]
    BY <1>1, <1>2 DEF DispatcherPublished, NoAnswer, TypeOK
  <2>2. forgotten[k] = 0 => tried'[k] \subseteq tried[k] \cup {RightAnswer(k), "busy"}
    BY <1>1, <2>1, TellsType DEF Agreed
  <2>3. QED
    BY <1>1, <2>1, <2>2, SameCache, SameEntries, KeepsAgreed
<1>3. CASE Close \/ UNCHANGED vars
  <2>1. UNCHANGED <<cache, forgotten, tried, dispatcher>>
    BY <1>3 DEF Close, vars
  <2>2. QED
    BY <1>1, <2>1, SameCache, SameEntries, KeepsAgreed
<1>4. CASE CloseReturns
    BY <1>1, <1>4 DEF CloseReturns, Agreed, RightAnswer
<1>5. QED
    BY <1>2, <1>3, <1>4, ReceiveAgrees, TaskStepAgrees DEF Next

----------------------------------------------------------------------------
(* What is remembered of an answer.                                        *)
LEMMA KeepsRecorded ==
    ASSUME TypeOK, NEW k \in Keys, Recorded(k), Kept(k) \/ Dropped(k), closed => closed',
           k \notin Unreadable /\ forgotten[k] = 0 /\ forgotten'[k] = 0 =>
              \/ closed' \/ k \in Cached'
              \/ /\ tried'[k] \subseteq tried[k] \cup {"ack", "busy"}
                 /\ \/ dispatcher' = dispatcher
                    \/ dispatcher'.key = k => dispatcher'.answer \in {"busy", "none"}
    PROVE  Recorded(k)'
<1>1. SUFFICES ASSUME forgotten'[k] = 0, k \notin Unreadable, ~closed', k \notin Cached'
               PROVE  /\ tried'[k] \subseteq {"ack", "busy"}
                      /\ dispatcher'.key = k => dispatcher'.answer \in {"busy", "none"}
    BY DEF Recorded
<1>2. forgotten[k] = 0 /\ k \notin Cached
    BY <1>1, NotForgotten
<1>3. /\ tried[k] \subseteq {"ack", "busy"}
      /\ dispatcher.key = k => dispatcher.answer \in {"busy", "none"}
    BY <1>1, <1>2 DEF Recorded
<1>4. QED
    BY <1>1, <1>2, <1>3

LEMMA TaskStepRecords ==
    ASSUME IInv, NEW s \in Slots, TaskStep(s), NEW k \in Keys
    PROVE  Recorded(k)'
<1>1. TypeOK /\ Recorded(k) /\ Standing(s) /\ TaskShape(s)
    BY TaskStepShape DEF IInv
<1>2. task[s].key \in Keys /\ task[s].answer \in Answers
    BY <1>1 DEF TypeOK
<1>3. UNCHANGED <<closed, dispatcher>> /\ (Kept(k) \/ Dropped(k))
    BY <1>1 DEF TaskShape
<1>4. CASE UNCHANGED tried
    BY <1>1, <1>3, <1>4, KeepsRecorded
<1>5. CASE AckPublished(s) \/ AckUnknown(s)
  <2>1. "ack" \in Answers /\ tried' = [tried EXCEPT ![task[s].key] = @ \cup {"ack"}]
    BY <1>5 DEF AckPublished, AckUnknown, Answers
  <2>2. tried'[k] \subseteq tried[k] \cup {"ack", "busy"}
    BY <1>1, <1>2, <2>1, TellsType
  <2>3. QED
    BY <1>1, <1>3, <2>2, KeepsRecorded
<1>6. CASE AnswerPublished(s) \/ AnswerFailed(s)
  <2>1. /\ task[s].stage = "answering"
        /\ tried' = [tried EXCEPT ![task[s].key] = @ \cup {task[s].answer}]
    BY <1>6 DEF AnswerPublished, AnswerFailed
  <2>2. CASE k = task[s].key
    <3>1. forgotten[k] = 0 /\ forgotten'[k] = 0 => closed' \/ k \in Cached'
      BY <1>1, <1>3, <2>1, <2>2, NotForgotten DEF Standing
    <3>2. QED
      BY <1>1, <1>3, <3>1, KeepsRecorded
  <2>3. CASE k # task[s].key
    <3>1. tried'[k] = tried[k]
      BY <1>1, <1>2, <2>1, <2>3, TellsType
    <3>2. QED
      BY <1>1, <1>3, <3>1, KeepsRecorded
  <2>4. QED
    BY <2>2, <2>3
<1>7. CASE Start(s) \/ CancelledUnstarted(s) \/ AckFailed(s) \/ HandlerEnds(s) \/ HandlerCancelled(s)
    BY <1>4, <1>7 DEF Start, CancelledUnstarted, AckFailed, HandlerEnds, HandlerCancelled
<1>8. QED
    BY <1>5, <1>6, <1>7 DEF TaskStep

LEMMA ReceiveRecords ==
    ASSUME IInv, NEW n \in Keys, Receive(n), NEW k \in Keys
    PROVE  Recorded(k)'
<1>1. TypeOK /\ Recorded(k) /\ CacheOK /\ forgotten \in [Keys -> Nat]
  <2>1. TypeOK /\ Recorded(k)
    BY DEF IInv
  <2>2. QED
    BY <2>1 DEF TypeOK, CacheOK, Entries
<1>2. UNCHANGED <<tried, closed>>
    BY DEF Receive, ReceiveCached, ReceiveDuplicate, ReceiveMalformed, ReceiveUnreadable,
           ReceiveBusy, ReceiveNew
<1>3. CASE ReceiveCached(n)
  <2>1. /\ n \in Cached /\ Touch(n) /\ Answer(n, CachedAnswer(n)) /\ UNCHANGED forgotten
        /\ Cached' = Cached
    BY <1>1, <1>3, TouchesIt DEF ReceiveCached
  <2>2. dispatcher'.key = n
    BY <2>1 DEF Answer
  <2>3. Kept(k)
    BY <2>1 DEF Kept
  <2>4. QED
    BY <1>1, <1>2, <2>1, <2>2, <2>3, KeepsRecorded
<1>4. CASE ReceiveDuplicate(n) \/ ReceiveNew(n)
  <2>1. UNCHANGED <<cache, forgotten, dispatcher>>
    BY <1>4 DEF ReceiveDuplicate, ReceiveNew
  <2>2. QED
    BY <1>1, <1>2, <2>1, SameCache, KeepsRecorded
<1>5. CASE ReceiveMalformed(n)
  <2> DEFINE answer == IF Modes[n] = "FIRE_AND_FORGET" THEN "none" ELSE "invalid"
  <2>1. answer \in Answers /\ Remember(n, answer) /\ Answer(n, answer)
    BY <1>5 DEF ReceiveMalformed, Answers
  <2> HIDE DEF answer
  <2>2. dispatcher'.key = n
    BY <2>1, AnswersType
  <2>3. n \in Cached' /\ (Kept(k) \/ Dropped(k))
    BY <1>1, <2>1, RemembersIt
  <2>4. QED
    BY <1>1, <1>2, <2>2, <2>3, KeepsRecorded
<1>6. CASE ReceiveUnreadable(n) \/ ReceiveBusy(n)
  <2>1. UNCHANGED <<cache, forgotten>>
    BY <1>6 DEF ReceiveUnreadable, ReceiveBusy
  <2>2. dispatcher'.key = n /\ (n \in Unreadable \/ dispatcher'.answer \in {"busy", "none"})
    BY <1>6 DEF ReceiveUnreadable, ReceiveBusy, Answer
  <2>3. QED
    BY <1>1, <1>2, <2>1, <2>2, SameCache, KeepsRecorded
<1>7. QED
    BY <1>3, <1>4, <1>5, <1>6 DEF Receive

LEMMA RecordedStep ==
    ASSUME IInv, [Next]_vars, NEW k \in Keys
    PROVE  Recorded(k)'
<1>1. TypeOK /\ Recorded(k)
    BY DEF IInv
<1>2. CASE DispatcherPublished
  <2>1. /\ UNCHANGED <<cache, forgotten, closed>> /\ dispatcher'.answer = "none"
        /\ dispatcher.answer # "none" /\ dispatcher.key \in Keys
        /\ dispatcher.answer \in Answers
        /\ tried' = [tried EXCEPT ![dispatcher.key] = @ \cup {dispatcher.answer}]
    BY <1>1, <1>2 DEF DispatcherPublished, NoAnswer, TypeOK
  <2>2. Cached' = Cached /\ Kept(k)
    BY <2>1, SameCache
  <2>3. \/ tried'[k] \subseteq tried[k] \cup {"ack", "busy"}
        \/ k \notin Unreadable /\ forgotten[k] = 0 => closed \/ k \in Cached
    BY <1>1, <2>1, TellsType DEF Recorded
  <2>4. QED
    BY <1>1, <2>1, <2>2, <2>3, KeepsRecorded
<1>3. CASE Close \/ UNCHANGED vars
  <2>1. UNCHANGED <<cache, forgotten, tried, dispatcher>> /\ (closed => closed')
    BY <1>3 DEF Close, vars
  <2>2. QED
    BY <1>1, <2>1, SameCache, KeepsRecorded
<1>4. CASE CloseReturns
    BY <1>4 DEF CloseReturns, Recorded
<1>5. QED
    BY <1>2, <1>3, <1>4, ReceiveRecords, TaskStepRecords DEF Next

----------------------------------------------------------------------------
(* Where the tasks stand.                                                  *)
LEMMA KeepsStanding ==
    ASSUME TypeOK, NEW t \in Slots, Standing(t), task'[t] = task[t], closed => closed',
           LET k == task[t].key IN
           /\ Executing(t) /\ Modes[k] = "ACKNOWLEDGMENT" /\ k \in active
                  => closed' \/ k \in active'
           /\ forgotten'[k] = 0 => forgotten[k] = 0
           /\ task[t].stage = "answering" /\ forgotten'[k] = 0 /\ k \in Cached /\ k \notin active
                  => closed' \/ (k \in Cached' /\ k \notin active')
    PROVE  Standing(t)'
BY DEF Standing, Executing, RightAnswer

LEMMA SettledStanding ==
    ASSUME NEW s \in Slots, Ended(s)
    PROVE  Standing(s)'
BY AnIdleTask DEF Ended, Standing, Executing

LEMMA FinishStands ==
    ASSUME TypeOK, NEW s \in Slots, NEW answer \in Answers, Finish(s, answer),
           closed' = closed, task[s].key \notin Malformed \cup Unreadable,
           answer # "none" => Modes[task[s].key] = "COMPLETE",
           ~closed => answer \in {"none", "result"} \/ forgotten[task[s].key] > 0
    PROVE  Standing(s)'
<1> DEFINE k == task[s].key
<1>1. /\ closed => Ended(s)
      /\ ~closed => Remember(k, answer) /\ (IF answer = "none" THEN Ended(s) ELSE Begun(s, answer))
      /\ Forget(k)
    BY FinishesTask
<1>2. k \in Keys /\ CacheOK /\ forgotten \in [Keys -> Nat]
    BY DEF TypeOK, CacheOK, Entries
<1>3. CASE Ended(s)
    BY <1>3, SettledStanding
<1>4. CASE ~closed /\ answer # "none"
  <2>1. Begun(s, answer) /\ k \in Cached' /\ k \notin active'
    BY <1>1, <1>2, <1>4, RemembersIt DEF Forget
  <2>2. forgotten'[k] = 0 => forgotten[k] = 0
    BY <1>1, <1>2, <1>4, RemembersIt, NotForgotten
  <2>3. forgotten'[k] = 0 => answer = RightAnswer(k)
    BY <1>2, <1>4, <2>2 DEF RightAnswer
  <2>4. QED
    BY <1>4, <2>1, <2>3 DEF Begun, Standing, Executing, RightAnswer
<1>5. QED
    BY <1>1, <1>3, <1>4

LEMMA TaskStandsStill ==
    ASSUME IInv, NEW s \in Slots, TaskStep(s)
    PROVE  Standing(s)'
<1> DEFINE k == task[s].key
<1>1. TypeOK /\ Standing(s) /\ task[s] \in Tasks
    BY DEF IInv, TypeOK, Tasks
<1>2. CASE Start(s)
  <2>1. \/ GoneTo(s, "acking") /\ Modes[k] = "ACKNOWLEDGMENT"
        \/ GoneTo(s, "running")
    BY <1>1, <1>2, MovesTask, InvokesType DEF Start, Stages
  <2>2. task[s].stage = "created" /\ UNCHANGED <<closed, active>>
    BY <1>2 DEF Start
  <2>3. QED
    BY <1>1, <2>1, <2>2 DEF GoneTo, Tasks, Standing, Executing
<1>3. CASE CancelledUnstarted(s) \/ AckFailed(s) \/ HandlerCancelled(s)
    BY <1>1, <1>3, EndsTask, SettledStanding DEF CancelledUnstarted, AckFailed, HandlerCancelled
<1>4. CASE AckPublished(s) \/ (AckUnknown(s) /\ ~closed)
  <2>1. GoneTo(s, "running") /\ task[s].stage = "acking" /\ UNCHANGED <<closed, active>>
    BY <1>1, <1>4, InvokesType DEF AckPublished, AckUnknown
  <2>2. QED
    BY <1>1, <2>1 DEF GoneTo, Tasks, Standing, Executing
<1>5. CASE AckUnknown(s) /\ closed
    BY <1>1, <1>5, EndsTask, SettledStanding DEF AckUnknown
<1>6. CASE HandlerEnds(s)
  <2> DEFINE answer == IF Modes[k] = "COMPLETE" THEN "result" ELSE "none"
  <2>1. answer \in Answers /\ Finish(s, answer) /\ closed' = closed
    BY <1>6 DEF HandlerEnds, Answers
  <2>2. k \notin Malformed \cup Unreadable
    BY <1>1, <1>6 DEF HandlerEnds, Standing
  <2>3. answer \in {"none", "result"} /\ (answer # "none" => Modes[k] = "COMPLETE")
    OBVIOUS
  <2> HIDE DEF answer
  <2>4. QED
    BY <1>1, <2>1, <2>2, <2>3, FinishStands
<1>7. CASE AnswerPublished(s)
  <2>1. CASE task[s].left = 1 \/ closed
    BY <1>1, <1>7, <2>1, EndsTask, SettledStanding DEF AnswerPublished
  <2>2. CASE ~(task[s].left = 1 \/ closed)
    <3>1. task' = [task EXCEPT ![s].left = @ - 1]
      BY <1>7, <2>2 DEF AnswerPublished
    <3>2. /\ task'[s].key = k /\ task'[s].stage = task[s].stage
          /\ task'[s].answer = task[s].answer /\ task'[s].cancel = task[s].cancel
          /\ task'[s].left = task[s].left - 1
      BY <1>1, <3>1 DEF TypeOK, Tasks
    <3>3. task'[s].left > 0
      BY <1>1, <1>7, <2>2, <3>2, SlotCount DEF AnswerPublished, Standing, Tasks
    <3>4. UNCHANGED <<closed, active, cache, forgotten>> /\ Cached' = Cached
      BY <1>7 DEF AnswerPublished, Cached
    <3>5. QED
      BY <1>1, <1>7, <3>2, <3>3, <3>4 DEF AnswerPublished, Standing, Executing, RightAnswer
  <2>3. QED
    BY <2>1, <2>2
<1>8. CASE AnswerFailed(s)
  <2>1. CASE k \in active
    <3>1. "broken" \in Answers /\ Finish(s, "broken") /\ closed' = closed
      BY <1>8, <2>1 DEF Answers, AnswerFailed
    <3>2. Modes[k] = "COMPLETE" /\ k \notin Malformed \cup Unreadable
      BY <1>1, <1>8 DEF AnswerFailed, Standing
    <3>3. ~closed => forgotten[k] > 0
      BY <1>1, <1>8, <2>1 DEF AnswerFailed, Standing, TypeOK, Tasks
    <3>4. QED
      BY <1>1, <3>1, <3>2, <3>3, FinishStands
  <2>2. CASE k \notin active
    BY <1>1, <1>8, <2>2, EndsTask, SettledStanding DEF AnswerFailed
  <2>3. QED
    BY <2>1, <2>2
<1>9. QED
    BY <1>2, <1>3, <1>4, <1>5, <1>6, <1>7, <1>8 DEF TaskStep

LEMMA StandingStep ==
    ASSUME IInv, TypeOK', [Next]_vars, NEW t \in Slots
    PROVE  Standing(t)'
<1>1. /\ TypeOK /\ Standing(t) /\ CacheOK /\ forgotten \in [Keys -> Nat]
      /\ task \in [Slots -> Tasks] /\ task[t].key \in Keys
  <2>1. TypeOK /\ Standing(t)
    BY DEF IInv
  <2>2. QED
    BY <2>1 DEF TypeOK, CacheOK, Entries, Tasks
<1>2. ASSUME NEW n \in Keys, Receive(n), ~ReceiveNew(n) PROVE Standing(t)'
  <2>1. UNCHANGED <<task, closed, active>>
    BY <1>2 DEF Receive, ReceiveCached, ReceiveDuplicate, ReceiveMalformed, ReceiveUnreadable,
                ReceiveBusy
  <2>2. \A j \in Keys : Kept(j) \/ Dropped(j)
    <3>1. CASE ReceiveCached(n)
      BY <1>1, <3>1, TouchesIt DEF ReceiveCached, Kept
    <3>2. CASE ReceiveMalformed(n)
      <4>1. PICK answer \in Answers : Remember(n, answer)
        BY <3>2 DEF ReceiveMalformed, Answers
      <4>2. QED
        BY <1>1, <4>1, RemembersIt
    <3>3. CASE ReceiveDuplicate(n) \/ ReceiveUnreadable(n) \/ ReceiveBusy(n)
      BY <3>3, SameCache DEF ReceiveDuplicate, ReceiveUnreadable, ReceiveBusy
    <3>4. QED
      BY <1>2, <3>1, <3>2, <3>3 DEF Receive
  <2>3. QED
    BY <1>1, <2>1, <2>2, NotForgotten, KeepsStanding
<1>3. ASSUME NEW n \in Keys, ReceiveNew(n) PROVE Standing(t)'
  <2>1. /\ UNCHANGED <<closed, cache, forgotten>> /\ active' = active \cup {n}
        /\ n \notin Cached \cup active \cup Malformed \cup Unreadable
    BY <1>3 DEF ReceiveNew
  <2>2. PICK s \in Idle : /\ Elsewhere(s) /\ task'[s].key = n /\ task'[s].stage = "created"
                          /\ ~task'[s].cancel
    BY <1>1, <1>3, NewTask
  <2>3. CASE t = s
    BY <2>1, <2>2, <2>3 DEF Standing, Executing
  <2>4. CASE t # s
    <3>1. task'[t] = task[t] /\ Cached' = Cached
      BY <2>1, <2>2, <2>4, SameCache DEF Elsewhere
    <3>2. QED
      BY <1>1, <2>1, <3>1, KeepsStanding
  <2>5. QED
    BY <2>3, <2>4
<1>4. ASSUME NEW s \in Slots, TaskStep(s) PROVE Standing(t)'
  <2>1. TaskShape(s) /\ TypeOK /\ AckSingleFlight
    BY <1>1, <1>4, TaskStepShape DEF IInv
  <2>2. CASE t = s
    BY <1>4, <2>2, TaskStandsStill
  <2>3. CASE t # s
    <3>1. task'[t] = task[t] /\ closed' = closed /\ active' \subseteq active
      BY <2>1, <2>3 DEF TaskShape, Elsewhere
    <3>2. Kept(task[t].key) \/ Dropped(task[t].key)
      BY <1>1, <2>1 DEF TaskShape
    <3>3. ASSUME Executing(t), Modes[task[t].key] = "ACKNOWLEDGMENT", task[t].key \in active
          PROVE  task[t].key \in active'
      <4>1. CASE task[s].key = task[t].key
        <5>1. ~Executing(s)
          BY <2>1, <2>3, <3>3, <4>1 DEF AckSingleFlight
        <5>2. active' = active
          BY <2>1, <3>3, <4>1, <5>1 DEF TaskShape
        <5>3. QED
          BY <3>3, <5>2
      <4>2. CASE task[s].key # task[t].key
        BY <2>1, <3>3, <4>2 DEF TaskShape
      <4>3. QED
        BY <4>1, <4>2
    <3>4. forgotten'[task[t].key] = 0 => /\ forgotten[task[t].key] = 0
                                         /\ task[t].key \in Cached => task[t].key \in Cached'
      BY <1>1, <3>2, NotForgotten
    <3>5. QED
      BY <1>1, <3>1, <3>3, <3>4, KeepsStanding
  <2>4. QED
    BY <2>2, <2>3
<1>5. CASE Close
  <2>1. /\ task'[t].key = task[t].key /\ task'[t].stage = task[t].stage
        /\ task'[t].answer = task[t].answer /\ task'[t].left = task[t].left
    BY <1>1, <1>5 DEF Close, Tasks
  <2>2. closed' /\ UNCHANGED forgotten
    BY <1>5 DEF Close
  <2>3. QED
    BY <1>1, <2>1, <2>2 DEF Standing, Executing, RightAnswer
<1>6. CASE CloseReturns
    BY <1>1, <1>6, KeepsStanding DEF CloseReturns
<1>7. CASE DispatcherPublished \/ UNCHANGED vars
  <2>1. UNCHANGED <<task, closed, active, cache, forgotten>> /\ Cached' = Cached
    BY <1>7 DEF DispatcherPublished, vars, Cached
  <2>2. QED
    BY <1>1, <2>1, KeepsStanding
<1>8. QED
    BY <1>2, <1>3, <1>4, <1>5, <1>6, <1>7 DEF Next

LEMMA SingleFlightStep ==
    ASSUME IInv, TypeOK', [Next]_vars
    PROVE  AckSingleFlight'
<1>1. /\ TypeOK /\ AckSingleFlight /\ (\A s \in Slots : Standing(s))
      /\ task \in [Slots -> Tasks]
  <2>1. TypeOK /\ AckSingleFlight /\ (\A s \in Slots : Standing(s))
    BY DEF IInv
  <2>2. QED
    BY <2>1 DEF TypeOK, Tasks
<1>2. SUFFICES ASSUME NEW s \in Slots, NEW t \in Slots, s # t, Executing(s)', Executing(t)',
                      task'[s].key = task'[t].key
               PROVE  Modes[task'[s].key] # "ACKNOWLEDGMENT"
    BY DEF AckSingleFlight
<1>3. ASSUME \A i \in Slots : Executing(i)' => Executing(i) /\ task'[i].key = task[i].key
      PROVE  Modes[task'[s].key] # "ACKNOWLEDGMENT"
    BY <1>1, <1>2, <1>3 DEF AckSingleFlight
<1>4. ASSUME NEW i \in Slots, TaskStep(i)
      PROVE  \A j \in Slots : Executing(j)' => Executing(j) /\ task'[j].key = task[j].key
  <2>1. TaskShape(i)
    BY <1>1, <1>4, TaskStepShape
  <2>2. SUFFICES ASSUME NEW j \in Slots, Executing(j)'
                 PROVE  Executing(j) /\ task'[j].key = task[j].key
    OBVIOUS
  <2>3. CASE j = i
    BY <2>1, <2>2, <2>3 DEF TaskShape
  <2>4. CASE j # i
    BY <2>1, <2>2, <2>4 DEF TaskShape, Elsewhere, Executing
  <2>5. QED
    BY <2>3, <2>4
<1>5. CASE Close
  <2>1. \A i \in Slots : Executing(i)' => Executing(i) /\ task'[i].key = task[i].key
    BY <1>1, <1>5 DEF Close, Tasks, Executing
  <2>2. QED
    BY <1>3, <2>1
<1>6. ASSUME NEW n \in Keys, ReceiveNew(n) PROVE Modes[task'[s].key] # "ACKNOWLEDGMENT"
  <2>1. PICK i \in Idle : Elsewhere(i) /\ task'[i].key = n
    BY <1>1, <1>6, NewTask
  <2>2. ~closed /\ n \notin active
    BY <1>6 DEF ReceiveNew, Arrives
  <2>3. ASSUME NEW j \in Slots, j # i, Executing(j)', task'[j].key = n
        PROVE  Modes[n] # "ACKNOWLEDGMENT"
    <3>1. Executing(j) /\ task[j].key = n
      BY <2>1, <2>3 DEF Elsewhere, Executing
    <3>2. QED
      BY <1>1, <2>2, <3>1 DEF Standing
  <2>4. CASE i \in {s, t}
    BY <1>2, <2>1, <2>3, <2>4
  <2>5. CASE i \notin {s, t}
    <3>1. task'[s] = task[s] /\ task'[t] = task[t]
      BY <2>1, <2>5 DEF Elsewhere
    <3>2. QED
      BY <1>1, <1>2, <3>1 DEF AckSingleFlight, Executing
  <2>6. QED
    BY <2>4, <2>5
<1>7. CASE UNCHANGED task
    BY <1>3, <1>7 DEF Executing
<1>8. QED
    BY <1>3, <1>4, <1>5, <1>6, <1>7
       DEF Next, vars, Receive, ReceiveCached, ReceiveDuplicate, ReceiveMalformed,
           ReceiveUnreadable, ReceiveBusy, DispatcherPublished, CloseReturns

----------------------------------------------------------------------------
LEMMA InitIInv == Init => IInv
<1>1. SUFFICES ASSUME Init PROVE IInv
    OBVIOUS
<1>2. task = [s \in Slots |-> IdleTask] /\ \A s \in Slots : task[s] = IdleTask
    BY <1>1 DEF Init
<1>3. NoAnswer \in [key : Keys, answer : Answers] /\ NoAnswer.answer = "none"
    BY KeysAssumption DEF NoAnswer, Answers
<1>4. task \in [Slots -> Tasks]
    BY <1>2, AnIdleTask
<1>5. cache = <<>> /\ cache \in Seq(Entries) /\ Len(cache) = 0 /\ DOMAIN cache = {}
    BY <1>1 DEF Init
<1>6. TypeOK
  <2>1. duplicates \in [Keys -> 0..(Cardinality(Slots) - 1)]
    BY <1>1, SlotCount DEF Init
  <2>2. Len(cache) <= CacheSize /\ cache \in Seq([key : Keys, answer : Answers])
    BY <1>5, CacheSizeAssumption DEF Entries
  <2>3. \A k \in Keys : received[k] <= MaxReceived[k]
    BY <1>1, MaxReceivedAssumption DEF Init
  <2>4. \A i, j \in DOMAIN cache : cache[i].key = cache[j].key => i = j
    BY <1>5
  <2>5. dispatcher \in [key : Keys, answer : Answers]
    BY <1>1, <1>3 DEF Init
  <2>6. QED
    BY <1>1, <1>4, <2>1, <2>2, <2>3, <2>4, <2>5 DEF Init, TypeOK, Tasks
<1>7. ASSUME NEW k \in Keys PROVE Ledger(k) /\ Agreed(k) /\ Recorded(k)
  <2>1. Unstarted(k) = {}
    BY <1>2, AnIdleTask DEF Unstarted
  <2>2. Cardinality(Unstarted(k)) = 0
    BY <2>1, FS_EmptySet
  <2>3. invoked[k] = 0 /\ received[k] = 0 /\ forgotten[k] = 0 /\ tried[k] = {}
    BY <1>1 DEF Init
  <2>4. 0 <= 0 + (IF Remembered(k) THEN 1 ELSE 0)
    OBVIOUS
  <2>5. Ledger(k)
    BY <2>2, <2>3, <2>4 DEF Ledger
  <2>6. Agreed(k)
    BY <1>1, <1>3, <1>5, <2>3 DEF Init, Agreed
  <2>7. Recorded(k)
    BY <1>1, <1>3, <2>3 DEF Init, Recorded
  <2>8. QED
    BY <2>5, <2>6, <2>7
<1>8. \A s \in Slots : Standing(s) /\ ~Executing(s)
    BY <1>2, AnIdleTask DEF Standing, Executing
<1>9. QED
    BY <1>6, <1>7, <1>8 DEF IInv, AckSingleFlight

LEMMA NextIInv == IInv /\ [Next]_vars => IInv'
<1>1. SUFFICES ASSUME IInv, [Next]_vars PROVE IInv'
    OBVIOUS
<1>2. TypeOK'
    BY <1>1, TypesStep DEF IInv
<1>3. \A k \in Keys : Ledger(k)' /\ Agreed(k)' /\ Recorded(k)'
    BY <1>1, <1>2, LedgerStep, AgreedStep, RecordedStep
<1>4. \A s \in Slots : Standing(s)'
    BY <1>1, <1>2, StandingStep
<1>5. AckSingleFlight'
    BY <1>1, <1>2, SingleFlightStep
<1>6. QED
    BY <1>2, <1>3, <1>4, <1>5 DEF IInv

(* The inductive invariant holds of every behaviour of the service.         *)
THEOREM Invariant == Spec => []IInv
    BY InitIInv, NextIInv, PTL DEF Spec

(* Every state is well formed: the LRU never holds two entries of one       *)
(* delivery nor more than duplicate_cache_size of them, and the duplicates  *)
(* counted for a delivery never reach max_outstanding.                      *)
THEOREM Types == Spec => []TypeOK
<1>1. IInv => TypeOK
    BY DEF IInv
<1>2. QED
    BY <1>1, Invariant, PTL

(* However often a delivery arrives and whatever its handler does, _receive *)
(* and _run_delivery start it at most once more than the cache forgot it.   *)
THEOREM NeverInvokedTwice == Spec => []InvokedOncePerMemory
<1>1. IInv => InvokedOncePerMemory
  <2>1. SUFFICES ASSUME IInv, NEW k \in Keys PROVE invoked[k] <= 1 + forgotten[k]
    BY DEF InvokedOncePerMemory
  <2>2. Ledger(k) /\ invoked[k] \in Nat /\ forgotten[k] \in Nat
    BY <2>1 DEF IInv, TypeOK
  <2>3. Cardinality(Unstarted(k)) \in Nat
    BY UnstartedCount
  <2>4. invoked[k] + Cardinality(Unstarted(k)) <= forgotten[k] + 1
    <3> DEFINE r == IF Remembered(k) THEN 1 ELSE 0
    <3>1. r \in {0, 1} /\ invoked[k] + Cardinality(Unstarted(k)) <= forgotten[k] + r
      BY <2>2 DEF Ledger
    <3> HIDE DEF r
    <3>2. QED
      BY <2>2, <2>3, <3>1
  <2>5. QED
    BY <2>2, <2>3, <2>4
<1>2. QED
    BY <1>1, Invariant, PTL

(* The handler of a delivery that never arrived is never started, and no    *)
(* delivery's more often than it arrived, closed service or not.            *)
THEOREM InvokedForArrivals == Spec => [](\A k \in Keys : invoked[k] <= received[k])
<1>1. IInv => \A k \in Keys : invoked[k] <= received[k]
  <2>1. SUFFICES ASSUME IInv, NEW k \in Keys PROVE invoked[k] <= received[k]
    OBVIOUS
  <2>2. Ledger(k) /\ invoked[k] \in Nat /\ received[k] \in Nat
    BY <2>1 DEF IInv, TypeOK
  <2>3. Cardinality(Unstarted(k)) \in Nat
    BY UnstartedCount
  <2>4. invoked[k] + Cardinality(Unstarted(k)) <= received[k]
    BY <2>2 DEF Ledger
  <2>5. QED
    BY <2>2, <2>3, <2>4
<1>2. QED
    BY <1>1, Invariant, PTL

(* Two tasks never execute one ACKNOWLEDGMENT delivery; while the cache     *)
(* has not forgotten a delivery one answer is tried for it, the capacity    *)
(* answer apart, and that answer is there for its redelivery.               *)
THEOREM OneExecutionOneAnswer == Spec => []HandledOnce
<1>1. IInv => HandledOnce
  <2>1. SUFFICES ASSUME IInv PROVE OneAnswer /\ AnswerRemembered
    BY DEF HandledOnce, IInv
  <2>2. OneAnswer
    <3>1. SUFFICES ASSUME NEW k \in Keys, forgotten[k] = 0
                   PROVE  Cardinality(tried[k] \ {"busy"}) <= 1
      BY DEF OneAnswer
    <3>2. tried[k] \ {"busy"} \subseteq {RightAnswer(k)}
      BY <2>1, <3>1 DEF IInv, Agreed
    <3>3. IsFiniteSet({RightAnswer(k)}) /\ Cardinality({RightAnswer(k)}) = 1
      BY FS_Singleton
    <3>4. QED
      BY <3>2, <3>3, FS_Subset
  <2>3. AnswerRemembered
    <3>1. SUFFICES ASSUME NEW k \in Keys \ Unreadable,
                          tried[k] \cap {"result", "invalid"} # {}, forgotten[k] = 0, ~closed
                   PROVE  k \in Cached
      BY DEF AnswerRemembered
    <3>2. QED
      BY <2>1, <3>1 DEF IInv, Recorded
  <2>4. QED
    BY <2>2, <2>3
<1>2. QED
    BY <1>1, Invariant, PTL

(* While the cache knows a delivery, each of its answers is the one that    *)
(* its mode and its form deserve, whichever path gave it: the handler, the  *)
(* cache, a counted duplicate or a refusal; "broken" is never among them.   *)
THEOREM TheRightAnswer ==
    Spec => [](\A k \in Keys : forgotten[k] = 0 => tried[k] \subseteq {RightAnswer(k), "busy"})
<1>1. IInv => \A k \in Keys : forgotten[k] = 0 => tried[k] \subseteq {RightAnswer(k), "busy"}
    BY DEF IInv, Agreed
<1>2. QED
    BY <1>1, Invariant, PTL

(* After close began, a task that answers is one that answered already.     *)
THEOREM CloseBeginsNoAnswer == Spec => NoAnswerBegunAfterClose
<1>1. ASSUME IInv, [Next]_vars, closed, NEW t \in Slots, task'[t].stage = "answering"
      PROVE  task[t].stage = "answering"
  <2>1. /\ TypeOK /\ (\A s \in Slots : Standing(s)) /\ task \in [Slots -> Tasks]
    <3>1. TypeOK /\ (\A s \in Slots : Standing(s))
      BY <1>1 DEF IInv
    <3>2. QED
      BY <3>1 DEF TypeOK, Tasks
  <2>2. ASSUME NEW s \in Slots, TaskStep(s) PROVE task[t].stage = "answering"
    <3>1. TaskShape(s)
      BY <2>1, <2>2, TaskStepShape
    <3>2. CASE t # s
      BY <1>1, <3>1, <3>2 DEF TaskShape, Elsewhere
    <3>3. CASE t = s
      <4>1. ~Ended(t) /\ ~GoneTo(t, "acking") /\ ~GoneTo(t, "running")
        BY <1>1, <2>1, AnIdleTask DEF Ended, GoneTo, Tasks
      <4>2. \A answer \in Answers : ~Finish(t, answer)
        BY <1>1, <2>1, <4>1, FinishesTask
      <4>3. ~Ends(t) /\ ~Invoke(t)
        BY <2>1, <4>1, EndsTask, InvokesType
      <4>4. ~Start(t)
        BY <2>1, <4>1, <4>3, MovesTask DEF Start, Stages
      <4>5. ~HandlerEnds(t)
        BY <4>2 DEF HandlerEnds, Answers
      <4>6. QED
        BY <2>2, <3>3, <4>3, <4>4, <4>5
           DEF TaskStep, CancelledUnstarted, AckPublished, AckUnknown, AckFailed,
               HandlerCancelled, AnswerPublished, AnswerFailed
    <3>4. QED
      BY <3>2, <3>3
  <2>3. CASE UNCHANGED task
    BY <1>1, <2>3
  <2>4. QED
    BY <1>1, <2>2, <2>3
       DEF Next, vars, Receive, ReceiveCached, ReceiveDuplicate, ReceiveMalformed,
           ReceiveUnreadable, ReceiveBusy, ReceiveNew, Arrives, DispatcherPublished,
           Close, CloseReturns
<1>2. IInv /\ [Next]_vars =>
        [closed => \A s \in Slots :
            task'[s].stage = "answering" => task[s].stage = "answering"]_vars
    BY <1>1
<1>3. QED
    BY <1>2, Invariant, PTL DEF Spec, NoAnswerBegunAfterClose
=============================================================================
