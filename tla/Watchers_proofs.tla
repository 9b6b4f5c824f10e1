---------------------------- MODULE Watchers_proofs ----------------------------
(***************************************************************************)
(* Proofs about the way of results, from the watchers that note requests   *)
(* through the queues of the mapper to the cloud: TrafficHolders and       *)
(* ResultQueues as they run in Watchers.                                   *)
(*                                                                         *)
(* The invariant has a part for each: what the holder's map and counters   *)
(* say of the results of a window, that a result is in one place, and that *)
(* a note is carried on until the mapper's log has it.                     *)
(***************************************************************************)
EXTENDS Watchers, FiniteSetTheorems, SequenceTheorems, WellFoundedInduction, TLAPS

-----------------------------------------------------------------------------
(* The invariant of the holder.                                            *)

\* The results reported so far, and what may be reported.
Ids == 1 .. Len(log)
Reportable == Results \cup [key: Keys, lastSeen: Nat, detail: {NoDetail}]

LogOK ==
  /\ kind \in TrafficKinds \cup WatchedKinds \cup {"operation"}
  /\ log \in Seq(Reportable) /\ Len(log) <= MaxResults
  /\ kind \notin WatchedKinds => \A i \in Ids : log[i] \in Results

IntentRecord ==
  [key: Keys, timestamp: Nat, details: SUBSET Ports, count: ConnectionsCount,
   results: SUBSET Ids, before: SUBSET Ids]

\* An intent's time is the latest of its results.
LatestOf(e) ==
  kind \in TrafficKinds =>
    /\ \A i \in e.results : log[i].lastSeen <= e.timestamp
    /\ \E i \in e.results : log[i].lastSeen = e.timestamp

\* The map has what was added in this window, by key.
EntriesOK ==
  /\ \A i \in windows.this : log[i].key \in DOMAIN entries
  /\ \A k \in DOMAIN entries :
       LET e == entries[k]
       IN /\ e \in IntentRecord /\ e.key = k
          /\ e.results = OfKey(windows.this, k) /\ e.results # {}
          /\ e.details = IF kind = "incoming" THEN {} ELSE DetailsOf(e.results)
          /\ LatestOf(e)

\* The counter of a key that got these results.
CounterOf(results) ==
  IF kind = "external"
    THEN [countMethod |-> "DNS", SourcePorts |-> {}, DNSCounter |-> Cardinality(results)]
    ELSE [countMethod |-> "SourcePort", SourcePorts |-> DetailsOf(results), DNSCounter |-> 0]

CountersOK(counters, results) ==
  /\ DOMAIN counters = IF kind \in TrafficKinds THEN {log[i].key : i \in results} ELSE {}
  /\ \A k \in DOMAIN counters : counters[k] = CounterOf(OfKey(results, k))

WindowsOK ==
  /\ windows \in [last: SUBSET Ids, this: SUBSET Ids]
  /\ EntriesOK
  /\ CountersOK(current, windows.this) /\ CountersOK(previous, windows.last)

UploadOK ==
  /\ chunk \subseteq unsent /\ (kind = "operation" => chunk \in {{}, unsent})
  /\ retries \in 0 .. MaxRetries /\ cancelled \in BOOLEAN
  /\ looping \/ (cancelled /\ unsent = {})
  /\ \A e \in unsent \cup cloud \cup lost : e \in IntentRecord

\* An intent that was taken for an upload sums up its results.
Summarises(e) ==
  /\ e.results # {} /\ \A i \in e.results : log[i].key = e.key
  /\ kind # "incoming" => e.details = DetailsOf(e.results)
  /\ LatestOf(e)
  /\ e.count = ExpectedCount(e)

HolderInv ==
  /\ LogOK /\ WindowsOK /\ UploadOK
  /\ kind \in WatchedKinds => Intents = {}
  /\ \A e \in unsent \cup cloud \cup lost : Summarises(e)

-----------------------------------------------------------------------------
(* The invariant of the queue.                                             *)

Uploaded == InFlight \cup AtCloud \cup GivenUp

\* Six sets that share nothing and make up a seventh.
Partition(queued, handled, held, uploaded, given, away, all) ==
  /\ queued \cup handled \cup held \cup uploaded \cup given \cup away = all
  /\ queued \cap (handled \cup held \cup uploaded \cup given \cup away) = {}
  /\ handled \cap (held \cup uploaded \cup given \cup away) = {}
  /\ held \cap (uploaded \cup given \cup away) = {}
  /\ uploaded \cap (given \cup away) = {}
  /\ given \cap away = {}

OnePlace ==
  Partition(InQueue, ToSet(handling), InHolder, Uploaded, handed, DOMAIN gone \ AtCloud, Ids)

\* No report has a result twice, nor has another report one of its results.
Distinct(s) == \A m, n \in DOMAIN s : s[m] = s[n] => m = n
Separate(q) ==
  /\ \A m \in DOMAIN q : Distinct(q[m])
  /\ \A m, n \in DOMAIN q : m # n => ToSet(q[m]) \cap ToSet(q[n]) = {}

QueueOK ==
  /\ queue \in Seq(Seq(Ids)) /\ Len(queue) <= QueueSize /\ Separate(queue)
  /\ handling \in Seq(Ids) /\ Distinct(handling)
  /\ handler \/ (cancelled /\ handling = <<>>)
  /\ DOMAIN gone \subseteq Ids
  /\ \A i \in DOMAIN gone : gone[i] \in {"dropped", "ignored", "failed", "forgotten"}

\* An intent is uploaded, has been, or was given up: it is one of its results' only.
Taken == unsent \cup cloud \cup lost
OneIntent ==
  /\ \A e, f \in Taken : e.results \cap f.results # {} => e = f
  /\ InFlight \cap GivenUp = {}

QueuesInv == HolderInv /\ QueueOK /\ OnePlace /\ OneIntent

-----------------------------------------------------------------------------
(* The invariant of the watchers.                                          *)

\* A map of notes: when each key was seen last.
NoteOK(map, now) ==
  IsFiniteSet(DOMAIN map) /\ DOMAIN map \subseteq Keys /\ \A k \in DOMAIN map : map[k] \in 0 .. now

WatchOK ==
  /\ trail \in Seq(Keys) /\ inbox \in Seq(1 .. Now)
  /\ readFrom \in 0 .. Now /\ noticed \subseteq 1 .. Now
  /\ NoteOK(noted, Now) /\ NoteOK(sending, Now)

WatchersInv == QueuesInv /\ WatchOK /\ NotesReachMapper
-----------------------------------------------------------------------------
(* Steps that leave the holder alone.                                      *)

\* What a set of results says does not change when more is reported.
LEMMA LogKept ==
  ASSUME Len(log) \in Nat, \A i \in Ids : log'[i] = log[i]
  PROVE  /\ \A S \in SUBSET Ids : \A k : {i \in S : log'[i].key = k} = {i \in S : log[i].key = k}
         /\ \A S \in SUBSET Ids : {log'[i].key : i \in S} = {log[i].key : i \in S}
         /\ \A S \in SUBSET Ids : {log'[i].detail : i \in S} = {log[i].detail : i \in S}
         /\ \A S \in SUBSET Ids : \A T :
              (\A i \in S : log'[i].lastSeen <= T) <=> (\A i \in S : log[i].lastSeen <= T)
         /\ \A S \in SUBSET Ids : \A T :
              (\E i \in S : log'[i].lastSeen = T) <=> (\E i \in S : log[i].lastSeen = T)
OBVIOUS

LEMMA HolderKept ==
  ASSUME HolderInv, LogOK', UNCHANGED <<kind, holderVars>>,
         Len(log) <= Len(log'), \A i \in Ids : log'[i] = log[i],
         cancelled' \in BOOLEAN, cancelled => cancelled'
  PROVE  HolderInv'
<1>1. /\ kind' = kind /\ entries' = entries /\ current' = current /\ previous' = previous
      /\ windows' = windows /\ unsent' = unsent /\ chunk' = chunk /\ retries' = retries
      /\ looping' = looping /\ cloud' = cloud /\ lost' = lost
  BY DEF holderVars, holderMaps, uploadVars
<1>2. Len(log) \in Nat /\ Len(log') \in Nat
  BY LenProperties DEF HolderInv, LogOK
<1>3. Ids \subseteq Ids' /\ IntentRecord \subseteq IntentRecord'
  BY <1>2 DEF Ids, IntentRecord
<1>4. windows.this \in SUBSET Ids /\ windows.last \in SUBSET Ids
  BY DEF HolderInv, WindowsOK
<1>5. ASSUME NEW S \in SUBSET Ids
      PROVE  /\ \A k : OfKey(S, k)' = OfKey(S, k)
             /\ DetailsOf(S)' = DetailsOf(S)
             /\ {log'[i].key : i \in S} = {log[i].key : i \in S}
  BY <1>2, LogKept DEF OfKey, DetailsOf
<1>6. EntriesOK'
  <2>1. \A i \in windows.this : log'[i].key \in DOMAIN entries
    BY <1>4 DEF HolderInv, WindowsOK, EntriesOK
  <2>2. ASSUME NEW k \in DOMAIN entries
        PROVE  /\ entries[k] \in IntentRecord' /\ entries[k].key = k
               /\ entries[k].results = {i \in windows.this : log'[i].key = k}
               /\ entries[k].results # {}
               /\ entries[k].details =
                    IF kind = "incoming" THEN {} ELSE {log'[i].detail : i \in entries[k].results}
               /\ kind \in TrafficKinds =>
                    /\ \A i \in entries[k].results : log'[i].lastSeen <= entries[k].timestamp
                    /\ \E i \in entries[k].results : log'[i].lastSeen = entries[k].timestamp
    <3> DEFINE e == entries[k]
    <3>1. /\ e \in IntentRecord /\ e.key = k
          /\ e.results = OfKey(windows.this, k) /\ e.results # {}
          /\ e.details = IF kind = "incoming" THEN {} ELSE DetailsOf(e.results)
          /\ LatestOf(e)
      BY DEF HolderInv, WindowsOK, EntriesOK
    <3>2. e.results \in SUBSET Ids /\ windows.this \in SUBSET Ids
      BY <1>4, <3>1 DEF IntentRecord
    <3>3. {log'[i].detail : i \in e.results} = DetailsOf(e.results)
      BY <1>2, <3>2, LogKept DEF DetailsOf
    <3>4. {i \in windows.this : log'[i].key = k} = OfKey(windows.this, k)
      BY <1>2, <3>2, LogKept DEF OfKey
    <3>5. e \in IntentRecord'
      BY <1>3, <3>1
    <3> HIDE DEF e
    <3>6. kind \in TrafficKinds =>
            /\ \A i \in e.results : log'[i].lastSeen <= e.timestamp
            /\ \E i \in e.results : log'[i].lastSeen = e.timestamp
      BY <3>1, <3>2 DEF LatestOf
    <3>7. /\ e.results = {i \in windows.this : log'[i].key = k} /\ e.results # {}
          /\ e.details = IF kind = "incoming" THEN {} ELSE {log'[i].detail : i \in e.results}
      BY <3>1, <3>3, <3>4
    <3> QED  BY <3>1, <3>5, <3>6, <3>7 DEF e
  <2> QED  BY <1>1, <2>1, <2>2 DEF EntriesOK, LatestOf, DetailsOf, OfKey
<1>7. ASSUME NEW S \in SUBSET Ids, NEW counters, CountersOK(counters, S)
      PROVE  CountersOK(counters, S)'
  <2>1. DOMAIN counters = IF kind \in TrafficKinds THEN {log'[i].key : i \in S} ELSE {}
    BY <1>5, <1>7 DEF CountersOK
  <2>2. ASSUME NEW k \in DOMAIN counters
        PROVE  counters[k] = CounterOf(OfKey(S, k))'
    <3> DEFINE T == OfKey(S, k)
    <3>1. T \in SUBSET Ids /\ counters[k] = CounterOf(T) /\ T = {i \in S : log'[i].key = k}
      BY <1>5, <1>7 DEF CountersOK, OfKey
    <3>2. {log'[i].detail : i \in T} = DetailsOf(T)
      <4> HIDE DEF T
      <4> QED  BY <1>2, <3>1, LogKept DEF DetailsOf
    <3> HIDE DEF T
    <3> QED  BY <1>1, <3>1, <3>2 DEF CounterOf, DetailsOf, OfKey
  <2> QED  BY <1>1, <2>1, <2>2 DEF CountersOK
<1>8. ASSUME NEW e \in unsent \cup cloud \cup lost
      PROVE  e \in IntentRecord' /\ Summarises(e)'
  <2>1. /\ e \in IntentRecord /\ e.results # {} /\ \A i \in e.results : log[i].key = e.key
        /\ kind # "incoming" => e.details = DetailsOf(e.results)
        /\ LatestOf(e)
        /\ e.count = ExpectedCount(e)
    BY DEF HolderInv, UploadOK, Summarises
  <2>2. e.results \in SUBSET Ids /\ e.before \in SUBSET Ids /\ e \in IntentRecord'
    BY <1>3, <2>1 DEF IntentRecord
  <2>3. /\ {log'[i].detail : i \in e.results} = DetailsOf(e.results)
        /\ {log'[i].detail : i \in e.before} = DetailsOf(e.before)
    BY <1>2, <2>2, LogKept DEF DetailsOf
  <2>4. ExpectedCount(e)' = ExpectedCount(e)
    BY <1>1, <2>3 DEF ExpectedCount, DetailsOf
  <2>5. \A i \in e.results : log'[i].key = e.key
    BY <2>1, <2>2
  <2>6. LatestOf(e)'
    BY <1>1, <2>1, <2>2 DEF LatestOf
  <2>7. kind' # "incoming" => e.details = {log'[i].detail : i \in e.results}
    BY <1>1, <2>1, <2>3
  <2> QED  BY <2>1, <2>2, <2>4, <2>5, <2>6, <2>7 DEF Summarises, DetailsOf
<1>9. WindowsOK'
  <2>1. windows \in [last: SUBSET Ids', this: SUBSET Ids']
    BY <1>3 DEF HolderInv, WindowsOK
  <2>2. CountersOK(current, windows.this)' /\ CountersOK(previous, windows.last)'
    <3>1. CountersOK(current, windows.this) /\ CountersOK(previous, windows.last)
      BY DEF HolderInv, WindowsOK
    <3>2. PICK S, T, cur, prev :
            /\ S \in SUBSET Ids /\ T \in SUBSET Ids
            /\ S = windows.this /\ T = windows.last /\ cur = current /\ prev = previous
      BY <1>4
    <3>3. S = windows'.this /\ T = windows'.last /\ cur = current' /\ prev = previous'
      BY <1>1, <3>2
    <3>4. CountersOK(cur, S)' /\ CountersOK(prev, T)'
      BY <1>7, <3>1, <3>2
    <3> QED  BY ZenonT(30), <3>3, <3>4 DEF CountersOK, CounterOf, DetailsOf, OfKey
  <2> QED  BY <1>1, <1>6, <2>1, <2>2 DEF WindowsOK
<1>10. UploadOK'
  BY <1>1, <1>8 DEF HolderInv, UploadOK
<1>11. kind' \in WatchedKinds => Intents' = {}
  BY <1>1 DEF HolderInv, Intents
<1> QED  BY <1>1, <1>8, <1>9, <1>10, <1>11 DEF HolderInv

-----------------------------------------------------------------------------
(* A result is added to the map.                                           *)

LEMMA SubsetsFinite ==
  ASSUME Len(log) \in Nat, NEW S \in SUBSET Ids
  PROVE  IsFiniteSet(S) /\ Cardinality(S) \in Nat
<1>1. IsFiniteSet(1 .. Len(log))
  BY FS_Interval
<1> QED  BY <1>1, FS_Subset, FS_CardinalityType DEF Ids

\* One result more under a key counts as one connection more.
LEMMA OneMore ==
  ASSUME Len(log) \in Nat, NEW S \in SUBSET Ids, NEW i \in Ids, i \notin S
  PROVE  Cardinality(S \cup {i}) = Cardinality(S) + 1
BY SubsetsFinite, FS_AddElement

\* What is of a key after one result more.
LEMMA OfKeyAdded ==
  ASSUME NEW S, NEW i
  PROVE  \A k : OfKey(S \cup {i}, k) =
                  IF k = log[i].key THEN OfKey(S, k) \cup {i} ELSE OfKey(S, k)
BY DEF OfKey

\* The counter counts one result more.
LEMMA IncrementCounts ==
  ASSUME Len(log) \in Nat, kind \in TrafficKinds, NEW S \in SUBSET Ids, NEW i \in Ids, i \notin S,
         NEW counters, CountersOK(counters, S)
  PROVE  CountersOK(Increment(counters, log[i]), S \cup {i})
<1> DEFINE r == log[i]
           c == IF r.key \in DOMAIN counters THEN counters[r.key] ELSE NewConnectionCounter
           counted == IF kind = "external"
                      THEN AddConnection(c, "handleDNSCaptureResultsAsKubernetesPods", {})
                      ELSE AddConnection(c, "handleInternalTrafficTCPResult", {r.detail})
           before == OfKey(S, r.key)
<1>1. before \in SUBSET Ids /\ i \notin before /\ (r.key \notin DOMAIN counters => before = {})
  BY DEF CountersOK, OfKey
<1>2. /\ Cardinality(before \cup {i}) = Cardinality(before) + 1
      /\ Cardinality(before) \in Nat
  <2> HIDE DEF before
  <2> QED  BY <1>1, OneMore, SubsetsFinite
<1>3. DetailsOf(before \cup {i}) = DetailsOf(before) \cup {r.detail}
  <2> HIDE DEF before
  <2> QED  BY DEF DetailsOf
<1>4. /\ c.countMethod = (IF r.key \notin DOMAIN counters THEN "Unset"
                          ELSE IF kind = "external" THEN "DNS" ELSE "SourcePort")
      /\ c.SourcePorts = (IF kind = "external" THEN {} ELSE DetailsOf(before))
      /\ c.DNSCounter = (IF kind = "external" THEN Cardinality(before) ELSE 0)
      /\ c = [countMethod |-> c.countMethod, SourcePorts |-> c.SourcePorts,
              DNSCounter |-> c.DNSCounter]
  <2>1. CASE r.key \in DOMAIN counters
    <3>1. c = CounterOf(before)
      BY <2>1 DEF CountersOK
    <3> HIDE DEF c, before
    <3> QED  BY <2>1, <3>1 DEF CounterOf
  <2>2. CASE r.key \notin DOMAIN counters
    <3>1. before = {} /\ c = NewConnectionCounter
      BY <1>1, <2>2
    <3>2. DetailsOf(before) = {} /\ Cardinality(before) = 0
      BY <3>1, FS_EmptySet DEF DetailsOf
    <3> HIDE DEF c, before
    <3> QED  BY <2>2, <3>1, <3>2 DEF NewConnectionCounter
  <2> QED  BY <2>1, <2>2
<1>5. counted = CounterOf(before \cup {i})
  <2>1. CASE kind = "external"
    <3>1. counted = [countMethod |-> "DNS", SourcePorts |-> {},
                     DNSCounter |-> Cardinality(before) + 1]
      <4> HIDE DEF c, before
      <4>1. /\ c.countMethod \in {"Unset", "DNS"} /\ c.SourcePorts = {}
            /\ c.DNSCounter = Cardinality(before)
            /\ c = [countMethod |-> c.countMethod, SourcePorts |-> c.SourcePorts,
                    DNSCounter |-> c.DNSCounter]
        BY <1>4, <2>1
      <4>2. counted = [c EXCEPT !.countMethod = "DNS", !.DNSCounter = @ + 1]
        BY <2>1, <4>1 DEF AddConnection, ShouldCountUsingSrcPortMethod,
             ShouldCountUsingDNSMethod, SrcPortResolutions, DNSResolutions
      <4> QED  BY <4>1, <4>2
    <3> HIDE DEF counted, before
    <3> QED  BY <1>2, <2>1, <3>1 DEF CounterOf
  <2>2. CASE kind # "external"
    <3>1. counted = [countMethod |-> "SourcePort", SourcePorts |-> DetailsOf(before) \cup {r.detail},
                     DNSCounter |-> 0]
      <4> HIDE DEF c, before
      <4>1. /\ c.SourcePorts = DetailsOf(before) /\ c.DNSCounter = 0
            /\ c = [countMethod |-> c.countMethod, SourcePorts |-> c.SourcePorts,
                    DNSCounter |-> c.DNSCounter]
        BY <1>4, <2>2
      <4>2. counted = [c EXCEPT !.countMethod = "SourcePort", !.SourcePorts = @ \cup {r.detail}]
        BY <2>2 DEF AddConnection, ShouldCountUsingSrcPortMethod, SrcPortResolutions
      <4> QED  BY <4>1, <4>2
    <3> HIDE DEF counted, before
    <3> QED  BY <1>3, <2>2, <3>1 DEF CounterOf
  <2> QED  BY <2>1, <2>2
<1>6. Increment(counters, r) =
        [k \in DOMAIN counters \cup {r.key} |-> IF k = r.key THEN counted ELSE counters[k]]
  BY DEF Increment
<1>7. DOMAIN counters \cup {r.key} = {log[j].key : j \in S \cup {i}}
  BY DEF CountersOK
<1>8. ASSUME NEW k \in DOMAIN counters \cup {r.key}
      PROVE  Increment(counters, r)[k] = CounterOf(OfKey(S \cup {i}, k))
  <2>1. Increment(counters, r)[k] = IF k = r.key THEN counted ELSE counters[k]
    <3> HIDE DEF counted
    <3> QED  BY <1>6, <1>8
  <2>2. k # r.key => counters[k] = CounterOf(OfKey(S, k))
    BY <1>8 DEF CountersOK
  <2>3. CASE k = r.key
    <3>1. OfKey(S \cup {i}, k) = before \cup {i}
      BY <2>3, OfKeyAdded
    <3> HIDE DEF counted, before
    <3> QED  BY <1>5, <2>1, <2>3, <3>1
  <2>4. CASE k # r.key
    <3>1. OfKey(S \cup {i}, k) = OfKey(S, k)
      BY <2>4, OfKeyAdded
    <3> HIDE DEF counted
    <3> QED  BY <2>1, <2>2, <2>4, <3>1
  <2> QED  BY <2>3, <2>4
<1>9. DOMAIN Increment(counters, r) = DOMAIN counters \cup {r.key}
  <2> HIDE DEF counted
  <2> QED  BY <1>6
<1> QED  BY <1>7, <1>8, <1>9 DEF CountersOK

\* What is said of constants stays as long as no more is reported.
LEMMA SameLog ==
  ASSUME log' = log, kind' = kind
  PROVE  /\ \A S, k : OfKey(S, k)' = OfKey(S, k)
         /\ \A S : DetailsOf(S)' = DetailsOf(S)
         /\ \A counters, S : CountersOK(counters, S) => CountersOK(counters, S)'
         /\ \A e : LatestOf(e) => LatestOf(e)'
         /\ \A e : Summarises(e) => Summarises(e)'
         /\ Ids' = Ids /\ IntentRecord' = IntentRecord /\ (LogOK => LogOK')
<1>1. \A S, k : OfKey(S, k)' = OfKey(S, k)
  BY DEF OfKey
<1>2. \A S : DetailsOf(S)' = DetailsOf(S)
  BY DEF DetailsOf
<1>3. \A S : CounterOf(S)' = CounterOf(S)
  BY <1>2 DEF CounterOf
<1>4. ASSUME NEW counters, NEW S, CountersOK(counters, S)
      PROVE  CountersOK(counters, S)'
  <2>1. \A k \in DOMAIN counters : counters[k] = CounterOf(OfKey(S, k))'
    <3>1. ASSUME NEW k \in DOMAIN counters, NEW T, T = OfKey(S, k)
          PROVE  counters[k] = CounterOf(T)' /\ T = OfKey(S, k)'
      BY <1>1, <1>3, <1>4, <3>1 DEF CountersOK
    <3> QED  BY Zenon, <3>1 DEF CounterOf, DetailsOf, OfKey
  <2> QED  BY <1>4, <2>1 DEF CountersOK
<1>5. \A e : LatestOf(e) => LatestOf(e)'
  BY DEF LatestOf
<1>6. ASSUME NEW e, Summarises(e)
      PROVE  Summarises(e)'
  <2>1. ExpectedCount(e)' = ExpectedCount(e)
    BY DEF ExpectedCount, DetailsOf
  <2> QED  BY <1>2, <1>5, <1>6, <2>1 DEF Summarises
<1>7. Ids' = Ids /\ IntentRecord' = IntentRecord /\ (LogOK => LogOK')
  BY DEF Ids, IntentRecord, LogOK
<1> QED  BY <1>1, <1>2, <1>4, <1>5, <1>6, <1>7

\* An intent of the map has what was reported of its key in these results.
DescribesKey(e, k, this) ==
  /\ e \in IntentRecord /\ e.key = k
  /\ e.results = OfKey(this, k) /\ e.results # {}
  /\ e.details = IF kind = "incoming" THEN {} ELSE DetailsOf(e.results)
  /\ LatestOf(e)

LEMMA EntriesFollow ==
  ASSUME log' = log, kind' = kind, NEW en, NEW this, en = entries', this = windows'.this,
         \A k \in DOMAIN en : DescribesKey(en[k], k, this),
         \A j \in this : log[j].key \in DOMAIN en
  PROVE  EntriesOK'
<1>1. \A k \in DOMAIN en :
        LET e == en[k]
        IN /\ e \in IntentRecord' /\ e.key = k
           /\ e.results = OfKey(this, k)' /\ e.results # {}
           /\ e.details = IF kind' = "incoming" THEN {} ELSE DetailsOf(e.results)'
           /\ LatestOf(e)'
  BY SameLog DEF DescribesKey
<1>2. \A j \in this : log'[j].key \in DOMAIN en
  OBVIOUS
<1> QED  BY ZenonT(30), <1>1, <1>2 DEF EntriesOK, LatestOf, DetailsOf, OfKey

LEMMA AddIntentKeeps ==
  ASSUME HolderInv, kind \notin WatchedKinds, NEW i \in Ids, i \notin windows.this,
         AddIntent(i), UNCHANGED <<kind, log, cancelled, uploadVars>>
  PROVE  HolderInv'
<1> DEFINE r == log[i]
<1>1. /\ kind' = kind /\ log' = log /\ cancelled' = cancelled /\ previous' = previous
      /\ unsent' = unsent /\ chunk' = chunk /\ retries' = retries
      /\ looping' = looping /\ cloud' = cloud /\ lost' = lost
  BY DEF uploadVars, AddIntent
<1>2. /\ r.key \in Keys /\ r.lastSeen \in Nat /\ r.detail \in Ports
      /\ Len(log) \in Nat
  BY HoldersAssumption, LenProperties DEF HolderInv, LogOK
<1>3. /\ windows.this \in SUBSET Ids /\ windows.last \in SUBSET Ids
      /\ windows'.this = windows.this \cup {i} /\ windows'.last = windows.last
      /\ windows' \in [last: SUBSET Ids, this: SUBSET Ids]
  BY DEF HolderInv, WindowsOK, AddIntent
<1>4. EntriesOK'
  <2>1. /\ DOMAIN entries' = DOMAIN entries \cup {r.key}
        /\ \A k \in DOMAIN entries' : entries'[k] = IF k = r.key THEN Merged(r, i) ELSE entries[k]
    BY DEF AddIntent
  <2>2. \A j \in windows'.this : log[j].key \in DOMAIN entries'
    BY <1>3, <2>1 DEF HolderInv, WindowsOK, EntriesOK
  <2>3. ASSUME NEW k \in DOMAIN entries, k # r.key
        PROVE  LET e == entries'[k]
               IN /\ e \in IntentRecord /\ e.key = k
                  /\ e.results = OfKey(windows'.this, k) /\ e.results # {}
                  /\ e.details = IF kind = "incoming" THEN {} ELSE DetailsOf(e.results)
                  /\ LatestOf(e)
    <3>1. OfKey(windows'.this, k) = OfKey(windows.this, k) /\ entries'[k] = entries[k]
      <4>1. OfKey(windows.this \cup {i}, k) = OfKey(windows.this, k)
        BY <2>3, OfKeyAdded
      <4> QED  BY <1>3, <2>1, <2>3, <4>1
    <3> QED  BY <3>1 DEF HolderInv, WindowsOK, EntriesOK
  <2>4. LET e == entries'[r.key]
        IN /\ e \in IntentRecord /\ e.key = r.key
           /\ e.results = OfKey(windows'.this, r.key) /\ e.results # {}
           /\ e.details = IF kind = "incoming" THEN {} ELSE DetailsOf(e.results)
           /\ LatestOf(e)
    <3> DEFINE S == OfKey(windows.this, r.key)
               old == IF r.key \in DOMAIN entries THEN entries[r.key]
                      ELSE Intent(r.key, 0, {}, NoCount, {}, {})
               later == kind \in TrafficKinds /\ r.lastSeen > old.timestamp
               e == Merged(r, i)
    <3>1. entries'[r.key] = e /\ OfKey(windows'.this, r.key) = S \cup {i}
      <4>1. OfKey(windows.this \cup {i}, r.key) = S \cup {i}
        BY OfKeyAdded
      <4> HIDE DEF S, e
      <4>2. entries'[r.key] = Merged(r, i)
        BY <2>1
      <4> QED  BY <1>3, <4>1, <4>2 DEF e
    <3>2. S \in SUBSET Ids /\ DetailsOf(S \cup {i}) = DetailsOf(S) \cup {r.detail}
      <4>1. S \in SUBSET Ids
        BY <1>3 DEF OfKey
      <4> HIDE DEF S
      <4> QED  BY <4>1 DEF DetailsOf
    <3>3. /\ old.results = S /\ old.timestamp \in Nat
          /\ old.details \in SUBSET Ports
          /\ old.details = IF kind = "incoming" THEN {} ELSE DetailsOf(S)
          /\ S # {} => LatestOf(old)
      <4>1. CASE r.key \in DOMAIN entries
        BY <4>1 DEF HolderInv, WindowsOK, EntriesOK, IntentRecord
      <4>2. CASE r.key \notin DOMAIN entries
        <5>1. S = {}
          BY <4>2 DEF HolderInv, WindowsOK, EntriesOK, OfKey
        <5> HIDE DEF S
        <5> QED  BY <4>2, <5>1 DEF Intent, DetailsOf
      <4> QED  BY <4>1, <4>2
    <3>4. e = [key |-> r.key, timestamp |-> IF later THEN r.lastSeen ELSE old.timestamp,
               details |-> old.details \cup (IF kind = "incoming" THEN {} ELSE {r.detail}),
               count |-> NoCount, results |-> S \cup {i}, before |-> {}]
      <4>1. e = Intent(r.key, IF later THEN r.lastSeen ELSE old.timestamp,
                       old.details \cup (IF kind = "incoming" THEN {} ELSE {r.detail}),
                       NoCount, old.results \cup {i}, {})
        BY DEF Merged
      <4> HIDE DEF S, old, later, e
      <4> QED  BY <3>3, <4>1 DEF Intent
    <3>5. NoCount \in ConnectionsCount
      BY DEF NoCount, ConnectionsCount
    <3>6. kind # "incoming" => {r.detail} \in SUBSET Ports
      BY <1>2
    <3>7. kind \in TrafficKinds =>
            /\ \A j \in S \cup {i} : log[j].lastSeen <= e.timestamp
            /\ \E j \in S \cup {i} : log[j].lastSeen = e.timestamp
      <4> SUFFICES ASSUME kind \in TrafficKinds
                   PROVE  /\ \A j \in S \cup {i} : log[j].lastSeen <= e.timestamp
                          /\ \E j \in S \cup {i} : log[j].lastSeen = e.timestamp
        OBVIOUS
      <4>0. /\ \A j \in S : log[j].lastSeen \in Nat
            /\ e.timestamp = IF r.lastSeen > old.timestamp THEN r.lastSeen ELSE old.timestamp
        <5>1. \A j \in S : log[j].lastSeen \in Nat
          BY <3>2, HoldersAssumption DEF HolderInv, LogOK
        <5> HIDE DEF S, old, e
        <5> QED  BY <3>4, <5>1
      <4>1. CASE S = {}
        <5>1. S = {} => old.timestamp = 0
          <6>1. r.key \in DOMAIN entries => S # {}
            BY DEF HolderInv, WindowsOK, EntriesOK
          <6> HIDE DEF S
          <6> QED  BY <6>1 DEF Intent
        <5> HIDE DEF S, old, e
        <5> QED  BY <1>2, <4>0, <4>1, <5>1
      <4>2. CASE S # {}
        <5>1. /\ \A j \in S : log[j].lastSeen <= old.timestamp
              /\ \E j \in S : log[j].lastSeen = old.timestamp
          BY <3>3, <4>2 DEF LatestOf
        <5> HIDE DEF S, old, e
        <5> QED  BY <1>2, <3>3, <4>0, <5>1
      <4> QED  BY <4>1, <4>2
    <3> HIDE DEF S, old, later, e
    <3>8. e \in IntentRecord /\ e.key = r.key /\ e.results = S \cup {i} /\ e.results # {}
      BY <1>2, <3>2, <3>3, <3>4, <3>5, <3>6 DEF IntentRecord
    <3>9. e.details = IF kind = "incoming" THEN {} ELSE DetailsOf(e.results)
      BY <3>2, <3>3, <3>4, <3>8
    <3> QED  BY <3>1, <3>7, <3>8, <3>9 DEF LatestOf
  <2>5. PICK en, this : en = entries' /\ this = windows'.this
    OBVIOUS
  <2>6. \A k \in DOMAIN en :
          LET e == en[k]
          IN /\ e \in IntentRecord /\ e.key = k
             /\ e.results = OfKey(this, k) /\ e.results # {}
             /\ e.details = IF kind = "incoming" THEN {} ELSE DetailsOf(e.results)
             /\ LatestOf(e)
    BY <2>1, <2>3, <2>4, <2>5
  <2>7. \A j \in this : log[j].key \in DOMAIN en
    BY <2>2, <2>5
  <2> QED  BY <1>1, <2>5, <2>6, <2>7, EntriesFollow DEF DescribesKey
<1>5. CountersOK(current', windows.this \cup {i})
  <2>1. CASE kind \in TrafficKinds
    BY <1>2, <1>3, <2>1, IncrementCounts DEF HolderInv, WindowsOK, AddIntent
  <2>2. CASE kind \notin TrafficKinds
    BY <2>2 DEF HolderInv, WindowsOK, AddIntent, CountersOK
  <2> QED  BY <2>1, <2>2
<1>6. WindowsOK'
  <2>1. CountersOK(current, windows.this)'
    <3>1. PICK cur, this : /\ cur = current' /\ this = windows'.this
                           /\ CountersOK(cur, this)
      BY <1>3, <1>5
    <3>2. CountersOK(cur, this)'
      BY <1>1, <3>1, SameLog
    <3> QED  BY ZenonT(30), <3>1, <3>2 DEF CountersOK, CounterOf, DetailsOf, OfKey
  <2>2. CountersOK(previous, windows.last)'
    <3>1. PICK prev, last : /\ prev = previous' /\ last = windows'.last
                            /\ CountersOK(prev, last)
      BY <1>1, <1>3 DEF HolderInv, WindowsOK
    <3>2. CountersOK(prev, last)'
      BY <1>1, <3>1, SameLog
    <3> QED  BY ZenonT(30), <3>1, <3>2 DEF CountersOK, CounterOf, DetailsOf, OfKey
  <2> QED  BY <1>1, <1>3, <1>4, <2>1, <2>2 DEF WindowsOK, Ids
<1>7. UploadOK' /\ LogOK'
  BY <1>1 DEF HolderInv, UploadOK, LogOK, IntentRecord, Ids
<1>8. \A e \in unsent' \cup cloud' \cup lost' : Summarises(e)'
  BY <1>1, SameLog DEF HolderInv
<1> QED  BY <1>1, <1>6, <1>7, <1>8 DEF HolderInv

-----------------------------------------------------------------------------
(* Steps of the upload loop.                                               *)

\* What GetDiff returns for a key of the map is what the intent should say.
LEMMA DiffIsExpected ==
  ASSUME HolderInv, kind \notin WatchedKinds, NEW k \in DOMAIN entries, NEW e,
         e.results = OfKey(windows.this, k), e.before = OfKey(windows.last, k)
  PROVE  /\ GetDiff(current, previous, k) = ExpectedCount(e)
         /\ GetDiff(current, previous, k) \in ConnectionsCount
<1> DEFINE R == e.results
           B == e.before
           D == DetailsOf(R)
           E == DetailsOf(B)
<1>1. /\ CountersOK(current, windows.this) /\ CountersOK(previous, windows.last)
      /\ R \in SUBSET Ids /\ B \in SUBSET Ids /\ Len(log) \in Nat
  BY LenProperties DEF HolderInv, WindowsOK, LogOK, OfKey
<1>2. R # {}
  BY DEF HolderInv, WindowsOK, EntriesOK
<1>3. D \in SUBSET Ports /\ E \in SUBSET Ports
  BY <1>1, HoldersAssumption DEF HolderInv, LogOK, DetailsOf
<1>4. Cardinality(R) \in Nat /\ Cardinality(B) \in Nat
  <2> HIDE DEF R, B
  <2> QED  BY <1>1, SubsetsFinite
<1>5. /\ Cardinality(D) \in Nat /\ Cardinality(D \ E) \in Nat /\ Cardinality(E \ D) \in Nat
      /\ Cardinality({}) = 0
  <2> HIDE DEF D, E
  <2>1. IsFiniteSet(D) /\ IsFiniteSet(E)
    BY <1>3, PortsAssumption, FS_Subset
  <2> QED  BY <2>1, FS_Difference, FS_CardinalityType, FS_EmptySet
<1>6. kind \in TrafficKinds => k \in DOMAIN current /\ current[k] = CounterOf(R)
  BY <1>1, <1>2 DEF CountersOK, OfKey
<1>7. k \in DOMAIN previous => previous[k] = CounterOf(B)
  BY <1>1 DEF CountersOK
<1>8. kind \in TrafficKinds /\ k \notin DOMAIN previous => B = {} /\ E = {}
  BY <1>1 DEF CountersOK, OfKey, DetailsOf
<1>9. CASE kind = "operation"
  <2>1. k \notin DOMAIN current /\ k \notin DOMAIN previous
    BY <1>1, <1>9 DEF CountersOK, TrafficKinds
  <2>2. GetDiff(current, previous, k) = NoCount
    BY <2>1 DEF GetDiff
  <2>3. ExpectedCount(e) = NoCount
    BY <1>9 DEF ExpectedCount
  <2> QED  BY <2>2, <2>3 DEF NoCount, ConnectionsCount
<1>10. CASE kind = "external"
  <2>1. kind \in TrafficKinds
    BY <1>10 DEF TrafficKinds
  <2>2. current[k] = [countMethod |-> "DNS", SourcePorts |-> {}, DNSCounter |-> Cardinality(R)]
    BY <1>6, <1>10, <2>1 DEF CounterOf
  <2>3. k \in DOMAIN previous =>
          previous[k] = [countMethod |-> "DNS", SourcePorts |-> {}, DNSCounter |-> Cardinality(B)]
    BY <1>7, <1>10 DEF CounterOf
  <2>4. k \notin DOMAIN previous => Cardinality(B) = 0
    BY <1>5, <1>8, <2>1
  <2> HIDE DEF R, B, D, E
  <2>5. HasCount(current[k]) /\ ConnectionCount(current[k]) = Cardinality(R)
    BY <2>2 DEF HasCount, ConnectionCount
  <2>6. k \in DOMAIN previous =>
          HasCount(previous[k]) /\ ConnectionCount(previous[k]) = Cardinality(B)
    BY <2>3 DEF HasCount, ConnectionCount
  <2>7. GetDiff(current, previous, k) = CountOf(Cardinality(R), Cardinality(R), Cardinality(B))
    <3>1. CASE k \in DOMAIN previous
      BY <1>6, <2>1, <2>2, <2>5, <2>6, <3>1 DEF GetDiff, GetConnectionCountDiff
    <3>2. CASE k \notin DOMAIN previous
      BY <1>6, <2>1, <2>4, <2>5, <3>2 DEF GetDiff
    <3> QED  BY <3>1, <3>2
  <2>8. ExpectedCount(e) = CountOf(Cardinality(R), Cardinality(R), Cardinality(B))
    BY <1>10 DEF ExpectedCount, R, B
  <2> QED  BY <1>4, <2>7, <2>8 DEF CountOf, ConnectionsCount
<1>11. CASE kind \notin {"operation", "external"}
  <2>1. kind \in TrafficKinds
    BY <1>11 DEF TrafficKinds, HolderInv, LogOK
  <2>2. current[k] = [countMethod |-> "SourcePort", SourcePorts |-> D, DNSCounter |-> 0]
    BY <1>6, <1>11, <2>1 DEF CounterOf
  <2>3. k \in DOMAIN previous =>
          previous[k] = [countMethod |-> "SourcePort", SourcePorts |-> E, DNSCounter |-> 0]
    BY <1>7, <1>11 DEF CounterOf
  <2>4. k \notin DOMAIN previous => D \ E = D /\ E \ D = {}
    BY <1>8, <2>1
  <2>5. ExpectedCount(e) = CountOf(Cardinality(D), Cardinality(D \ E), Cardinality(E \ D))
    BY <1>11 DEF ExpectedCount
  <2> HIDE DEF R, B, D, E
  <2>6. HasCount(current[k]) /\ ConnectionCount(current[k]) = Cardinality(D)
    BY <2>2 DEF HasCount, ConnectionCount
  <2>7. GetDiff(current, previous, k) =
          CountOf(Cardinality(D), Cardinality(D \ E), Cardinality(E \ D))
    <3>1. CASE k \in DOMAIN previous
      <4>1. HasCount(previous[k])
        BY <2>3, <3>1 DEF HasCount
      <4> QED  BY <1>6, <2>1, <2>2, <2>3, <2>6, <3>1, <4>1 DEF GetDiff, GetConnectionCountDiff
    <3>2. CASE k \notin DOMAIN previous
      BY <1>5, <1>6, <2>1, <2>4, <2>6, <3>2 DEF GetDiff
    <3> QED  BY <3>1, <3>2
  <2> QED  BY <1>5, <2>5, <2>7 DEF CountOf, ConnectionsCount
<1> QED  BY <1>9, <1>10, <1>11

\* An intent that is taken sums up its results.
LEMMA TakenSummarises ==
  ASSUME HolderInv, kind \notin WatchedKinds, NEW k \in DOMAIN entries, NEW e,
         e = [entries[k] EXCEPT !.count = GetDiff(current, previous, k),
                                !.before = OfKey(windows.last, k)]
  PROVE  e \in IntentRecord /\ Summarises(e)
<1> DEFINE old == entries[k]
<1>1. /\ old \in IntentRecord /\ old.key = k
      /\ old.results = OfKey(windows.this, k) /\ old.results # {}
      /\ old.details = IF kind = "incoming" THEN {} ELSE DetailsOf(old.results)
      /\ LatestOf(old)
  BY DEF HolderInv, WindowsOK, EntriesOK
<1>2. OfKey(windows.last, k) \in SUBSET Ids
  BY DEF OfKey, HolderInv, WindowsOK
<1> HIDE DEF old
<1>3. e = [old EXCEPT !.count = GetDiff(current, previous, k), !.before = OfKey(windows.last, k)]
  BY DEF old
<1>4. old = [key |-> old.key, timestamp |-> old.timestamp, details |-> old.details,
             count |-> old.count, results |-> old.results, before |-> old.before]
  BY <1>1 DEF IntentRecord
<1>5. /\ e.key = old.key /\ e.timestamp = old.timestamp /\ e.details = old.details
      /\ e.results = old.results /\ e.count = GetDiff(current, previous, k)
      /\ e.before = OfKey(windows.last, k)
      /\ e = [key |-> e.key, timestamp |-> e.timestamp, details |-> e.details,
              count |-> e.count, results |-> e.results, before |-> e.before]
  BY <1>3, <1>4
<1>6. e.count = ExpectedCount(e) /\ e.count \in ConnectionsCount
  BY <1>1, <1>5, DiffIsExpected
<1>7. e \in IntentRecord
  BY <1>1, <1>2, <1>5, <1>6 DEF IntentRecord
<1>8. \A i \in e.results : log[i].key = e.key
  BY <1>1, <1>5 DEF OfKey
<1>9. LatestOf(e)
  BY <1>1, <1>5 DEF LatestOf
<1> QED  BY <1>1, <1>5, <1>6, <1>7, <1>8, <1>9 DEF Summarises

LEMMA TakeBatchKeeps ==
  ASSUME HolderInv, kind \notin WatchedKinds, TakeBatch, UNCHANGED <<kind, log, cancelled>>
  PROVE  HolderInv'
<1>1. /\ kind' = kind /\ log' = log /\ cancelled' = cancelled
      /\ looping /\ unsent = {} /\ chunk' = chunk /\ looping' = looping
      /\ cloud' = cloud /\ lost' = lost /\ retries' = 0
      /\ entries' = EmptyMap /\ previous' = current /\ current' = EmptyMap
      /\ windows' = [last |-> windows.this, this |-> {}]
  BY DEF TakeBatch
<1>2. \A e \in unsent' : e \in IntentRecord /\ Summarises(e)
  BY TakenSummarises DEF TakeBatch
<1>3. \A e \in unsent' \cup cloud' \cup lost' : e \in IntentRecord' /\ Summarises(e)'
  BY <1>1, <1>2, SameLog DEF HolderInv, UploadOK
<1>4. WindowsOK'
  <2>1. EntriesOK'
    BY <1>1 DEF EntriesOK, EmptyMap
  <2>2. CountersOK(current, windows.this)'
    BY <1>1 DEF CountersOK, EmptyMap
  <2>3. CountersOK(previous, windows.last)'
    <3>1. PICK prev, last : /\ prev = previous' /\ last = windows'.last
                            /\ CountersOK(prev, last)
      BY <1>1 DEF HolderInv, WindowsOK
    <3>2. CountersOK(prev, last)'
      BY <1>1, <3>1, SameLog
    <3> QED  BY ZenonT(30), <3>1, <3>2 DEF CountersOK, CounterOf, DetailsOf, OfKey
  <2> QED  BY <1>1, <2>1, <2>2, <2>3 DEF HolderInv, WindowsOK, Ids
<1>5. UploadOK'
  BY <1>1, <1>3, HoldersAssumption DEF HolderInv, UploadOK
<1>6. LogOK'
  BY <1>1, SameLog DEF HolderInv
<1> QED  BY <1>1, <1>3, <1>4, <1>5, <1>6 DEF HolderInv

\* Intents move from the batch to the cloud or are given up.
LEMMA BatchMoves ==
  ASSUME HolderInv, kind \notin WatchedKinds, UNCHANGED <<kind, log, cancelled, holderMaps>>,
         unsent' \subseteq unsent, cloud' \subseteq cloud \cup unsent,
         lost' \subseteq lost \cup unsent,
         chunk' \subseteq unsent', kind = "operation" => chunk' \in {{}, unsent'},
         retries' \in 0 .. MaxRetries, looping' \/ (cancelled /\ unsent' = {})
  PROVE  HolderInv'
<1>1. /\ kind' = kind /\ log' = log /\ cancelled' = cancelled
      /\ entries' = entries /\ previous' = previous /\ current' = current
      /\ windows' = windows
  BY DEF holderMaps
<1>2. \A e \in unsent' \cup cloud' \cup lost' : e \in IntentRecord' /\ Summarises(e)'
  BY <1>1, SameLog DEF HolderInv, UploadOK
<1>3. WindowsOK'
  <2>1. PICK en, cur, prev, this, last :
          /\ en = entries' /\ cur = current' /\ prev = previous'
          /\ this = windows'.this /\ last = windows'.last
    OBVIOUS
  <2>2. CountersOK(cur, this)' /\ CountersOK(prev, last)'
    BY <1>1, <2>1, SameLog DEF HolderInv, WindowsOK
  <2>3. CountersOK(current, windows.this)' /\ CountersOK(previous, windows.last)'
    BY ZenonT(30), <2>1, <2>2 DEF CountersOK, CounterOf, DetailsOf, OfKey
  <2>4. /\ \A k \in DOMAIN en : DescribesKey(en[k], k, this)
        /\ \A j \in this : log[j].key \in DOMAIN en
    BY <1>1, <2>1 DEF HolderInv, WindowsOK, EntriesOK, DescribesKey
  <2>5. en = entries' /\ this = windows'.this
    BY <2>1
  <2>6. EntriesOK'
    BY <1>1, <2>4, <2>5, EntriesFollow
  <2> QED  BY <1>1, <2>3, <2>6, SameLog DEF HolderInv, WindowsOK
<1>4. UploadOK'
  BY <1>1, <1>2 DEF HolderInv, UploadOK
<1>5. LogOK'
  BY <1>1, SameLog DEF HolderInv
<1> QED  BY <1>1, <1>2, <1>3, <1>4, <1>5 DEF HolderInv

LEMMA UploadStepKeeps ==
  ASSUME HolderInv, kind \notin WatchedKinds, UploadStep, UNCHANGED <<kind, log, cancelled>>
  PROVE  HolderInv'
<1>1. /\ chunk \subseteq unsent /\ (kind = "operation" => chunk \in {{}, unsent})
      /\ retries \in 0 .. MaxRetries
      /\ looping \/ (cancelled /\ unsent = {})
  BY DEF HolderInv, UploadOK
<1>2. MaxRetries \in Nat
  BY HoldersAssumption
<1>3. CASE TakeBatch
  BY <1>3, TakeBatchKeeps
<1>4. CASE NextChunk
  BY <1>1, <1>4, BatchMoves DEF NextChunk
<1>5. CASE Retry
  BY <1>1, <1>2, <1>5, BatchMoves DEF Retry, RequestFails
<1>6. CASE GiveUp
  BY <1>1, <1>2, <1>6, BatchMoves DEF GiveUp, RequestFails
<1>7. CASE RequestSucceeds
  BY <1>1, <1>7, BatchMoves DEF RequestSucceeds
<1>8. CASE StopLoop
  BY <1>1, <1>8, BatchMoves DEF StopLoop
<1> QED  BY <1>3, <1>4, <1>5, <1>6, <1>7, <1>8 DEF UploadStep

-----------------------------------------------------------------------------
(* Queues of reports.                                                      *)

LEMMA SeqMono ==
  ASSUME NEW S, NEW T, S \subseteq T
  PROVE  Seq(S) \subseteq Seq(T)
<1> SUFFICES ASSUME NEW s \in Seq(S)
             PROVE  s \in Seq(T)
  OBVIOUS
<1>1. Len(s) \in Nat /\ s \in [1 .. Len(s) -> S]
  BY LenProperties
<1>2. s \in [1 .. Len(s) -> T]
  BY <1>1
<1> QED  BY <1>1, <1>2, SeqDef

\* The elements of a sequence are its head and those of its tail.
LEMMA HeadAndTail ==
  ASSUME NEW S, NEW s \in Seq(S), s # <<>>
  PROVE  /\ Head(s) \in S /\ Tail(s) \in Seq(S)
         /\ ToSet(s) = {Head(s)} \cup ToSet(Tail(s))
         /\ Distinct(s) => Distinct(Tail(s)) /\ Head(s) \notin ToSet(Tail(s))
         /\ Len(Tail(s)) = Len(s) - 1
<1>1. /\ Len(s) \in Nat \ {0} /\ Len(Tail(s)) = Len(s) - 1 /\ Head(s) = s[1]
      /\ Tail(s) \in Seq(S) /\ Head(s) \in S
      /\ DOMAIN s = 1 .. Len(s) /\ DOMAIN Tail(s) = 1 .. Len(s) - 1
  BY HeadTailProperties, LenProperties, EmptySeq
<1>2. \A n \in 1 .. Len(s) - 1 : Tail(s)[n] = s[n + 1]
  BY <1>1
<1>3. ToSet(s) = {Head(s)} \cup ToSet(Tail(s))
  <2>1. ASSUME NEW x \in ToSet(s)
        PROVE  x \in {Head(s)} \cup ToSet(Tail(s))
    <3>1. PICK n \in 1 .. Len(s) : x = s[n]
      BY <1>1 DEF ToSet
    <3>2. n # 1 => n - 1 \in 1 .. Len(s) - 1 /\ s[n] = Tail(s)[n - 1]
      BY <1>1, <1>2
    <3> QED  BY <1>1, <3>1, <3>2 DEF ToSet
  <2>2. ASSUME NEW n \in 1 .. Len(s) - 1
        PROVE  Tail(s)[n] \in ToSet(s)
    BY <1>1, <1>2 DEF ToSet
  <2>3. Head(s) \in ToSet(s)
    BY <1>1 DEF ToSet
  <2> QED  BY <1>1, <2>1, <2>2, <2>3 DEF ToSet
<1>4. Distinct(s) => Distinct(Tail(s)) /\ Head(s) \notin ToSet(Tail(s))
  BY <1>1, <1>2 DEF Distinct, ToSet
<1> QED  BY <1>1, <1>3, <1>4

Contents(q) == UNION {ToSet(q[n]) : n \in DOMAIN q}

\* A queue holds its first report and what is behind it.
LEMMA FirstReport ==
  ASSUME NEW S, NEW q \in Seq(Seq(S)), q # <<>>, Separate(q)
  PROVE  /\ Head(q) \in Seq(S) /\ Tail(q) \in Seq(Seq(S)) /\ Len(Tail(q)) = Len(q) - 1
         /\ Contents(q) = ToSet(Head(q)) \cup Contents(Tail(q))
         /\ ToSet(Head(q)) \cap Contents(Tail(q)) = {}
         /\ Distinct(Head(q)) /\ Separate(Tail(q))
<1>1. /\ Len(q) \in Nat \ {0} /\ Len(Tail(q)) = Len(q) - 1 /\ Head(q) = q[1]
      /\ Tail(q) \in Seq(Seq(S)) /\ Head(q) \in Seq(S)
      /\ DOMAIN q = 1 .. Len(q) /\ DOMAIN Tail(q) = 1 .. Len(q) - 1
  BY HeadTailProperties, LenProperties, EmptySeq
<1>2. \A n \in 1 .. Len(q) - 1 : Tail(q)[n] = q[n + 1] /\ n + 1 \in 1 .. Len(q) /\ n + 1 # 1
  BY <1>1
<1>3. Contents(q) = ToSet(Head(q)) \cup Contents(Tail(q))
  <2>1. ASSUME NEW x \in Contents(q)
        PROVE  x \in ToSet(Head(q)) \cup Contents(Tail(q))
    <3>1. PICK n \in 1 .. Len(q) : x \in ToSet(q[n])
      BY <1>1 DEF Contents
    <3>2. n # 1 => n - 1 \in 1 .. Len(q) - 1 /\ q[n] = Tail(q)[n - 1]
      BY <1>1, <1>2
    <3> QED  BY <1>1, <3>1, <3>2 DEF Contents
  <2>2. ASSUME NEW n \in 1 .. Len(q) - 1
        PROVE  ToSet(Tail(q)[n]) \subseteq Contents(q)
    BY <1>1, <1>2 DEF Contents
  <2>3. ToSet(Head(q)) \subseteq Contents(q)
    BY <1>1 DEF Contents
  <2> QED  BY <1>1, <2>1, <2>2, <2>3 DEF Contents
<1>4. ToSet(Head(q)) \cap Contents(Tail(q)) = {}
  <2>1. ASSUME NEW n \in 1 .. Len(q) - 1
        PROVE  ToSet(Head(q)) \cap ToSet(Tail(q)[n]) = {}
    <3>1. 1 \in DOMAIN q /\ n + 1 \in DOMAIN q /\ n + 1 # 1
      BY <1>1, <1>2
    <3>2. ToSet(q[1]) \cap ToSet(q[n + 1]) = {}
      BY <3>1 DEF Separate
    <3>3. Head(q) = q[1] /\ Tail(q)[n] = q[n + 1]
      BY <1>1, <1>2
    <3> QED  BY <3>2, <3>3
  <2> QED  BY <1>1, <2>1 DEF Contents
<1>5. Distinct(Head(q)) /\ Separate(Tail(q))
  <2>1. Distinct(q[1]) /\ Head(q) = q[1]
    BY <1>1 DEF Separate
  <2>2. \A m \in DOMAIN Tail(q) : Distinct(Tail(q)[m])
    BY <1>1, <1>2 DEF Separate
  <2>3. ASSUME NEW m \in DOMAIN Tail(q), NEW n \in DOMAIN Tail(q), m # n
        PROVE  ToSet(Tail(q)[m]) \cap ToSet(Tail(q)[n]) = {}
    <3>1. /\ m + 1 \in DOMAIN q /\ n + 1 \in DOMAIN q /\ m + 1 # n + 1
          /\ Tail(q)[m] = q[m + 1] /\ Tail(q)[n] = q[n + 1]
      BY <1>1, <1>2, <2>3
    <3>2. ToSet(q[m + 1]) \cap ToSet(q[n + 1]) = {}
      BY <3>1 DEF Separate
    <3> QED  BY <3>1, <3>2
  <2> QED  BY <2>1, <2>2, <2>3 DEF Separate
<1> QED  BY <1>1, <1>3, <1>4, <1>5

\* A report that shares nothing with a queue joins it.
LEMMA LastReport ==
  ASSUME NEW S, NEW q \in Seq(Seq(S)), Separate(q), NEW r \in Seq(S), Distinct(r),
         ToSet(r) \cap Contents(q) = {}
  PROVE  /\ Append(q, r) \in Seq(Seq(S)) /\ Len(Append(q, r)) = Len(q) + 1
         /\ Contents(Append(q, r)) = Contents(q) \cup ToSet(r)
         /\ Separate(Append(q, r))
<1> DEFINE a == Append(q, r)
<1>1. /\ Len(q) \in Nat /\ Len(a) = Len(q) + 1 /\ a \in Seq(Seq(S))
      /\ DOMAIN q = 1 .. Len(q) /\ DOMAIN a = 1 .. Len(q) + 1
      /\ a[Len(q) + 1] = r /\ \A n \in 1 .. Len(q) : a[n] = q[n]
  BY AppendProperties, LenProperties
<1> HIDE DEF a
<1>2. Contents(a) = Contents(q) \cup ToSet(r)
  <2>1. ASSUME NEW x \in Contents(a)
        PROVE  x \in Contents(q) \cup ToSet(r)
    <3>1. PICK n \in 1 .. Len(q) + 1 : x \in ToSet(a[n])
      BY <1>1 DEF Contents
    <3>2. n # Len(q) + 1 => n \in 1 .. Len(q)
      BY <1>1
    <3> QED  BY <1>1, <3>1, <3>2 DEF Contents
  <2>2. ASSUME NEW n \in 1 .. Len(q)
        PROVE  ToSet(q[n]) \subseteq Contents(a)
    BY <1>1 DEF Contents
  <2>3. ToSet(r) \subseteq Contents(a)
    BY <1>1 DEF Contents
  <2>4. Contents(q) \subseteq Contents(a)
    BY <1>1, <2>2 DEF Contents
  <2> QED  BY <2>1, <2>3, <2>4
<1>3. \A n \in 1 .. Len(q) : ToSet(q[n]) \cap ToSet(r) = {}
  BY <1>1 DEF Contents
<1>4. \A n \in 1 .. Len(q) + 1 : n = Len(q) + 1 \/ n \in 1 .. Len(q)
  BY <1>1
<1>5. Separate(a)
  <2>1. \A m \in DOMAIN a : Distinct(a[m])
    BY <1>1, <1>4 DEF Separate
  <2>2. ASSUME NEW m \in DOMAIN a, NEW n \in DOMAIN a, m # n
        PROVE  ToSet(a[m]) \cap ToSet(a[n]) = {}
    <3>1. CASE m \in DOMAIN q /\ n \in DOMAIN q
      <4>1. ToSet(q[m]) \cap ToSet(q[n]) = {}
        BY <2>2, <3>1 DEF Separate
      <4> QED  BY <1>1, <3>1, <4>1
    <3>2. CASE m = Len(q) + 1 /\ n \in DOMAIN q
      <4>1. ToSet(q[n]) \cap ToSet(r) = {} /\ a[m] = r /\ a[n] = q[n]
        BY <1>1, <1>3, <3>2
      <4> QED  BY <4>1
    <3>3. CASE n = Len(q) + 1 /\ m \in DOMAIN q
      <4>1. ToSet(q[m]) \cap ToSet(r) = {} /\ a[n] = r /\ a[m] = q[m]
        BY <1>1, <1>3, <3>3
      <4> QED  BY <4>1
    <3> QED  BY <1>1, <1>4, <2>2, <3>1, <3>2, <3>3
  <2> QED  BY <2>1, <2>2 DEF Separate
<1> QED  BY <1>1, <1>2, <1>5 DEF a

-----------------------------------------------------------------------------
(* Results move from one place to the next.                                *)

Whys == {"dropped", "ignored", "failed", "forgotten"}

LEMMA GoneGrows ==
  ASSUME NEW R, NEW why \in Whys, Gone(R, why), \A i \in DOMAIN gone : gone[i] \in Whys
  PROVE  DOMAIN gone' = DOMAIN gone \cup R /\ \A i \in DOMAIN gone' : gone'[i] \in Whys
BY DEF Gone

\* A place keeps what it has while its variables do.
LEMMA SamePlaces ==
  /\ queue' = queue => InQueue' = InQueue
  /\ entries' = entries => InHolder' = InHolder
  /\ unsent' = unsent => InFlight' = InFlight
  /\ cloud' = cloud => AtCloud' = AtCloud
  /\ lost' = lost => GivenUp' = GivenUp
BY DEF InQueue, InHolder, InFlight, AtCloud, GivenUp

\* The results in the map are those of this window.
LEMMA HolderIsWindow ==
  ASSUME EntriesOK
  PROVE  InHolder = windows.this
<1>1. \A k \in DOMAIN entries : entries[k].results = OfKey(windows.this, k)
  BY DEF EntriesOK
<1>2. \A i \in windows.this : log[i].key \in DOMAIN entries /\ i \in OfKey(windows.this, log[i].key)
  BY DEF EntriesOK, OfKey
<1> QED  BY <1>1, <1>2 DEF InHolder, OfKey

LEMMA HolderIsWindowNext ==
  ASSUME EntriesOK'
  PROVE  InHolder' = windows'.this
<1>1. \A k \in DOMAIN entries' : entries'[k].results \subseteq windows'.this
  BY DEF EntriesOK, OfKey
<1>2. \A i \in windows'.this : log'[i].key \in DOMAIN entries' /\ i \in entries'[log'[i].key].results
  BY DEF EntriesOK, OfKey
<1> QED  BY <1>1, <1>2 DEF InHolder

\* The part that is about intents stays while they do.
LEMMA OneIntentKept ==
  ASSUME OneIntent, unsent' = unsent, cloud' = cloud, lost' = lost
  PROVE  OneIntent'
BY SamePlaces DEF OneIntent, Taken

\* The numbers of a new report.
LEMMA NumbersOfReport ==
  ASSUME NEW l \in Nat, NEW n \in Nat, NEW ids \in [1 .. n -> 1 .. l + n],
         \A m \in 1 .. n : ids[m] = l + m
  PROVE  /\ ids \in Seq(1 .. l + n) /\ Distinct(ids)
         /\ ToSet(ids) = l + 1 .. l + n
         /\ 1 .. l + n = (1 .. l) \cup ToSet(ids) /\ (1 .. l) \cap ToSet(ids) = {}
<1>1. ids \in Seq(1 .. l + n)
  BY SeqDef
<1>2. Distinct(ids)
  BY DEF Distinct
<1>3. ToSet(ids) = l + 1 .. l + n
  <2>1. \A x \in l + 1 .. l + n : x - l \in 1 .. n /\ ids[x - l] = x
    OBVIOUS
  <2>2. \A m \in 1 .. n : ids[m] \in l + 1 .. l + n
    OBVIOUS
  <2>3. DOMAIN ids = 1 .. n
    OBVIOUS
  <2> QED  BY <2>1, <2>2, <2>3 DEF ToSet
<1> QED  BY <1>1, <1>2, <1>3

\* The log grows by the report.
LEMMA LogGrows ==
  ASSUME LogOK, NEW rep \in Seq(Reportable), kind \notin WatchedKinds => rep \in Seq(Results),
         Report(rep)
  PROVE  /\ LogOK' /\ Len(log) \in Nat /\ Len(rep) \in Nat /\ Len(log') = Len(log) + Len(rep)
         /\ \A i \in Ids : log'[i] = log[i]
<1>1. /\ log' = log \o rep /\ Len(log) + Len(rep) <= MaxResults /\ kind' = kind
      /\ log \in Seq(Reportable)
  BY DEF Report, LogOK
<1>2. /\ Len(log) \in Nat /\ Len(rep) \in Nat
      /\ log' \in Seq(Reportable) /\ Len(log') = Len(log) + Len(rep)
  BY <1>1, LenProperties, ConcatProperties
<1>3. /\ \A i \in 1 .. Len(log) : log'[i] = log[i]
      /\ \A i \in 1 .. Len(log') : i \notin 1 .. Len(log) =>
            i - Len(log) \in 1 .. Len(rep) /\ log'[i] = rep[i - Len(log)]
  BY <1>1, <1>2, ConcatProperties
<1>4. kind \notin WatchedKinds => \A i \in 1 .. Len(log') : log'[i] \in Results
  <2> SUFFICES ASSUME kind \notin WatchedKinds, NEW i \in 1 .. Len(log')
               PROVE  log'[i] \in Results
    OBVIOUS
  <2>1. CASE i \in 1 .. Len(log)
    BY <1>3, <2>1 DEF LogOK, Ids
  <2>2. CASE i \notin 1 .. Len(log)
    <3>1. \A m \in 1 .. Len(rep) : rep[m] \in Results
      BY ElementOfSeq
    <3> QED  BY <1>3, <2>2, <3>1
  <2> QED  BY <2>1, <2>2
<1>5. LogOK'
  BY <1>1, <1>2, <1>4 DEF LogOK, Ids, Reportable
<1> QED  BY <1>2, <1>3, <1>5 DEF Ids

LEMMA ReportKeeps ==
  ASSUME QueuesInv, NEW rep \in Seq(Reportable), kind \notin WatchedKinds => rep \in Seq(Results),
         Report(rep)
  PROVE  QueuesInv'
<1>1. /\ kind' = kind /\ cancelled' = cancelled /\ handling' = handling /\ handler' = handler
      /\ handed' = handed /\ UNCHANGED holderVars
      /\ entries' = entries /\ unsent' = unsent /\ cloud' = cloud /\ lost' = lost
  BY DEF Report, holderVars, holderMaps, uploadVars
<1>2. /\ HolderInv /\ LogOK /\ QueueOK /\ OnePlace /\ OneIntent /\ cancelled \in BOOLEAN
  BY DEF QueuesInv, HolderInv, UploadOK
<1>3. /\ LogOK' /\ Len(log) \in Nat /\ Len(rep) \in Nat /\ Len(log') = Len(log) + Len(rep)
      /\ \A i \in Ids : log'[i] = log[i]
  BY <1>2, LogGrows
<1>4. HolderInv'
  <2>1. UNCHANGED <<kind, holderVars>> /\ Len(log) <= Len(log') /\ cancelled' \in BOOLEAN
    BY <1>1, <1>2, <1>3
  <2> QED  BY <1>1, <1>2, <1>3, <2>1, HolderKept
<1>5. PICK ids : /\ ids = [n \in 1 .. Len(rep) |-> Len(log) + n]
                 /\ \/ /\ Len(queue) < QueueSize
                       /\ queue' = Append(queue, ids) /\ gone' = gone
                    \/ Gone(ToSet(ids), "dropped") /\ queue' = queue
  BY DEF Report
<1>6. /\ ids \in Seq(Ids') /\ Distinct(ids) /\ Ids' = Ids \cup ToSet(ids)
      /\ Ids \cap ToSet(ids) = {} /\ Ids \subseteq Ids'
  <2>1. /\ ids \in Seq(1 .. Len(log) + Len(rep)) /\ Distinct(ids)
        /\ 1 .. Len(log) + Len(rep) = (1 .. Len(log)) \cup ToSet(ids)
        /\ (1 .. Len(log)) \cap ToSet(ids) = {}
    <3>1. /\ ids \in [1 .. Len(rep) -> 1 .. Len(log) + Len(rep)]
          /\ \A m \in 1 .. Len(rep) : ids[m] = Len(log) + m
      BY <1>3, <1>5
    <3> QED  BY <1>3, <3>1, NumbersOfReport
  <2>2. Ids = 1 .. Len(log) /\ Ids' = 1 .. Len(log) + Len(rep)
    BY <1>3 DEF Ids
  <2> QED  BY <2>1, <2>2
<1>7. /\ queue \in Seq(Seq(Ids')) /\ handling \in Seq(Ids')
  <2>1. Seq(Ids) \subseteq Seq(Ids')
    BY <1>6, SeqMono
  <2>2. Seq(Seq(Ids)) \subseteq Seq(Seq(Ids'))
    BY <2>1, SeqMono
  <2> QED  BY <1>2, <2>1, <2>2 DEF QueueOK
<1>8. /\ InHolder' = InHolder /\ Uploaded' = Uploaded /\ AtCloud' = AtCloud
      /\ ToSet(handling)' = ToSet(handling)
  BY <1>1, SamePlaces DEF Uploaded, ToSet
<1>9. Len(queue) \in Nat /\ QueueSize \in Nat
  BY <1>2, QueuesAssumption, LenProperties DEF QueueOK
<1>10. OneIntent'
  BY <1>1, <1>2, OneIntentKept
<1>11. CASE Len(queue) < QueueSize /\ queue' = Append(queue, ids) /\ gone' = gone
  <2>1. InQueue = Contents(queue) /\ InQueue' = Contents(queue')
    BY DEF InQueue, Contents
  <2>2. ToSet(ids) \cap Contents(queue) = {}
    BY <1>2, <1>6, <2>1 DEF OnePlace, Partition
  <2>3. /\ queue' \in Seq(Seq(Ids')) /\ Len(queue') <= QueueSize /\ Separate(queue')
        /\ InQueue' = InQueue \cup ToSet(ids)
    <3>1. Separate(queue)
      BY <1>2 DEF QueueOK
    <3> QED  BY <1>6, <1>7, <1>9, <1>11, <2>1, <2>2, <3>1, LastReport
  <2>4. QueueOK'
    BY <1>1, <1>2, <1>6, <1>7, <1>11, <2>3 DEF QueueOK, Separate, Distinct, ToSet
  <2>5. OnePlace'
    BY <1>1, <1>2, <1>6, <1>8, <1>11, <2>3 DEF OnePlace, Partition
  <2> QED  BY <1>4, <1>10, <2>4, <2>5 DEF QueuesInv
<1>12. CASE Gone(ToSet(ids), "dropped") /\ queue' = queue
  <2>1. /\ DOMAIN gone' = DOMAIN gone \cup ToSet(ids) /\ \A i \in DOMAIN gone' : gone'[i] \in Whys
    BY <1>2, <1>12, GoneGrows DEF QueueOK, Whys
  <2>2. InQueue' = InQueue
    BY <1>12, SamePlaces
  <2>3. QueueOK'
    <3>1. /\ queue' \in Seq(Seq(Ids')) /\ Len(queue') <= QueueSize /\ Separate(queue')
          /\ handling' \in Seq(Ids') /\ Distinct(handling')
          /\ handler' \/ (cancelled' /\ handling' = <<>>)
      BY <1>1, <1>2, <1>7, <1>12 DEF QueueOK
    <3>2. DOMAIN gone' \subseteq Ids' /\ \A i \in DOMAIN gone' : gone'[i] \in Whys
      BY <1>2, <1>6, <2>1 DEF QueueOK
    <3> QED  BY <3>1, <3>2 DEF QueueOK, Separate, Distinct, ToSet, Whys
  <2>4. AtCloud \subseteq Ids
    BY <1>2 DEF OnePlace, Partition, Uploaded
  <2>5. DOMAIN gone' \ AtCloud' = (DOMAIN gone \ AtCloud) \cup ToSet(ids)
    BY <1>6, <1>8, <2>1, <2>4
  <2>6. OnePlace'
    BY <1>1, <1>2, <1>6, <1>8, <2>2, <2>5 DEF OnePlace, Partition
  <2> QED  BY <1>4, <1>10, <2>3, <2>6 DEF QueuesInv
<1> QED  BY <1>5, <1>11, <1>12

LEMMA HandleKeeps ==
  ASSUME QueuesInv, HandleStep
  PROVE  QueuesInv'
<1>1. /\ HolderInv /\ LogOK /\ QueueOK /\ OnePlace /\ OneIntent /\ cancelled \in BOOLEAN
      /\ Len(log) \in Nat
  BY LenProperties DEF QueuesInv, HolderInv, UploadOK, LogOK
<1>2. /\ kind' = kind /\ log' = log /\ cancelled' = cancelled /\ UNCHANGED uploadVars
      /\ unsent' = unsent /\ cloud' = cloud /\ lost' = lost
  BY DEF HandleStep, TakeReport, SkipResult, FailReport, RecordResult, StopHandler,
         holderVars, uploadVars
<1>3. /\ Ids' = Ids /\ Uploaded' = Uploaded /\ AtCloud' = AtCloud /\ OneIntent'
  BY <1>1, <1>2, SamePlaces, SameLog, OneIntentKept DEF Uploaded
<1>4. ASSUME UNCHANGED holderVars
      PROVE  HolderInv' /\ InHolder' = InHolder
  <2>1. entries' = entries
    BY <1>4 DEF holderVars, holderMaps
  <2>2. UNCHANGED <<kind, holderVars>> /\ LogOK' /\ Len(log) <= Len(log')
    BY <1>1, <1>2, <1>4, SameLog
  <2> QED  BY <1>1, <1>2, <2>1, <2>2, HolderKept, SamePlaces
<1>5. handling # <<>> =>
        /\ Head(handling) \in Ids /\ Tail(handling) \in Seq(Ids) /\ Distinct(Tail(handling))
        /\ ToSet(handling) = {Head(handling)} \cup ToSet(Tail(handling))
        /\ Head(handling) \notin ToSet(Tail(handling))
  BY <1>1, HeadAndTail DEF QueueOK
<1>6. ToSet(<<>>) = {}
  BY DEF ToSet
<1>7. ToSet(handling) \subseteq Ids /\ ToSet(handling) \cap AtCloud = {}
  BY <1>1 DEF OnePlace, Partition, Uploaded
<1>8. CASE TakeReport
  <2>1. /\ handler /\ handling = <<>> /\ queue # <<>> /\ handling' = Head(queue)
        /\ queue' = Tail(queue) /\ handler' = handler /\ handed' = handed /\ gone' = gone
        /\ UNCHANGED holderVars
    BY <1>8 DEF TakeReport
  <2>2. queue \in Seq(Seq(Ids)) /\ Separate(queue) /\ Len(queue) <= QueueSize
    BY <1>1 DEF QueueOK
  <2>3. /\ Head(queue) \in Seq(Ids) /\ Tail(queue) \in Seq(Seq(Ids))
        /\ Len(Tail(queue)) = Len(queue) - 1 /\ Distinct(Head(queue)) /\ Separate(Tail(queue))
        /\ Contents(queue) = ToSet(Head(queue)) \cup Contents(Tail(queue))
        /\ ToSet(Head(queue)) \cap Contents(Tail(queue)) = {}
    BY <2>1, <2>2, FirstReport
  <2>4. InQueue = Contents(queue) /\ InQueue' = Contents(queue')
    BY DEF InQueue, Contents
  <2>5. QueueOK'
    <3>1. Len(queue) \in Nat /\ QueueSize \in Nat
      BY <2>2, QueuesAssumption, LenProperties
    <3>2. /\ queue' \in Seq(Seq(Ids)) /\ Len(queue') <= QueueSize /\ Separate(queue')
          /\ handling' \in Seq(Ids) /\ Distinct(handling') /\ handler'
      BY <2>1, <2>2, <2>3, <3>1
    <3> QED  BY <1>1, <1>2, <1>3, <2>1, <3>2 DEF QueueOK, Separate, Distinct, ToSet
  <2>6. ToSet(handling)' = ToSet(Head(queue)) /\ ToSet(handling) = {}
    BY <1>6, <2>1
  <2>7. OnePlace'
    BY <1>1, <1>3, <1>4, <2>1, <2>3, <2>4, <2>6 DEF OnePlace, Partition
  <2> QED  BY <1>3, <1>4, <2>1, <2>5, <2>7 DEF QueuesInv
<1>9. ASSUME handling # <<>>, queue' = queue, handler' = handler, UNCHANGED holderVars,
             handed' = handed,
             NEW R \in SUBSET ToSet(handling), NEW why \in Whys, Gone(R, why),
             handling' \in Seq(Ids), Distinct(handling'),
             ToSet(handling)' = ToSet(handling) \ R
      PROVE  QueuesInv'
  <2>1. /\ DOMAIN gone' = DOMAIN gone \cup R /\ \A i \in DOMAIN gone' : gone'[i] \in Whys
    BY <1>1, <1>9, GoneGrows DEF QueueOK, Whys
  <2>2. DOMAIN gone' \ AtCloud' = (DOMAIN gone \ AtCloud) \cup R
    BY <1>3, <1>7, <1>9, <2>1
  <2>3. InQueue' = InQueue
    BY <1>9, SamePlaces
  <2>4. QueueOK'
    <3>1. /\ queue' \in Seq(Seq(Ids)) /\ Len(queue') <= QueueSize /\ Separate(queue')
          /\ handler'
      BY <1>1, <1>9 DEF QueueOK
    <3>2. DOMAIN gone' \subseteq Ids
      BY <1>1, <1>7, <1>9, <2>1 DEF QueueOK
    <3> QED  BY <1>3, <1>9, <2>1, <3>1, <3>2 DEF QueueOK, Separate, Distinct, ToSet, Whys
  <2>5. OnePlace'
    BY <1>1, <1>3, <1>4, <1>9, <2>2, <2>3 DEF OnePlace, Partition
  <2> QED  BY <1>3, <1>4, <1>9, <2>4, <2>5 DEF QueuesInv
<1>10. CASE SkipResult
  <2>1. /\ handling # <<>> /\ Gone({Head(handling)}, "ignored") /\ handling' = Tail(handling)
        /\ queue' = queue /\ handler' = handler /\ handed' = handed /\ UNCHANGED holderVars
    BY <1>10 DEF SkipResult
  <2>2. /\ {Head(handling)} \in SUBSET ToSet(handling) /\ "ignored" \in Whys
        /\ handling' \in Seq(Ids) /\ Distinct(handling')
        /\ ToSet(handling)' = ToSet(handling) \ {Head(handling)}
    BY <1>5, <2>1 DEF Whys
  <2> QED  BY <1>9, <2>1, <2>2
<1>11. CASE FailReport
  <2>1. /\ handling # <<>> /\ Gone(ToSet(handling), "failed") /\ handling' = <<>>
        /\ queue' = queue /\ handler' = handler /\ handed' = handed /\ UNCHANGED holderVars
    BY <1>11 DEF FailReport
  <2>2. /\ ToSet(handling) \in SUBSET ToSet(handling) /\ "failed" \in Whys
        /\ handling' \in Seq(Ids) /\ Distinct(handling')
        /\ ToSet(handling)' = ToSet(handling) \ ToSet(handling)
    BY <1>6, <2>1, EmptySeq DEF Whys, Distinct
  <2> QED  BY <1>9, <2>1, <2>2
<1>12. CASE RecordResult
  <2> DEFINE i == Head(handling)
  <2>1. /\ handling # <<>> /\ handling' = Tail(handling)
        /\ queue' = queue /\ handler' = handler /\ gone' = gone
    BY <1>12 DEF RecordResult
  <2>2. InQueue' = InQueue /\ ToSet(handling)' = ToSet(Tail(handling))
    BY <2>1, SamePlaces
  <2>3. QueueOK'
    <3>1. /\ queue' \in Seq(Seq(Ids)) /\ Len(queue') <= QueueSize /\ Separate(queue')
          /\ handling' \in Seq(Ids) /\ Distinct(handling') /\ handler'
      BY <1>1, <1>5, <2>1 DEF QueueOK
    <3> QED  BY <1>1, <1>3, <2>1, <3>1 DEF QueueOK, Separate, Distinct, ToSet
  <2>4. CASE kind \in WatchedKinds
    <3>1. handed' = handed \cup {i} /\ UNCHANGED holderVars
      BY <1>2, <1>12, <2>4 DEF RecordResult, holderVars
    <3>2. OnePlace'
      BY <1>1, <1>3, <1>4, <1>5, <2>1, <2>2, <3>1 DEF OnePlace, Partition
    <3> QED  BY <1>3, <1>4, <2>3, <3>1, <3>2 DEF QueuesInv
  <2>5. CASE kind \notin WatchedKinds
    <3>1. AddIntent(i) /\ handed' = handed
      BY <1>12, <2>5 DEF RecordResult
    <3>2. InHolder = windows.this
      BY <1>1, HolderIsWindow DEF HolderInv, WindowsOK
    <3>3. i \in Ids /\ i \notin windows.this
      BY <1>1, <1>5, <2>1, <3>2 DEF OnePlace, Partition
    <3>4. UNCHANGED <<kind, log, cancelled, uploadVars>>
      BY <1>2
    <3>5. HolderInv'
      BY <1>1, <2>5, <3>1, <3>3, <3>4, AddIntentKeeps
    <3>6. InHolder' = InHolder \cup {i}
      <4>1. InHolder' = windows'.this
        BY <3>5, HolderIsWindowNext DEF HolderInv, WindowsOK
      <4>2. windows'.this = windows.this \cup {i}
        BY <1>1, <3>1 DEF AddIntent, HolderInv, WindowsOK
      <4> QED  BY <3>2, <4>1, <4>2
    <3>7. OnePlace'
      BY <1>1, <1>3, <1>5, <2>1, <2>2, <3>1, <3>6 DEF OnePlace, Partition
    <3> QED  BY <1>3, <2>3, <3>5, <3>7 DEF QueuesInv
  <2> QED  BY <2>4, <2>5
<1>13. CASE StopHandler
  <2>1. /\ cancelled /\ handling = <<>> /\ handler' = FALSE /\ queue' = queue
        /\ handling' = handling /\ handed' = handed /\ gone' = gone /\ UNCHANGED holderVars
    BY <1>13 DEF StopHandler
  <2>2. InQueue' = InQueue /\ ToSet(handling)' = ToSet(handling)
    BY <2>1, SamePlaces DEF ToSet
  <2>3. QueueOK'
    <3>1. /\ queue' \in Seq(Seq(Ids)) /\ Len(queue') <= QueueSize /\ Separate(queue')
          /\ handling' \in Seq(Ids) /\ Distinct(handling') /\ cancelled' /\ handling' = <<>>
      BY <1>1, <1>2, <2>1 DEF QueueOK
    <3> QED  BY <1>1, <1>3, <2>1, <3>1 DEF QueueOK, Separate, Distinct, ToSet
  <2>4. OnePlace'
    BY <1>1, <1>3, <1>4, <2>1, <2>2 DEF OnePlace, Partition
  <2> QED  BY <1>3, <1>4, <2>1, <2>3, <2>4 DEF QueuesInv
<1> QED  BY <1>8, <1>10, <1>11, <1>12, <1>13 DEF HandleStep

\* The queue and its handler stay as they are.
LEMMA QueueKept ==
  ASSUME QueueOK, UNCHANGED <<log, queueVars>>, cancelled => cancelled'
  PROVE  QueueOK'
<1>1. /\ log' = log /\ queue' = queue /\ handling' = handling
      /\ handler' = handler /\ gone' = gone
  BY DEF queueVars
<1>2. /\ queue' \in Seq(Seq(Ids)) /\ Len(queue') <= QueueSize /\ Separate(queue')
      /\ handling' \in Seq(Ids) /\ Distinct(handling')
      /\ handler' \/ (cancelled' /\ handling' = <<>>)
  BY <1>1 DEF QueueOK
<1>3. Ids' = Ids
  BY <1>1 DEF Ids
<1> QED  BY <1>1, <1>2, <1>3 DEF QueueOK, Separate, Distinct, ToSet

\* What is taken for an upload: the results of the batch, the cloud and what was given up.
LEMMA UploadedAreTaken ==
  Uploaded = UNION {e.results : e \in Taken}
BY DEF Uploaded, InFlight, AtCloud, GivenUp, Taken

\* Intents only move from the batch on.
LEMMA MovesKeepPlaces ==
  ASSUME QueuesInv, HolderInv', UNCHANGED <<kind, log, cancelled, queueVars, holderMaps>>,
         unsent' \subseteq unsent, cloud \subseteq cloud', cloud' \subseteq cloud \cup unsent,
         lost \subseteq lost', lost' \subseteq lost \cup unsent,
         unsent \subseteq unsent' \cup cloud' \cup lost',
         lost' = lost \/ unsent' = {}
  PROVE  QueuesInv'
<1>1. /\ HolderInv /\ QueueOK /\ OnePlace /\ OneIntent
  BY DEF QueuesInv
<1>2. /\ log' = log /\ cancelled' = cancelled /\ queue' = queue /\ handling' = handling
      /\ handler' = handler /\ handed' = handed /\ gone' = gone /\ entries' = entries
  BY DEF queueVars, holderMaps
<1>3. Ids' = Ids /\ Taken' = Taken
  BY <1>2 DEF Ids, Taken
<1>4. /\ InQueue' = InQueue /\ InHolder' = InHolder /\ ToSet(handling)' = ToSet(handling)
  BY <1>2, SamePlaces DEF ToSet
<1>5. Uploaded' = Uploaded
  BY <1>3 DEF Uploaded, InFlight, AtCloud, GivenUp, Taken
<1>6. /\ AtCloud \subseteq AtCloud' /\ AtCloud' \subseteq AtCloud \cup InFlight
      /\ InFlight' \subseteq InFlight
  BY DEF AtCloud, InFlight
<1>7. DOMAIN gone' \ AtCloud' = DOMAIN gone \ AtCloud
  BY <1>1, <1>2, <1>6 DEF OnePlace, Partition, Uploaded
<1>8. QueueOK'
  BY <1>1, QueueKept
<1>9. OnePlace'
  BY <1>1, <1>2, <1>3, <1>4, <1>5, <1>7 DEF OnePlace, Partition
<1>10. InFlight' \cap GivenUp' = {}
  <2>1. lost' = lost => GivenUp' = GivenUp
    BY SamePlaces
  <2>2. unsent' = {} => InFlight' = {}
    BY DEF InFlight
  <2> QED  BY <1>1, <1>6, <2>1, <2>2 DEF OneIntent
<1>11. OneIntent'
  BY <1>1, <1>3, <1>10 DEF OneIntent
<1> QED  BY <1>8, <1>9, <1>11 DEF QueuesInv

LEMMA TakeBatchKeepsPlaces ==
  ASSUME QueuesInv, HolderInv', TakeBatch, UNCHANGED <<kind, log, cancelled, queueVars>>
  PROVE  QueuesInv'
<1>1. /\ HolderInv /\ QueueOK /\ OnePlace /\ OneIntent /\ EntriesOK
  BY DEF QueuesInv, HolderInv, WindowsOK
<1>2. /\ log' = log /\ cancelled' = cancelled /\ queue' = queue /\ handling' = handling
      /\ handler' = handler /\ handed' = handed /\ gone' = gone
      /\ unsent = {} /\ entries' = EmptyMap /\ cloud' = cloud /\ lost' = lost
  BY DEF queueVars, TakeBatch
<1>3. /\ \A e \in unsent' : \E k \in DOMAIN entries :
             e.key = k /\ e.results = entries[k].results /\
             e = [entries[k] EXCEPT !.count = GetDiff(current, previous, k),
                                    !.before = OfKey(windows.last, k)]
      /\ \A k \in DOMAIN entries : \E e \in unsent' : e.results = entries[k].results
  <2>1. ASSUME NEW k \in DOMAIN entries
        PROVE  LET e == [entries[k] EXCEPT !.count = GetDiff(current, previous, k),
                                           !.before = OfKey(windows.last, k)]
               IN e.key = k /\ e.results = entries[k].results
    <3>1. entries[k] \in IntentRecord /\ entries[k].key = k
      BY <1>1 DEF EntriesOK
    <3> QED  BY <3>1 DEF IntentRecord
  <2> QED  BY <2>1 DEF TakeBatch
<1>4. InHolder' = {} /\ InFlight = {} /\ InFlight' = InHolder
  <2>1. InHolder' = {} /\ InFlight = {}
    BY <1>2 DEF InHolder, InFlight, EmptyMap
  <2>2. ASSUME NEW e \in unsent'
        PROVE  e.results \subseteq InHolder
    BY <1>3 DEF InHolder
  <2>3. ASSUME NEW k \in DOMAIN entries
        PROVE  entries[k].results \subseteq InFlight'
    BY <1>3 DEF InFlight
  <2>4. InFlight' \subseteq InHolder
    BY <2>2 DEF InFlight
  <2>5. InHolder \subseteq InFlight'
    BY <2>3 DEF InHolder
  <2> QED  BY <2>1, <2>4, <2>5
<1>5. /\ Ids' = Ids /\ InQueue' = InQueue /\ ToSet(handling)' = ToSet(handling)
      /\ AtCloud' = AtCloud /\ GivenUp' = GivenUp
  BY <1>2, SamePlaces DEF Ids, ToSet
<1>6. QueueOK'
  BY <1>1, QueueKept
<1>7. OnePlace'
  BY <1>1, <1>2, <1>4, <1>5 DEF OnePlace, Partition, Uploaded
<1>8. ASSUME NEW e \in unsent', NEW f \in cloud \cup lost
      PROVE  e.results \cap f.results = {}
  <2>1. e.results \subseteq InHolder
    BY <1>3 DEF InHolder
  <2>2. f.results \subseteq Uploaded
    BY DEF Uploaded, AtCloud, GivenUp
  <2> QED  BY <1>1, <2>1, <2>2 DEF OnePlace, Partition
<1>9. ASSUME NEW e \in unsent', NEW f \in unsent', e.results \cap f.results # {}
      PROVE  e = f
  <2>1. PICK k \in DOMAIN entries :
          e.results = entries[k].results /\
          e = [entries[k] EXCEPT !.count = GetDiff(current, previous, k),
                                 !.before = OfKey(windows.last, k)]
    BY <1>3
  <2>2. PICK j \in DOMAIN entries :
          f.results = entries[j].results /\
          f = [entries[j] EXCEPT !.count = GetDiff(current, previous, j),
                                 !.before = OfKey(windows.last, j)]
    BY <1>3
  <2>3. k = j
    BY <1>1, <1>9, <2>1, <2>2 DEF EntriesOK, OfKey
  <2> QED  BY <2>1, <2>2, <2>3
<1>10. OneIntent'
  <2>1. \A e, f \in cloud \cup lost : e.results \cap f.results # {} => e = f
    BY <1>1 DEF OneIntent, Taken
  <2>2. \A e, f \in Taken' : e.results \cap f.results # {} => e = f
    BY <1>2, <1>8, <1>9, <2>1 DEF Taken
  <2>3. InFlight' \cap GivenUp' = {}
    BY <1>1, <1>4, <1>5 DEF OnePlace, Partition, Uploaded
  <2> QED  BY <2>2, <2>3 DEF OneIntent
<1> QED  BY <1>6, <1>7, <1>10 DEF QueuesInv

LEMMA UploadKeeps ==
  ASSUME QueuesInv, Upload
  PROVE  QueuesInv'
<1>1. /\ kind \notin WatchedKinds /\ UploadStep
      /\ UNCHANGED <<kind, log, cancelled, queueVars>>
  BY DEF Upload
<1>2. HolderInv /\ chunk \subseteq unsent
  BY DEF QueuesInv, HolderInv, UploadOK
<1>3. HolderInv'
  BY <1>1, <1>2, UploadStepKeeps
<1>4. CASE TakeBatch
  BY <1>1, <1>3, <1>4, TakeBatchKeepsPlaces
<1>5. CASE NextChunk
  BY <1>1, <1>3, <1>5, MovesKeepPlaces DEF NextChunk
<1>6. CASE Retry
  BY <1>1, <1>2, <1>3, <1>6, MovesKeepPlaces DEF Retry, RequestFails
<1>7. CASE GiveUp
  BY <1>1, <1>2, <1>3, <1>7, MovesKeepPlaces DEF GiveUp, RequestFails
<1>8. CASE RequestSucceeds
  BY <1>1, <1>2, <1>3, <1>8, MovesKeepPlaces DEF RequestSucceeds
<1>9. CASE StopLoop
  BY <1>1, <1>3, <1>9, MovesKeepPlaces DEF StopLoop
<1> QED  BY <1>1, <1>4, <1>5, <1>6, <1>7, <1>8, <1>9 DEF UploadStep

LEMMA CancelKeeps ==
  ASSUME QueuesInv, Cancel
  PROVE  QueuesInv'
<1>1. /\ HolderInv /\ LogOK /\ QueueOK /\ OnePlace /\ OneIntent /\ Len(log) \in Nat
  BY LenProperties DEF QueuesInv, HolderInv, LogOK
<1>2. /\ kind' = kind /\ log' = log /\ ~cancelled /\ cancelled' = TRUE
      /\ UNCHANGED <<kind, holderVars>> /\ UNCHANGED queueVars
  BY DEF Cancel
<1>3. /\ queue' = queue /\ handling' = handling
      /\ handler' = handler /\ handed' = handed /\ gone' = gone /\ entries' = entries
      /\ unsent' = unsent /\ cloud' = cloud /\ lost' = lost
  BY <1>2 DEF queueVars, holderVars, holderMaps, uploadVars
<1>4. HolderInv'
  <2>1. LogOK' /\ Len(log) <= Len(log') /\ cancelled' \in BOOLEAN
    BY <1>1, <1>2, SameLog
  <2> QED  BY <1>1, <1>2, <2>1, HolderKept
<1>5. /\ Ids' = Ids /\ Uploaded' = Uploaded /\ AtCloud' = AtCloud /\ OneIntent'
      /\ InQueue' = InQueue /\ InHolder' = InHolder /\ ToSet(handling)' = ToSet(handling)
  BY <1>1, <1>2, <1>3, SamePlaces, OneIntentKept DEF Uploaded, Ids, ToSet
<1>6. QueueOK'
  BY <1>1, <1>2, QueueKept
<1>7. OnePlace'
  BY <1>1, <1>3, <1>5 DEF OnePlace, Partition
<1> QED  BY <1>4, <1>5, <1>6, <1>7 DEF QueuesInv

\* What is forgotten at a restart is what was in memory.
LEMMA RestartKeeps ==
  ASSUME QueuesInv, Restart
  PROVE  QueuesInv'
<1>1. /\ HolderInv /\ LogOK /\ QueueOK /\ OnePlace /\ OneIntent
  BY DEF QueuesInv, HolderInv
<1>2. /\ kind' = kind /\ log' = log /\ handed' = handed /\ cloud' = cloud /\ lost' = lost
      /\ Gone(InQueue \cup ToSet(handling) \cup InHolder \cup InFlight, "forgotten")
      /\ queue' = <<>> /\ handling' = <<>> /\ handler' = TRUE
      /\ entries' = EmptyMap /\ current' = EmptyMap /\ previous' = EmptyMap
      /\ windows' = [last |-> {}, this |-> {}]
      /\ unsent' = {} /\ chunk' = {} /\ retries' = 0 /\ looping' = TRUE /\ cancelled' = FALSE
  BY DEF Restart
<1>3. Ids' = Ids
  BY <1>2 DEF Ids
<1>4. HolderInv'
  <2>1. LogOK'
    BY <1>1, <1>2, SameLog
  <2>2. WindowsOK'
    <3>1. EntriesOK'
      BY <1>2 DEF EntriesOK, EmptyMap
    <3>2. CountersOK(current, windows.this)' /\ CountersOK(previous, windows.last)'
      BY <1>2 DEF CountersOK, EmptyMap
    <3> QED  BY <1>2, <3>1, <3>2 DEF WindowsOK
  <2>3. \A e \in unsent' \cup cloud' \cup lost' : e \in IntentRecord' /\ Summarises(e)'
    BY <1>1, <1>2, SameLog DEF HolderInv, UploadOK
  <2>4. UploadOK'
    <3>1. 0 \in 0 .. MaxRetries
      BY HoldersAssumption
    <3> QED  BY <1>2, <2>3, <3>1 DEF UploadOK
  <2>5. kind' \in WatchedKinds => Intents' = {}
    BY <1>1, <1>2 DEF HolderInv, Intents, EmptyMap
  <2> QED  BY <2>1, <2>2, <2>3, <2>4, <2>5 DEF HolderInv
<1>5. /\ InQueue' = {} /\ ToSet(handling)' = {} /\ InHolder' = {} /\ InFlight' = {}
      /\ AtCloud' = AtCloud /\ GivenUp' = GivenUp
  BY <1>2, SamePlaces DEF InQueue, ToSet, InHolder, InFlight, EmptyMap
<1>6. /\ DOMAIN gone' = DOMAIN gone \cup InQueue \cup ToSet(handling) \cup InHolder \cup InFlight
      /\ \A i \in DOMAIN gone' : gone'[i] \in Whys
  <2>1. "forgotten" \in Whys /\ \A i \in DOMAIN gone : gone[i] \in Whys
    BY <1>1 DEF QueueOK, Whys
  <2> DEFINE R == InQueue \cup ToSet(handling) \cup InHolder \cup InFlight
  <2>2. Gone(R, "forgotten")
    BY <1>2
  <2>3. DOMAIN gone' = DOMAIN gone \cup R /\ \A i \in DOMAIN gone' : gone'[i] \in Whys
    <3> HIDE DEF R
    <3> QED  BY <2>1, <2>2, GoneGrows
  <2> QED  BY <2>3
<1>7. OnePlace'
  BY <1>1, <1>2, <1>3, <1>5, <1>6 DEF OnePlace, Partition, Uploaded, OneIntent
<1>8. QueueOK'
  <2>1. DOMAIN gone' \subseteq Ids
    BY <1>1, <1>6 DEF QueueOK, OnePlace, Partition, Uploaded
  <2>2. /\ queue' \in Seq(Seq(Ids)) /\ Len(queue') <= QueueSize /\ Separate(queue')
        /\ handling' \in Seq(Ids) /\ Distinct(handling')
    BY <1>2, QueuesAssumption, EmptySeq DEF Separate, Distinct
  <2> QED  BY <1>2, <1>3, <1>6, <2>1, <2>2 DEF QueueOK, Separate, Distinct, ToSet, Whys
<1>9. OneIntent'
  <2>1. \A e, f \in Taken' : e.results \cap f.results # {} => e = f
    BY <1>1, <1>2 DEF OneIntent, Taken
  <2> QED  BY <1>5, <2>1 DEF OneIntent
<1> QED  BY <1>4, <1>7, <1>8, <1>9 DEF QueuesInv

-----------------------------------------------------------------------------
(* Watchers.                                                               *)

\* A step that is the watchers' alone.
LEMMA QueuesKept ==
  ASSUME QueuesInv, UNCHANGED vars
  PROVE  QueuesInv'
<1>1. /\ HolderInv /\ LogOK /\ QueueOK /\ OnePlace /\ OneIntent /\ Len(log) \in Nat
      /\ cancelled \in BOOLEAN
  BY LenProperties DEF QueuesInv, HolderInv, LogOK, UploadOK
<1>2. /\ kind' = kind /\ log' = log /\ cancelled' = cancelled
      /\ UNCHANGED holderVars /\ UNCHANGED queueVars
  BY DEF vars
<1>3. /\ queue' = queue /\ handling' = handling /\ handed' = handed /\ gone' = gone
      /\ entries' = entries /\ unsent' = unsent /\ cloud' = cloud /\ lost' = lost
  BY <1>2 DEF queueVars, holderVars, holderMaps, uploadVars
<1>4. HolderInv'
  <2>1. LogOK' /\ Len(log) <= Len(log') /\ UNCHANGED <<kind, holderVars>>
    BY <1>1, <1>2, SameLog
  <2> QED  BY <1>1, <1>2, <2>1, HolderKept
<1>5. /\ Ids' = Ids /\ Uploaded' = Uploaded /\ AtCloud' = AtCloud /\ OneIntent'
      /\ InQueue' = InQueue /\ InHolder' = InHolder /\ ToSet(handling)' = ToSet(handling)
  BY <1>1, <1>2, <1>3, SamePlaces, OneIntentKept DEF Uploaded, Ids, ToSet
<1>6. QueueOK'
  BY <1>1, <1>2, QueueKept
<1>7. OnePlace'
  BY <1>1, <1>3, <1>5 DEF OnePlace, Partition
<1> QED  BY <1>4, <1>5, <1>6, <1>7 DEF QueuesInv

\* A note is in a map, or in the log, with this time or a later one.
HasNote(map, k, i) == k \in DOMAIN map /\ map[k] >= i
Logged(k, i) == \E n \in DOMAIN log : log[n].key \in Alike(k) /\ log[n].lastSeen >= i

LEMMA NotesReach ==
  NotesReachMapper <=>
    \A i \in noticed \ missed :
      HasNote(noted, trail[i], i) \/ HasNote(sending, trail[i], i) \/ Logged(trail[i], i)
BY DEF NotesReachMapper, HasNote, Logged

LEMMA NotesReachNext ==
  ASSUME kind' = kind
  PROVE  NotesReachMapper' <=>
           \A i \in noticed' \ missed' :
             \/ HasNote(noted', trail'[i], i) \/ HasNote(sending', trail'[i], i)
             \/ \E n \in DOMAIN log' : log'[n].key \in Alike(trail'[i]) /\ log'[n].lastSeen >= i
BY DEF NotesReachMapper, HasNote, Alike

\* What is in the log stays there.
LEMMA LoggedStays ==
  ASSUME Len(log) \in Nat, Len(log') \in Nat, Len(log) <= Len(log'), DOMAIN log = 1 .. Len(log),
         DOMAIN log' = 1 .. Len(log'), \A n \in Ids : log'[n] = log[n],
         NEW k, NEW i, Logged(k, i)
  PROVE  \E n \in DOMAIN log' : log'[n].key \in Alike(k) /\ log'[n].lastSeen >= i
BY DEF Logged, Ids

LEMMA NowType ==
  ASSUME WatchOK
  PROVE  Now \in Nat /\ DOMAIN trail = 1 .. Now /\ \A i \in 1 .. Now : trail[i] \in Keys
BY LenProperties, ElementOfSeq DEF WatchOK, Now

\* A key is noted now; no other note is disturbed, nor made earlier.
LEMMA SetKeeps ==
  ASSUME NEW now \in Nat, NEW map, NoteOK(map, now), NEW k \in Keys
  PROVE  /\ NoteOK(Set(map, k, now), now)
         /\ \A i \in 0 .. now : HasNote(Set(map, k, now), k, i)
         /\ \A i \in Int, c \in Keys :
              HasNote(map, c, i) /\ i <= now => HasNote(Set(map, k, now), c, i)
<1> DEFINE s == Set(map, k, now)
<1>1. DOMAIN s = DOMAIN map \cup {k} /\ \A j \in DOMAIN s : s[j] = IF j = k THEN now ELSE map[j]
  BY DEF Set
<1>2. IsFiniteSet(DOMAIN map \cup {k})
  BY FS_AddElement DEF NoteOK
<1> HIDE DEF s
<1>3. NoteOK(s, now)
  BY <1>1, <1>2 DEF NoteOK
<1>4. \A i \in 0 .. now : HasNote(s, k, i)
  BY <1>1 DEF HasNote
<1>5. ASSUME NEW i \in Int, NEW c \in Keys, HasNote(map, c, i), i <= now
      PROVE  HasNote(s, c, i)
  BY <1>1, <1>5 DEF HasNote
<1> QED  BY <1>3, <1>4, <1>5 DEF s

LEMMA NoteKeeps ==
  ASSUME WatchOK, NotesReachMapper, NEW i \in 1 .. Now, Note(i), trail' = trail, log' = log,
         kind' = kind
  PROVE  /\ NotesReachMapper' /\ noticed' \subseteq 1 .. Now
         /\ NoteOK(noted', Now) /\ NoteOK(sending', Now)
<1> DEFINE k == trail[i]
           seen == IF kind = "kafka" THEN {i} ELSE Counted(i)
<1>1. Now \in Nat /\ k \in Keys
  BY NowType
<1>2. /\ noticed' = noticed \cup seen
      /\ \/ noted' = Set(noted, k, Now) /\ sending' = sending /\ missed' = missed
         \/ noted' = noted /\ sending' = Set(sending, k, Now) /\ missed' = missed
         \/ noted' = noted /\ sending' = sending /\ missed' = missed \cup seen
  BY DEF Note
<1>3. \A j \in seen : j \in 1 .. Now /\ trail[j] = k
  BY <1>1 DEF Counted, Series
<1>4. noticed \subseteq 1 .. Now /\ NoteOK(noted, Now) /\ NoteOK(sending, Now)
  BY DEF WatchOK
<1>5. \A j \in 1 .. Now : j \in Int /\ j <= Now /\ j \in 0 .. Now /\ trail[j] \in Keys
  BY <1>1, NowType
<1>6. ASSUME NEW j \in noticed \ missed
      PROVE  \/ HasNote(noted, trail[j], j) \/ HasNote(sending, trail[j], j)
             \/ Logged(trail[j], j)
  BY NotesReach
<1> HIDE DEF k, seen
<1>7. NoteOK(noted', Now) /\ NoteOK(sending', Now)
  BY <1>1, <1>2, <1>4, SetKeeps
<1>8. ASSUME NEW j \in noticed' \ missed'
      PROVE  HasNote(noted', trail[j], j) \/ HasNote(sending', trail[j], j) \/ Logged(trail[j], j)
  <2>1. j \in 1 .. Now /\ j \in Int /\ j <= Now /\ j \in 0 .. Now /\ trail[j] \in Keys
    BY <1>2, <1>3, <1>4, <1>5, <1>8
  <2>2. CASE noted' = Set(noted, k, Now) /\ sending' = sending /\ missed' = missed
    <3>1. CASE j \in seen
      <4>1. HasNote(Set(noted, k, Now), k, j)
        BY <1>1, <1>4, <2>1, SetKeeps
      <4> QED  BY <1>3, <2>2, <3>1, <4>1
    <3>2. CASE j \in noticed \ missed
      <4>1. HasNote(noted, trail[j], j) => HasNote(Set(noted, k, Now), trail[j], j)
        BY <1>1, <1>4, <2>1, SetKeeps
      <4> QED  BY <1>6, <2>2, <3>2, <4>1
    <3> QED  BY <1>2, <1>8, <2>2, <3>1, <3>2
  <2>3. CASE noted' = noted /\ sending' = Set(sending, k, Now) /\ missed' = missed
    <3>1. CASE j \in seen
      <4>1. HasNote(Set(sending, k, Now), k, j)
        BY <1>1, <1>4, <2>1, SetKeeps
      <4> QED  BY <1>3, <2>3, <3>1, <4>1
    <3>2. CASE j \in noticed \ missed
      <4>1. HasNote(sending, trail[j], j) => HasNote(Set(sending, k, Now), trail[j], j)
        BY <1>1, <1>4, <2>1, SetKeeps
      <4> QED  BY <1>6, <2>3, <3>2, <4>1
    <3> QED  BY <1>2, <1>8, <2>3, <3>1, <3>2
  <2>4. CASE noted' = noted /\ sending' = sending /\ missed' = missed \cup seen
    <3>1. j \in noticed \ missed
      BY <1>2, <1>8, <2>4
    <3> QED  BY <1>6, <2>4, <3>1
  <2> QED  BY <1>2, <2>2, <2>3, <2>4
<1>9. NotesReachMapper'
  BY <1>8, NotesReachNext DEF Logged
<1>10. noticed' \subseteq 1 .. Now
  BY <1>2, <1>3, <1>4
<1> QED  BY <1>7, <1>9, <1>10

\* A set in some order.
LEMMA InOrder ==
  ASSUME NEW S, IsFiniteSet(S), NEW s \in SetToSeqs(S)
  PROVE  s \in Seq(S) /\ \A x \in S : \E n \in DOMAIN s : s[n] = x
<1> DEFINE D == 1 .. Cardinality(S)
<1>1. Cardinality(S) \in Nat /\ IsFiniteSet(D) /\ Cardinality(D) = Cardinality(S)
  BY FS_CardinalityType, FS_Interval
<1>2. s \in [D -> S] /\ \A i, j \in D : i # j => s[i] # s[j]
  BY DEF SetToSeqs
<1>3. s \in Seq(S)
  BY <1>1, <1>2, SeqDef
<1> HIDE DEF D
<1>4. s \in Injection(D, S)
  BY <1>2 DEF Injection, IsInjective
<1>5. s \in Surjection(D, S)
  BY <1>1, <1>4, FS_Injection
<1> QED  BY <1>2, <1>3, <1>5 DEF Surjection

LEMMA FetchKeeps ==
  ASSUME WatchOK, Fetch
  PROVE  inbox' \in Seq(1 .. Now)
<1>1. Now \in Nat /\ readFrom \in 0 .. Now
  BY NowType DEF WatchOK
<1>2. CASE kind = "kafka"
  <2>1. inbox' = [n \in 1 .. Now - readFrom |-> readFrom + n]
    BY <1>2 DEF Fetch
  <2>2. Now - readFrom \in Nat /\ inbox' \in [1 .. Now - readFrom -> 1 .. Now]
    BY <1>1, <2>1
  <2> QED  BY <2>2, SeqDef
<1>3. CASE kind # "kafka"
  <2>1. PICK sidecars : inbox' \in MetricsOf(sidecars)
    BY <1>3 DEF Fetch
  <2>2. PICK S \in SUBSET (1 .. Now) : inbox' \in SetToSeqs(S)
    BY <2>1 DEF MetricsOf
  <2>3. IsFiniteSet(S)
    <3>1. IsFiniteSet(1 .. Now)
      BY <1>1, FS_Interval
    <3> QED  BY <3>1, FS_Subset
  <2>4. inbox' \in Seq(S)
    BY <2>2, <2>3, InOrder
  <2> QED  BY <2>4, SeqMono
<1> QED  BY <1>2, <1>3

\* The watchers' part of the invariant, when neither requests nor notes are new.
LEMMA NotesStay ==
  ASSUME WatchOK, NotesReachMapper, trail' = trail, noticed' = noticed, log' = log,
         kind' = kind, noted' = noted, sending' = sending, missed \subseteq missed',
         inbox' \in Seq(1 .. Now), readFrom' \in 0 .. Now
  PROVE  WatchOK' /\ NotesReachMapper'
<1>1. WatchOK'
  <2>1. Now' = Now
    BY DEF Now
  <2>2. NoteOK(noted', Now) /\ NoteOK(sending', Now)
    BY DEF WatchOK
  <2> QED  BY <2>1, <2>2 DEF WatchOK, NoteOK
<1>2. NotesReachMapper'
  BY NotesReach, NotesReachNext DEF Logged
<1> QED  BY <1>1, <1>2

LEMMA RequestKeeps ==
  ASSUME WatchersInv, NEW k \in Keys, Request(k)
  PROVE  WatchersInv'
<1>1. /\ WatchOK /\ NotesReachMapper /\ QueuesInv
      /\ Now \in Nat /\ trail \in Seq(Keys) /\ DOMAIN trail = 1 .. Now
  BY NowType DEF WatchersInv, WatchOK
<1>2. /\ trail' = Append(trail, k) /\ UNCHANGED vars /\ log' = log
      /\ kind' = kind /\ readFrom' = readFrom /\ noticed' = noticed
      /\ noted' = noted /\ sending' = sending /\ missed' = missed
  BY DEF Request, vars
<1>3. /\ trail' \in Seq(Keys) /\ Now' = Now + 1 /\ 1 .. Now \subseteq 1 .. Now'
      /\ \A i \in 1 .. Now : trail'[i] = trail[i]
  BY <1>1, <1>2, AppendProperties DEF Now
<1>4. WatchOK'
  <2>1. /\ inbox' \in Seq(1 .. Now') /\ readFrom' \in 0 .. Now' /\ noticed' \subseteq 1 .. Now'
    <3>1. inbox \in Seq(1 .. Now')
      BY <1>1, <1>3, SeqMono DEF WatchOK
    <3>2. inbox' = inbox \/ inbox' = Append(inbox, Now')
      BY <1>3 DEF Request, LoggedWhileFetching
    <3>3. Now' \in 1 .. Now'
      BY <1>1, <1>3
    <3>4. inbox' \in Seq(1 .. Now')
      BY <3>1, <3>2, <3>3, AppendProperties
    <3> QED  BY <1>1, <1>2, <1>3, <3>4 DEF WatchOK
  <2>2. NoteOK(noted', Now') /\ NoteOK(sending', Now')
    BY <1>1, <1>2, <1>3 DEF WatchOK, NoteOK
  <2> QED  BY <1>3, <2>1, <2>2 DEF WatchOK, NoteOK
<1>5. NotesReachMapper'
  <2>1. \A i \in noticed : trail'[i] = trail[i]
    BY <1>1, <1>3 DEF WatchOK
  <2> QED  BY <1>1, <1>2, <2>1, NotesReach, NotesReachNext DEF Logged
<1> QED  BY <1>1, <1>2, <1>4, <1>5, QueuesKept DEF WatchersInv

LEMMA SidecarEndsKeeps ==
  ASSUME WatchersInv, SidecarEnds
  PROVE  WatchersInv'
<1>1. WatchOK /\ NotesReachMapper /\ QueuesInv
  BY DEF WatchersInv
<1>2. /\ UNCHANGED vars /\ log' = log /\ kind' = kind /\ trail' = trail /\ inbox' = inbox
      /\ readFrom' = readFrom /\ noticed' = noticed /\ noted' = noted /\ sending' = sending
      /\ missed' = missed
  BY DEF SidecarEnds, watchVars, vars
<1> QED  BY <1>1, <1>2, QueuesKept, NotesStay DEF WatchersInv, WatchOK

LEMMA WatchKeeps ==
  ASSUME WatchersInv, Watch
  PROVE  WatchersInv'
<1>1. /\ WatchOK /\ NotesReachMapper /\ QueuesInv /\ Now \in Nat
      /\ inbox \in Seq(1 .. Now) /\ readFrom \in 0 .. Now
  BY NowType DEF WatchersInv, WatchOK
<1>2. UNCHANGED vars /\ trail' = trail /\ log' = log /\ kind' = kind /\ Now' = Now
  BY DEF Watch, Follow, Fetch, Look, Fetched, FetchFails, EndFetch, Deadline, requestVars, vars, Now
<1>3. QueuesInv'
  BY <1>1, <1>2, QueuesKept
<1>4. ASSUME NEW i \in 1 .. Now, Note(i), inbox' \in Seq(1 .. Now), readFrom' \in 0 .. Now
      PROVE  WatchOK' /\ NotesReachMapper'
  <2>1. /\ NotesReachMapper' /\ noticed' \subseteq 1 .. Now
        /\ NoteOK(noted', Now) /\ NoteOK(sending', Now)
    BY <1>1, <1>2, <1>4, NoteKeeps
  <2> QED  BY <1>1, <1>2, <1>4, <2>1 DEF WatchOK, NoteOK
<1>5. CASE Follow
  BY <1>1, <1>4, <1>5, <1>3 DEF Follow, WatchersInv
<1>6. CASE Fetch
  <2>1. inbox' \in Seq(1 .. Now)
    BY <1>1, <1>6, FetchKeeps
  <2> QED  BY <1>1, <1>2, <1>3, <1>6, <2>1, NotesStay DEF Fetch, WatchersInv
<1>7. CASE Look
  <2>1. inbox # <<>> /\ inbox' = Tail(inbox) /\ readFrom' = readFrom
    BY <1>7 DEF Look
  <2>2. Head(inbox) \in 1 .. Now /\ inbox' \in Seq(1 .. Now)
    BY <1>1, <2>1, HeadAndTail
  <2>3. CASE IsNew(Head(inbox))
    BY <1>1, <1>3, <1>4, <1>7, <2>1, <2>2, <2>3 DEF Look, WatchersInv
  <2>4. CASE ~IsNew(Head(inbox))
    BY <1>1, <1>2, <1>3, <1>7, <2>1, <2>2, <2>4, NotesStay DEF Look, WatchersInv
  <2> QED  BY <2>3, <2>4
<1>8. CASE Fetched \/ FetchFails
  <2>1. EndFetch
    BY <1>8 DEF Fetched, FetchFails
  <2>2. inbox' \in Seq(1 .. Now) /\ readFrom' \in 0 .. Now
    BY <1>1, <2>1, EmptySeq DEF EndFetch
  <2> QED  BY <1>1, <1>2, <1>3, <2>1, <2>2, NotesStay DEF EndFetch, WatchersInv
<1>9. CASE Deadline
  BY <1>1, <1>2, <1>3, <1>9, NotesStay DEF Deadline, watchVars, WatchersInv
<1> QED  BY <1>5, <1>6, <1>7, <1>8, <1>9 DEF Watch

\* The log was extended; notes and requests are what they were.
LEMMA NotesStayBeside ==
  ASSUME WatchOK, NotesReachMapper, UNCHANGED watcherVars, kind' = kind,
         Len(log) \in Nat, Len(log') \in Nat, Len(log) <= Len(log'), DOMAIN log = 1 .. Len(log),
         DOMAIN log' = 1 .. Len(log'), \A n \in Ids : log'[n] = log[n]
  PROVE  WatchOK' /\ NotesReachMapper'
<1>1. /\ trail' = trail /\ inbox' = inbox /\ readFrom' = readFrom /\ noticed' = noticed
      /\ noted' = noted /\ sending' = sending /\ missed' = missed
  BY DEF watcherVars, watchVars, requestVars
<1>2. WatchOK'
  BY <1>1 DEF WatchOK, NoteOK, Now
<1>3. NotesReachMapper'
  <2> SUFFICES ASSUME NEW i \in noticed \ missed
               PROVE  \/ HasNote(noted, trail[i], i) \/ HasNote(sending, trail[i], i)
                      \/ \E n \in DOMAIN log' : log'[n].key \in Alike(trail[i]) /\ log'[n].lastSeen >= i
    BY <1>1, NotesReachNext
  <2>1. \/ HasNote(noted, trail[i], i) \/ HasNote(sending, trail[i], i) \/ Logged(trail[i], i)
    BY NotesReach
  <2>2. Logged(trail[i], i) =>
          \E n \in DOMAIN log' : log'[n].key \in Alike(trail[i]) /\ log'[n].lastSeen >= i
    BY LoggedStays
  <2> QED  BY <2>1, <2>2
<1> QED  BY <1>2, <1>3

LEMMA EmptyNote ==
  ASSUME NEW now
  PROVE  NoteOK(EmptyMap, now)
BY FS_EmptySet DEF NoteOK, EmptyMap

\* A set of times has a latest one.
LEMMA LatestExists ==
  ASSUME NEW now \in Nat, NEW S \in SUBSET (0 .. now), S # {}
  PROVE  \E t \in S : \A u \in S : u <= t
<1> DEFINE T == {now - t : t \in S}
           R == OpToRel(<, Nat)
<1>1. T \in SUBSET Nat /\ T # {}
  <2>1. \A t \in S : now - t \in Nat
    OBVIOUS
  <2> QED  BY <2>1
<1>2. PICK x \in T : \A y \in T : ~ (<<y, x>> \in R)
  <2> HIDE DEF T, R
  <2> QED  BY <1>1, NatLessThanWellFounded, WFMin DEF R
<1>3. \A y \in T : ~ (y < x)
  BY <1>1, <1>2 DEF OpToRel
<1>4. PICK t \in S : x = now - t
  BY <1>2
<1>5. ASSUME NEW u \in S
      PROVE  u <= t
  <2>1. now - u \in T /\ ~ (now - u < now - t)
    BY <1>3, <1>4
  <2>2. u \in 0 .. now /\ t \in 0 .. now
    OBVIOUS
  <2> QED  BY <2>1, <2>2
<1> QED  BY <1>5

\* The time reported of a key is the latest of those that are alike.
LEMMA LatestIsLast ==
  ASSUME NEW now \in Nat, NEW map, NoteOK(map, now), NEW k \in DOMAIN map
  PROVE  /\ Latest(map, k) \in 0 .. now
         /\ \A j \in Alike(k) \cap DOMAIN map : map[j] <= Latest(map, k)
<1> DEFINE times == {map[j] : j \in Alike(k) \cap DOMAIN map}
<1>1. times \in SUBSET (0 .. now) /\ map[k] \in times
  BY DEF NoteOK, Alike
<1>2. Latest(map, k) = CHOOSE t \in times : \A u \in times : u <= t
  BY DEF Latest
<1>3. Latest(map, k) \in times /\ \A u \in times : u <= Latest(map, k)
  <2> HIDE DEF times
  <2>1. \E t \in times : \A u \in times : u <= t
    BY <1>1, LatestExists
  <2> QED  BY <1>2, <2>1
<1> QED  BY <1>1, <1>3

\* What a map of notes reports: of every note a result that is not earlier, under a key
\* that is alike.
LEMMA NotesAsResults ==
  ASSUME NEW now \in Nat, NEW map, NoteOK(map, now), NEW first \in Firsts(map)
  PROVE  /\ IsFiniteSet(AsResults(map, first)) /\ AsResults(map, first) \subseteq Reportable
         /\ \A k \in DOMAIN map : \E r \in AsResults(map, first) :
              r.key \in Alike(k) /\ r.lastSeen >= map[k]
<1> DEFINE f == [k \in first |-> [key |-> k, lastSeen |-> Latest(map, k), detail |-> NoDetail]]
<1>1. first \subseteq DOMAIN map /\ DOMAIN map \subseteq Keys /\ IsFiniteSet(first)
  BY FS_Subset DEF Firsts, NoteOK
<1>2. f \in Surjection(first, AsResults(map, first))
  BY DEF AsResults, Surjection
<1>3. IsFiniteSet(AsResults(map, first))
  BY <1>1, <1>2, FS_Surjection
<1>4. \A k \in first : k \in Keys /\ Latest(map, k) \in Nat
  BY <1>1, LatestIsLast
<1>5. AsResults(map, first) \subseteq Reportable
  BY <1>4 DEF AsResults, Reportable
<1>6. ASSUME NEW k \in DOMAIN map
      PROVE  \E r \in AsResults(map, first) : r.key \in Alike(k) /\ r.lastSeen >= map[k]
  <2>1. PICK g \in first : k \in Alike(g)
    BY DEF Firsts
  <2>2. g \in Alike(k) /\ map[k] <= Latest(map, g) /\ map[k] \in Nat /\ Latest(map, g) \in Nat
    BY <1>1, <1>4, <2>1, LatestIsLast DEF Alike, NoteOK
  <2> DEFINE r == [key |-> g, lastSeen |-> Latest(map, g), detail |-> NoDetail]
  <2>3. r \in AsResults(map, first)
    BY DEF AsResults
  <2>4. r.key \in Alike(k) /\ r.lastSeen >= map[k]
    BY <2>2
  <2> QED  BY <2>3, <2>4
<1> QED  BY <1>3, <1>5, <1>6

\* A report has every note of its map, maybe under a key that is alike, with the time
\* noted or a later one.
LEMMA DeliveredKeeps ==
  ASSUME WatchersInv, kind \in WatchedKinds, Delivered
  PROVE  WatchersInv'
<1>1. /\ WatchOK /\ NotesReachMapper /\ QueuesInv /\ LogOK /\ Now \in Nat
      /\ NoteOK(sending, Now)
  BY NowType DEF WatchersInv, WatchOK, QueuesInv, HolderInv
<1>2. PICK first \in Firsts(sending) :
        \E rep \in SetToSeqs(AsResults(sending, first)) : Report(rep)
  BY DEF Delivered, ReportSending
<1> DEFINE results == AsResults(sending, first)
<1>3. PICK rep \in SetToSeqs(results) : Report(rep)
  BY <1>2
<1>4. /\ IsFiniteSet(results) /\ results \subseteq Reportable
      /\ \A k \in DOMAIN sending : \E r \in results :
           r.key \in Alike(k) /\ r.lastSeen >= sending[k]
  BY <1>1, NotesAsResults
<1> HIDE DEF results
<1>5. rep \in Seq(results) /\ \A r \in results : \E n \in DOMAIN rep : rep[n] = r
  BY <1>4, InOrder
<1>6. rep \in Seq(Reportable)
  BY <1>4, <1>5, SeqMono
<1>7. QueuesInv'
  BY <1>1, <1>3, <1>6, ReportKeeps
<1>8. /\ LogOK' /\ Len(log) \in Nat /\ Len(rep) \in Nat /\ Len(log') = Len(log) + Len(rep)
      /\ \A n \in Ids : log'[n] = log[n]
  BY <1>1, <1>3, <1>6, LogGrows
<1>9. /\ DOMAIN log = 1 .. Len(log) /\ DOMAIN log' = 1 .. Len(log') /\ DOMAIN rep = 1 .. Len(rep)
      /\ Len(log') \in Nat /\ Len(log) <= Len(log')
      /\ \A n \in DOMAIN rep : Len(log) + n \in DOMAIN log' /\ log'[Len(log) + n] = rep[n]
  <2>1. log' = log \o rep /\ log \in Seq(Reportable) /\ log' \in Seq(Reportable)
    BY <1>1, <1>3, <1>8 DEF Report, LogOK, Reportable
  <2>2. DOMAIN log = 1 .. Len(log) /\ DOMAIN log' = 1 .. Len(log') /\ DOMAIN rep = 1 .. Len(rep)
    BY <1>6, <2>1, LenProperties
  <2>3. \A n \in 1 .. Len(rep) : log'[Len(log) + n] = rep[n]
    BY <1>6, <1>8, <2>1, ConcatProperties
  <2> QED  BY <1>8, <2>2, <2>3
<1>10. /\ kind' = kind /\ trail' = trail /\ inbox' = inbox /\ readFrom' = readFrom /\ noticed' = noticed
      /\ noted' = noted /\ sending' = EmptyMap /\ missed' = missed
  BY <1>3 DEF Delivered, Report, watchVars, requestVars
<1>11. WatchOK'
  <2>1. Now' = Now
    BY <1>10 DEF Now
  <2>2. NoteOK(noted', Now) /\ NoteOK(sending', Now)
    BY <1>1, <1>10, EmptyNote DEF WatchOK
  <2> QED  BY <1>1, <1>10, <2>1, <2>2 DEF WatchOK, NoteOK
<1>12. NotesReachMapper'
  <2> SUFFICES ASSUME NEW i \in noticed \ missed
               PROVE  \/ HasNote(noted, trail[i], i)
                      \/ \E n \in DOMAIN log' : log'[n].key \in Alike(trail[i]) /\ log'[n].lastSeen >= i
    BY <1>10, NotesReachNext
  <2>1. \/ HasNote(noted, trail[i], i) \/ HasNote(sending, trail[i], i) \/ Logged(trail[i], i)
    BY <1>1, NotesReach
  <2>2. CASE Logged(trail[i], i)
    <3>1. \E n \in DOMAIN log' : log'[n].key \in Alike(trail[i]) /\ log'[n].lastSeen >= i
      BY <1>8, <1>9, <2>2, LoggedStays
    <3> QED  BY <3>1
  <2>3. CASE HasNote(sending, trail[i], i)
    <3>1. PICK r \in results : r.key \in Alike(trail[i]) /\ r.lastSeen >= sending[trail[i]]
      BY <1>4, <2>3 DEF HasNote
    <3>2. r.lastSeen >= i
      <4>1. r.lastSeen \in Nat /\ sending[trail[i]] \in 0 .. Now /\ i \in 1 .. Now
        BY <1>1, <1>4, <2>3, HoldersAssumption DEF Reportable, HasNote, NoteOK, WatchOK
      <4> QED  BY <2>3, <3>1, <4>1 DEF HasNote
    <3>3. PICK n \in DOMAIN rep : rep[n] = r
      BY <1>5, <3>1
    <3>4. Len(log) + n \in DOMAIN log' /\ log'[Len(log) + n] = r
      BY <1>9, <3>3
    <3> QED  BY <3>1, <3>2, <3>4
  <2> QED  BY <2>1, <2>2, <2>3
<1> QED  BY <1>7, <1>11, <1>12 DEF WatchersInv

LEMMA ReportNotedKeeps ==
  ASSUME WatchersInv, kind \in WatchedKinds, ReportNoted
  PROVE  WatchersInv'
<1>1. WatchOK /\ NotesReachMapper /\ QueuesInv
  BY DEF WatchersInv
<1>2. CASE Flush
  <2>1. /\ UNCHANGED vars /\ log' = log /\ kind' = kind /\ trail' = trail /\ inbox' = inbox
        /\ readFrom' = readFrom /\ noticed' = noticed /\ missed' = missed
        /\ sending = EmptyMap /\ sending' = noted /\ noted' = EmptyMap
    BY <1>2 DEF Flush, watchVars, requestVars, vars
  <2>2. WatchOK'
    <3>1. Now' = Now
      BY <2>1 DEF Now
    <3>2. NoteOK(noted', Now) /\ NoteOK(sending', Now)
      BY <1>1, <2>1, EmptyNote DEF WatchOK
    <3> QED  BY <1>1, <2>1, <3>1, <3>2 DEF WatchOK, NoteOK
  <2>3. \A k, i : ~HasNote(EmptyMap, k, i)
    BY DEF HasNote, EmptyMap
  <2>4. NotesReachMapper'
    BY <1>1, <2>1, <2>3, NotesReach, NotesReachNext DEF Logged
  <2> QED  BY <1>1, <2>1, <2>2, <2>4, QueuesKept DEF WatchersInv
<1>3. CASE Delivered
  BY <1>3, DeliveredKeeps
<1>4. CASE NotDelivered
  <2>1. /\ UNCHANGED vars /\ log' = log /\ kind' = kind /\ trail' = trail /\ inbox' = inbox
        /\ readFrom' = readFrom /\ noticed' = noticed /\ noted' = noted
        /\ missed' = missed \cup NotedOf(sending) /\ sending' = EmptyMap
    BY <1>4 DEF NotDelivered, watchVars, requestVars, vars
  <2>2. WatchOK'
    <3>1. Now' = Now
      BY <2>1 DEF Now
    <3>2. NoteOK(noted', Now) /\ NoteOK(sending', Now)
      BY <1>1, <2>1, EmptyNote DEF WatchOK
    <3> QED  BY <1>1, <2>1, <3>1, <3>2 DEF WatchOK, NoteOK
  <2>3. \A i \in noticed : HasNote(sending, trail[i], i) => i \in NotedOf(sending)
    BY DEF HasNote, NotedOf
  <2>4. NotesReachMapper'
    BY <1>1, <2>1, <2>3, NotesReach, NotesReachNext DEF Logged
  <2> QED  BY <1>1, <2>1, <2>2, <2>4, QueuesKept DEF WatchersInv
<1> QED  BY <1>2, <1>3, <1>4 DEF ReportNoted

LEMMA RestartMapperKeeps ==
  ASSUME WatchersInv, RestartMapper
  PROVE  WatchersInv'
<1>1. WatchOK /\ NotesReachMapper /\ QueuesInv /\ Restart
  BY DEF WatchersInv, RestartMapper
<1>2. /\ QueuesInv' /\ log' = log /\ kind' = kind /\ trail' = trail /\ readFrom' = readFrom
      /\ noticed' = noticed
  BY <1>1, RestartKeeps DEF Restart, RestartMapper, requestVars
<1>3. CASE kind = "istio"
  <2>1. /\ inbox' = <<>> /\ noted' = EmptyMap /\ sending' = EmptyMap
        /\ missed' = missed \cup NotedOf(noted) \cup NotedOf(sending)
    BY <1>3 DEF RestartMapper
  <2>2. WatchOK'
    <3>1. Now' = Now
      BY <1>2 DEF Now
    <3>2. NoteOK(noted', Now) /\ NoteOK(sending', Now)
      BY <2>1, EmptyNote
    <3> QED  BY <1>1, <1>2, <2>1, <3>1, <3>2, EmptySeq DEF WatchOK, NoteOK
  <2>3. \A i \in noticed : /\ HasNote(sending, trail[i], i) => i \in NotedOf(sending)
                           /\ HasNote(noted, trail[i], i) => i \in NotedOf(noted)
    BY DEF HasNote, NotedOf
  <2>4. NotesReachMapper'
    BY <1>1, <1>2, <2>1, <2>3, NotesReach, NotesReachNext DEF Logged
  <2> QED  BY <1>2, <2>2, <2>4 DEF WatchersInv
<1>4. CASE kind # "istio"
  <2>1. /\ inbox' = inbox /\ noted' = noted /\ sending' = sending /\ missed' = missed
        /\ inbox' \in Seq(1 .. Now) /\ readFrom' \in 0 .. Now
    BY <1>1, <1>2, <1>4 DEF RestartMapper, WatchOK
  <2> QED  BY <1>1, <1>2, <2>1, NotesStay DEF WatchersInv
<1> QED  BY <1>3, <1>4

\* The mapper's other steps.
LEMMA MapperKeeps ==
  ASSUME WatchersInv, Reported \/ HandleStep \/ Upload \/ Cancel, UNCHANGED watcherVars
  PROVE  WatchersInv'
<1>1. WatchOK /\ NotesReachMapper /\ QueuesInv /\ LogOK
  BY DEF WatchersInv, QueuesInv, HolderInv
<1>2. CASE Reported
  <2>1. PICK rep \in Reports : kind \notin WatchedKinds /\ Report(rep)
    BY <1>2 DEF Reported
  <2>2. rep \in Seq(Results) /\ rep \in Seq(Reportable)
    <3>1. Results \subseteq Reportable
      BY DEF Reportable
    <3> QED  BY <3>1, QueuesAssumption, SeqMono
  <2>3. QueuesInv'
    BY <1>1, <2>1, <2>2, ReportKeeps
  <2>4. /\ LogOK' /\ Len(log) \in Nat /\ Len(rep) \in Nat /\ Len(log') = Len(log) + Len(rep)
        /\ \A n \in Ids : log'[n] = log[n]
    BY <1>1, <2>1, <2>2, LogGrows
  <2>5. DOMAIN log = 1 .. Len(log) /\ DOMAIN log' = 1 .. Len(log')
    BY <1>1, <2>4, LenProperties DEF LogOK
  <2>6. WatchOK' /\ NotesReachMapper'
    <3>1. kind' = kind
      BY <2>1 DEF Report
    <3> QED  BY <1>1, <2>4, <2>5, <3>1, NotesStayBeside
  <2> QED  BY <2>3, <2>6 DEF WatchersInv
<1>3. CASE HandleStep \/ Upload \/ Cancel
  <2>1. QueuesInv'
    BY <1>1, <1>3, HandleKeeps, UploadKeeps, CancelKeeps
  <2>2. log' = log /\ kind' = kind
    BY <1>3 DEF HandleStep, TakeReport, SkipResult, FailReport, RecordResult, StopHandler,
                Upload, Cancel
  <2>3. /\ trail' = trail /\ inbox' = inbox /\ readFrom' = readFrom /\ noticed' = noticed
        /\ noted' = noted /\ sending' = sending /\ missed' = missed
    BY DEF watcherVars, watchVars, requestVars
  <2>4. WatchOK' /\ NotesReachMapper'
    BY <1>1, <2>2, <2>3, NotesStay DEF WatchOK
  <2> QED  BY <2>1, <2>4 DEF WatchersInv
<1> QED  BY <1>2, <1>3

LEMMA WatchersInitial ==
  WatchersInit => WatchersInv
<1> SUFFICES ASSUME WatchersInit
             PROVE  WatchersInv
  OBVIOUS
<1>1. /\ kind \in TrafficKinds \cup WatchedKinds \cup {"operation"} /\ log = <<>>
      /\ entries = EmptyMap /\ current = EmptyMap /\ previous = EmptyMap
      /\ windows = [last |-> {}, this |-> {}]
      /\ unsent = {} /\ chunk = {} /\ retries = 0 /\ looping = TRUE /\ cancelled = FALSE
      /\ cloud = {} /\ lost = {}
  BY DEF WatchersInit, QueuesInit, HolderInit
<1>2. /\ queue = <<>> /\ handling = <<>> /\ handler = TRUE /\ handed = {} /\ gone = EmptyMap
      /\ trail = <<>> /\ inbox = <<>> /\ readFrom = 0
      /\ noted = EmptyMap /\ sending = EmptyMap /\ noticed = {}
  BY DEF WatchersInit, QueuesInit
<1>3. Len(log) = 0 /\ Ids = {} /\ Now = 0
  BY <1>1, <1>2, EmptySeq DEF Ids, Now
<1>4. HolderInv
  <2>1. LogOK
    BY <1>1, <1>3, EmptySeq, QueuesAssumption DEF LogOK
  <2>2. EntriesOK
    BY <1>1 DEF EntriesOK, EmptyMap
  <2>3. CountersOK(current, windows.this) /\ CountersOK(previous, windows.last)
    BY <1>1 DEF CountersOK, EmptyMap
  <2>4. WindowsOK
    BY <1>1, <2>2, <2>3 DEF WindowsOK
  <2>5. UploadOK
    <3>1. 0 \in 0 .. MaxRetries
      BY HoldersAssumption
    <3> QED  BY <1>1, <3>1 DEF UploadOK
  <2>6. Intents = {}
    BY <1>1 DEF Intents, EmptyMap
  <2> QED  BY <1>1, <2>1, <2>4, <2>5, <2>6 DEF HolderInv
<1>5. QueueOK
  <2>1. Separate(<<>>) /\ Distinct(<<>>)
    BY DEF Separate, Distinct
  <2> QED  BY <1>2, <2>1, EmptySeq, QueuesAssumption DEF QueueOK, EmptyMap
<1>6. OnePlace
  BY <1>1, <1>2, <1>3 DEF OnePlace, Partition, InQueue, ToSet, InHolder, Uploaded, InFlight,
                         AtCloud, GivenUp, EmptyMap
<1>7. OneIntent
  BY <1>1 DEF OneIntent, Taken, InFlight
<1>8. WatchOK
  BY <1>2, <1>3, EmptySeq, EmptyNote DEF WatchOK
<1>9. NotesReachMapper
  BY <1>2 DEF NotesReachMapper
<1> QED  BY <1>4, <1>5, <1>6, <1>7, <1>8, <1>9 DEF WatchersInv, QueuesInv

LEMMA WatchersStep ==
  WatchersInv /\ [WatchersNext]_allVars => WatchersInv'
<1> SUFFICES ASSUME WatchersInv, [WatchersNext]_allVars
             PROVE  WatchersInv'
  OBVIOUS
<1>1. ASSUME NEW k \in Keys \ ExcludedKeys, Request(k)
      PROVE  WatchersInv'
  BY <1>1, RequestKeeps
<1>2. CASE SidecarEnds
  BY <1>2, SidecarEndsKeeps
<1>3. CASE kind \in WatchedKinds /\ (Watch \/ ReportNoted)
  BY <1>3, WatchKeeps, ReportNotedKeeps
<1>4. CASE (Reported \/ HandleStep \/ Upload \/ Cancel) /\ UNCHANGED watcherVars
  BY <1>4, MapperKeeps
<1>5. CASE RestartMapper
  BY <1>5, RestartMapperKeeps
<1>6. CASE UNCHANGED allVars
  <2>1. WatchOK /\ NotesReachMapper /\ QueuesInv
    BY DEF WatchersInv
  <2>2. UNCHANGED vars /\ UNCHANGED watcherVars
    BY <1>6 DEF allVars
  <2>3. /\ log' = log /\ kind' = kind /\ trail' = trail /\ inbox' = inbox
        /\ readFrom' = readFrom /\ noticed' = noticed /\ noted' = noted
        /\ sending' = sending /\ missed' = missed
    BY <2>2 DEF vars, watcherVars, watchVars, requestVars
  <2> QED  BY <2>1, <2>2, <2>3, QueuesKept, NotesStay DEF WatchersInv, WatchOK
<1> QED  BY <1>1, <1>2, <1>3, <1>4, <1>5, <1>6 DEF WatchersNext

\* The invariant holds of every step of watchers, queues and holder.
LEMMA WatchersInvariant ==
  WatchersSpec => []WatchersInv
BY WatchersInitial, WatchersStep, PTL DEF WatchersSpec

-----------------------------------------------------------------------------
(* What the invariant says.                                                *)

LEMMA InvGivesTypes ==
  ASSUME WatchersInv
  PROVE  QueuesTypeOK
<1>1. /\ HolderInv /\ LogOK /\ UploadOK /\ EntriesOK /\ CountersOK(current, windows.this)
      /\ QueueOK /\ Len(log) \in Nat /\ windows.this \in SUBSET Ids
  BY LenProperties DEF WatchersInv, QueuesInv, HolderInv, WindowsOK, LogOK
<1>2. ASSUME NEW S \in SUBSET Ids, kind \in TrafficKinds
      PROVE  CounterOf(S) \in Counter /\ HasCount(CounterOf(S))
  <2>1. DetailsOf(S) \in SUBSET Ports
    BY <1>1, <1>2, HoldersAssumption DEF LogOK, DetailsOf, TrafficKinds, WatchedKinds
  <2>2. Cardinality(S) \in Nat
    BY <1>1, SubsetsFinite
  <2> QED  BY <2>1, <2>2 DEF CounterOf, Counter, HasCount
<1>3. DOMAIN current = IF kind \in TrafficKinds THEN DOMAIN entries ELSE {}
  <2>1. {log[i].key : i \in windows.this} = DOMAIN entries
    <3>1. ASSUME NEW k \in DOMAIN entries
          PROVE  \E i \in windows.this : log[i].key = k
      BY <1>1 DEF EntriesOK, OfKey
    <3>2. \A i \in windows.this : log[i].key \in DOMAIN entries
      BY <1>1 DEF EntriesOK
    <3> QED  BY <3>1, <3>2
  <2> QED  BY <1>1, <2>1 DEF CountersOK
<1>4. \A k \in DOMAIN current : current[k] \in Counter /\ HasCount(current[k])
  <2> SUFFICES ASSUME NEW k \in DOMAIN current
               PROVE  current[k] \in Counter /\ HasCount(current[k])
    OBVIOUS
  <2>1. kind \in TrafficKinds /\ current[k] = CounterOf(OfKey(windows.this, k))
    BY <1>1, <1>3 DEF CountersOK
  <2>2. OfKey(windows.this, k) \in SUBSET Ids
    BY <1>1 DEF OfKey
  <2> QED  BY <1>2, <2>1, <2>2
<1>5. \A e \in Intents : e.key \in Keys /\ e.results \subseteq 1 .. Len(log)
  BY <1>1 DEF Intents, UploadOK, EntriesOK, IntentRecord, Ids
<1>6. HolderTypeOK
  BY <1>1, <1>3, <1>4, <1>5 DEF HolderTypeOK, UploadOK, EntriesOK
<1> QED  BY <1>1, <1>6 DEF QueuesTypeOK, HolderInv, LogOK, QueueOK

(* The holder, the queue and the loops keep their types, for every size of *)
(* the queue, every report and every kind of results (resolver.go,         *)
(* externaltrafficholder.go and its like).                                 *)
THEOREM QueueTypesCorrect == WatchersSpec => []QueuesTypeOK
<1>1. WatchersInv => QueuesTypeOK
  BY InvGivesTypes
<1> QED  BY <1>1, WatchersInvariant, PTL

(* What is uploaded sums up its window: GetNewIntentsSinceLastGet takes    *)
(* the map and the differ's counters together, in every order of results,  *)
(* uploads, retries and restarts.                                          *)
THEOREM UploadsAlwaysSummarise == WatchersSpec => []UploadsSummariseWindows
<1>1. WatchersInv => UploadsSummariseWindows
  BY DEF WatchersInv, QueuesInv, HolderInv, Summarises, LatestOf, UploadsSummariseWindows
<1> QED  BY <1>1, WatchersInvariant, PTL

(* What a watcher noted is never behind: Flush exchanges the map, and a    *)
(* report has all of it, each connection under its own names, whichever of *)
(* those that differ in namespaces only came first, or its loss is known.  *)
THEOREM NotesAlwaysReach == WatchersSpec => []NotesReachMapper
<1>1. WatchersInv => NotesReachMapper
  BY DEF WatchersInv
<1> QED  BY <1>1, WatchersInvariant, PTL

\* The places that have a result, each with its name.
PlacesOf(i, queued, handled, held, uploaded, given, away) ==
  {place \in {<<"queue", queued>>, <<"handling", handled>>, <<"holder", held>>,
              <<"upload", uploaded>>, <<"handed", given>>, <<"gone", away>>} : i \in place[2]}

\* An element of one of six sets that share nothing is in one of them.
LEMMA InOnePlace ==
  ASSUME NEW queued, NEW handled, NEW held, NEW uploaded, NEW given, NEW away, NEW all,
         Partition(queued, handled, held, uploaded, given, away, all), NEW i \in all
  PROVE  Cardinality(PlacesOf(i, queued, handled, held, uploaded, given, away)) = 1
<1> DEFINE P == PlacesOf(i, queued, handled, held, uploaded, given, away)
<1>1. \E place : P = {place}
  <2>1. CASE i \in queued
    <3>1. P = {<<"queue", queued>>}
      BY <2>1 DEF Partition, PlacesOf
    <3> QED  BY <3>1
  <2>2. CASE i \in handled
    <3>1. P = {<<"handling", handled>>}
      BY <2>2 DEF Partition, PlacesOf
    <3> QED  BY <3>1
  <2>3. CASE i \in held
    <3>1. P = {<<"holder", held>>}
      BY <2>3 DEF Partition, PlacesOf
    <3> QED  BY <3>1
  <2>4. CASE i \in uploaded
    <3>1. P = {<<"upload", uploaded>>}
      BY <2>4 DEF Partition, PlacesOf
    <3> QED  BY <3>1
  <2>5. CASE i \in given
    <3>1. P = {<<"handed", given>>}
      BY <2>5 DEF Partition, PlacesOf
    <3> QED  BY <3>1
  <2>6. CASE i \in away
    <3>1. P = {<<"gone", away>>}
      BY <2>6 DEF Partition, PlacesOf
    <3> QED  BY <3>1
  <2> QED  BY <2>1, <2>2, <2>3, <2>4, <2>5, <2>6 DEF Partition
<1> HIDE DEF P
<1>2. Cardinality(P) = 1
  BY <1>1, FS_Singleton
<1> QED  BY <1>2 DEF P

\* No two intents have a result in common.
LEMMA InOneIntent ==
  ASSUME WatchersInv, NEW e \in Intents, NEW f \in Intents, e.results \cap f.results # {}
  PROVE  e = f
<1>1. EntriesOK /\ OneIntent /\ OnePlace
  BY DEF WatchersInv, QueuesInv, HolderInv, WindowsOK
<1>2. Intents = {entries[k] : k \in DOMAIN entries} \cup Taken
  BY DEF Intents, Taken
<1>3. ASSUME NEW k \in DOMAIN entries, NEW g \in Taken
      PROVE  entries[k].results \cap g.results = {}
  <2>1. entries[k].results \subseteq InHolder
    BY DEF InHolder
  <2>2. g.results \subseteq Uploaded
    BY UploadedAreTaken
  <2> QED  BY <1>1, <2>1, <2>2 DEF OnePlace, Partition
<1>4. ASSUME NEW k \in DOMAIN entries, NEW j \in DOMAIN entries,
             entries[k].results \cap entries[j].results # {}
      PROVE  entries[k] = entries[j]
  BY <1>1, <1>4 DEF EntriesOK, OfKey
<1>5. CASE e \in Taken /\ f \in Taken
  BY <1>1, <1>5 DEF OneIntent
<1>6. CASE e \notin Taken
  <2>1. PICK k \in DOMAIN entries : e = entries[k]
    BY <1>2, <1>6
  <2>2. f \notin Taken
    BY <1>3, <2>1
  <2>3. PICK j \in DOMAIN entries : f = entries[j]
    BY <1>2, <2>2
  <2> QED  BY <1>4, <2>1, <2>3
<1>7. CASE f \notin Taken
  <2>1. PICK k \in DOMAIN entries : f = entries[k]
    BY <1>2, <1>7
  <2>2. e \notin Taken
    BY <1>3, <2>1
  <2>3. PICK j \in DOMAIN entries : e = entries[j]
    BY <1>2, <2>2
  <2> QED  BY <1>4, <2>1, <2>3
<1> QED  BY <1>5, <1>6, <1>7

(* Every result is in one place or left for a known cause, and in at most  *)
(* one intent: the channel, runHandleLoop, the holders and the upload loop *)
(* neither lose one silently nor count it again.                           *)
THEOREM ResultsAlwaysAccounted == WatchersSpec => []EveryResultAccounted
<1>1. ASSUME WatchersInv, NEW i \in 1 .. Len(log)
      PROVE  Cardinality({place \in {<<"queue", InQueue>>, <<"handling", ToSet(handling)>>,
                       <<"holder", InHolder>>, <<"upload", InFlight \cup AtCloud \cup GivenUp>>,
                       <<"handed", handed>>, <<"gone", DOMAIN gone \ AtCloud>>} :
                     i \in place[2]}) = 1
  <2>1. Partition(InQueue, ToSet(handling), InHolder, InFlight \cup AtCloud \cup GivenUp, handed,
                  DOMAIN gone \ AtCloud, 1 .. Len(log))
    BY <1>1 DEF WatchersInv, QueuesInv, OnePlace, Uploaded, Ids
  <2>2. Cardinality(PlacesOf(i, InQueue, ToSet(handling), InHolder, InFlight \cup AtCloud \cup GivenUp,
                             handed, DOMAIN gone \ AtCloud)) = 1
    BY <2>1, InOnePlace
  <2> QED  BY <2>2 DEF PlacesOf
<1>2. ASSUME WatchersInv, NEW i \in 1 .. Len(log)
      PROVE  Cardinality({e \in Intents : i \in e.results}) <= 1
  <2> DEFINE E == {e \in Intents : i \in e.results}
  <2>1. \A e, f \in E : e = f
    BY <1>2, InOneIntent
  <2>2. E = {} \/ \E e : E = {e}
    <3> HIDE DEF E
    <3>1. ASSUME NEW e \in E
          PROVE  E = {e}
      BY <2>1
    <3> QED  BY <3>1
  <2> HIDE DEF E
  <2>3. Cardinality(E) \in {0, 1}
    BY <2>2, FS_EmptySet, FS_Singleton
  <2>4. Cardinality(E) <= 1
    BY <2>3
  <2> QED  BY <2>4 DEF E
<1>3. WatchersInv => EveryResultAccounted
  BY <1>1, <1>2 DEF EveryResultAccounted
<1> QED  BY <1>3, WatchersInvariant, PTL
===============================================================================
