-------------------------- MODULE IntentsStore_proofs --------------------------
(***************************************************************************)
(* Theorems about the intents holder, for every set of keys, ports,        *)
(* reports and queries.                                                    *)
(***************************************************************************)
EXTENDS IntentsStore, FiniteSetTheorems, SequenceTheorems, TLAPS

-----------------------------------------------------------------------------
(* Counting.                                                               *)

LEMMA PortSets ==
  ASSUME NEW S \in SUBSET Ports
  PROVE  IsFiniteSet(S) /\ Cardinality(S) \in Nat
BY PortsAssumption, FS_Subset, FS_CardinalityType

LEMMA ConnectionCountType ==
  ASSUME NEW c \in Counter
  PROVE  ConnectionCount(c) \in Nat
<1>1. c.SourcePorts \in SUBSET Ports /\ c.DNSCounter \in Nat
  BY DEF Counter
<1>2. QED
  BY <1>1, PortSets DEF ConnectionCount

LEMMA AddConnectionType ==
  ASSUME NEW c \in Counter, NEW resolution \in Resolutions, NEW ports \in SUBSET Ports
  PROVE  AddConnection(c, resolution, ports) \in Counter
<1>1. /\ c.SourcePorts \in SUBSET Ports /\ c.DNSCounter + 1 \in Nat
      /\ c = [countMethod |-> c.countMethod, SourcePorts |-> c.SourcePorts,
              DNSCounter |-> c.DNSCounter]
  BY DEF Counter
<1>2. [c EXCEPT !.countMethod = "SourcePort", !.SourcePorts = @ \cup ports] \in Counter
  BY <1>1 DEF Counter
<1>3. [c EXCEPT !.countMethod = "DNS", !.DNSCounter = @ + 1] \in Counter
  BY <1>1 DEF Counter
<1>4. QED
  BY <1>2, <1>3 DEF AddConnection

LEMMA ConnectionCountDiffType ==
  ASSUME NEW c \in Counter, NEW other \in Counter
  PROVE  GetConnectionCountDiff(c, other) \in ConnectionsCount
<1> DEFINE added == c.SourcePorts \ other.SourcePorts
           removed == other.SourcePorts \ c.SourcePorts
<1>1. c.SourcePorts \in SUBSET Ports /\ added \in SUBSET Ports /\ removed \in SUBSET Ports
  BY DEF Counter
<1>2. /\ Cardinality(c.SourcePorts) \in Nat
      /\ Cardinality(added) \in Nat /\ Cardinality(removed) \in Nat
  BY <1>1, PortSets
<1>3. ConnectionCount(c) \in Nat /\ ConnectionCount(other) \in Nat
  BY ConnectionCountType
<1>4. QED
  BY <1>2, <1>3 DEF GetConnectionCountDiff, CountOf, NoCount, ConnectionsCount

\* What GetConnectionCountDiff reports is a change: of two counters that both
\* counted something, the count of the one is the count of the other with the
\* added connections and without the removed ones, whichever way each of them
\* counts.
THEOREM CountDiffBalances ==
  ASSUME NEW c \in Counter, NEW other \in Counter, HasCount(c), HasCount(other)
  PROVE  LET d == GetConnectionCountDiff(c, other)
         IN  /\ d.valid
             /\ d.Current = ConnectionCount(c)
             /\ d.Current + d.Removed = ConnectionCount(other) + d.Added
             /\ d.Added <= ConnectionCount(c)
             /\ d.Removed <= ConnectionCount(other)
<1> DEFINE S == c.SourcePorts
           T == other.SourcePorts
<1>1. S \in SUBSET Ports /\ T \in SUBSET Ports
  BY DEF Counter
<1>2. IsFiniteSet(S) /\ IsFiniteSet(T)
  BY <1>1, PortSets
<1>3. ConnectionCount(c) \in Nat /\ ConnectionCount(other) \in Nat
  BY ConnectionCountType
<1>4. CASE c.countMethod # other.countMethod \/ c.countMethod = "DNS"
  BY <1>3, <1>4 DEF GetConnectionCountDiff, CountOf, HasCount
<1>5. CASE c.countMethod = other.countMethod /\ c.countMethod # "DNS"
  <2>1. c.countMethod = "SourcePort" /\ other.countMethod = "SourcePort"
    BY <1>5 DEF HasCount, Counter
  <2>2. ConnectionCount(c) = Cardinality(S) /\ ConnectionCount(other) = Cardinality(T)
    BY <2>1 DEF ConnectionCount
  <2>3. /\ Cardinality(S \ T) = Cardinality(S) - Cardinality(S \cap T)
        /\ Cardinality(T \ S) = Cardinality(T) - Cardinality(T \cap S)
    BY <1>2, FS_Difference
  <2>4. S \cap T = T \cap S
    OBVIOUS
  <2>5. /\ Cardinality(S \cap T) \in Nat
        /\ Cardinality(S \ T) \in Nat /\ Cardinality(T \ S) \in Nat
    BY <1>1, PortSets
  <2>6. GetConnectionCountDiff(c, other)
          = CountOf(Cardinality(S), Cardinality(S \ T), Cardinality(T \ S))
    BY <2>1 DEF GetConnectionCountDiff, HasCount
  <2>7. QED
    <3> DEFINE s == Cardinality(S)
               t == Cardinality(T)
               common == Cardinality(S \cap T)
               added == Cardinality(S \ T)
               removed == Cardinality(T \ S)
    <3>1. /\ s \in Nat /\ t \in Nat /\ added \in Nat /\ removed \in Nat
          /\ common \in Nat /\ added = s - common /\ removed = t - common
      BY <1>3, <2>2, <2>3, <2>4, <2>5
    <3> HIDE DEF s, t, common, added, removed
    <3>2. s + removed = t + added /\ added <= s /\ removed <= t
      BY <3>1
    <3> USE DEF s, t, added, removed
    <3>3. QED
      BY <3>2, <2>2, <2>6 DEF CountOf
<1>6. QED
  BY <1>4, <1>5

LEMMA GetDiffType ==
  ASSUME NEW current, IsCounterMap(current), NEW previous, IsCounterMap(previous), NEW key
  PROVE  GetDiff(current, previous, key) \in ConnectionsCount
<1>1. /\ key \in DOMAIN current => current[key] \in Counter
      /\ key \in DOMAIN previous => previous[key] \in Counter
  BY DEF IsCounterMap
<1>2. NoCount \in ConnectionsCount
  BY DEF NoCount, ConnectionsCount
<1>3. \A a, b, d \in Nat : CountOf(a, b, d) \in ConnectionsCount
  BY DEF CountOf, ConnectionsCount
<1>4. CASE key \in DOMAIN current /\ key \in DOMAIN previous
  BY <1>1, <1>4, ConnectionCountDiffType DEF GetDiff
<1>5. CASE key \in DOMAIN current /\ key \notin DOMAIN previous
  BY <1>1, <1>2, <1>3, <1>5, ConnectionCountType DEF GetDiff
<1>6. CASE key \notin DOMAIN current
  BY <1>1, <1>2, <1>3, <1>6, ConnectionCountType DEF GetDiff
<1>7. QED
  BY <1>4, <1>5, <1>6

-----------------------------------------------------------------------------
(* Maps and identities.                                                    *)

Identity == [labels: SUBSET Labels, fix: FixData]

LEMMA ReportType ==
  ASSUME NEW r \in Reports
  PROVE  /\ r \in Intent
         /\ r.key \in Keys /\ r.timestamp \in Nat /\ r.resources \in SUBSET Resources
         /\ r.labels \in SUBSET Labels /\ r.fix \in FixData
         /\ r.resolution \in Resolutions /\ r.ports \in SUBSET Ports
<1>1. r \in Intent
  BY StoreAssumption DEF ReportsAssumption
<1>2. QED
  BY <1>1 DEF Intent

LEMMA EmptyMapType == IsStore(EmptyMap) /\ IsCounterMap(EmptyMap)
BY DEF EmptyMap, IsStore, IsCounterMap

LEMMA PutValue ==
  ASSUME NEW m, NEW key, NEW value
  PROVE  /\ DOMAIN Put(m, key, value) = DOMAIN m \cup {key}
         /\ Put(m, key, value)[key] = value
         /\ \A k \in DOMAIN m : k # key => Put(m, key, value)[k] = m[k]
BY DEF Put

LEMMA PutInStore ==
  ASSUME NEW m, IsStore(m), NEW key \in Keys, NEW value \in TimestampedIntent
  PROVE  IsStore(Put(m, key, value))
BY DEF Put, IsStore

LEMMA PutInCounters ==
  ASSUME NEW m, IsCounterMap(m), NEW key \in Keys, NEW value \in Counter
  PROVE  IsCounterMap(Put(m, key, value))
BY DEF Put, IsCounterMap

LEMMA StoreEntryType ==
  ASSUME NEW store, IsStore(store), NEW k \in DOMAIN store
  PROVE  /\ store[k] \in TimestampedIntent
         /\ store[k].timestamp \in Nat /\ store[k].resources \in SUBSET Resources
         /\ store[k].obj \in Nat
BY DEF IsStore, TimestampedIntent

\* What a store maps after addIntentToStore.
Inserted(store, r, o, next) ==
  /\ DOMAIN next = DOMAIN store \cup {r.key}
  /\ \A k \in DOMAIN store : k # r.key => next[k] = store[k]
  /\ r.key \in DOMAIN store =>
       next[r.key] = [store[r.key] EXCEPT !.timestamp = Later(@, r.timestamp),
                                          !.resources = @ \cup r.resources]
  /\ r.key \notin DOMAIN store =>
       next[r.key] = [timestamp |-> r.timestamp, resources |-> r.resources, obj |-> o]

LEMMA addIntentToStoreValue ==
  ASSUME NEW store, NEW r, NEW o
  PROVE  Inserted(store, r, o, addIntentToStore(store, r, o))
<1> DEFINE next == addIntentToStore(store, r, o)
<1> DEFINE merged == [store[r.key] EXCEPT !.timestamp = Later(@, r.timestamp),
                                          !.resources = @ \cup r.resources]
           new == [timestamp |-> r.timestamp, resources |-> r.resources, obj |-> o]
<1>1. CASE r.key \in DOMAIN store
  <2>1. next = Put(store, r.key, merged)
    BY <1>1 DEF addIntentToStore
  <2> HIDE DEF merged
  <2>2. DOMAIN next = DOMAIN store \cup {r.key} /\ next[r.key] = merged
        /\ \A k \in DOMAIN store : k # r.key => next[k] = store[k]
    BY <2>1 DEF Put
  <2>3. QED
    BY <1>1, <2>2 DEF merged, Inserted
<1>2. CASE r.key \notin DOMAIN store
  <2>1. next = Put(store, r.key, new)
    BY <1>2 DEF addIntentToStore
  <2> HIDE DEF new
  <2>2. DOMAIN next = DOMAIN store \cup {r.key} /\ next[r.key] = new
        /\ \A k \in DOMAIN store : k # r.key => next[k] = store[k]
    BY <2>1 DEF Put
  <2>3. QED
    BY <1>2, <2>2 DEF new, Inserted
<1>3. QED
  BY <1>1, <1>2

LEMMA addIntentToStoreType ==
  ASSUME NEW store, IsStore(store), NEW r \in Reports, NEW o \in Nat
  PROVE  IsStore(addIntentToStore(store, r, o))
<1>1. /\ r.key \in Keys /\ r.timestamp \in Nat /\ r.resources \in SUBSET Resources
  BY ReportType
<1>2. CASE r.key \in DOMAIN store
  <2> DEFINE e == store[r.key]
             merged == [e EXCEPT !.timestamp = Later(@, r.timestamp),
                                 !.resources = @ \cup r.resources]
  <2>1. e \in TimestampedIntent
    BY <1>2, StoreEntryType
  <2>2. merged \in TimestampedIntent
    BY <1>1, <2>1 DEF TimestampedIntent, Later
  <2>3. addIntentToStore(store, r, o) = Put(store, r.key, merged)
    BY <1>2 DEF addIntentToStore
  <2> HIDE DEF merged
  <2>4. QED
    BY <1>1, <2>2, <2>3, PutInStore
<1>3. CASE r.key \notin DOMAIN store
  <2> DEFINE new == [timestamp |-> r.timestamp, resources |-> r.resources, obj |-> o]
  <2>1. new \in TimestampedIntent
    BY <1>1 DEF TimestampedIntent
  <2>2. addIntentToStore(store, r, o) = Put(store, r.key, new)
    BY <1>3 DEF addIntentToStore
  <2> HIDE DEF new
  <2>3. QED
    BY <1>1, <2>1, <2>2, PutInStore
<1>4. QED
  BY <1>2, <1>3

LEMMA addIntentToHeapType ==
  ASSUME NEW h \in Seq(Identity), NEW store, NEW r \in Reports
  PROVE  /\ addIntentToHeap(h, store, r) \in Seq(Identity)
         /\ Len(addIntentToHeap(h, store, r)) = Len(h)
<1> DEFINE o == store[r.key].obj
           e == [labels |-> r.labels, fix |-> mergeFix(h[o].fix, r.fix)]
<1>1. CASE r.key \notin DOMAIN store
  BY <1>1 DEF addIntentToHeap
<1>2. CASE r.key \in DOMAIN store /\ o \in 1..Len(h)
  <2>1. h[o] \in Identity
    BY <1>2, ElementOfSeq
  <2>2. e \in Identity
    BY <2>1, ReportType DEF Identity, mergeFix, FixData
  <2>3. addIntentToHeap(h, store, r) = [h EXCEPT ![o] = e]
    BY <1>2 DEF addIntentToHeap
  <2> HIDE DEF e, o
  <2>4. QED
    BY <1>2, <2>2, <2>3, ExceptSeq
<1>3. CASE r.key \in DOMAIN store /\ o \notin 1..Len(h)
  <2>1. addIntentToHeap(h, store, r) = [h EXCEPT ![o] = e]
    BY <1>3 DEF addIntentToHeap
  <2>2. h = [i \in 1..Len(h) |-> h[i]]
    BY LenProperties
  <2> HIDE DEF e, o
  <2>3. [h EXCEPT ![o] = e] = h
    BY <1>3, <2>2
  <2>4. QED
    BY <2>1, <2>3
<1>4. QED
  BY <1>1, <1>2, <1>3

LEMMA IncrementType ==
  ASSUME NEW counters, IsCounterMap(counters), NEW r \in Reports
  PROVE  IsCounterMap(Increment(counters, r))
<1> DEFINE c == IF r.key \in DOMAIN counters THEN counters[r.key] ELSE NewConnectionCounter
           added == AddConnection(c, r.resolution, r.ports)
<1>1. c \in Counter
  BY DEF IsCounterMap, Counter, NewConnectionCounter
<1>2. added \in Counter
  BY <1>1, AddConnectionType, ReportType
<1>3. Increment(counters, r) = Put(counters, r.key, added)
  BY DEF Increment
<1> HIDE DEF added
<1>4. QED
  BY <1>2, <1>3, PutInCounters, ReportType

LEMMA HandedOutType ==
  ASSUME NEW store, IsStore(store), NEW keys \in SUBSET DOMAIN store,
         IsCounterMap(currentCounters), IsCounterMap(previousCounters)
  PROVE  getIntentsFromStore(store, keys) \subseteq HandedOut
<1> SUFFICES ASSUME NEW k \in keys
             PROVE  [key |-> k, timestamp |-> store[k].timestamp,
                     resources |-> store[k].resources, obj |-> store[k].obj,
                     count |-> GetDiff(currentCounters, previousCounters, k)] \in HandedOut
  BY DEF getIntentsFromStore
<1>1. k \in Keys
  BY DEF IsStore
<1>2. GetDiff(currentCounters, previousCounters, k) \in ConnectionsCount
  BY GetDiffType
<1>3. QED
  BY <1>1, <1>2, StoreEntryType DEF HandedOut

-----------------------------------------------------------------------------
(* Type correctness.                                                       *)

LEMMA StoreInitType == StoreInit => StoreTypeOK
BY EmptyMapType DEF StoreInit, StoreTypeOK

LEMMA AddIntentType ==
  ASSUME StoreTypeOK, NEW r \in Reports, AddIntent(r)
  PROVE  StoreTypeOK'
<1> DEFINE o == Len(log) + 1
           inserted == Append(heap, [labels |-> r.labels, fix |-> r.fix])
           first == addIntentToHeap(inserted, accumulatingStore, r)
<1>1. log \in Seq(Reports) /\ heap \in Seq(Identity) /\ Len(heap) = Len(log)
  BY DEF StoreTypeOK, Identity
<1>2. o \in Nat
  BY <1>1, LenProperties
<1>3. log' \in Seq(Reports) /\ Len(log') = o
  BY <1>1 DEF AddIntent
<1>4. heap' \in Seq(Identity) /\ Len(heap') = o
  <2>1. [labels |-> r.labels, fix |-> r.fix] \in Identity
    BY ReportType DEF Identity
  <2>2. inserted \in Seq(Identity) /\ Len(inserted) = o
    BY <1>1, <2>1
  <2> HIDE DEF inserted
  <2>3. first \in Seq(Identity) /\ Len(first) = o
    BY <2>2, addIntentToHeapType
  <2> USE DEF inserted
  <2>4. heap' = addIntentToHeap(first, sinceLastGetStore, r)
    BY DEF AddIntent
  <2> HIDE DEF first
  <2>5. QED
    BY <2>3, <2>4, addIntentToHeapType
<1>5. IsStore(accumulatingStore') /\ IsStore(sinceLastGetStore')
  BY <1>2, addIntentToStoreType DEF AddIntent, StoreTypeOK
<1>6. IsCounterMap(currentCounters') /\ IsCounterMap(previousCounters')
  BY IncrementType DEF AddIntent, StoreTypeOK
<1>7. QED
  BY <1>3, <1>4, <1>5, <1>6 DEF StoreTypeOK, AddIntent, Identity

LEMMA UploadType ==
  ASSUME StoreTypeOK, GetNewIntentsSinceLastGet
  PROVE  StoreTypeOK'
<1>1. batch' \subseteq HandedOut
  BY HandedOutType DEF StoreTypeOK, GetNewIntentsSinceLastGet
<1>2. Len(log) \in Nat
  BY LenProperties DEF StoreTypeOK
<1>3. cuts' \in Seq(Nat) /\ Len(cuts') = 3
  <2>1. cuts[2] \in Nat /\ cuts[3] \in Nat
    <3>1. cuts \in Seq(Nat) /\ 2 \in 1..Len(cuts) /\ 3 \in 1..Len(cuts)
      BY DEF StoreTypeOK
    <3>2. QED
      BY <3>1, ElementOfSeq
  <2>2. QED
    BY <1>2, <2>1 DEF GetNewIntentsSinceLastGet
<1>4. QED
  BY <1>1, <1>3, EmptyMapType DEF StoreTypeOK, GetNewIntentsSinceLastGet

LEMMA CallsType ==
  ASSUME StoreTypeOK, Calls
  PROVE  StoreTypeOK'
<1>1. ASSUME NEW r \in Reports, AddIntent(r)
      PROVE  StoreTypeOK'
  BY <1>1, AddIntentType
<1>2. CASE Reset
  <2>1. Len(log) \in Nat
    BY LenProperties DEF StoreTypeOK
  <2>2. QED
    BY <1>2, <2>1, EmptyMapType DEF Reset, StoreTypeOK
<1>3. ASSUME NEW q \in Queries, GetIntents(q)
      PROVE  StoreTypeOK'
  <2> DEFINE found == getIntentsFromStore(accumulatingStore, Selected(accumulatingStore, q))
  <2>1. Selected(accumulatingStore, q) \in SUBSET DOMAIN accumulatingStore
    BY DEF Selected
  <2>2. found \subseteq HandedOut
    BY <2>1, HandedOutType DEF StoreTypeOK
  <2>3. answers' = {[query |-> q, intents |-> found]}
    BY <1>3 DEF GetIntents
  <2> HIDE DEF found
  <2>4. \A a \in answers' : a.query \in Queries /\ a.intents \subseteq HandedOut
    BY <2>2, <2>3
  <2>5. QED
    BY <1>3, <2>4 DEF GetIntents, StoreTypeOK
<1>4. CASE Respond
  BY <1>4 DEF Respond, StoreTypeOK
<1>5. QED
  BY <1>1, <1>2, <1>3, <1>4 DEF Calls

LEMMA StoreStepType == StoreTypeOK /\ [StoreNext]_storeVars => StoreTypeOK'
<1> SUFFICES ASSUME StoreTypeOK, [StoreNext]_storeVars
             PROVE  StoreTypeOK'
  OBVIOUS
<1>1. CASE Calls
  BY <1>1, CallsType
<1>2. CASE GetNewIntentsSinceLastGet
  BY <1>2, UploadType
<1>3. CASE UNCHANGED storeVars
  BY <1>3 DEF storeVars, StoreTypeOK
<1>4. QED
  BY <1>1, <1>2, <1>3 DEF StoreNext

\* The holder keeps every part of its state well typed: nothing a call stores
\* or hands out is malformed, a count that would be negative included.
THEOREM StoreTypeCorrect == StoreSpec => []StoreTypeOK
<1>1. StoreInit => StoreTypeOK
  BY StoreInitType
<1>2. StoreTypeOK /\ [StoreNext]_storeVars => StoreTypeOK'
  BY StoreStepType
<1>3. QED
  BY <1>1, <1>2, PTL DEF StoreSpec

-----------------------------------------------------------------------------
(* Each store is the summary of its window.                                *)

LEMMA LogType ==
  ASSUME StoreTypeOK
  PROVE  /\ Len(log) \in Nat
         /\ \A i \in 1..Len(log) : log[i] \in Reports
         /\ Len(heap) = Len(log)
         /\ \A i \in 1..Len(log) : heap[i] \in Identity
<1>1. log \in Seq(Reports) /\ heap \in Seq(Identity) /\ Len(heap) = Len(log)
  BY DEF StoreTypeOK, Identity
<1>2. QED
  BY <1>1, LenProperties, ElementOfSeq

\* Adding an intent extends the windows of its key that are still open.
LEMMA LogGrows ==
  ASSUME StoreTypeOK, NEW r \in Reports, log' = Append(log, r)
  PROVE  /\ Len(log') = Len(log) + 1
         /\ log'[Len(log) + 1] = r
         /\ \A i \in 1..Len(log) : log'[i] = log[i]
<1>1. log \in Seq(Reports) /\ Len(log) \in Nat
  BY LogType DEF StoreTypeOK
<1>2. QED
  BY <1>1

LEMMA WindowGrows ==
  ASSUME StoreTypeOK, NEW r \in Reports, log' = Append(log, r),
         NEW lo \in 0..Len(log), NEW k
  PROVE  /\ Window(k, lo, Len(log)) \subseteq 1..Len(log)
         /\ Window(k, lo, Len(log))'
              = IF k = r.key THEN Window(k, lo, Len(log)) \cup {Len(log) + 1}
                             ELSE Window(k, lo, Len(log))
<1>1. Len(log) \in Nat
  BY LogType
<1>2. /\ Len(log') = Len(log) + 1
      /\ log'[Len(log) + 1] = r
      /\ \A i \in 1..Len(log) : log'[i] = log[i]
  BY LogGrows
<1>3. lo + 1 .. Len(log') = (lo + 1 .. Len(log)) \cup {Len(log) + 1}
  BY <1>1, <1>2
<1>4. \A i \in lo + 1 .. Len(log) : i \in 1..Len(log) /\ log'[i] = log[i]
  BY <1>1, <1>2
<1>5. Window(k, lo, Len(log))' = {i \in lo + 1 .. Len(log') : log'[i].key = k}
  BY DEF Window
<1>6. QED
  BY <1>2, <1>3, <1>4, <1>5 DEF Window

LEMMA SameDataGrows ==
  ASSUME StoreTypeOK, NEW r \in Reports, log' = Append(log, r),
         NEW W \in SUBSET (1..Len(log)), NEW e \in TimestampedIntent, SameData(e, W),
         NEW W2, W2 = W \cup {Len(log) + 1}, NEW f \in TimestampedIntent,
         f.timestamp = Later(e.timestamp, r.timestamp),
         f.resources = e.resources \cup r.resources
  PROVE  SameData(f, W2)'
<1>1. /\ Len(log) \in Nat
      /\ \A i \in 1..Len(log) : log[i] \in Reports
  BY LogType
<1>2. /\ \A i \in W2 : (i \in W /\ log'[i] = log[i]) \/ log'[i] = r
      /\ \A i \in W : i \in W2 /\ log'[i] = log[i]
      /\ \E i \in W2 : log'[i] = r
  BY <1>1, LogGrows
<1>3. /\ e.timestamp \in Nat /\ r.timestamp \in Nat
      /\ \A i \in W : log[i].timestamp \in Nat /\ log[i].timestamp <= e.timestamp
      /\ \E i \in W : log[i].timestamp = e.timestamp
  BY <1>1, ReportType DEF TimestampedIntent, SameData
<1>4. \E i \in W2 : log'[i].timestamp = f.timestamp
  BY <1>2, <1>3 DEF Later
<1>5. \A i \in W2 : log'[i].timestamp <= f.timestamp
  <2>1. e.timestamp <= f.timestamp /\ r.timestamp <= f.timestamp /\ f.timestamp \in Nat
    BY <1>3 DEF Later
  <2>2. \A i \in W : log[i].timestamp <= f.timestamp
    <3> TAKE i \in W
    <3> DEFINE t == log[i].timestamp
    <3>1. t \in Nat /\ t <= e.timestamp
      BY <1>3
    <3> HIDE DEF t
    <3>2. t <= f.timestamp
      BY <1>3, <2>1, <3>1
    <3>3. QED
      BY <3>2 DEF t
  <2>3. QED
    BY <1>2, <2>1, <2>2
<1>6. f.resources = UNION {log'[i].resources : i \in W2}
  <2>1. e.resources = UNION {log[i].resources : i \in W}
    BY DEF SameData
  <2>2. \A x : x \in f.resources <=> \E i \in W2 : x \in log'[i].resources
    BY <1>2, <2>1
  <2> DEFINE all == UNION {log'[i].resources : i \in W2}
  <2>3. \A x : x \in all <=> \E i \in W2 : x \in log'[i].resources
    OBVIOUS
  <2> HIDE DEF all
  <2>4. f.resources = all
    BY <2>2, <2>3
  <2>5. QED
    BY <2>4 DEF all
<1>7. QED
  BY <1>4, <1>5, <1>6 DEF SameData

\* The inductive invariant: beside the summaries, both windows begin within
\* the log.
StoreInv ==
  /\ StoreTypeOK
  /\ resetAt <= Len(log) /\ cuts[3] <= Len(log)
  /\ StoresSummariseReports

LEMMA WindowBounds ==
  ASSUME StoreInv
  PROVE  resetAt \in 0..Len(log) /\ cuts[3] \in 0..Len(log)
<1>1. Len(log) \in Nat /\ resetAt \in Nat
  BY LogType DEF StoreInv, StoreTypeOK
<1>2. cuts \in Seq(Nat) /\ 3 \in 1..Len(cuts)
  BY DEF StoreInv, StoreTypeOK
<1>3. cuts[3] \in Nat
  BY <1>2, ElementOfSeq
<1>4. QED
  BY <1>1, <1>3 DEF StoreInv

\* The identities an entry points to were brought by an intent of its key.
LEMMA EntryIdentity ==
  ASSUME StoreTypeOK, NEW store, IsStore(store), NEW lo \in 0..Len(log),
         Summarises(store, lo), NEW k \in DOMAIN store
  PROVE  /\ k \in Keys
         /\ Window(k, lo, Len(log)) # {}
         /\ SameData(store[k], Window(k, lo, Len(log)))
         /\ SameIdentity(store[k], Window(k, lo, Len(log)))
         /\ store[k].obj \in 1..Len(log) /\ log[store[k].obj].key = k
<1>1. k \in Keys
  BY DEF IsStore
<1>2. /\ Window(k, lo, Len(log)) # {}
      /\ SameData(store[k], Window(k, lo, Len(log)))
      /\ SameIdentity(store[k], Window(k, lo, Len(log)))
  BY <1>1 DEF Summarises
<1>3. store[k].obj \in Window(k, lo, Len(log))
  BY <1>2 DEF SameIdentity
<1>4. Len(log) \in Nat
  BY LogType
<1>5. QED
  BY <1>1, <1>2, <1>3, <1>4 DEF Window

Merged(identity, r) == [labels |-> r.labels, fix |-> mergeFix(identity.fix, r.fix)]

LEMMA HeapEntry ==
  ASSUME NEW h \in Seq(Identity), NEW store, NEW r \in Reports, NEW i \in 1..Len(h)
  PROVE  addIntentToHeap(h, store, r)[i]
           = IF r.key \in DOMAIN store /\ store[r.key].obj = i THEN Merged(h[i], r) ELSE h[i]
<1>1. h \in [1..Len(h) -> Identity]
  BY LenProperties
<1>2. QED
  BY <1>1 DEF addIntentToHeap, Merged

\* What AddIntent does to the identities: those the stores hold for the key of the
\* intent merge with it, and no others change.
LEMMA HeapAfter ==
  ASSUME StoreInv, NEW r \in Reports, AddIntent(r)
  PROVE  /\ heap'[Len(log) + 1] = [labels |-> r.labels, fix |-> r.fix]
         /\ \A i \in 1..Len(log) :
              heap'[i] = IF \/ r.key \in DOMAIN accumulatingStore /\ accumulatingStore[r.key].obj = i
                            \/ r.key \in DOMAIN sinceLastGetStore /\ sinceLastGetStore[r.key].obj = i
                         THEN Merged(heap[i], r) ELSE heap[i]
         /\ \A k \in DOMAIN accumulatingStore :
              /\ accumulatingStore[k].obj \in 1..Len(log)
              /\ log[accumulatingStore[k].obj].key = k
         /\ \A k \in DOMAIN sinceLastGetStore :
              /\ sinceLastGetStore[k].obj \in 1..Len(log)
              /\ log[sinceLastGetStore[k].obj].key = k
<1> DEFINE o == Len(log) + 1
           new == [labels |-> r.labels, fix |-> r.fix]
           inserted == Append(heap, new)
           first == addIntentToHeap(inserted, accumulatingStore, r)
           InFirst(i) == r.key \in DOMAIN accumulatingStore /\ accumulatingStore[r.key].obj = i
           InSecond(i) == r.key \in DOMAIN sinceLastGetStore /\ sinceLastGetStore[r.key].obj = i
<1>1. heap \in Seq(Identity) /\ Len(heap) = Len(log) /\ Len(log) \in Nat
  BY LogType DEF StoreInv, StoreTypeOK, Identity
<1>2. new \in Identity
  BY ReportType DEF Identity
<1>3. /\ inserted \in Seq(Identity) /\ Len(inserted) = o
      /\ inserted[o] = new /\ \A i \in 1..Len(log) : inserted[i] = heap[i]
  BY <1>1, <1>2
<1>4. heap' = addIntentToHeap(first, sinceLastGetStore, r)
  BY DEF AddIntent
<1> HIDE DEF inserted, new
<1>5. first \in Seq(Identity) /\ Len(first) = o
  BY <1>3, addIntentToHeapType
<1>6. \A i \in 1..o : first[i] = IF InFirst(i) THEN Merged(inserted[i], r) ELSE inserted[i]
  BY <1>3, HeapEntry
<1> HIDE DEF first
<1>7. \A i \in 1..o : heap'[i] = IF InSecond(i) THEN Merged(first[i], r) ELSE first[i]
  BY <1>4, <1>5, HeapEntry
<1>8. \A i \in Identity : Merged(Merged(i, r), r) = Merged(i, r)
  BY DEF Merged, mergeFix
<1>9. \A i \in 1..Len(log) :
        heap'[i] = IF InFirst(i) \/ InSecond(i) THEN Merged(heap[i], r) ELSE heap[i]
  <2> TAKE i \in 1..Len(log)
  <2>1. i \in 1..o /\ heap[i] \in Identity /\ inserted[i] = heap[i]
    BY <1>1, <1>3, ElementOfSeq
  <2>2. QED
    BY <1>6, <1>7, <1>8, <2>1
<1>10. /\ \A k \in DOMAIN accumulatingStore :
            /\ accumulatingStore[k].obj \in 1..Len(log)
            /\ log[accumulatingStore[k].obj].key = k
       /\ \A k \in DOMAIN sinceLastGetStore :
            /\ sinceLastGetStore[k].obj \in 1..Len(log)
            /\ log[sinceLastGetStore[k].obj].key = k
  BY WindowBounds, EntryIdentity DEF StoreInv, StoreTypeOK, StoresSummariseReports
<1>11. heap'[o] = new
  <2>1. o \in 1..o /\ ~InFirst(o) /\ ~InSecond(o)
    BY <1>1, <1>10
  <2>2. QED
    BY <1>3, <1>6, <1>7, <2>1
<1>12. QED
  BY <1>9, <1>10, <1>11 DEF new

\* The same, seen from the entries of a store: although the other store may share
\* their identities and merge them too, they merge with the intent once.
LEMMA HeapStep ==
  ASSUME StoreInv, NEW r \in Reports, AddIntent(r)
  PROVE  /\ heap'[Len(log) + 1] = [labels |-> r.labels, fix |-> r.fix]
         /\ \A k \in DOMAIN accumulatingStore :
              heap'[accumulatingStore[k].obj]
                = IF k = r.key THEN Merged(heap[accumulatingStore[k].obj], r)
                               ELSE heap[accumulatingStore[k].obj]
         /\ \A k \in DOMAIN sinceLastGetStore :
              heap'[sinceLastGetStore[k].obj]
                = IF k = r.key THEN Merged(heap[sinceLastGetStore[k].obj], r)
                               ELSE heap[sinceLastGetStore[k].obj]
BY HeapAfter

LEMMA SameDataFrame ==
  ASSUME NEW e, NEW V, SameData(e, V), \A i \in V : log'[i] = log[i]
  PROVE  SameData(e, V)'
<1>1. {log'[i].resources : i \in V} = {log[i].resources : i \in V}
  OBVIOUS
<1>2. QED
  BY <1>1 DEF SameData

LEMMA SameIdentityFrame ==
  ASSUME NEW e, NEW V, SameIdentity(e, V), \A i \in V : log'[i] = log[i],
         heap'[e.obj] = heap[e.obj]
  PROVE  SameIdentity(e, V)'
BY DEF SameIdentity

LEMMA SameIdentityGrows ==
  ASSUME StoreTypeOK, NEW r \in Reports, log' = Append(log, r),
         NEW W \in SUBSET (1..Len(log)), NEW e, SameIdentity(e, W),
         \A i \in W : log[i].key = r.key,
         NEW W2, W2 = W \cup {Len(log) + 1}, NEW f, f.obj = e.obj,
         heap'[e.obj] = Merged(heap[e.obj], r)
  PROVE  SameIdentity(f, W2)'
<1> DEFINE o == Len(log) + 1
<1>1. /\ Len(log) \in Nat
      /\ \A i \in 1..Len(log) : log[i] \in Reports
  BY LogType
<1>2. /\ \A i \in W2 : (i \in W /\ log'[i] = log[i]) \/ i = o
      /\ \A i \in W : i \in W2 /\ log'[i] = log[i] /\ i <= o
      /\ o \in W2 /\ log'[o] = r /\ o <= o
  <2>1. \A i \in 1..Len(log) : i <= o
    BY <1>1
  <2>2. log'[o] = r /\ \A i \in 1..Len(log) : log'[i] = log[i]
    BY LogGrows
  <2>3. o <= o
    BY <1>1
  <2>4. QED
    BY <2>1, <2>2, <2>3
<1> HIDE DEF o
<1>3. e.obj \in W
  BY DEF SameIdentity
<1>4. \E i \in W2 : /\ \A j \in W2 : j <= i
                    /\ heap'[f.obj].labels = log'[i].labels
  BY <1>2 DEF Merged
<1>5. heap'[f.obj].fix = IF \E i \in W2 : log'[i].fix = "unfixed"
                         THEN "unfixed" ELSE log'[f.obj].fix
  <2>1. heap[e.obj].fix = IF \E i \in W : log[i].fix = "unfixed"
                          THEN "unfixed" ELSE log[e.obj].fix
    BY DEF SameIdentity
  <2>2. heap'[f.obj].fix = mergeFix(heap[e.obj].fix, r.fix) /\ log'[f.obj] = log[e.obj]
    <3>1. Merged(heap[e.obj], r).fix = mergeFix(heap[e.obj].fix, r.fix)
      BY DEF Merged
    <3>2. QED
      BY <1>2, <1>3, <3>1
  <2>3. (log[e.obj].fix = "none" <=> r.fix = "none") /\ log[e.obj].fix \in FixData
    <3>1. log[e.obj] \in Reports /\ log[e.obj].key = r.key
      BY <1>1, <1>3
    <3>2. QED
      BY <3>1, ReportType, StoreAssumption DEF ReportsAssumption
  <2>4. CASE \E i \in W : log[i].fix = "unfixed"
    <3>1. \E i \in W2 : log'[i].fix = "unfixed"
      BY <1>2, <2>4
    <3>2. QED
      BY <2>1, <2>2, <2>4, <3>1 DEF mergeFix
  <2>5. CASE ~(\E i \in W : log[i].fix = "unfixed") /\ r.fix = "unfixed"
    <3>1. \E i \in W2 : log'[i].fix = "unfixed"
      BY <1>2, <2>5
    <3>2. log[e.obj].fix = "fixed"
      BY <1>3, <2>3, <2>5 DEF FixData
    <3>3. QED
      BY <2>1, <2>2, <2>5, <3>1, <3>2 DEF mergeFix
  <2>6. CASE ~(\E i \in W : log[i].fix = "unfixed") /\ r.fix # "unfixed"
    <3>1. ~\E i \in W2 : log'[i].fix = "unfixed"
      BY <1>2, <2>6
    <3>2. QED
      BY <2>1, <2>2, <2>6, <3>1 DEF mergeFix
  <2>7. QED
    BY <2>4, <2>5, <2>6
<1>6. QED
  BY <1>2, <1>3, <1>4, <1>5 DEF SameIdentity

LEMMA SummaryStep ==
  ASSUME StoreTypeOK, NEW r \in Reports, log' = Append(log, r),
         NEW store, IsStore(store), NEW lo \in 0..Len(log), Summarises(store, lo),
         heap'[Len(log) + 1] = [labels |-> r.labels, fix |-> r.fix],
         \A k \in DOMAIN store :
           heap'[store[k].obj] = IF k = r.key THEN Merged(heap[store[k].obj], r)
                                             ELSE heap[store[k].obj],
         NEW next, next = addIntentToStore(store, r, Len(log) + 1)
  PROVE  Summarises(next, lo)'
<1> DEFINE o == Len(log) + 1
<1>1. Len(log) \in Nat /\ o \in Nat /\ o \notin 1..Len(log)
  BY LogType
<1>2. log'[o] = r /\ \A i \in 1..Len(log) : log'[i] = log[i]
  BY LogGrows
<1> DEFINE merged == [store[r.key] EXCEPT !.timestamp = Later(@, r.timestamp),
                                          !.resources = @ \cup r.resources]
           new == [timestamp |-> r.timestamp, resources |-> r.resources, obj |-> o]
<1>3. /\ IsStore(next)
      /\ DOMAIN next = DOMAIN store \cup {r.key}
      /\ \A k \in DOMAIN store : k # r.key => next[k] = store[k]
      /\ r.key \in DOMAIN store => next[r.key] = merged
      /\ r.key \notin DOMAIN store => next[r.key] = new
  <2>1. next = addIntentToStore(store, r, o)
    OBVIOUS
  <2>2. IsStore(next)
    BY <1>1, <2>1, addIntentToStoreType
  <2>3. Inserted(store, r, o, next)
    BY <2>1, addIntentToStoreValue
  <2>4. QED
    BY <2>2, <2>3 DEF Inserted
<1> HIDE DEF merged, new
<1>4. ASSUME NEW k \in Keys
      PROVE  k \in DOMAIN store <=> Window(k, lo, Len(log)) # {}
  BY DEF Summarises
<1>5. ASSUME NEW k \in Keys, NEW V, V = Window(k, lo, Len(log)),
             NEW V2, V2 = Window(k, lo, Len(log))'
      PROVE  /\ k \in DOMAIN next <=> V2 # {}
             /\ V2 # {} => SameData(next[k], V2)' /\ SameIdentity(next[k], V2)'
  <2>1. V \subseteq 1..Len(log) /\ V2 = IF k = r.key THEN V \cup {o} ELSE V
    BY <1>5, WindowGrows
  <2>2. k \in DOMAIN next <=> V2 # {}
    BY <1>3, <1>4, <1>5, <2>1
  <2>3. CASE k # r.key /\ V2 # {}
    <3>1. /\ next[k] = store[k] /\ V2 = V /\ k \in DOMAIN store
      BY <1>3, <1>4, <1>5, <2>1, <2>3
    <3>2. SameData(store[k], V) /\ SameIdentity(store[k], V)
      BY <1>5, <3>1, EntryIdentity
    <3>3. heap'[store[k].obj] = heap[store[k].obj] /\ store[k].obj \in V
      BY <2>3, <3>1, <3>2 DEF SameIdentity
    <3>4. \A i \in V : log'[i] = log[i]
      BY <1>2, <2>1
    <3>5. SameData(next[k], V)'
      BY <3>1, <3>2, <3>4, SameDataFrame
    <3>6. SameIdentity(next[k], V)'
      BY <3>1, <3>2, <3>3, <3>4, SameIdentityFrame
    <3>7. QED
      BY <2>2, <3>1, <3>5, <3>6
  <2>4. CASE k = r.key /\ k \in DOMAIN store
    <3> DEFINE e == store[k]
               f == next[k]
    <3>1. SameData(e, V) /\ SameIdentity(e, V)
      BY <1>5, <2>4, EntryIdentity
    <3>2. e \in TimestampedIntent /\ f \in TimestampedIntent
      BY <1>3, <2>4, StoreEntryType
    <3>3. /\ f.timestamp = Later(e.timestamp, r.timestamp)
          /\ f.resources = e.resources \cup r.resources
          /\ f.obj = e.obj
      BY <1>3, <2>4, <3>2 DEF merged, TimestampedIntent
    <3>4. heap'[e.obj] = Merged(heap[e.obj], r)
      BY <2>4
    <3>5. \A i \in V : log[i].key = r.key
      BY <1>5, <2>4 DEF Window
    <3> HIDE DEF e, f
    <3>6. SameData(f, V2)'
      BY <2>1, <2>4, <3>1, <3>2, <3>3, SameDataGrows
    <3>7. SameIdentity(f, V2)'
      BY <2>1, <2>4, <3>1, <3>3, <3>4, <3>5, SameIdentityGrows
    <3>8. QED
      BY <2>2, <3>6, <3>7 DEF f
  <2>5. CASE k = r.key /\ k \notin DOMAIN store
    <3>1. V2 = {o}
      BY <1>4, <1>5, <2>1, <2>5
    <3>2. next[k] = [timestamp |-> r.timestamp, resources |-> r.resources, obj |-> o]
      BY <1>3, <2>5 DEF new
    <3>3. r.timestamp \in Nat /\ o <= o
      BY <1>1, ReportType
    <3>4. SameData(next[k], V2)'
      BY <1>2, <3>1, <3>2, <3>3 DEF SameData
    <3>5. SameIdentity(next[k], V2)'
      BY <1>2, <3>1, <3>2, <3>3 DEF SameIdentity
    <3>6. QED
      BY <2>2, <3>4, <3>5
  <2>6. QED
    BY <2>2, <2>3, <2>4, <2>5
<1>6. QED
  BY <1>5 DEF Summarises

LEMMA EmptySummary ==
  ASSUME NEW lo \in Nat, lo = Len(log)
  PROVE  Summarises(EmptyMap, lo)
BY DEF Summarises, Window, EmptyMap

LEMMA StoreInvInit == StoreInit => StoreInv
<1> SUFFICES ASSUME StoreInit
             PROVE  StoreInv
  OBVIOUS
<1>1. StoreTypeOK
  BY StoreInitType
<1>2. Len(log) = 0 /\ resetAt = 0 /\ cuts[3] = 0
  BY DEF StoreInit
<1>3. Summarises(EmptyMap, 0)
  BY <1>2, EmptySummary
<1>4. QED
  BY <1>1, <1>2, <1>3 DEF StoreInv, StoresSummariseReports, StoreInit

LEMMA AddIntentInv ==
  ASSUME StoreInv, NEW r \in Reports, AddIntent(r)
  PROVE  StoreInv'
<1>1. StoreTypeOK /\ StoreTypeOK'
  BY AddIntentType DEF StoreInv
<1>2. log' = Append(log, r) /\ resetAt' = resetAt /\ cuts' = cuts
  BY DEF AddIntent
<1>3. resetAt \in 0..Len(log) /\ cuts[3] \in 0..Len(log)
  BY WindowBounds
<1>4. Len(log') = Len(log) + 1 /\ Len(log) \in Nat
  BY <1>1, <1>2, LogGrows, LogType
<1>5. resetAt' <= Len(log') /\ cuts'[3] <= Len(log')
  BY <1>2, <1>3, <1>4
<1>6. /\ IsStore(accumulatingStore) /\ Summarises(accumulatingStore, resetAt)
      /\ IsStore(sinceLastGetStore) /\ Summarises(sinceLastGetStore, cuts[3])
  BY DEF StoreInv, StoreTypeOK, StoresSummariseReports
<1>7. Summarises(accumulatingStore, resetAt)'
  <2>1. accumulatingStore' = addIntentToStore(accumulatingStore, r, Len(log) + 1)
    BY DEF AddIntent
  <2>2. QED
    BY <1>1, <1>2, <1>3, <1>6, <2>1, HeapStep, SummaryStep
<1>8. Summarises(sinceLastGetStore, cuts[3])'
  <2>1. sinceLastGetStore' = addIntentToStore(sinceLastGetStore, r, Len(log) + 1)
    BY DEF AddIntent
  <2>2. QED
    BY <1>1, <1>2, <1>3, <1>6, <2>1, HeapStep, SummaryStep
<1>9. QED
  BY <1>1, <1>5, <1>7, <1>8 DEF StoreInv, StoresSummariseReports

LEMMA ResetInv ==
  ASSUME StoreInv, Reset
  PROVE  StoreInv'
<1>1. StoreTypeOK'
  BY CallsType DEF StoreInv, Calls
<1>2. /\ Len(log) \in Nat /\ log' = log /\ heap' = heap /\ cuts' = cuts
      /\ resetAt' = Len(log) /\ accumulatingStore' = EmptyMap
      /\ sinceLastGetStore' = sinceLastGetStore
  BY LogType DEF Reset, StoreInv
<1>3. Summarises(EmptyMap, Len(log))
  BY <1>2, EmptySummary
<1>4. resetAt' <= Len(log') /\ cuts'[3] <= Len(log')
  BY <1>2 DEF StoreInv
<1>5. Summarises(accumulatingStore, resetAt)'
  BY <1>2, <1>3 DEF Summarises, Window, SameData, SameIdentity
<1>6. Summarises(sinceLastGetStore, cuts[3])'
  BY <1>2 DEF StoreInv, StoresSummariseReports, Summarises, Window, SameData, SameIdentity
<1>7. QED
  BY <1>1, <1>4, <1>5, <1>6 DEF StoreInv, StoresSummariseReports

LEMMA GetNewIntentsInv ==
  ASSUME StoreInv, GetNewIntentsSinceLastGet
  PROVE  StoreInv'
<1>1. StoreTypeOK'
  BY UploadType DEF StoreInv
<1>2. /\ Len(log) \in Nat /\ log' = log /\ heap' = heap /\ resetAt' = resetAt
      /\ accumulatingStore' = accumulatingStore /\ sinceLastGetStore' = EmptyMap
      /\ cuts'[3] = Len(log)
  BY LogType DEF GetNewIntentsSinceLastGet, StoreInv
<1>3. Summarises(EmptyMap, Len(log))
  BY <1>2, EmptySummary
<1>4. resetAt' <= Len(log') /\ cuts'[3] <= Len(log')
  BY <1>2 DEF StoreInv
<1>5. Summarises(sinceLastGetStore, cuts[3])'
  BY <1>2, <1>3 DEF Summarises, Window, SameData, SameIdentity
<1>6. Summarises(accumulatingStore, resetAt)'
  BY <1>2 DEF StoreInv, StoresSummariseReports, Summarises, Window, SameData, SameIdentity
<1>7. QED
  BY <1>1, <1>4, <1>5, <1>6 DEF StoreInv, StoresSummariseReports

\* Steps that leave both stores, the log and the windows alone.
LEMMA StoreInvFrame ==
  ASSUME StoreInv, StoreTypeOK',
         UNCHANGED <<accumulatingStore, sinceLastGetStore, heap, log, resetAt, cuts>>
  PROVE  StoreInv'
<1>1. resetAt' <= Len(log') /\ cuts'[3] <= Len(log')
  BY DEF StoreInv
<1>2. Summarises(accumulatingStore, resetAt)'
  BY DEF StoreInv, StoresSummariseReports, Summarises, Window, SameData, SameIdentity
<1>3. Summarises(sinceLastGetStore, cuts[3])'
  BY DEF StoreInv, StoresSummariseReports, Summarises, Window, SameData, SameIdentity
<1>4. QED
  BY <1>1, <1>2, <1>3 DEF StoreInv, StoresSummariseReports

LEMMA StoreInvStep == StoreInv /\ [StoreNext]_storeVars => StoreInv'
<1> SUFFICES ASSUME StoreInv, [StoreNext]_storeVars
             PROVE  StoreInv'
  OBVIOUS
<1>1. StoreTypeOK'
  BY StoreStepType DEF StoreInv
<1>2. ASSUME NEW r \in Reports, AddIntent(r)
      PROVE  StoreInv'
  BY <1>2, AddIntentInv
<1>3. CASE Reset
  BY <1>3, ResetInv
<1>4. ASSUME NEW q \in Queries, GetIntents(q)
      PROVE  StoreInv'
  BY <1>1, <1>4, StoreInvFrame DEF GetIntents
<1>5. CASE Respond
  BY <1>1, <1>5, StoreInvFrame DEF Respond
<1>6. CASE GetNewIntentsSinceLastGet
  BY <1>6, GetNewIntentsInv
<1>7. CASE UNCHANGED storeVars
  BY <1>1, <1>7, StoreInvFrame DEF storeVars
<1>8. QED
  BY <1>2, <1>3, <1>4, <1>5, <1>6, <1>7 DEF StoreNext, Calls

\* For any keys, reports and queries, and any interleaving of intents, resets,
\* queries and uploads, each of the two stores is the summary of exactly the
\* intents added since its own last emptying: no intent is missed, none is
\* carried over, and sharing identities with the other store and with what
\* was handed out never mixes their labels or fix data up.
THEOREM StoresAlwaysSummarise == StoreSpec => []StoresSummariseReports
<1>1. StoreInit => StoreInv
  BY StoreInvInit
<1>2. StoreInv /\ [StoreNext]_storeVars => StoreInv'
  BY StoreInvStep
<1>3. StoreInv => StoresSummariseReports
  BY DEF StoreInv
<1>4. QED
  BY <1>1, <1>2, <1>3, PTL DEF StoreSpec

-----------------------------------------------------------------------------
(* The counters count their windows.                                       *)

\* A counter holds what its window counts to.
CountsWindow(c, W) ==
  /\ c.SourcePorts = PortsOf(W)
  /\ c.countMethod = IF CountedByPorts(W) THEN "SourcePort"
                     ELSE IF DNSIntents(W) # {} THEN "DNS" ELSE "Unset"
  /\ ~CountedByPorts(W) => c.DNSCounter = Cardinality(DNSIntents(W))

CountersOf(counters, lo, hi) ==
  \A k \in Keys :
    LET window == Window(k, lo, hi)
    IN  /\ k \in DOMAIN counters <=> window # {}
        /\ window # {} => CountsWindow(counters[k], window)

\* The inductive invariant: the counters hold what the windows count to, and a batch
\* points to identities of its own window.
WindowsInv ==
  /\ StoreInv
  /\ cuts[1] <= cuts[2] /\ cuts[2] <= cuts[3]
  /\ CountersOf(currentCounters, cuts[3], Len(log))
  /\ CountersOf(previousCounters, cuts[2], cuts[3])
  /\ \A e \in batch : e.obj \in Window(e.key, cuts[2], cuts[3])
  /\ BatchCountsExplainChange
  /\ BatchDescribesWindow

LEMMA CutsType ==
  ASSUME StoreTypeOK
  PROVE  cuts[1] \in Nat /\ cuts[2] \in Nat /\ cuts[3] \in Nat
<1>1. cuts \in Seq(Nat) /\ 1 \in 1..Len(cuts) /\ 2 \in 1..Len(cuts) /\ 3 \in 1..Len(cuts)
  BY DEF StoreTypeOK
<1>2. QED
  BY <1>1, ElementOfSeq

\* The intent that is added counts in a window of its key, after those that were there.
LEMMA CountsAfter ==
  ASSUME StoreTypeOK, NEW r \in Reports, log' = Append(log, r),
         NEW W \in SUBSET (1..Len(log)), NEW W2, W2 = W \cup {Len(log) + 1}
  PROVE  /\ PortsOf(W2)' = IF r.resolution \in SrcPortResolutions THEN PortsOf(W) \cup r.ports
                                                                  ELSE PortsOf(W)
         /\ CountedByPorts(W2)' <=> r.resolution \in SrcPortResolutions \/ CountedByPorts(W)
         /\ DNSIntents(W2)' = IF r.resolution \in DNSResolutions
                              THEN DNSIntents(W) \cup {Len(log) + 1} ELSE DNSIntents(W)
<1> DEFINE o == Len(log) + 1
<1>1. /\ \A i \in W2 : (i \in W /\ log'[i] = log[i]) \/ (i = o /\ log'[i] = r)
      /\ \A i \in W : i \in W2 /\ log'[i] = log[i]
      /\ o \in W2 /\ log'[o] = r
  BY LogType, LogGrows
<1>2. CountedByPorts(W2)' <=> r.resolution \in SrcPortResolutions \/ CountedByPorts(W)
  BY <1>1 DEF CountedByPorts
<1>3. DNSIntents(W2)' = IF r.resolution \in DNSResolutions THEN DNSIntents(W) \cup {o} ELSE DNSIntents(W)
  BY <1>1 DEF DNSIntents
<1>4. \A x : x \in PortsOf(W2)' <=> x \in PortsOf(W) \/ (r.resolution \in SrcPortResolutions /\ x \in r.ports)
  <2>1. \A x : x \in PortsOf(W2)'
               <=> \E i \in W2 : log'[i].resolution \in SrcPortResolutions /\ x \in log'[i].ports
    BY DEF PortsOf
  <2>2. \A x : x \in PortsOf(W)
               <=> \E i \in W : log[i].resolution \in SrcPortResolutions /\ x \in log[i].ports
    BY DEF PortsOf
  <2>3. QED
    BY <1>1, <2>1, <2>2
<1>5. PortsOf(W2)' = IF r.resolution \in SrcPortResolutions THEN PortsOf(W) \cup r.ports ELSE PortsOf(W)
  BY <1>4
<1>6. QED
  BY <1>2, <1>3, <1>5

LEMMA CountsStep ==
  ASSUME StoreTypeOK, NEW r \in Reports, log' = Append(log, r),
         NEW W \in SUBSET (1..Len(log)), NEW W2, W2 = W \cup {Len(log) + 1},
         NEW c \in Counter, CountsWindow(c, W),
         NEW d, d = AddConnection(c, r.resolution, r.ports)
  PROVE  CountsWindow(d, W2)'
<1> DEFINE o == Len(log) + 1
<1>1. /\ c = [countMethod |-> c.countMethod, SourcePorts |-> c.SourcePorts, DNSCounter |-> c.DNSCounter]
      /\ c.DNSCounter \in Nat
      /\ c.SourcePorts = PortsOf(W)
      /\ ~CountedByPorts(W) => c.DNSCounter = Cardinality(DNSIntents(W))
  BY DEF Counter, CountsWindow
<1>2. /\ PortsOf(W2)' = IF r.resolution \in SrcPortResolutions THEN PortsOf(W) \cup r.ports
                                                              ELSE PortsOf(W)
      /\ CountedByPorts(W2)' <=> r.resolution \in SrcPortResolutions \/ CountedByPorts(W)
      /\ DNSIntents(W2)' = IF r.resolution \in DNSResolutions
                           THEN DNSIntents(W) \cup {o} ELSE DNSIntents(W)
  BY CountsAfter
<1>3. r.resolution \in DNSResolutions => r.resolution \notin SrcPortResolutions
  BY DEF DNSResolutions, SrcPortResolutions
<1>4. Cardinality(DNSIntents(W) \cup {o}) = Cardinality(DNSIntents(W)) + 1
  <2>1. DNSIntents(W) \subseteq 1..Len(log) /\ Len(log) \in Nat
    BY LogType DEF DNSIntents
  <2>2. IsFiniteSet(1..Len(log)) /\ o \notin DNSIntents(W)
    BY <2>1, FS_Interval
  <2>3. IsFiniteSet(DNSIntents(W))
    BY <2>1, <2>2, FS_Subset
  <2>4. QED
    BY <2>2, <2>3, FS_AddElement
<1>5. CASE r.resolution \in SrcPortResolutions
  <2>1. d = [countMethod |-> "SourcePort", SourcePorts |-> c.SourcePorts \cup r.ports,
             DNSCounter |-> c.DNSCounter]
    BY <1>1, <1>5 DEF AddConnection, ShouldCountUsingSrcPortMethod
  <2>2. d.countMethod = "SourcePort" /\ d.SourcePorts = c.SourcePorts \cup r.ports
    BY <2>1
  <2>3. d.SourcePorts = PortsOf(W2)' /\ CountedByPorts(W2)'
    BY <1>1, <1>2, <1>5, <2>2
  <2>4. QED
    BY <2>2, <2>3 DEF CountsWindow
<1>6. CASE r.resolution \in DNSResolutions /\ ~CountedByPorts(W)
  <2>1. c.countMethod \in {"Unset", "DNS"}
    BY <1>6 DEF CountsWindow
  <2>2. d = [countMethod |-> "DNS", SourcePorts |-> c.SourcePorts, DNSCounter |-> c.DNSCounter + 1]
    BY <1>1, <1>3, <1>6, <2>1
       DEF AddConnection, ShouldCountUsingSrcPortMethod, ShouldCountUsingDNSMethod
  <2>3. /\ ~CountedByPorts(W2)' /\ DNSIntents(W2)' = DNSIntents(W) \cup {o}
        /\ PortsOf(W2)' = PortsOf(W)
    BY <1>2, <1>3, <1>6
  <2>4. d.countMethod = "DNS" /\ d.SourcePorts = c.SourcePorts /\ d.DNSCounter = c.DNSCounter + 1
    BY <2>2
  <2>5. d.SourcePorts = PortsOf(W2)' /\ d.DNSCounter = Cardinality(DNSIntents(W2))'
    BY <1>1, <1>4, <1>6, <2>3, <2>4
  <2>6. QED
    BY <2>3, <2>4, <2>5 DEF CountsWindow
<1>7. CASE r.resolution \in DNSResolutions /\ CountedByPorts(W)
  <2>1. d = c
    BY <1>3, <1>7 DEF AddConnection, ShouldCountUsingSrcPortMethod, CountsWindow
  <2>2. QED
    BY <1>2, <1>3, <1>7, <2>1 DEF CountsWindow
<1>8. CASE r.resolution \notin SrcPortResolutions /\ r.resolution \notin DNSResolutions
  <2>1. d = c
    BY <1>8 DEF AddConnection, ShouldCountUsingSrcPortMethod, ShouldCountUsingDNSMethod
  <2>2. QED
    BY <1>2, <1>8, <2>1 DEF CountsWindow
<1>9. QED
  BY <1>5, <1>6, <1>7, <1>8

\* A counter nothing was counted in.
LEMMA NewCounterCounts ==
  /\ NewConnectionCounter \in Counter /\ CountsWindow(NewConnectionCounter, {})
  /\ ExpectedCount({}) = 0
<1>1. PortsOf({}) = {} /\ DNSIntents({}) = {} /\ ~CountedByPorts({})
  BY DEF PortsOf, DNSIntents, CountedByPorts
<1>2. Cardinality({}) = 0
  BY FS_EmptySet
<1>3. QED
  BY <1>1, <1>2 DEF NewConnectionCounter, Counter, CountsWindow, ExpectedCount

\* The count of a counter is what the code uploads for its window.
LEMMA CountIsExpected ==
  ASSUME NEW c, NEW W, CountsWindow(c, W)
  PROVE  ConnectionCount(c) = ExpectedCount(W)
<1>1. DNSIntents(W) = {} => Cardinality(DNSIntents(W)) = 0
  BY FS_EmptySet
<1>2. QED
  BY <1>1 DEF ConnectionCount, ExpectedCount, CountsWindow

LEMMA ExpectedFrame ==
  ASSUME NEW W, \A i \in W : log'[i] = log[i]
  PROVE  /\ PortsOf(W)' = PortsOf(W) /\ DNSIntents(W)' = DNSIntents(W)
         /\ CountedByPorts(W)' <=> CountedByPorts(W)
         /\ ExpectedCount(W)' = ExpectedCount(W)
<1>1. {i \in W : log'[i].resolution \in SrcPortResolutions} = {i \in W : log[i].resolution \in SrcPortResolutions}
  OBVIOUS
<1>2. \A i \in {j \in W : log[j].resolution \in SrcPortResolutions} : log'[i].ports = log[i].ports
  OBVIOUS
<1>3. /\ PortsOf(W)' = PortsOf(W) /\ DNSIntents(W)' = DNSIntents(W)
      /\ CountedByPorts(W)' <=> CountedByPorts(W)
  BY <1>1, <1>2 DEF PortsOf, DNSIntents, CountedByPorts
<1>4. QED
  BY <1>3 DEF ExpectedCount

LEMMA CountsFrame ==
  ASSUME NEW c, NEW W, CountsWindow(c, W), \A i \in W : log'[i] = log[i]
  PROVE  CountsWindow(c, W)'
BY ExpectedFrame DEF CountsWindow

\* The counters of the window being collected count the intent; those of the window
\* before it, and the windows that are closed, stay as they are.
LEMMA CountersStep ==
  ASSUME StoreTypeOK, NEW r \in Reports, log' = Append(log, r),
         NEW counters, IsCounterMap(counters), NEW lo \in 0..Len(log),
         CountersOf(counters, lo, Len(log)), NEW next, next = Increment(counters, r)
  PROVE  CountersOf(next, lo, Len(log))'
<1> DEFINE c == IF r.key \in DOMAIN counters THEN counters[r.key] ELSE NewConnectionCounter
           added == AddConnection(c, r.resolution, r.ports)
<1>1. /\ DOMAIN next = DOMAIN counters \cup {r.key}
      /\ next[r.key] = added
      /\ \A k \in DOMAIN counters : k # r.key => next[k] = counters[k]
  BY DEF Increment, Put
<1>2. c \in Counter
  BY NewCounterCounts DEF IsCounterMap
<1> HIDE DEF added
<1>3. ASSUME NEW k \in Keys, NEW V, V = Window(k, lo, Len(log)),
             NEW V2, V2 = Window(k, lo, Len(log))'
      PROVE  /\ k \in DOMAIN next <=> V2 # {}
             /\ V2 # {} => CountsWindow(next[k], V2)'
  <2>1. V \subseteq 1..Len(log) /\ V2 = IF k = r.key THEN V \cup {Len(log) + 1} ELSE V
    BY <1>3, WindowGrows
  <2>2. k \in DOMAIN counters <=> V # {}
    BY <1>3 DEF CountersOf
  <2>3. V # {} => CountsWindow(counters[k], V)
    BY <1>3 DEF CountersOf
  <2>4. CASE k = r.key
    <3>1. CountsWindow(c, V)
      BY <2>2, <2>3, <2>4, NewCounterCounts
    <3> HIDE DEF c
    <3>2. CountsWindow(added, V2)'
      BY <1>2, <2>1, <2>4, <3>1, CountsStep DEF added
    <3>3. QED
      BY <1>1, <2>1, <2>4, <3>2
  <2>5. CASE k # r.key
    <3>1. V2 = V /\ \A i \in V : log'[i] = log[i]
      BY <2>1, <2>5, LogGrows
    <3>2. V # {} => CountsWindow(counters[k], V)'
      BY <2>3, <3>1, CountsFrame
    <3>3. QED
      BY <1>1, <2>2, <2>5, <3>1, <3>2
  <2>6. QED
    BY <2>4, <2>5
<1>4. QED
  BY <1>3 DEF CountersOf

LEMMA WindowFrame ==
  ASSUME StoreTypeOK, NEW r \in Reports, log' = Append(log, r),
         NEW lo \in Nat, NEW hi \in 0..Len(log), NEW k
  PROVE  /\ Window(k, lo, hi)' = Window(k, lo, hi)
         /\ Window(k, lo, hi) \subseteq 1..Len(log)
         /\ \A i \in Window(k, lo, hi) : log'[i] = log[i]
<1>1. \A i \in lo + 1 .. hi : i \in 1..Len(log) /\ log'[i] = log[i]
  BY LogType, LogGrows
<1>2. QED
  BY <1>1 DEF Window

LEMMA CountersFrame ==
  ASSUME StoreTypeOK, NEW r \in Reports, log' = Append(log, r),
         NEW counters, NEW lo \in Nat, NEW hi \in 0..Len(log), CountersOf(counters, lo, hi)
  PROVE  CountersOf(counters, lo, hi)'
<1>1. ASSUME NEW k \in Keys, NEW V, V = Window(k, lo, hi)
      PROVE  /\ Window(k, lo, hi)' = V
             /\ k \in DOMAIN counters <=> V # {}
             /\ V # {} => CountsWindow(counters[k], V)'
  <2>1. Window(k, lo, hi)' = V /\ \A i \in V : log'[i] = log[i]
    BY <1>1, WindowFrame
  <2>2. (k \in DOMAIN counters <=> V # {}) /\ (V # {} => CountsWindow(counters[k], V))
    BY <1>1 DEF CountersOf
  <2>3. QED
    BY <2>1, <2>2, CountsFrame
<1>2. QED
  BY <1>1 DEF CountersOf

\* The change that is handed out with an intent, from what the two windows count to.
LEMMA DiffExplainsChange ==
  ASSUME NEW current, IsCounterMap(current), NEW previous, IsCounterMap(previous),
         NEW k \in DOMAIN current, NEW V, NEW W, CountsWindow(current[k], V),
         IF k \in DOMAIN previous THEN CountsWindow(previous[k], W) ELSE W = {},
         GetDiff(current, previous, k).valid
  PROVE  LET d == GetDiff(current, previous, k)
         IN  /\ d.Current = ExpectedCount(V)
             /\ d.Current + d.Removed = ExpectedCount(W) + d.Added
             /\ d.Added <= d.Current
             /\ d.Removed <= ExpectedCount(W)
<1>1. current[k] \in Counter /\ ConnectionCount(current[k]) = ExpectedCount(V)
  BY CountIsExpected DEF IsCounterMap
<1>2. ConnectionCount(current[k]) \in Nat
  BY <1>1, ConnectionCountType
<1>3. CASE k \in DOMAIN previous
  <2>1. previous[k] \in Counter /\ ConnectionCount(previous[k]) = ExpectedCount(W)
    BY <1>3, CountIsExpected DEF IsCounterMap
  <2>2. GetDiff(current, previous, k) = GetConnectionCountDiff(current[k], previous[k])
    BY <1>3 DEF GetDiff
  <2>3. HasCount(current[k]) /\ HasCount(previous[k])
    BY <2>2 DEF GetConnectionCountDiff, NoCount
  <2>4. QED
    BY <1>1, <2>1, <2>2, <2>3, CountDiffBalances
<1>4. CASE k \notin DOMAIN previous
  <2> DEFINE n == ConnectionCount(current[k])
  <2>1. GetDiff(current, previous, k) = CountOf(n, n, 0)
    BY <1>4 DEF GetDiff, NoCount
  <2>2. ExpectedCount(W) = 0 /\ n \in Nat
    BY <1>2, <1>4, NewCounterCounts
  <2> HIDE DEF n
  <2>3. QED
    BY <1>1, <2>1, <2>2 DEF CountOf, n
<1>5. QED
  BY <1>3, <1>4

\* While nothing is added, windows and what they count to stay.
LEMMA SameLog ==
  ASSUME log' = log, NEW k, NEW lo, NEW hi
  PROVE  /\ Window(k, lo, hi)' = Window(k, lo, hi)
         /\ ExpectedCount(Window(k, lo, hi))' = ExpectedCount(Window(k, lo, hi))
<1>1. Window(k, lo, hi)' = Window(k, lo, hi)
  BY DEF Window
<1>2. QED
  BY <1>1, ExpectedFrame

LEMMA CountersSame ==
  ASSUME log' = log, NEW counters, NEW lo, NEW hi, CountersOf(counters, lo, hi)
  PROVE  CountersOf(counters, lo, hi)'
<1>1. ASSUME NEW c, NEW W, CountsWindow(c, W)
      PROVE  CountsWindow(c, W)'
  BY <1>1, CountsFrame
<1>2. QED
  BY <1>1, SameLog DEF CountersOf

\* What BatchDescribesWindow says of one intent of the batch.
Describes(e, W) ==
  /\ SameData(e, W)
  /\ \E j \in 1..Len(log) : /\ log[j].key = e.key
                            /\ \A i \in W : i <= j
                            /\ heap[e.obj].labels = log[j].labels
  /\ heap[e.obj].fix = "fixed" => \A i \in W : log[i].fix = "fixed"

LEMMA WindowsInit == StoreInit => WindowsInv
<1> SUFFICES ASSUME StoreInit
             PROVE  WindowsInv
  OBVIOUS
<1>1. StoreInv
  BY StoreInvInit
<1>2. /\ Len(log) = 0 /\ cuts[1] = 0 /\ cuts[2] = 0 /\ cuts[3] = 0 /\ batch = {}
      /\ currentCounters = EmptyMap /\ previousCounters = EmptyMap
  BY DEF StoreInit
<1>3. \A k : Window(k, 0, 0) = {}
  BY DEF Window
<1>4. CountersOf(EmptyMap, 0, 0)
  BY <1>3 DEF CountersOf, EmptyMap
<1>5. QED
  BY <1>1, <1>2, <1>4 DEF WindowsInv, BatchCountsExplainChange, BatchDescribesWindow

\* What AddIntent may do to an identity of its key: relabel it and drop the fix.
LEMMA HeapChange ==
  ASSUME StoreInv, NEW r \in Reports, AddIntent(r), NEW i \in 1..Len(log)
  PROVE  \/ heap'[i] = heap[i]
         \/ log[i].key = r.key /\ heap'[i].labels = r.labels
            /\ (heap'[i].fix = "fixed" => heap[i].fix = "fixed" /\ r.fix # "unfixed")
<1>1. heap'[i] = heap[i] \/ (log[i].key = r.key /\ heap'[i] = Merged(heap[i], r))
  <2>1. CASE r.key \in DOMAIN accumulatingStore /\ accumulatingStore[r.key].obj = i
    BY <2>1, HeapAfter
  <2>2. CASE r.key \in DOMAIN sinceLastGetStore /\ sinceLastGetStore[r.key].obj = i
    BY <2>2, HeapAfter
  <2>3. QED
    BY <2>1, <2>2, HeapAfter
<1>2. QED
  BY <1>1 DEF Merged, mergeFix

LEMMA AddIntentWindows ==
  ASSUME WindowsInv, NEW r \in Reports, AddIntent(r)
  PROVE  WindowsInv'
<1>1. StoreInv /\ StoreTypeOK /\ StoreInv'
  BY AddIntentInv DEF WindowsInv, StoreInv
<1>2. /\ log' = Append(log, r) /\ cuts' = cuts /\ batch' = batch
      /\ previousCounters' = previousCounters
      /\ currentCounters' = Increment(currentCounters, r)
  BY DEF AddIntent
<1>3. /\ cuts[1] \in Nat /\ cuts[2] \in Nat /\ cuts[3] \in Nat /\ Len(log) \in Nat
      /\ cuts[1] <= cuts[2] /\ cuts[2] <= cuts[3] /\ cuts[3] <= Len(log)
  BY <1>1, CutsType, LogType DEF WindowsInv, StoreInv
<1>4. /\ cuts[2] \in 0..Len(log) /\ cuts[3] \in 0..Len(log)
      /\ Len(log') = Len(log) + 1 /\ log'[Len(log) + 1] = r
      /\ \A i \in 1..Len(log) : log'[i] = log[i]
  BY <1>1, <1>2, <1>3, LogGrows
<1>5. CountersOf(currentCounters, cuts[3], Len(log))'
  BY <1>1, <1>2, <1>4, CountersStep DEF WindowsInv, StoreTypeOK
<1>6. CountersOf(previousCounters, cuts[2], cuts[3])'
  BY <1>1, <1>2, <1>3, <1>4, CountersFrame DEF WindowsInv
<1>7. ASSUME NEW k, NEW V, V = Window(k, cuts[1], cuts[2]), NEW W, W = Window(k, cuts[2], cuts[3])
      PROVE  /\ Window(k, cuts[1], cuts[2])' = V /\ Window(k, cuts[2], cuts[3])' = W
             /\ ExpectedCount(V)' = ExpectedCount(V) /\ ExpectedCount(W)' = ExpectedCount(W)
             /\ V \subseteq 1..Len(log) /\ W \subseteq 1..Len(log)
             /\ \A i \in W : log'[i] = log[i] /\ i <= Len(log)
  <2>1. \A i \in V \cup W : i \in 1..Len(log) /\ log'[i] = log[i]
    BY <1>3, <1>4, <1>7 DEF Window
  <2>2. Window(k, cuts[1], cuts[2])' = V /\ Window(k, cuts[2], cuts[3])' = W
    <3>1. \A i \in cuts[1] + 1 .. cuts[2] : log'[i] = log[i]
      BY <1>3, <1>4
    <3>2. \A i \in cuts[2] + 1 .. cuts[3] : log'[i] = log[i]
      BY <1>3, <1>4
    <3>3. QED
      BY <1>2, <1>7, <3>1, <3>2 DEF Window
  <2>3. ExpectedCount(V)' = ExpectedCount(V) /\ ExpectedCount(W)' = ExpectedCount(W)
    BY <2>1, ExpectedFrame
  <2>4. QED
    BY <1>3, <2>1, <2>2, <2>3
<1>8. \A e \in batch' : e.obj \in Window(e.key, cuts[2], cuts[3])'
  BY <1>2, <1>7 DEF WindowsInv
<1>9. BatchCountsExplainChange'
  <2>1. \A e \in batch : /\ ExpectedCount(Window(e.key, cuts[1], cuts[2]))' = ExpectedCount(Window(e.key, cuts[1], cuts[2]))
                         /\ ExpectedCount(Window(e.key, cuts[2], cuts[3]))' = ExpectedCount(Window(e.key, cuts[2], cuts[3]))
    <3> TAKE e \in batch
    <3> DEFINE V == Window(e.key, cuts[1], cuts[2])
               W == Window(e.key, cuts[2], cuts[3])
    <3>1. V' = V /\ W' = W /\ \A i \in V \cup W : log'[i] = log[i]
      BY <1>4, <1>7
    <3>2. QED
      BY <1>7, <3>1
  <2>2. QED
    BY <1>2, <2>1 DEF WindowsInv, BatchCountsExplainChange
<1>10. BatchDescribesWindow'
  <2> SUFFICES ASSUME NEW e \in batch, NEW W, W = Window(e.key, cuts[2], cuts[3])
               PROVE  Describes(e, W)'
    <3>1. \A e \in batch : Window(e.key, cuts[2], cuts[3])' = Window(e.key, cuts[2], cuts[3])
      BY <1>7
    <3>2. QED
      BY <1>2, <3>1 DEF BatchDescribesWindow, Describes
  <2>1. /\ SameData(e, W)
        /\ \E j \in 1..Len(log) : /\ log[j].key = e.key
                                  /\ \A i \in W : i <= j
                                  /\ heap[e.obj].labels = log[j].labels
        /\ heap[e.obj].fix = "fixed" => \A i \in W : log[i].fix = "fixed"
    BY DEF WindowsInv, BatchDescribesWindow
  <2>2. e.obj \in W /\ W \subseteq 1..Len(log) /\ \A i \in W : log'[i] = log[i] /\ i <= Len(log)
    BY <1>7 DEF WindowsInv
  <2>3. log[e.obj].key = e.key
    BY <2>2 DEF Window
  <2>4. SameData(e, W)'
    BY <2>1, <2>2, SameDataFrame
  <2>5. CASE heap'[e.obj] = heap[e.obj]
    <3>1. PICK j \in 1..Len(log) : /\ log[j].key = e.key
                                   /\ \A i \in W : i <= j
                                   /\ heap[e.obj].labels = log[j].labels
      BY <2>1
    <3>2. j \in 1..Len(log') /\ log'[j] = log[j]
      BY <1>3, <1>4
    <3>3. heap'[e.obj].fix = "fixed" => \A i \in W : log'[i].fix = "fixed"
      BY <2>1, <2>2, <2>5
    <3>4. QED
      BY <2>4, <2>5, <3>1, <3>2, <3>3 DEF Describes
  <2>6. CASE /\ log[e.obj].key = r.key /\ heap'[e.obj].labels = r.labels
             /\ heap'[e.obj].fix = "fixed" => heap[e.obj].fix = "fixed" /\ r.fix # "unfixed"
    <3>1. Len(log) + 1 \in 1..Len(log') /\ \A i \in W : i <= Len(log) + 1
      BY <1>3, <1>4, <2>2
    <3>2. QED
      BY <1>4, <2>1, <2>2, <2>3, <2>4, <2>6, <3>1 DEF Describes
  <2>7. QED
    BY <1>1, <2>2, <2>5, <2>6, HeapChange
<1>11. QED
  BY <1>1, <1>2, <1>3, <1>5, <1>6, <1>8, <1>9, <1>10 DEF WindowsInv

\* The closed window's entries are handed out with the counts of its counters.
LEMMA GetNewIntentsWindows ==
  ASSUME WindowsInv, GetNewIntentsSinceLastGet
  PROVE  WindowsInv'
<1>1. StoreInv /\ StoreTypeOK /\ StoreInv'
  BY GetNewIntentsInv DEF WindowsInv, StoreInv
<1>2. /\ log' = log /\ heap' = heap /\ previousCounters' = currentCounters /\ currentCounters' = EmptyMap
      /\ cuts' = <<cuts[2], cuts[3], Len(log)>>
      /\ batch' = getIntentsFromStore(sinceLastGetStore, DOMAIN sinceLastGetStore)
  BY DEF GetNewIntentsSinceLastGet
<1>3. /\ cuts[1] \in Nat /\ cuts[2] \in Nat /\ cuts[3] \in Nat /\ Len(log) \in Nat
      /\ cuts[1] <= cuts[2] /\ cuts[2] <= cuts[3] /\ cuts[3] <= Len(log)
  BY <1>1, CutsType, LogType DEF WindowsInv, StoreInv
<1>4. cuts'[1] = cuts[2] /\ cuts'[2] = cuts[3] /\ cuts'[3] = Len(log)
  BY <1>2
<1>5. \A k : Window(k, Len(log), Len(log)) = {}
  BY <1>3 DEF Window
<1>6. CountersOf(currentCounters, cuts[3], Len(log))'
  BY <1>2, <1>4, <1>5 DEF CountersOf, EmptyMap, Window, CountsWindow
<1>7. CountersOf(previousCounters, cuts[2], cuts[3])'
  BY <1>2, <1>4, CountersSame DEF WindowsInv
<1>8. ASSUME NEW e \in batch'
      PROVE  LET V == Window(e.key, cuts[2], cuts[3])
                 W == Window(e.key, cuts[3], Len(log))
             IN  /\ e.obj \in W
                 /\ e.count.valid =>
                      /\ e.count.Current = ExpectedCount(W)
                      /\ e.count.Current + e.count.Removed = ExpectedCount(V) + e.count.Added
                      /\ e.count.Added <= e.count.Current
                      /\ e.count.Removed <= ExpectedCount(V)
                 /\ SameData(e, W)
                 /\ \E j \in 1..Len(log) : /\ log[j].key = e.key
                                           /\ \A i \in W : i <= j
                                           /\ heap[e.obj].labels = log[j].labels
                 /\ heap[e.obj].fix = "fixed" => \A i \in W : log[i].fix = "fixed"
  <2>1. PICK k \in DOMAIN sinceLastGetStore :
          e = [key |-> k, timestamp |-> sinceLastGetStore[k].timestamp,
               resources |-> sinceLastGetStore[k].resources, obj |-> sinceLastGetStore[k].obj,
               count |-> GetDiff(currentCounters, previousCounters, k)]
    BY <1>2 DEF getIntentsFromStore
  <2> DEFINE V == Window(k, cuts[2], cuts[3])
             W == Window(k, cuts[3], Len(log))
             s == sinceLastGetStore[k]
  <2>2. /\ k \in Keys /\ W # {} /\ SameData(s, W) /\ SameIdentity(s, W)
        /\ s.obj \in 1..Len(log) /\ log[s.obj].key = k
    BY <1>1, <1>3, EntryIdentity DEF StoreInv, StoreTypeOK, StoresSummariseReports
  <2>3. k \in DOMAIN currentCounters /\ CountsWindow(currentCounters[k], W)
    BY <2>2 DEF WindowsInv, CountersOf
  <2>4. IF k \in DOMAIN previousCounters THEN CountsWindow(previousCounters[k], V) ELSE V = {}
    BY <2>2 DEF WindowsInv, CountersOf
  <2>5. \A i \in W : i \in 1..Len(log) /\ log[i].key = k
    BY <1>3 DEF Window
  <2> HIDE DEF V, W
  <2>6. LET d == GetDiff(currentCounters, previousCounters, k)
        IN  d.valid => /\ d.Current = ExpectedCount(W)
                       /\ d.Current + d.Removed = ExpectedCount(V) + d.Added
                       /\ d.Added <= d.Current
                       /\ d.Removed <= ExpectedCount(V)
    BY <1>1, <2>3, <2>4, DiffExplainsChange DEF StoreTypeOK
  <2>7. SameData(e, W)
    BY <2>1, <2>2 DEF SameData
  <2>8. PICK j \in W : (\A i \in W : i <= j) /\ heap[s.obj].labels = log[j].labels
    BY <2>2 DEF SameIdentity
  <2>9. heap[s.obj].fix = "fixed" => \A i \in W : log[i].fix = "fixed"
    <3> SUFFICES ASSUME heap[s.obj].fix = "fixed", NEW i \in W
                 PROVE  log[i].fix = "fixed"
      OBVIOUS
    <3>1. log[s.obj].fix = "fixed" /\ log[i].fix # "unfixed" /\ s.obj \in W
      BY <2>2 DEF SameIdentity
    <3>2. log[i] \in Reports /\ log[s.obj] \in Reports /\ log[i].key = log[s.obj].key
      BY <1>1, <2>2, <2>5, LogType
    <3>3. log[i].fix # "none" /\ log[i].fix \in FixData
      BY <3>1, <3>2, StoreAssumption DEF ReportsAssumption, Intent
    <3>4. QED
      BY <3>1, <3>3 DEF FixData
  <2>10. QED
    BY <2>1, <2>2, <2>5, <2>6, <2>7, <2>8, <2>9 DEF V, W, SameIdentity
<1>9. /\ \A e \in batch' : e.obj \in Window(e.key, cuts[2], cuts[3])'
      /\ BatchCountsExplainChange' /\ BatchDescribesWindow'
  <2>1. ASSUME NEW k
        PROVE  /\ Window(k, cuts[1], cuts[2])' = Window(k, cuts[2], cuts[3])
               /\ Window(k, cuts[2], cuts[3])' = Window(k, cuts[3], Len(log))
               /\ ExpectedCount(Window(k, cuts[1], cuts[2]))' = ExpectedCount(Window(k, cuts[2], cuts[3]))
               /\ ExpectedCount(Window(k, cuts[2], cuts[3]))' = ExpectedCount(Window(k, cuts[3], Len(log)))
    BY <1>2, <1>4, SameLog
  <2>2. BatchCountsExplainChange'
    BY <1>8, <2>1 DEF BatchCountsExplainChange
  <2>3. BatchDescribesWindow'
    <3>1. ASSUME NEW e \in batch', NEW W, W = Window(e.key, cuts[3], Len(log))
          PROVE  Describes(e, W)'
      <4>1. Describes(e, W)
        BY <1>8, <3>1 DEF Describes
      <4>2. SameData(e, W)'
        BY <1>2, <4>1, SameDataFrame DEF Describes
      <4>3. QED
        BY <1>2, <4>1, <4>2 DEF Describes
    <3>2. QED
      BY <2>1, <3>1 DEF BatchDescribesWindow, Describes
  <2>4. QED
    BY <1>8, <2>1, <2>2, <2>3
<1>10. QED
  BY <1>1, <1>3, <1>4, <1>6, <1>7, <1>9 DEF WindowsInv

LEMMA WindowsFrame ==
  ASSUME WindowsInv, StoreInv',
         UNCHANGED <<currentCounters, previousCounters, heap, batch, log, cuts>>
  PROVE  WindowsInv'
<1>1. /\ CountersOf(currentCounters, cuts[3], Len(log))'
      /\ CountersOf(previousCounters, cuts[2], cuts[3])'
  BY CountersSame DEF WindowsInv
<1>2. BatchCountsExplainChange'
  BY SameLog DEF WindowsInv, BatchCountsExplainChange
<1>3. BatchDescribesWindow'
  BY DEF WindowsInv, BatchDescribesWindow, Window, SameData
<1>4. QED
  BY <1>1, <1>2, <1>3 DEF WindowsInv, Window

LEMMA CallsWindows ==
  ASSUME WindowsInv, Calls
  PROVE  WindowsInv'
<1>1. StoreInv'
  BY StoreInvStep DEF WindowsInv, StoreNext
<1>2. ASSUME NEW r \in Reports, AddIntent(r)
      PROVE  WindowsInv'
  BY <1>2, AddIntentWindows
<1>3. CASE Reset
  BY <1>1, <1>3, WindowsFrame DEF Reset
<1>4. ASSUME NEW q \in Queries, GetIntents(q)
      PROVE  WindowsInv'
  BY <1>1, <1>4, WindowsFrame DEF GetIntents
<1>5. CASE Respond
  BY <1>1, <1>5, WindowsFrame DEF Respond
<1>6. QED
  BY <1>2, <1>3, <1>4, <1>5 DEF Calls

LEMMA WindowsStep == WindowsInv /\ [StoreNext]_storeVars => WindowsInv'
<1> SUFFICES ASSUME WindowsInv, [StoreNext]_storeVars
             PROVE  WindowsInv'
  OBVIOUS
<1>1. StoreInv'
  BY StoreInvStep DEF WindowsInv
<1>2. CASE UNCHANGED storeVars
  BY <1>1, <1>2, WindowsFrame DEF storeVars
<1>3. QED
  BY <1>2, CallsWindows, GetNewIntentsWindows DEF StoreNext

THEOREM WindowsInvariant == StoreSpec => []WindowsInv
BY WindowsInit, WindowsStep, PTL DEF StoreSpec

\* The counters cover the same two windows as the store and the last batch: for any
\* reports and any order of intents and uploads no intent is counted in a window it is
\* not uploaded with, and the count of a window does not depend on the order of its
\* intents.
THEOREM CountersAlwaysFollow == StoreSpec => []CountersFollowWindows
<1>1. WindowsInv => CountersFollowWindows
  BY CountIsExpected DEF WindowsInv, CountersOf, CountersFollowWindows, Counts
<1>2. QED
  BY <1>1, WindowsInvariant, PTL

\* The counts handed out with a batch explain the change from the window before it.
THEOREM BatchCountsAlwaysExplain == StoreSpec => []BatchCountsExplainChange
<1>1. WindowsInv => BatchCountsExplainChange
  BY DEF WindowsInv
<1>2. QED
  BY <1>1, WindowsInvariant, PTL

\* A batch describes its own window although later intents reach into the identities
\* it shares with the accumulating store.
THEOREM BatchAlwaysDescribesWindow == StoreSpec => []BatchDescribesWindow
<1>1. WindowsInv => BatchDescribesWindow
  BY DEF WindowsInv
<1>2. QED
  BY <1>1, WindowsInvariant, PTL
=============================================================================
