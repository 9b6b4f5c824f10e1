------------------------- MODULE IntentsUpload_proofs -------------------------
(***************************************************************************)
(* Theorems about the upload loop beside its store, for every batch size,  *)
(* number of retries and set of reports.                                   *)
(***************************************************************************)
EXTENDS IntentsUpload, IntentsStore_proofs

-----------------------------------------------------------------------------
(* Type correctness.  That a converted intent is well typed needs that the *)
(* identities of the batch exist, and with it the invariant of the store.  *)

BatchHasIdentities == \A e \in batch : e.obj \in 1..Len(log)

UploadInv == UploadTypeOK /\ StoreInv /\ BatchHasIdentities

LEMMA InitInv == Init => UploadInv
<1> SUFFICES ASSUME Init
             PROVE  UploadInv
  OBVIOUS
<1>1. StoreInv /\ StoreTypeOK /\ batch = {}
  BY StoreInvInit DEF Init, StoreInit, StoreInv
<1>2. 0 \in 0..MaxRetries
  BY UploadAssumption
<1>3. UploadTypeOK
  BY <1>1, <1>2 DEF Init, UploadTypeOK
<1>4. QED
  BY <1>1, <1>3 DEF UploadInv, BatchHasIdentities

LEMMA IdentityType ==
  ASSUME UploadInv, NEW e \in batch
  PROVE  e \in HandedOut /\ heap[e.obj].fix \in FixData
<1>1. e \in HandedOut /\ e.obj \in 1..Len(log)
  BY DEF UploadInv, BatchHasIdentities, StoreInv, StoreTypeOK
<1>2. heap[e.obj] \in Identity
  BY <1>1, LogType DEF UploadInv, StoreInv
<1>3. QED
  BY <1>1, <1>2 DEF Identity

\* Calls of others never touch the batch the loop is working on.
LEMMA CallsInv ==
  ASSUME UploadInv, StoreCalls
  PROVE  UploadInv'
<1>1. StoreInv'
  BY StoreInvStep DEF UploadInv, StoreCalls, StoreNext
<1>2. StoreTypeOK' /\ batch' = batch
  BY <1>1 DEF StoreInv, StoreCalls, Calls, AddIntent, Reset, GetIntents, Respond
<1>3. UploadTypeOK'
  BY <1>2 DEF UploadInv, UploadTypeOK, StoreCalls, uploadVars
<1>4. Len(log) \in Nat /\ Len(log') \in Nat /\ Len(log) <= Len(log')
  <2>1. Len(log) \in Nat /\ log \in Seq(Reports)
    BY LogType DEF UploadInv, StoreInv, StoreTypeOK
  <2>2. ASSUME NEW r \in Reports, AddIntent(r)
        PROVE  Len(log') = Len(log) + 1
    BY <2>1, <2>2, LogGrows DEF AddIntent, UploadInv, StoreInv
  <2>3. CASE UNCHANGED log
    BY <2>1, <2>3
  <2>4. QED
    BY <2>1, <2>2, <2>3 DEF StoreCalls, Calls, Reset, GetIntents, Respond
<1>5. BatchHasIdentities'
  BY <1>2, <1>4 DEF UploadInv, BatchHasIdentities
<1>6. QED
  BY <1>1, <1>3, <1>5 DEF UploadInv

LEMMA TakeBatchInv ==
  ASSUME UploadInv, TakeBatch
  PROVE  UploadInv'
<1>1. StoreInv'
  BY GetNewIntentsInv DEF UploadInv, TakeBatch
<1>2. UploadTypeOK'
  BY <1>1 DEF UploadInv, UploadTypeOK, TakeBatch, StoreInv
<1>3. \A k \in DOMAIN sinceLastGetStore : sinceLastGetStore[k].obj \in 1..Len(log)
  BY WindowBounds, EntryIdentity DEF UploadInv, StoreInv, StoreTypeOK, StoresSummariseReports
<1>4. /\ log' = log
      /\ \A e \in batch' : \E k \in DOMAIN sinceLastGetStore : e.obj = sinceLastGetStore[k].obj
  BY DEF TakeBatch, GetNewIntentsSinceLastGet, getIntentsFromStore
<1>5. BatchHasIdentities'
  BY <1>3, <1>4 DEF BatchHasIdentities
<1>6. QED
  BY <1>1, <1>2, <1>5 DEF UploadInv

\* Steps of the loop that leave the store alone.
LEMMA StoreUntouched ==
  ASSUME UploadInv, UNCHANGED storeVars
  PROVE  StoreInv' /\ StoreTypeOK' /\ BatchHasIdentities' /\ batch' = batch
<1>1. StoreInv'
  BY StoreInvStep DEF UploadInv
<1>2. QED
  BY <1>1 DEF UploadInv, StoreInv, BatchHasIdentities, storeVars

LEMMA ConvertInv ==
  ASSUME UploadInv, NEW e \in unread, Convert(e)
  PROVE  UploadInv'
<1> DEFINE c == [key |-> e.key, timestamp |-> e.timestamp, resources |-> e.resources,
                 fix |-> heap[e.obj].fix, count |-> e.count]
<1>1. StoreInv' /\ StoreTypeOK' /\ BatchHasIdentities' /\ batch' = batch
  BY StoreUntouched DEF Convert
<1>2. c \in DiscoveredIntentInput
  <2>1. e \in HandedOut /\ heap[e.obj].fix \in FixData
    BY IdentityType DEF UploadInv, UploadTypeOK
  <2>2. QED
    BY <2>1 DEF HandedOut, DiscoveredIntentInput
<1>3. unsent' = unsent \cup {c}
  BY DEF Convert
<1> HIDE DEF c
<1>4. UploadTypeOK'
  BY <1>1, <1>2, <1>3 DEF UploadInv, UploadTypeOK, Convert
<1>5. QED
  BY <1>1, <1>4 DEF UploadInv

LEMMA SendingInv ==
  ASSUME UploadInv, NextChunk \/ SendFailed \/ SendSucceeded \/ GiveUp
  PROVE  UploadInv'
<1>1. StoreInv' /\ StoreTypeOK' /\ BatchHasIdentities' /\ batch' = batch
  BY StoreUntouched DEF NextChunk, SendFailed, SendSucceeded, GiveUp
<1>2. 0 \in 0..MaxRetries
  BY UploadAssumption
<1>3. CASE NextChunk
  BY <1>1, <1>3 DEF UploadInv, UploadTypeOK, NextChunk
<1>4. CASE SendFailed
  <2>1. retries' \in 0..MaxRetries
    BY <1>4, UploadAssumption DEF UploadInv, UploadTypeOK, SendFailed
  <2>2. cloud' \subseteq DiscoveredIntentInput
    BY <1>4 DEF UploadInv, UploadTypeOK, SendFailed
  <2>3. QED
    BY <1>1, <1>4, <2>1, <2>2 DEF UploadInv, UploadTypeOK, SendFailed
<1>5. CASE SendSucceeded
  BY <1>1, <1>2, <1>5 DEF UploadInv, UploadTypeOK, SendSucceeded
<1>6. CASE GiveUp
  BY <1>1, <1>2, <1>6 DEF UploadInv, UploadTypeOK, GiveUp
<1>7. QED
  BY <1>3, <1>4, <1>5, <1>6

LEMMA ShutdownInv ==
  ASSUME UploadInv, Stop \/ Cancel \/ UNCHANGED vars
  PROVE  UploadInv'
<1>1. StoreInv' /\ StoreTypeOK' /\ BatchHasIdentities' /\ batch' = batch
  BY StoreUntouched DEF Stop, Cancel, vars
<1>2. UploadTypeOK'
  BY <1>1 DEF UploadInv, UploadTypeOK, Stop, Cancel, vars, uploadVars
<1>3. QED
  BY <1>1, <1>2 DEF UploadInv

LEMMA UploadInvStep == UploadInv /\ [Next]_vars => UploadInv'
<1> SUFFICES ASSUME UploadInv, [Next]_vars
             PROVE  UploadInv'
  OBVIOUS
<1>1. CASE StoreCalls
  BY <1>1, CallsInv
<1>2. CASE TakeBatch
  BY <1>2, TakeBatchInv
<1>3. ASSUME NEW e \in unread, Convert(e)
      PROVE  UploadInv'
  BY <1>3, ConvertInv
<1>4. CASE NextChunk \/ SendFailed \/ SendSucceeded \/ GiveUp
  BY <1>4, SendingInv
<1>5. CASE Stop \/ Cancel \/ UNCHANGED vars
  BY <1>5, ShutdownInv
<1>6. QED
  BY <1>1, <1>2, <1>3, <1>4, <1>5 DEF Next, Loop

LEMMA UploadInvAlways == Spec => []UploadInv
<1>1. Init => UploadInv
  BY InitInv
<1>2. UploadInv /\ [Next]_vars => UploadInv'
  BY UploadInvStep
<1>3. QED
  BY <1>1, <1>2, PTL DEF Spec

\* The upload loop is always where what it holds says it is: nothing is left
\* unsent while it waits, and a chunk never outlives its batch, whatever
\* fails and whatever is called on the store meanwhile.
THEOREM UploadTypeCorrect == Spec => []UploadTypeOK
<1>1. UploadInv => UploadTypeOK
  BY DEF UploadInv
<1>2. QED
  BY <1>1, UploadInvAlways, PTL

-----------------------------------------------------------------------------
(* No intent is lost track of.                                             *)

Holding == unread \cup unsent \cup cloud \cup lost

\* Something in S stands for the intent at place i of the log.
CoveredBy(S, i) == \E e \in S : Covers(e, e.key, i)

InStore(i) == \E k \in DOMAIN sinceLastGetStore : Covers(sinceLastGetStore[k], k, i)

LEMMA CoveredDef == EveryReportCovered <=> \A i \in 1..Len(log) : InStore(i) \/ CoveredBy(Holding, i)
BY DEF EveryReportCovered, InStore, CoveredBy, Holding

\* Covers speaks of the log only, and the log of what was added stays.
LEMMA CoversFrame ==
  ASSUME NEW e, NEW k, NEW i, log'[i] = log[i]
  PROVE  Covers(e, k, i)' <=> Covers(e, k, i)
BY DEF Covers

\* Adding an intent keeps what stands for the earlier ones in the store, and
\* puts the new one there.
LEMMA AddIntentCovers ==
  ASSUME StoreInv, NEW r \in Reports, AddIntent(r), NEW o, o = Len(log) + 1
  PROVE  /\ \A i \in 1..Len(log) : InStore(i) => InStore(i)'
         /\ InStore(o)'
<1>1. /\ log' = Append(log, r)
      /\ sinceLastGetStore' = addIntentToStore(sinceLastGetStore, r, o)
      /\ IsStore(sinceLastGetStore)
      /\ \A i \in 1..Len(log) : log[i] \in Reports
  BY LogType DEF AddIntent, StoreInv, StoreTypeOK
<1>2. log'[o] = r /\ \A i \in 1..Len(log) : log'[i] = log[i]
  BY <1>1, LogGrows DEF StoreInv
<1>3. Inserted(sinceLastGetStore, r, o, sinceLastGetStore')
  BY <1>1, addIntentToStoreValue
<1>4. r.timestamp \in Nat
  BY ReportType
<1>5. r.key \in DOMAIN sinceLastGetStore =>
        /\ sinceLastGetStore[r.key].timestamp \in Nat
        /\ sinceLastGetStore'[r.key].timestamp = Later(sinceLastGetStore[r.key].timestamp, r.timestamp)
        /\ sinceLastGetStore'[r.key].resources = sinceLastGetStore[r.key].resources \cup r.resources
  <2> HAVE r.key \in DOMAIN sinceLastGetStore
  <2> DEFINE e == sinceLastGetStore[r.key]
             f == sinceLastGetStore'[r.key]
  <2>1. e \in TimestampedIntent
    BY <1>1, StoreEntryType
  <2>2. f = [e EXCEPT !.timestamp = Later(@, r.timestamp), !.resources = @ \cup r.resources]
    BY <1>3 DEF Inserted
  <2> HIDE DEF e, f
  <2>3. /\ e.timestamp \in Nat
        /\ f.timestamp = Later(e.timestamp, r.timestamp)
        /\ f.resources = e.resources \cup r.resources
    BY <2>1, <2>2 DEF TimestampedIntent
  <2>4. QED
    BY <2>3 DEF e, f
<1>6. r.key \notin DOMAIN sinceLastGetStore =>
        /\ sinceLastGetStore'[r.key].timestamp = r.timestamp
        /\ sinceLastGetStore'[r.key].resources = r.resources
  BY <1>3 DEF Inserted
<1>7. r.key \in DOMAIN sinceLastGetStore'
  BY <1>3 DEF Inserted
<1>8. InStore(o)'
  <2>1. /\ r.timestamp <= sinceLastGetStore'[r.key].timestamp
        /\ r.resources \subseteq sinceLastGetStore'[r.key].resources
    BY <1>4, <1>5, <1>6 DEF Later
  <2>2. QED
    BY <1>2, <1>7, <2>1 DEF InStore, Covers
<1>9. ASSUME NEW i \in 1..Len(log), InStore(i)
      PROVE  InStore(i)'
  <2>1. PICK k \in DOMAIN sinceLastGetStore : Covers(sinceLastGetStore[k], k, i)
    BY <1>9 DEF InStore
  <2>2. log'[i] = log[i] /\ log[i].timestamp \in Nat
    BY <1>1, <1>2, ReportType
  <2>3. k \in DOMAIN sinceLastGetStore'
    BY <1>3 DEF Inserted
  <2>4. CASE k # r.key
    <3>1. sinceLastGetStore'[k] = sinceLastGetStore[k]
      BY <1>3, <2>4 DEF Inserted
    <3>2. QED
      BY <2>1, <2>2, <2>3, <3>1 DEF InStore, Covers
  <2>5. CASE k = r.key
    <3> DEFINE old == sinceLastGetStore[k].timestamp
               new == sinceLastGetStore'[k].timestamp
               time == log[i].timestamp
    <3>1. old \in Nat /\ time \in Nat /\ time <= old /\ new = Later(old, r.timestamp)
      BY <1>5, <2>1, <2>2, <2>5 DEF Covers
    <3>2. time <= new
      <4> HIDE DEF old, new, time
      <4> QED
        BY <1>4, <3>1 DEF Later
    <3>3. log[i].resources \subseteq sinceLastGetStore'[k].resources
      BY <1>5, <2>1, <2>5 DEF Covers
    <3>4. QED
      BY <2>1, <2>2, <2>3, <3>2, <3>3 DEF InStore, Covers
  <2>6. QED
    BY <2>4, <2>5
<1>10. QED
  BY <1>8, <1>9

\* What stood for an intent in the store stands for it in the batch.
LEMMA TakeBatchCovers ==
  ASSUME TakeBatch, unread = {}, NEW i, InStore(i)
  PROVE  CoveredBy(Holding, i)'
<1>1. PICK k \in DOMAIN sinceLastGetStore : Covers(sinceLastGetStore[k], k, i)
  BY DEF InStore
<1> DEFINE e == [key |-> k, timestamp |-> sinceLastGetStore[k].timestamp,
                 resources |-> sinceLastGetStore[k].resources,
                 obj |-> sinceLastGetStore[k].obj,
                 count |-> GetDiff(currentCounters, previousCounters, k)]
<1>2. e \in unread' /\ log' = log
  BY DEF TakeBatch, GetNewIntentsSinceLastGet, getIntentsFromStore
<1>3. Covers(e, e.key, i)
  BY <1>1 DEF Covers
<1> HIDE DEF e
<1>4. QED
  BY <1>2, <1>3 DEF CoveredBy, Holding, Covers

\* A step of the loop outside the store hands on what it holds.
LEMMA LoopKeepsCovered ==
  ASSUME UploadInv, NEW i, CoveredBy(Holding, i),
         \/ \E e \in unread : Convert(e)
         \/ NextChunk \/ SendFailed \/ SendSucceeded \/ GiveUp \/ Stop
  PROVE  CoveredBy(Holding, i)'
<1>1. PICK h \in Holding : Covers(h, h.key, i)
  BY DEF CoveredBy
<1>2. log' = log
  BY DEF Convert, NextChunk, SendFailed, SendSucceeded, GiveUp, Stop, storeVars
<1>3. chunk \subseteq unsent
  BY DEF UploadInv, UploadTypeOK
<1>4. CASE h \in Holding'
  BY <1>1, <1>2, <1>4 DEF CoveredBy, Covers
<1>5. CASE h \notin Holding'
  <2>1. PICK e \in unread : Convert(e)
    BY <1>3, <1>5 DEF Holding, NextChunk, SendFailed, SendSucceeded, GiveUp, Stop
  <2> DEFINE c == [key |-> e.key, timestamp |-> e.timestamp, resources |-> e.resources,
                   fix |-> heap[e.obj].fix, count |-> e.count]
  <2>2. c \in Holding'
    BY <2>1 DEF Convert, Holding
  <2>3. h = e
    BY <1>5, <2>1 DEF Convert, Holding
  <2>4. Covers(c, c.key, i)
    BY <1>1, <2>3 DEF Covers
  <2> HIDE DEF c
  <2>5. QED
    BY <1>2, <2>2, <2>4 DEF CoveredBy, Covers
<1>6. QED
  BY <1>4, <1>5

LEMMA CoveredStep ==
  ASSUME UploadInv, EveryReportCovered, [Next]_vars
  PROVE  EveryReportCovered'
<1>1. \A i \in 1..Len(log) : InStore(i) \/ CoveredBy(Holding, i)
  BY CoveredDef
<1>2. StoreInv /\ Len(log) \in Nat /\ StoreTypeOK
  BY LogType DEF UploadInv, StoreInv
<1>3. SUFFICES \A i \in 1..Len(log') : InStore(i)' \/ CoveredBy(Holding, i)'
  BY DEF EveryReportCovered, InStore, CoveredBy, Holding
<1>4. ASSUME NEW r \in Reports, AddIntent(r), UNCHANGED uploadVars
      PROVE  \A i \in 1..Len(log') : InStore(i)' \/ CoveredBy(Holding, i)'
  <2>1. Len(log') = Len(log) + 1 /\ \A i \in 1..Len(log) : log'[i] = log[i]
    BY <1>2, <1>4, LogGrows DEF AddIntent
  <2>2. ASSUME NEW o, o = Len(log) + 1
        PROVE  InStore(o)'
    BY <1>2, <1>4, <2>2, AddIntentCovers
  <2>3. ASSUME NEW i \in 1..Len(log)
        PROVE  InStore(i)' \/ CoveredBy(Holding, i)'
    <3>1. CASE InStore(i)
      BY <1>2, <1>4, <3>1, AddIntentCovers
    <3>2. CASE CoveredBy(Holding, i)
      BY <1>4, <2>1, <3>2 DEF CoveredBy, Covers, Holding, uploadVars
    <3>3. QED
      BY <1>1, <3>1, <3>2
  <2>4. \A i \in 1..Len(log') : i \in 1..Len(log) \/ i = Len(log) + 1
    BY <1>2, <2>1
  <2>5. QED
    BY <2>2, <2>3, <2>4
<1>5. CASE UNCHANGED <<sinceLastGetStore, log, uploadVars>>
  BY <1>1, <1>5 DEF InStore, CoveredBy, Covers, Holding, uploadVars
<1>6. CASE TakeBatch
  <2>1. unread = {}
    BY <1>6 DEF UploadInv, UploadTypeOK, TakeBatch
  <2>2. log' = log /\ Holding \subseteq Holding'
    BY <1>6, <2>1 DEF TakeBatch, GetNewIntentsSinceLastGet, Holding
  <2>3. ASSUME NEW i \in 1..Len(log)
        PROVE  CoveredBy(Holding, i)'
    <3>1. CASE InStore(i)
      BY <1>6, <2>1, <3>1, TakeBatchCovers
    <3>2. CASE CoveredBy(Holding, i)
      BY <2>2, <3>2 DEF CoveredBy, Covers
    <3>3. QED
      BY <1>1, <3>1, <3>2
  <2>4. QED
    BY <2>2, <2>3
<1>7. CASE \/ \E e \in unread : Convert(e)
           \/ NextChunk \/ SendFailed \/ SendSucceeded \/ GiveUp \/ Stop
  <2>1. log' = log /\ sinceLastGetStore' = sinceLastGetStore
    BY <1>7 DEF Convert, NextChunk, SendFailed, SendSucceeded, GiveUp, Stop, storeVars
  <2>2. ASSUME NEW i \in 1..Len(log)
        PROVE  InStore(i)' \/ CoveredBy(Holding, i)'
    <3>1. CASE InStore(i)
      BY <2>1, <3>1 DEF InStore, Covers
    <3>2. CASE CoveredBy(Holding, i)
      BY <1>7, <3>2, LoopKeepsCovered
    <3>3. QED
      BY <1>1, <3>1, <3>2
  <2>3. QED
    BY <2>1, <2>2
<1>8. CASE Cancel
  <2>1. UNCHANGED <<sinceLastGetStore, log, unread, unsent, cloud, lost>>
    BY <1>8 DEF Cancel, storeVars
  <2>2. QED
    BY <1>1, <2>1 DEF InStore, CoveredBy, Covers, Holding
<1>9. QED
  BY <1>4, <1>5, <1>6, <1>7, <1>8
  DEF Next, Loop, StoreCalls, Calls, Reset, GetIntents, Respond, vars, storeVars

\* For any reports and any batch size, whatever the order of resets, queries,
\* failed requests and shutdown: at every moment each intent ever added is
\* covered by something in the store, on its way, at the cloud or given up.
THEOREM NoReportLostTrackOf == Spec => []EveryReportCovered
<1>1. Init => EveryReportCovered
  BY DEF Init, StoreInit, EveryReportCovered
<1>2. UploadInv /\ EveryReportCovered /\ [Next]_vars => EveryReportCovered'
  BY CoveredStep
<1>3. QED
  BY <1>1, <1>2, UploadInvAlways, PTL DEF Spec

-----------------------------------------------------------------------------
(* Store and loop implement the report pipeline.                           *)

LEMMA FactsInElements ==
  ASSUME NEW S, NEW f
  PROVE  f \in FactsIn(S) <=> \E e \in S : f \in FactsOf(e.key, e.resources)
BY DEF FactsIn

LEMMA FactsInUnion ==
  ASSUME NEW S, NEW T
  PROVE  FactsIn(S \cup T) = FactsIn(S) \cup FactsIn(T)
<1>1. ASSUME NEW f
      PROVE  f \in FactsIn(S \cup T) <=> f \in FactsIn(S) \/ f \in FactsIn(T)
  BY FactsInElements
<1>2. QED
  BY <1>1

LEMMA FactsInSubset ==
  ASSUME NEW S, NEW T, S \subseteq T
  PROVE  FactsIn(S) \subseteq FactsIn(T)
<1>1. T = T \cup S
  OBVIOUS
<1>2. QED
  BY <1>1, FactsInUnion

LEMMA FactsInEmpty == FactsIn({}) = {}
BY DEF FactsIn

LEMMA CollectedElements ==
  \A f : f \in Collected <=>
          \E k \in DOMAIN sinceLastGetStore : f \in FactsOf(k, sinceLastGetStore[k].resources)
BY DEF Collected

LEMMA FactsOfType ==
  ASSUME NEW k \in Keys, NEW resources \in SUBSET Resources
  PROVE  FactsOf(k, resources) \subseteq AllFacts
BY DEF FactsOf, AllFacts

LEMMA StoreFactsType ==
  ASSUME NEW store, IsStore(store)
  PROVE  UNION {FactsOf(k, store[k].resources) : k \in DOMAIN store} \subseteq AllFacts
<1>1. ASSUME NEW k \in DOMAIN store
      PROVE  FactsOf(k, store[k].resources) \subseteq AllFacts
  <2>1. k \in Keys /\ store[k].resources \in SUBSET Resources
    BY StoreEntryType DEF IsStore
  <2>2. QED
    BY <2>1, FactsOfType
<1>2. QED
  BY <1>1

LEMMA AddIntentDiscovers ==
  ASSUME UploadInv, UploadInv', NEW r \in Reports, AddIntent(r), UNCHANGED uploadVars
  PROVE  Pipeline!Discover
<1>1. Inserted(sinceLastGetStore, r, Len(log) + 1, sinceLastGetStore')
  BY addIntentToStoreValue DEF AddIntent
<1>2. ASSUME NEW k \in DOMAIN sinceLastGetStore
      PROVE  /\ k \in DOMAIN sinceLastGetStore'
             /\ sinceLastGetStore[k].resources \subseteq sinceLastGetStore'[k].resources
  <2>1. CASE k # r.key
    BY <1>1, <2>1 DEF Inserted
  <2>2. CASE k = r.key
    <3> DEFINE e == sinceLastGetStore[r.key]
               f == sinceLastGetStore'[r.key]
    <3>1. e \in TimestampedIntent
      BY <2>2, StoreEntryType DEF UploadInv, StoreInv, StoreTypeOK
    <3>2. f = [e EXCEPT !.timestamp = Later(@, r.timestamp), !.resources = @ \cup r.resources]
      BY <1>1, <2>2 DEF Inserted
    <3> HIDE DEF e, f
    <3>3. e.resources \subseteq f.resources
      BY <3>1, <3>2 DEF TimestampedIntent
    <3>4. QED
      BY <1>1, <2>2, <3>3 DEF Inserted, e, f
  <2>3. QED
    BY <2>1, <2>2
<1>3. Collected \subseteq Collected'
  <2>1. SUFFICES ASSUME NEW f \in Collected
                 PROVE  f \in Collected'
    OBVIOUS
  <2>2. PICK k \in DOMAIN sinceLastGetStore : f \in FactsOf(k, sinceLastGetStore[k].resources)
    BY CollectedElements
  <2>3. f \in FactsOf(k, sinceLastGetStore'[k].resources)
    BY <1>2, <2>2 DEF FactsOf
  <2>4. QED
    BY <1>2, <2>3 DEF Collected
<1>4. Collected' \subseteq AllFacts
  <2>1. IsStore(sinceLastGetStore')
    BY DEF UploadInv, StoreInv, StoreTypeOK, IsStore
  <2>2. QED
    BY <2>1, StoreFactsType DEF Collected, FactsOf
<1>5. UNCHANGED <<InFlight, FactsIn(cloud), FactsIn(lost)>>
  BY DEF uploadVars, InFlight, FactsIn, FactsOf
<1>6. QED
  BY <1>3, <1>4, <1>5 DEF Pipeline!Discover

LEMMA TakeBatchTakesAll ==
  ASSUME UploadInv, TakeBatch
  PROVE  Pipeline!TakeAll
<1>1. unread = {} /\ unsent = {} /\ unsent' = {}
  BY DEF UploadInv, UploadTypeOK, TakeBatch
<1>2. InFlight = {}
  BY <1>1, FactsInEmpty DEF InFlight
<1>3. Collected' = {}
  BY DEF TakeBatch, GetNewIntentsSinceLastGet, Collected, EmptyMap
<1>4. InFlight' = Collected
  <2>1. InFlight' = FactsIn(batch')
    BY <1>1 DEF InFlight, FactsIn, FactsOf, TakeBatch
  <2>2. ASSUME NEW f
        PROVE  f \in FactsIn(batch') <=> f \in Collected
    <3>1. f \in FactsIn(batch') <=> \E e \in batch' : f \in FactsOf(e.key, e.resources)
      BY FactsInElements
    <3> DEFINE entry(k) ==
          [key |-> k, timestamp |-> sinceLastGetStore[k].timestamp,
           resources |-> sinceLastGetStore[k].resources, obj |-> sinceLastGetStore[k].obj,
           count |-> GetDiff(currentCounters, previousCounters, k)]
    <3>2. /\ batch' = {entry(k) : k \in DOMAIN sinceLastGetStore}
          /\ \A k : entry(k).key = k /\ entry(k).resources = sinceLastGetStore[k].resources
      BY DEF TakeBatch, GetNewIntentsSinceLastGet, getIntentsFromStore
    <3> HIDE DEF entry
    <3>3. (\E e \in batch' : f \in FactsOf(e.key, e.resources))
            <=> \E k \in DOMAIN sinceLastGetStore : f \in FactsOf(k, sinceLastGetStore[k].resources)
      BY <3>2
    <3>4. QED
      BY <3>1, <3>3, CollectedElements
  <2>3. QED
    BY <2>1, <2>2
<1>5. UNCHANGED <<FactsIn(cloud), FactsIn(lost)>>
  BY DEF TakeBatch, FactsIn, FactsOf
<1>6. QED
  BY <1>2, <1>3, <1>4, <1>5 DEF Pipeline!TakeAll

\* A step after which the same facts are everywhere.
LEMMA Stuttering ==
  ASSUME UNCHANGED <<sinceLastGetStore, cloud, lost>>, InFlight' = InFlight
  PROVE  UNCHANGED Pipeline!pipelineVars
BY DEF Pipeline!pipelineVars, Collected, FactsIn, FactsOf

\* Converting an intent changes nothing of the facts it stands for.
LEMMA ConvertStutters ==
  ASSUME NEW e \in unread, Convert(e)
  PROVE  UNCHANGED Pipeline!pipelineVars
<1> DEFINE c == [key |-> e.key, timestamp |-> e.timestamp, resources |-> e.resources,
                 fix |-> heap[e.obj].fix, count |-> e.count]
<1>1. /\ unread' = unread \ {e} /\ unsent' = unsent \cup {c}
      /\ c.key = e.key /\ c.resources = e.resources
      /\ UNCHANGED <<sinceLastGetStore, cloud, lost>>
  BY DEF Convert, storeVars
<1> HIDE DEF c
<1>2. FactsOf(c.key, c.resources) = FactsOf(e.key, e.resources)
  BY <1>1
<1>3. ASSUME NEW f
      PROVE  f \in FactsIn(unread' \cup unsent') <=> f \in FactsIn(unread \cup unsent)
  BY <1>1, <1>2, FactsInElements
<1>4. InFlight' = InFlight
  <2>1. InFlight' = FactsIn(unread' \cup unsent')
    BY DEF InFlight, FactsIn, FactsOf
  <2>2. QED
    BY <1>3, <2>1 DEF InFlight
<1>5. QED
  BY <1>1, <1>4, Stuttering

\* What the cloud may have after a request with the chunk.
LEMMA RequestReceives ==
  ASSUME UploadInv, cloud' = cloud \/ cloud' = cloud \cup chunk
  PROVE  Pipeline!Receive
<1>1. chunk \subseteq unread \cup unsent
  BY DEF UploadInv, UploadTypeOK
<1>2. FactsIn(chunk) \subseteq InFlight
  BY <1>1, FactsInSubset DEF InFlight
<1>3. FactsIn(cloud') = FactsIn(cloud) \/ FactsIn(cloud') = FactsIn(cloud) \cup FactsIn(chunk)
  BY FactsInUnion
<1>4. FactsIn(cloud)' = FactsIn(cloud')
  BY DEF FactsIn, FactsOf
<1>5. QED
  BY <1>2, <1>3, <1>4 DEF Pipeline!Receive

LEMMA SendFailedTransfers ==
  ASSUME UploadInv, SendFailed
  PROVE  Pipeline!Transfer
<1>1. Pipeline!Receive
  BY RequestReceives DEF SendFailed
<1>2. UNCHANGED <<sinceLastGetStore, unread, unsent, lost>>
  BY DEF SendFailed, storeVars
<1>3. UNCHANGED <<Collected, InFlight, FactsIn(lost)>>
  BY <1>2 DEF Collected, InFlight, FactsIn, FactsOf
<1>4. QED
  BY <1>1, <1>3 DEF Pipeline!Transfer

LEMMA SendSucceededTransfers ==
  ASSUME UploadInv, SendSucceeded
  PROVE  Pipeline!Transfer
<1>1. Pipeline!Receive
  BY RequestReceives DEF SendSucceeded
<1>2. /\ UNCHANGED <<sinceLastGetStore, unread, lost>>
      /\ unread = {} /\ unsent' = unsent \ chunk /\ cloud' = cloud \cup chunk
      /\ chunk \subseteq unsent
  BY DEF SendSucceeded, storeVars, UploadInv, UploadTypeOK
<1>3. UNCHANGED <<Collected, FactsIn(lost)>>
  BY <1>2 DEF Collected, FactsIn, FactsOf
<1>4. InFlight = FactsIn(unsent \ chunk) \cup FactsIn(chunk)
  <2>1. unread \cup unsent = (unsent \ chunk) \cup chunk
    BY <1>2
  <2>2. QED
    BY <2>1, FactsInUnion DEF InFlight
<1>5. InFlight' = FactsIn(unsent \ chunk)
  <2>1. unread' \cup unsent' = unsent \ chunk
    BY <1>2
  <2>2. QED
    BY <2>1 DEF InFlight, FactsIn, FactsOf
<1>6. FactsIn(chunk) \subseteq FactsIn(cloud)'
  <2>1. FactsIn(cloud)' = FactsIn(cloud \cup chunk)
    BY <1>2 DEF FactsIn, FactsOf
  <2>2. QED
    BY <2>1, FactsInUnion
<1>7. QED
  BY <1>1, <1>3, <1>4, <1>5, <1>6 DEF Pipeline!Transfer

LEMMA GiveUpGivesUp ==
  ASSUME UploadInv, GiveUp
  PROVE  Pipeline!GiveUp
<1>1. Pipeline!Receive
  BY RequestReceives DEF GiveUp
<1>2. /\ UNCHANGED <<sinceLastGetStore, unread>>
      /\ unread = {} /\ unsent' = {} /\ lost' = lost \cup unsent
  BY DEF GiveUp, storeVars, UploadInv, UploadTypeOK
<1>3. UNCHANGED Collected
  BY <1>2 DEF Collected, FactsOf
<1>4. InFlight = FactsIn(unsent)
  BY <1>2 DEF InFlight
<1>5. InFlight' = {}
  BY <1>2 DEF InFlight, FactsIn
<1>6. FactsIn(lost)' = FactsIn(lost) \cup FactsIn(unsent)
  <2>1. FactsIn(lost)' = FactsIn(lost \cup unsent)
    BY <1>2 DEF FactsIn, FactsOf
  <2>2. QED
    BY <2>1, FactsInUnion
<1>7. QED
  BY <1>1, <1>3, <1>4, <1>5, <1>6 DEF Pipeline!GiveUp

LEMMA RefinementInit == Init => Pipeline!PipelineInit
BY FactsInEmpty
DEF Init, StoreInit, EmptyMap, Pipeline!PipelineInit, Collected, InFlight

LEMMA RefinementStep ==
  ASSUME UploadInv, UploadInv', [Next]_vars
  PROVE  [Pipeline!PipelineNext]_Pipeline!pipelineVars
<1>1. ASSUME NEW r \in Reports, AddIntent(r), UNCHANGED uploadVars
      PROVE  Pipeline!PipelineNext
  BY <1>1, AddIntentDiscovers DEF Pipeline!PipelineNext
<1>2. CASE TakeBatch
  BY <1>2, TakeBatchTakesAll DEF Pipeline!PipelineNext
<1>3. ASSUME NEW e \in unread, Convert(e)
      PROVE  UNCHANGED Pipeline!pipelineVars
  BY <1>3, ConvertStutters
<1>4. CASE SendFailed
  BY <1>4, SendFailedTransfers DEF Pipeline!PipelineNext
<1>5. CASE SendSucceeded
  BY <1>5, SendSucceededTransfers DEF Pipeline!PipelineNext
<1>6. CASE GiveUp
  BY <1>6, GiveUpGivesUp DEF Pipeline!PipelineNext
<1>7. CASE UNCHANGED <<sinceLastGetStore, unread, unsent, cloud, lost>>
  BY <1>7, Stuttering DEF InFlight, FactsIn, FactsOf
<1>8. QED
  BY <1>1, <1>2, <1>3, <1>4, <1>5, <1>6, <1>7
  DEF Next, Loop, StoreCalls, Calls, Reset, GetIntents, Respond, NextChunk, Stop, Cancel,
      storeVars, uploadVars, vars

\* For every set of reports, batch size and bound on the retries, the store
\* and its upload loop implement the report pipeline: facts are delivered at
\* least once or given up with their whole batch, and nothing else happens to
\* them.
THEOREM UploadImplementsPipeline == Spec => ImplementsPipeline
<1>1. Init => Pipeline!PipelineInit
  BY RefinementInit
<1>2. UploadInv /\ UploadInv' /\ [Next]_vars => [Pipeline!PipelineNext]_Pipeline!pipelineVars
  BY RefinementStep
<1>3. QED
  BY <1>1, <1>2, UploadInvAlways, PTL DEF Spec, ImplementsPipeline, Pipeline!PipelineSpec

-----------------------------------------------------------------------------
(* The cloud is told summaries of windows.                                 *)

\* What CloudReportsSummariseWindows says of a report and a window.
SummaryOf(e, W) ==
  /\ SameData(e, W)
  /\ e.count.valid => e.count.Current = ExpectedCount(W)
  /\ e.fix = "fixed" => \A i \in W : log[i].fix = "fixed"

OfSomeWindow(e) == \E lo, hi \in 0..Len(log) : SummaryOf(e, Window(e.key, lo, hi))

\* The inductive invariant: with the windows of the store, whose batch the reports
\* are converted from.
CloudInv ==
  /\ UploadInv /\ WindowsInv
  /\ \A e \in unsent \cup cloud : OfSomeWindow(e)

\* Summaries of windows that are closed stay summaries.
LEMMA SummaryAppend ==
  ASSUME StoreTypeOK, NEW r \in Reports, log' = Append(log, r), NEW e, OfSomeWindow(e)
  PROVE  OfSomeWindow(e)'
<1>1. PICK lo \in 0..Len(log), hi \in 0..Len(log) : SummaryOf(e, Window(e.key, lo, hi))
  BY DEF OfSomeWindow
<1>2. Len(log) \in Nat /\ Len(log') = Len(log) + 1
  BY LogType, LogGrows
<1>3. lo \in 0..Len(log') /\ hi \in 0..Len(log') /\ lo \in Nat
  BY <1>2
<1> DEFINE V == Window(e.key, lo, hi)
<1>4. V' = V /\ \A i \in V : log'[i] = log[i]
  BY <1>3, WindowFrame
<1>5. ASSUME NEW W, W = V
      PROVE  SummaryOf(e, W)'
  <2>1. SameData(e, W)' /\ ExpectedCount(W)' = ExpectedCount(W)
    BY <1>1, <1>4, <1>5, SameDataFrame, ExpectedFrame DEF SummaryOf
  <2>2. QED
    BY <1>1, <1>4, <1>5, <2>1 DEF SummaryOf
<1>6. QED
  BY <1>3, <1>4, <1>5 DEF OfSomeWindow

LEMMA SummarySameLog ==
  ASSUME log' = log, NEW e, OfSomeWindow(e)
  PROVE  OfSomeWindow(e)'
<1>1. PICK lo \in 0..Len(log), hi \in 0..Len(log) : SummaryOf(e, Window(e.key, lo, hi))
  BY DEF OfSomeWindow
<1>2. ASSUME NEW W, SummaryOf(e, W)
      PROVE  SummaryOf(e, W)'
  BY <1>2, SameDataFrame, ExpectedFrame DEF SummaryOf
<1>3. QED
  BY <1>1, <1>2, SameLog DEF OfSomeWindow

LEMMA ConvertSummary ==
  ASSUME CloudInv, NEW e \in unread, Convert(e)
  PROVE  \A c \in unsent' : c \in unsent \/ OfSomeWindow(c)
<1> DEFINE c == [key |-> e.key, timestamp |-> e.timestamp, resources |-> e.resources,
                 fix |-> heap[e.obj].fix, count |-> e.count]
           W == Window(e.key, cuts[2], cuts[3])
<1>1. e \in batch /\ unsent' = unsent \cup {c}
  BY DEF CloudInv, UploadInv, UploadTypeOK, Convert
<1>2. cuts[2] \in 0..Len(log) /\ cuts[3] \in 0..Len(log)
  BY CutsType, LogType DEF CloudInv, WindowsInv, StoreInv
<1>3. /\ SameData(e, W)
      /\ heap[e.obj].fix = "fixed" => \A i \in W : log[i].fix = "fixed"
      /\ e.count.valid => e.count.Current = ExpectedCount(W)
  BY <1>1 DEF CloudInv, WindowsInv, BatchDescribesWindow, BatchCountsExplainChange
<1>4. SummaryOf(c, W)
  BY <1>3 DEF SummaryOf, SameData
<1>5. c.key = e.key
  OBVIOUS
<1> HIDE DEF c, W
<1>6. OfSomeWindow(c)
  BY <1>2, <1>4, <1>5 DEF OfSomeWindow, W
<1>7. QED
  BY <1>1, <1>6

LEMMA CloudInit == Init => CloudInv
BY InitInv, WindowsInit DEF CloudInv, Init

LEMMA CloudStep == CloudInv /\ [Next]_vars => CloudInv'
<1> SUFFICES ASSUME CloudInv, [Next]_vars
             PROVE  CloudInv'
  OBVIOUS
<1>1. UploadInv' /\ StoreTypeOK
  BY UploadInvStep DEF CloudInv, WindowsInv, StoreInv
<1>2. WindowsInv'
  <2>1. CASE StoreCalls
    BY <2>1, CallsWindows DEF StoreCalls, CloudInv
  <2>2. CASE TakeBatch
    BY <2>2, GetNewIntentsWindows DEF TakeBatch, CloudInv
  <2>3. CASE UNCHANGED storeVars
    BY <2>3, WindowsStep DEF CloudInv
  <2>4. QED
    BY <2>1, <2>2, <2>3
       DEF Next, Loop, Convert, NextChunk, SendFailed, SendSucceeded, GiveUp, Stop, Cancel, vars
<1>3. ASSUME NEW e, OfSomeWindow(e)
      PROVE  OfSomeWindow(e)'
  <2>1. ASSUME NEW r \in Reports, AddIntent(r)
        PROVE  OfSomeWindow(e)'
    BY <1>1, <1>3, <2>1, SummaryAppend DEF AddIntent
  <2>2. CASE log' = log
    BY <1>3, <2>2, SummarySameLog
  <2>3. log' = log \/ \E r \in Reports : AddIntent(r)
    BY DEF Next, Loop, StoreCalls, Calls, Reset, GetIntents, Respond, TakeBatch,
           GetNewIntentsSinceLastGet, Convert, NextChunk, SendFailed, SendSucceeded, GiveUp,
           Stop, Cancel, vars, storeVars
  <2>4. QED
    BY <2>1, <2>2, <2>3
<1>4. \A e \in unsent' \cup cloud' : e \in unsent \cup cloud \/ OfSomeWindow(e)
  <2>1. ASSUME NEW e \in unread, Convert(e)
        PROVE  \A c \in unsent' \cup cloud' : c \in unsent \cup cloud \/ OfSomeWindow(c)
    BY <2>1, ConvertSummary DEF Convert
  <2>2. CASE UNCHANGED <<unsent, cloud>>
    BY <2>2
  <2>3. CASE SendFailed \/ SendSucceeded \/ GiveUp
    BY <2>3 DEF SendFailed, SendSucceeded, GiveUp, CloudInv, UploadInv, UploadTypeOK
  <2>4. QED
    BY <2>1, <2>2, <2>3
       DEF Next, Loop, StoreCalls, uploadVars, TakeBatch, NextChunk, Stop, Cancel, vars
<1>5. \A e \in unsent' \cup cloud' : OfSomeWindow(e)'
  BY <1>3, <1>4 DEF CloudInv
<1>6. QED
  BY <1>1, <1>2, <1>5 DEF CloudInv

\* For any batch size, any failures and any calls on the store meanwhile, the cloud is
\* told nothing but summaries of windows: a report's data and connection count belong
\* to the same intents of its key, and it carries fix data only if all of them were
\* discovered with the fix.
THEOREM CloudAlwaysToldSummaries == Spec => []CloudReportsSummariseWindows
<1>1. CloudInv => CloudReportsSummariseWindows
  BY DEF CloudInv, OfSomeWindow, SummaryOf, CloudReportsSummariseWindows
<1>2. QED
  BY <1>1, CloudInit, CloudStep, PTL DEF Spec
=============================================================================
