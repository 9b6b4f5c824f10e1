----------------------------- MODULE IntentsStore -----------------------------
(***************************************************************************)
(* IntentsHolder of package intentsstore: the in-memory store of           *)
(* discovered intents.  Result handlers call AddIntent, the GraphQL        *)
(* resolvers Reset and GetIntents, the upload loop                         *)
(* GetNewIntentsSinceLastGet; each of these runs under the holder's lock   *)
(* and is one step here.                                                   *)
(*                                                                         *)
(* A stored intent holds pointers to its Client and Server identities.     *)
(* Both stores keep the pointers of the intent that was inserted first,    *)
(* and so do the results handed out.  "heap" holds what those identities   *)
(* carry that AddIntent rewrites later: the pod labels and                 *)
(* Server.ResolutionData.TCPDestResolveFixData.  Every intent brings new   *)
(* identities, numbered by its place in "log", a history variable with all *)
(* the intents ever added.                                                 *)
(***************************************************************************)
EXTENDS ConnectionCounter, Sequences

CONSTANTS
  Keys,                \* IntentsStoreKey: [source, destination, type]
  Resources,           \* a Kafka topic with an operation, an HTTP path with a method
  Labels,              \* pod labels
  Reports,             \* the intents resolvers may add
  Queries,             \* the arguments of GetIntents; "servers" holds the server filter, if any
  ExcludedNamespaces,  \* config.ExcludedNamespaces()
  MaxReports           \* bound on the length of log

\* Server.ResolutionData is nil, has no TCPDestResolveFixData, or has it.
FixData == {"none", "unfixed", "fixed"}

Intent == [key: Keys, timestamp: Nat, resources: SUBSET Resources,
           labels: SUBSET Labels, fix: FixData,
           resolution: Resolutions, ports: SUBSET Ports]

\* An intent of network traffic (type nil) has a server with ResolutionData
\* and no resources; a Kafka or HTTP intent has resources, a server without
\* ResolutionData and a resolution that is not counted.
ReportsAssumption ==
  /\ Reports \subseteq Intent
  /\ \A r \in Reports :
       IF r.key.type = "none"
       THEN r.resources = {} /\ r.fix # "none"
       ELSE r.fix = "none" /\ r.resolution \in UncountedResolutions

ASSUME StoreAssumption == ReportsAssumption /\ MaxReports \in Nat

VARIABLES
  accumulatingStore,   \* intents since the last Reset
  sinceLastGetStore,   \* intents since the last upload
  currentCounters,     \* connectionsCountDiffer: the window being collected
  previousCounters,    \*   and the window before it
  heap,                \* heap[o]: the identities that intent o brought
  batch,               \* the slice GetNewIntentsSinceLastGet returned last
  answers,             \* query results a GraphQL handler is still writing out
  log,                 \* history: the intents added
  resetAt,             \* history: Len(log) at the last Reset
  cuts                 \* history: Len(log) at the last three uploads

storeVars == <<accumulatingStore, sinceLastGetStore, currentCounters,
               previousCounters, heap, batch, answers, log, resetAt, cuts>>

-----------------------------------------------------------------------------
EmptyMap == [k \in {} |-> {}]

\* m[key] = value of a Go map.
Put(m, key, value) ==
  [k \in DOMAIN m \cup {key} |-> IF k = key THEN value ELSE m[k]]

\* The map of the stores: what addIntentToStore copies by value.
TimestampedIntent == [timestamp: Nat, resources: SUBSET Resources, obj: Nat]

\* What GetNewIntentsSinceLastGet and GetIntents hand out.
HandedOut == [key: Keys, timestamp: Nat, resources: SUBSET Resources, obj: Nat,
              count: ConnectionsCount]

IsStore(store) ==
  DOMAIN store \subseteq Keys /\ store \in [DOMAIN store -> TimestampedIntent]

IsCounterMap(counters) ==
  DOMAIN counters \subseteq Keys /\ counters \in [DOMAIN counters -> Counter]

Later(s, t) == IF t > s THEN t ELSE s

\* A mutant: the timestamp of the intent merged last wins, even an older one.
addIntentToStoreKeepsLast(store, r, o) ==
  IF r.key \in DOMAIN store
  THEN Put(store, r.key,
           [store[r.key] EXCEPT !.timestamp = r.timestamp,
                                !.resources = @ \cup r.resources])
  ELSE Put(store, r.key, [timestamp |-> r.timestamp, resources |-> r.resources, obj |-> o])

\* addIntentToStore, the part kept by value: the latest timestamp and the
\* union of topics, paths and methods.
addIntentToStore(store, r, o) ==
  IF r.key \in DOMAIN store
  THEN Put(store, r.key,
           [store[r.key] EXCEPT !.timestamp = Later(@, r.timestamp),
                                !.resources = @ \cup r.resources])
  ELSE Put(store, r.key, [timestamp |-> r.timestamp, resources |-> r.resources, obj |-> o])

\* A mutant: the fix data of the latest intent replaces what was there.
mergeFixKeepsLast(existing, new) ==
  IF existing # "none" /\ new # "none" THEN new ELSE existing

\* "One of the intents was not discovered using the bugfix, so we want to
\* keep it that way."
mergeFix(existing, new) ==
  IF existing = "fixed" /\ new = "unfixed" THEN "unfixed" ELSE existing

\* addIntentToStore, the part reached through pointers: the identities of the
\* intent already stored take the new labels and lose the fix data.
addIntentToHeap(h, store, r) ==
  IF r.key \in DOMAIN store
  THEN [h EXCEPT ![store[r.key].obj] =
          [labels |-> r.labels, fix |-> mergeFix(@.fix, r.fix)]]
  ELSE h

\* ConnectionCountDiffer.Increment.
Increment(counters, r) ==
  LET c == IF r.key \in DOMAIN counters THEN counters[r.key] ELSE NewConnectionCounter
  IN  Put(counters, r.key, AddConnection(c, r.resolution, r.ports))

Excluded(key) == {key.source.namespace, key.destination.namespace} \cap ExcludedNamespaces # {}

-----------------------------------------------------------------------------
StoreInit ==
  /\ accumulatingStore = EmptyMap
  /\ sinceLastGetStore = EmptyMap
  /\ currentCounters = EmptyMap
  /\ previousCounters = EmptyMap
  /\ heap = <<>>
  /\ batch = {}
  /\ answers = {}
  /\ log = <<>>
  /\ resetAt = 0
  /\ cuts = <<0, 0, 0>>

\* AddIntent; an intent of an excluded namespace changes nothing.
AddIntent(r) ==
  LET o == Len(log) + 1
      inserted == Append(heap, [labels |-> r.labels, fix |-> r.fix])
  IN  /\ Len(log) < MaxReports
      /\ ~Excluded(r.key)
      /\ accumulatingStore' = addIntentToStore(accumulatingStore, r, o)
      /\ sinceLastGetStore' = addIntentToStore(sinceLastGetStore, r, o)
      /\ heap' = addIntentToHeap(addIntentToHeap(inserted, accumulatingStore, r),
                                 sinceLastGetStore, r)
      /\ currentCounters' = Increment(currentCounters, r)
      /\ log' = Append(log, r)
      /\ UNCHANGED <<previousCounters, batch, answers, resetAt, cuts>>

\* A mutant: Reset also empties the store of the upload loop.
ResetBoth ==
  /\ accumulatingStore' = EmptyMap
  /\ sinceLastGetStore' = EmptyMap
  /\ resetAt' = Len(log)
  /\ UNCHANGED <<currentCounters, previousCounters, heap, batch, answers, log, cuts>>

\* The resetCapture mutation: only the accumulating store is emptied.
Reset ==
  /\ accumulatingStore' = EmptyMap
  /\ resetAt' = Len(log)
  /\ UNCHANGED <<sinceLastGetStore, currentCounters, previousCounters, heap,
                 batch, answers, log, cuts>>

\* getIntentsFromStore over the keys that pass the filters.  The deep copy it
\* makes has its labels filtered, and the stored intent itself is returned.
getIntentsFromStore(store, keys) ==
  {[key |-> k, timestamp |-> store[k].timestamp, resources |-> store[k].resources,
    obj |-> store[k].obj, count |-> GetDiff(currentCounters, previousCounters, k)] :
     k \in keys}

\* The sources that call the server the query asks for.
getAllClientsCallingServer(server, store) ==
  {k.source : k \in {d \in DOMAIN store : d.destination = server}}

Selected(store, q) ==
  {k \in DOMAIN store :
     /\ heap[store[k].obj].labels \cap q.excludeServiceWithLabels = {}
     /\ q.namespaces # {} => k.source.namespace \in q.namespaces
     /\ \A server \in q.servers : k.source \in getAllClientsCallingServer(server, store)}

\* The intents and serviceIntents queries: the lock is released with the
\* result still sharing the stored identities.  One query at a time.
GetIntents(q) ==
  /\ answers = {}
  /\ answers' = {[query |-> q,
                  intents |-> getIntentsFromStore(accumulatingStore,
                                                  Selected(accumulatingStore, q))]}
  /\ UNCHANGED <<accumulatingStore, sinceLastGetStore, currentCounters,
                 previousCounters, heap, batch, log, resetAt, cuts>>

\* The GraphQL server has written the result out.
Respond ==
  /\ answers # {}
  /\ answers' = {}
  /\ UNCHANGED <<accumulatingStore, sinceLastGetStore, currentCounters,
                 previousCounters, heap, batch, log, resetAt, cuts>>

\* A mutant: the counters begin a new window and the store does not.
GetNewIntentsKeepingStore ==
  /\ batch' = getIntentsFromStore(sinceLastGetStore, DOMAIN sinceLastGetStore)
  /\ previousCounters' = currentCounters
  /\ currentCounters' = EmptyMap
  /\ cuts' = <<cuts[2], cuts[3], Len(log)>>
  /\ UNCHANGED <<accumulatingStore, sinceLastGetStore, heap, answers, log, resetAt>>

\* The whole window is handed out with its counts, then a new one begins.
GetNewIntentsSinceLastGet ==
  /\ batch' = getIntentsFromStore(sinceLastGetStore, DOMAIN sinceLastGetStore)
  /\ sinceLastGetStore' = EmptyMap
  /\ previousCounters' = currentCounters
  /\ currentCounters' = EmptyMap
  /\ cuts' = <<cuts[2], cuts[3], Len(log)>>
  /\ UNCHANGED <<accumulatingStore, heap, answers, log, resetAt>>

\* What result handlers and GraphQL resolvers do with the holder.
Calls ==
  \/ \E r \in Reports : AddIntent(r)
  \/ Reset
  \/ \E q \in Queries : GetIntents(q)
  \/ Respond

StoreNext == Calls \/ GetNewIntentsSinceLastGet

StoreSpec == StoreInit /\ [][StoreNext]_storeVars

-----------------------------------------------------------------------------
(* Properties.                                                             *)

\* Every part of the holder has its type.
StoreTypeOK ==
  /\ log \in Seq(Reports)
  /\ heap \in Seq([labels: SUBSET Labels, fix: FixData])
  /\ Len(heap) = Len(log)
  /\ IsStore(accumulatingStore) /\ IsStore(sinceLastGetStore)
  /\ IsCounterMap(currentCounters) /\ IsCounterMap(previousCounters)
  /\ batch \subseteq HandedOut
  /\ \A a \in answers : a.query \in Queries /\ a.intents \subseteq HandedOut
  /\ resetAt \in Nat
  /\ cuts \in Seq(Nat) /\ Len(cuts) = 3

\* The places in log of the intents of a key added after lo, up to hi.
Window(key, lo, hi) == {i \in lo + 1 .. hi : log[i].key = key}

\* Timestamps and resources of an entry are what its window adds up to.
SameData(entry, window) ==
  /\ \E i \in window : log[i].timestamp = entry.timestamp
  /\ \A i \in window : log[i].timestamp <= entry.timestamp
  /\ entry.resources = UNION {log[i].resources : i \in window}

\* So are the labels (the latest ones) and the fix data (kept only if every
\* intent of the window was discovered with the fix).
SameIdentity(entry, window) ==
  /\ entry.obj \in window
  /\ \E i \in window : /\ \A j \in window : j <= i
                       /\ heap[entry.obj].labels = log[i].labels
  /\ heap[entry.obj].fix = IF \E i \in window : log[i].fix = "unfixed"
                           THEN "unfixed" ELSE log[entry.obj].fix

Summarises(store, lo) ==
  \A k \in Keys :
    LET window == Window(k, lo, Len(log))
    IN  /\ k \in DOMAIN store <=> window # {}
        /\ window # {} => SameData(store[k], window) /\ SameIdentity(store[k], window)

\* Whatever the order of reports, resets and uploads, and although the two
\* stores share identities, each store is the summary of exactly the intents
\* added since its own last emptying: Reset for the one, upload for the other.
StoresSummariseReports ==
  /\ Summarises(accumulatingStore, resetAt)
  /\ Summarises(sinceLastGetStore, cuts[3])

\* What a window of intents counts to: the distinct source ports if an intent
\* reported any, and otherwise its DNS intents.  It does not depend on the
\* order of the intents.
PortsOf(window) ==
  UNION {log[i].ports : i \in {j \in window : log[j].resolution \in SrcPortResolutions}}
CountedByPorts(window) == \E i \in window : log[i].resolution \in SrcPortResolutions
DNSIntents(window) == {i \in window : log[i].resolution \in DNSResolutions}
ExpectedCount(window) ==
  IF CountedByPorts(window) THEN Cardinality(PortsOf(window))
  ELSE Cardinality(DNSIntents(window))

Counts(counters, lo, hi) ==
  \A k \in Keys :
    LET window == Window(k, lo, hi)
    IN  /\ k \in DOMAIN counters <=> window # {}
        /\ window # {} => ConnectionCount(counters[k]) = ExpectedCount(window)

\* The counters cover the same two windows as the store and the last batch:
\* no intent is counted in a window it is not uploaded with.
CountersFollowWindows ==
  /\ Counts(currentCounters, cuts[3], Len(log))
  /\ Counts(previousCounters, cuts[2], cuts[3])

\* The counts handed out with a batch explain the change from the window
\* before: current = previous + added - removed, with nothing added that is
\* not there and nothing removed that was not.
BatchCountsExplainChange ==
  \A e \in batch : e.count.valid =>
    LET before == ExpectedCount(Window(e.key, cuts[1], cuts[2]))
    IN  /\ e.count.Current = ExpectedCount(Window(e.key, cuts[2], cuts[3]))
        /\ e.count.Current + e.count.Removed = before + e.count.Added
        /\ e.count.Added <= e.count.Current
        /\ e.count.Removed <= before

\* A batch in the hands of the upload loop still shares identities with the
\* accumulating store, so later intents reach into it.  Even so it describes
\* its own window: its data exactly, labels of an intent of that window or of
\* a later one, and no fix data if an intent of the window had none.
BatchDescribesWindow ==
  \A e \in batch :
    LET window == Window(e.key, cuts[2], cuts[3])
    IN  /\ SameData(e, window)
        /\ \E j \in 1..Len(log) : /\ log[j].key = e.key
                                  /\ \A i \in window : i <= j
                                  /\ heap[e.obj].labels = log[j].labels
        /\ heap[e.obj].fix = "fixed" => \A i \in window : log[i].fix = "fixed"

\* schema.graphql: "includeLabels: Labels to include in the response.  Ignored
\* if includeAllLabels is specified."
ResponseHasIncludedLabelsOnly ==
  \A a \in answers : \A e \in a.intents :
    a.query.includeAllLabels \/ heap[e.obj].labels \subseteq a.query.includeLabels

=============================================================================
