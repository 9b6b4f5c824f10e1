---------------------------- MODULE TrafficHolders ----------------------------
(***************************************************************************)
(* The holders of what is not an intent between workloads: external        *)
(* traffic (DNS names looked up), incoming traffic from the internet, and  *)
(* operations on AWS, GCP and Azure.  They are alike: a map that merges     *)
(* what is added under one key, and a loop that takes the map every        *)
(* interval and gives it to the CloudUploader.  The two traffic holders    *)
(* count connections and send in chunks with a back-off; an upload of      *)
(* operations is one request, tried once.                                  *)
(*                                                                         *)
(* One holder is followed, of any kind: they share nothing.                *)
(***************************************************************************)
EXTENDS ConnectionCounter, Sequences

CONSTANTS
  Keys,             \* client and DNS name, server and IP, or client and resource
  ExcludedKeys,     \* those of config.ExcludedNamespaces
  Results,          \* what can be reported: [key, lastSeen, detail]
  UploadBatchSize,
  MaxRetries        \* bound on the retries within the back-off's time

ASSUME HoldersAssumption ==
  /\ ExcludedKeys \subseteq Keys
  /\ \A r \in Results : r.key \in Keys /\ r.lastSeen \in Nat /\ r.detail \in Ports
  /\ UploadBatchSize \in Nat \ {0} /\ MaxRetries \in Nat

TrafficKinds == {"external", "incoming"}
WatchedKinds == {"kafka", "istio"}  \* what comes of these goes to the intents holder

VARIABLES
  kind,        \* of the holder, and of the results
  log,         \* history: the results reported, by number
  entries,     \* the holder's map
  current,     \* connectionCountDiffer's counters
  previous,
  unsent,      \* intents of the batch the cloud has not acknowledged
  chunk,       \* the chunk being sent
  retries,
  looping,     \* the upload loop runs
  cancelled,   \* the mapper is shutting down
  cloud,       \* the intents that the cloud has received
  lost,        \* history: intents given up
  windows      \* history: the results added in the last window and in this one

holderMaps == <<entries, current, previous, windows>>
uploadVars == <<unsent, chunk, retries, looping, cloud, lost>>
holderVars == <<holderMaps, uploadVars>>

EmptyMap == [k \in {} |-> {}]

\* A key's intent: latest time, details (the IPs of a DNS name, the actions of a
\* resource), connections; and which results it stands for, here and in the
\* window before.
Intent(key, timestamp, details, count, results, before) ==
  [key |-> key, timestamp |-> timestamp, details |-> details, count |-> count,
   results |-> results, before |-> before]

HolderInit ==
  /\ kind \in TrafficKinds \cup WatchedKinds \cup {"operation"}
  /\ log = <<>>
  /\ entries = EmptyMap /\ current = EmptyMap /\ previous = EmptyMap
  /\ windows = [last |-> {}, this |-> {}]
  /\ unsent = {} /\ chunk = {} /\ retries = 0 /\ looping = TRUE /\ cancelled = FALSE
  /\ cloud = {} /\ lost = {}

-----------------------------------------------------------------------------
\* CountableIntentExternalTrafficIntent, CountableIncomingInternetTrafficIntent
Increment(counters, r) ==
  LET c == IF r.key \in DOMAIN counters THEN counters[r.key] ELSE NewConnectionCounter
      counted == IF kind = "external"
                 THEN AddConnection(c, "handleDNSCaptureResultsAsKubernetesPods", {})
                 ELSE AddConnection(c, "handleInternalTrafficTCPResult", {r.detail})
  IN [k \in DOMAIN counters \cup {r.key} |-> IF k = r.key THEN counted ELSE counters[k]]

\* Only the times of traffic are kept; the time of an operation is that of its upload.
Merged(r, i) ==
  LET found == r.key \in DOMAIN entries
      old == IF found THEN entries[r.key] ELSE Intent(r.key, 0, {}, NoCount, {}, {})
  IN Intent(r.key,
            IF kind \in TrafficKinds /\ r.lastSeen > old.timestamp THEN r.lastSeen
              ELSE old.timestamp,
            old.details \cup (IF kind = "incoming" THEN {} ELSE {r.detail}),
            NoCount, old.results \cup {i}, {})

Ignores(r) == kind \in TrafficKinds /\ r.key \in ExcludedKeys

\* AddIntent, AddOperation
AddIntent(i) ==
  LET r == log[i]
  IN /\ ~Ignores(r)
     /\ entries' = [k \in DOMAIN entries \cup {r.key} |->
                     IF k = r.key THEN Merged(r, i) ELSE entries[k]]
     /\ current' = IF kind \in TrafficKinds THEN Increment(current, r) ELSE current
     /\ windows' = [windows EXCEPT !.this = @ \cup {i}]
     /\ UNCHANGED previous

-----------------------------------------------------------------------------
OfKey(results, k) == {i \in results : log[i].key = k}

\* A mutant: the counters are reset only with something to send.
TakeBatchKeepingCounters ==
  /\ looping /\ unsent = {}
  /\ unsent' = {[entries[k] EXCEPT !.count = GetDiff(current, previous, k),
                                   !.before = OfKey(windows.last, k)] : k \in DOMAIN entries}
  /\ entries' = EmptyMap
  /\ IF entries = EmptyMap THEN UNCHANGED <<previous, current>>
     ELSE previous' = current /\ current' = EmptyMap
  /\ windows' = [last |-> windows.this, this |-> {}]
  /\ retries' = 0
  /\ UNCHANGED <<chunk, looping, cloud, lost>>

\* PeriodicIntentsUpload, GetNewIntentsSinceLastGet: the interval is over.  With
\* nothing to send the loop waits for the next.
TakeBatch ==
  /\ looping /\ unsent = {}
  /\ unsent' = {[entries[k] EXCEPT !.count = GetDiff(current, previous, k),
                                   !.before = OfKey(windows.last, k)] : k \in DOMAIN entries}
  /\ entries' = EmptyMap
  /\ previous' = current
  /\ current' = EmptyMap
  /\ windows' = [last |-> windows.this, this |-> {}]
  /\ retries' = 0
  /\ UNCHANGED <<chunk, looping, cloud, lost>>

\* lo.Chunk over the batch, in the order of a map; operations go all at once.
NextChunk ==
  /\ chunk = {} /\ unsent # {}
  /\ chunk' \in SUBSET unsent
  /\ IF kind = "operation" THEN chunk' = unsent
     ELSE /\ Cardinality(chunk') \in 1 .. UploadBatchSize
          /\ Cardinality(chunk') < UploadBatchSize => chunk' = unsent
  /\ UNCHANGED <<holderMaps, unsent, retries, looping, cloud, lost>>

\* A request fails before or after the cloud took it; none is sent once cancelled.
RequestFails ==
  /\ chunk # {}
  /\ \/ cloud' = cloud
     \/ ~cancelled /\ cloud' = cloud \cup chunk

Retry ==
  /\ RequestFails
  /\ kind \in TrafficKinds /\ retries < MaxRetries
  /\ retries' = retries + 1
  /\ UNCHANGED <<holderMaps, unsent, chunk, looping, lost>>

\* A mutant: the chunk of an abandoned batch is kept.
GiveUpKeepingChunk ==
  /\ RequestFails
  /\ lost' = lost \cup unsent
  /\ unsent' = {}
  /\ UNCHANGED <<holderMaps, chunk, retries, looping>>

\* The back-off's time is up, or it was an upload of operations.
GiveUp ==
  /\ RequestFails
  /\ lost' = lost \cup unsent
  /\ unsent' = {} /\ chunk' = {}
  /\ UNCHANGED <<holderMaps, retries, looping>>

RequestSucceeds ==
  /\ chunk # {} /\ ~cancelled
  /\ cloud' = cloud \cup chunk
  /\ unsent' = unsent \ chunk
  /\ chunk' = {}
  /\ UNCHANGED <<holderMaps, retries, looping, lost>>

StopLoop ==
  /\ cancelled /\ looping /\ unsent = {}
  /\ looping' = FALSE
  /\ UNCHANGED <<holderMaps, unsent, chunk, retries, cloud, lost>>

UploadStep == TakeBatch \/ NextChunk \/ Retry \/ GiveUp \/ RequestSucceeds \/ StopLoop

-----------------------------------------------------------------------------
Intents == {entries[k] : k \in DOMAIN entries} \cup unsent \cup cloud \cup lost

HolderTypeOK ==
  /\ chunk \subseteq unsent /\ (kind = "operation" => chunk \in {{}, unsent})
  /\ retries \in 0 .. MaxRetries
  /\ looping \/ (cancelled /\ unsent = {})
  /\ \A k \in DOMAIN entries : entries[k].key = k
  /\ DOMAIN current = IF kind \in TrafficKinds THEN DOMAIN entries ELSE {}
  /\ \A k \in DOMAIN current : current[k] \in Counter /\ HasCount(current[k])
  /\ \A e \in Intents : e.key \in Keys /\ e.results \subseteq 1 .. Len(log)

DetailsOf(results) == {log[i].detail : i \in results}

\* What an intent should say of its results and of those of the window before.
ExpectedCount(e) ==
  CASE kind = "operation" -> NoCount
    [] kind = "external" ->
         CountOf(Cardinality(e.results), Cardinality(e.results), Cardinality(e.before))
    [] OTHER ->
         CountOf(Cardinality(DetailsOf(e.results)),
                 Cardinality(DetailsOf(e.results) \ DetailsOf(e.before)),
                 Cardinality(DetailsOf(e.before) \ DetailsOf(e.results)))

(* What is uploaded sums up its window: the latest time, all details, and  *)
(* the connections, opened and closed since the window just before it,     *)
(* though that may have been empty, and whatever order results came in.    *)
UploadsSummariseWindows ==
  \A e \in unsent \cup cloud \cup lost :
    /\ e.results # {} /\ \A i \in e.results : log[i].key = e.key
    /\ kind # "incoming" => e.details = DetailsOf(e.results)
    /\ kind \in TrafficKinds =>
         /\ \A i \in e.results : log[i].lastSeen <= e.timestamp
         /\ \E i \in e.results : log[i].lastSeen = e.timestamp
    /\ e.count = ExpectedCount(e)
=============================================================================
