---------------------------- MODULE IntentsUpload ----------------------------
(***************************************************************************)
(* The upload of intents: the loop PeriodicIntentsUpload of IntentsHolder  *)
(* with its callback CloudUploader.NotifyIntents, running beside the       *)
(* callers of the holder.  The loop takes a batch under the lock, and reads *)
(* it, converts it and sends it in chunks without the lock.                *)
(*                                                                         *)
(* A request to the cloud can fail before or after the cloud took it.  The *)
(* retries end when the back-off's time is up, modelled as a bound on the  *)
(* number of retries and the freedom to give up at any failure.            *)
(***************************************************************************)
EXTENDS IntentsStore

CONSTANTS
  UploadBatchSize,   \* config.UploadBatchSizeKey
  MaxRetries         \* bound on the retries within the back-off's time

ASSUME UploadAssumption == UploadBatchSize \in Nat \ {0} /\ MaxRetries \in Nat

VARIABLES
  uploadPc,     \* where the loop is
  unread,       \* intents of the batch still to be converted
  unsent,       \* converted intents the cloud has not acknowledged
  chunk,        \* the chunk being sent
  retries,      \* failed attempts so far with this batch
  cancelled,    \* the context is done: the mapper is shutting down
  cloud,        \* the reports the cloud has received
  lost          \* history: reports given up

uploadVars == <<uploadPc, unread, unsent, chunk, retries, cancelled, cloud, lost>>
vars == <<storeVars, uploadVars>>

\* cloudclient.DiscoveredIntentInput: what the converted intent keeps.
DiscoveredIntentInput ==
  [key: Keys, timestamp: Nat, resources: SUBSET Resources, fix: FixData,
   count: ConnectionsCount]

-----------------------------------------------------------------------------
Init ==
  /\ StoreInit
  /\ uploadPc = "waiting"
  /\ unread = {} /\ unsent = {} /\ chunk = {}
  /\ retries = 0
  /\ cancelled = FALSE
  /\ cloud = {} /\ lost = {}

\* A mutant: an empty batch ends the loop.
TakeBatchOrEnd ==
  /\ uploadPc = "waiting"
  /\ GetNewIntentsSinceLastGet
  /\ unread' = batch'
  /\ uploadPc' = IF batch' = {} THEN "stopped" ELSE "converting"
  /\ UNCHANGED <<unsent, chunk, retries, cancelled, cloud, lost>>

\* The interval is over.  NotifyIntents returns at once from an empty batch.
TakeBatch ==
  /\ uploadPc = "waiting"
  /\ GetNewIntentsSinceLastGet
  /\ unread' = batch'
  /\ uploadPc' = IF batch' = {} THEN "waiting" ELSE "converting"
  /\ UNCHANGED <<unsent, chunk, retries, cancelled, cloud, lost>>

\* One intent of the batch is converted, from the identities as they are now:
\* the lock is not held.
Convert(e) ==
  /\ uploadPc = "converting"
  /\ unread' = unread \ {e}
  /\ unsent' = unsent \cup
       {[key |-> e.key, timestamp |-> e.timestamp, resources |-> e.resources,
         fix |-> heap[e.obj].fix, count |-> e.count]}
  /\ uploadPc' = IF unread' = {} THEN "sending" ELSE "converting"
  /\ UNCHANGED <<storeVars, chunk, retries, cancelled, cloud, lost>>

IsChunk(c, rest) ==
  /\ c # {}
  /\ Cardinality(c) <= UploadBatchSize
  /\ Cardinality(c) < UploadBatchSize => c = rest

\* lo.Chunk over the batch, whose order is that of a map's iteration: any
\* UploadBatchSize of the rest can be next.
NextChunk ==
  /\ uploadPc = "sending"
  /\ chunk = {}
  /\ chunk' \in SUBSET unsent
  /\ IsChunk(chunk', unsent)
  /\ UNCHANGED <<storeVars, uploadPc, unread, unsent, retries, cancelled, cloud, lost>>

\* A mutant: the chunk counter is advanced before the request is known to
\* have succeeded, so a retry goes on with the next chunk.
SendFailedSkipping ==
  /\ chunk # {} /\ retries < MaxRetries
  /\ retries' = retries + 1
  /\ unsent' = unsent \ chunk
  /\ chunk' = {}
  /\ uploadPc' = IF unsent' = {} THEN "waiting" ELSE "sending"
  /\ UNCHANGED <<storeVars, unread, cancelled, cloud, lost>>

\* The request fails, whether or not the cloud took the chunk; a request with
\* a cancelled context is not sent.  The same chunk is tried again.
SendFailed ==
  /\ chunk # {} /\ retries < MaxRetries
  /\ retries' = retries + 1
  /\ \/ cloud' = cloud
     \/ ~cancelled /\ cloud' = cloud \cup chunk
  /\ UNCHANGED <<storeVars, uploadPc, unread, unsent, chunk, cancelled, lost>>

\* The request succeeds: the next chunk, or the end of the batch.
SendSucceeded ==
  /\ chunk # {} /\ ~cancelled
  /\ cloud' = cloud \cup chunk
  /\ unsent' = unsent \ chunk
  /\ chunk' = {}
  /\ uploadPc' = IF unsent' = {} THEN "waiting" ELSE "sending"
  /\ retries' = IF unsent' = {} THEN 0 ELSE retries
  /\ UNCHANGED <<storeVars, unread, cancelled, lost>>

\* A mutant: the chunk of an abandoned batch is kept.
GiveUpKeepingChunk ==
  /\ chunk # {}
  /\ lost' = lost \cup unsent
  /\ unsent' = {}
  /\ retries' = 0
  /\ uploadPc' = "waiting"
  /\ UNCHANGED <<storeVars, unread, chunk, cancelled, cloud>>

\* The request fails and the back-off's time is up: the error is logged and
\* the rest of the batch is dropped.
GiveUp ==
  /\ chunk # {}
  /\ \/ cloud' = cloud
     \/ ~cancelled /\ cloud' = cloud \cup chunk
  /\ lost' = lost \cup unsent
  /\ unsent' = {}
  /\ chunk' = {}
  /\ retries' = 0
  /\ uploadPc' = "waiting"
  /\ UNCHANGED <<storeVars, unread, cancelled>>

\* The loop ends at ctx.Done, when it is waiting.  With the interval over as
\* well, select may take either branch.
Stop ==
  /\ uploadPc = "waiting" /\ cancelled
  /\ uploadPc' = "stopped"
  /\ UNCHANGED <<storeVars, unread, unsent, chunk, retries, cancelled, cloud, lost>>

Cancel ==
  /\ ~cancelled
  /\ cancelled' = TRUE
  /\ UNCHANGED <<storeVars, uploadPc, unread, unsent, chunk, retries, cloud, lost>>

StoreCalls == Calls /\ UNCHANGED uploadVars

Loop ==
  \/ TakeBatch
  \/ \E e \in unread : Convert(e)
  \/ NextChunk
  \/ SendFailed
  \/ SendSucceeded
  \/ GiveUp
  \/ Stop

Next == StoreCalls \/ Cancel \/ Loop

\* The loop is one goroutine that never blocks for ever: its timer fires, and
\* a request ends one way or the other.  Nothing else need ever happen.
Spec == Init /\ [][Next]_vars /\ WF_vars(Loop)

-----------------------------------------------------------------------------
(* Properties.                                                             *)

\* Every part of the upload loop has its type, and what it holds fits where it
\* is: a batch is being read or sent, and a chunk is part of what is unsent.
UploadTypeOK ==
  /\ StoreTypeOK
  /\ uploadPc \in {"waiting", "converting", "sending", "stopped"}
  /\ unread \subseteq batch
  /\ unsent \subseteq DiscoveredIntentInput
  /\ cloud \subseteq DiscoveredIntentInput
  /\ lost \subseteq DiscoveredIntentInput
  /\ chunk \subseteq unsent
  /\ retries \in 0..MaxRetries
  /\ cancelled \in BOOLEAN
  /\ unread # {} <=> uploadPc = "converting"
  /\ uploadPc = "sending" <=> unsent # {} /\ unread = {}
  /\ chunk # {} => uploadPc = "sending"

Covers(e, key, i) ==
  /\ key = log[i].key
  /\ log[i].timestamp <= e.timestamp
  /\ log[i].resources \subseteq e.resources

\* No intent is ever lost track of: at every moment something that stands for
\* it waits in the store, is on its way, is at the cloud or was given up.
\* Resets, failed requests and a shutdown change nothing in that.
EveryReportCovered ==
  \A i \in 1..Len(log) :
    \/ \E k \in DOMAIN sinceLastGetStore : Covers(sinceLastGetStore[k], k, i)
    \/ \E e \in unread \cup unsent \cup cloud \cup lost : Covers(e, e.key, i)

\* The cloud is told nothing but summaries of windows: the data and the
\* connection count of a report belong to one and the same stretch of intents
\* of its key, and the report carries fix data only if all of that stretch
\* was discovered with the fix, although the report is written from
\* identities later intents change.
CloudReportsSummariseWindows ==
  \A e \in unsent \cup cloud :
    \E lo, hi \in 0..Len(log) :
      LET window == Window(e.key, lo, hi)
      IN  /\ SameData(e, window)
          /\ e.count.valid => e.count.Current = ExpectedCount(window)
          /\ e.fix = "fixed" => \A i \in window : log[i].fix = "fixed"

\* An intent stands for the fact that its edge exists, and one for each of its
\* resources.
Edge == "edge"
FactsOf(key, resources) == {<<key, Edge>>} \cup ({key} \X resources)
FactsIn(reports) == UNION {FactsOf(e.key, e.resources) : e \in reports}
AllFacts == Keys \X (Resources \cup {Edge})

Collected == UNION {FactsOf(k, sinceLastGetStore[k].resources) : k \in DOMAIN sinceLastGetStore}
InFlight == FactsIn(unread \cup unsent)

\* Store and upload loop together implement the pipeline.
Pipeline == INSTANCE ReportPipeline WITH
  Facts <- AllFacts, collected <- Collected, inFlight <- InFlight,
  delivered <- FactsIn(cloud), givenUp <- FactsIn(lost)

ImplementsPipeline == Pipeline!PipelineSpec

\* Every fact collected is delivered or given up in the end, unless the loop
\* stops for the mapper's shutdown.
FactsSettle ==
  \A f \in AllFacts :
    f \in Collected \cup InFlight
      ~> \/ f \in FactsIn(cloud) \cup FactsIn(lost)
         \/ cancelled /\ uploadPc = "stopped"

=============================================================================
