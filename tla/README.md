# Verification of the Otterize network mapper

TLA+ specifications of the network mapper, the TLC configurations that check
them on small instances, and proofs that the TLA+ proof system checks for every
value of the constants. Paths below are relative to the module root
`src/src/` of the repository.

## 1. The system

The network mapper watches a Kubernetes cluster and builds a map of which
workload talks to which. Sniffers (one per node), a Kafka watcher and an Istio
watcher capture raw facts and report them over GraphQL to one mapper process.
The mapper resolves addresses to workload identities, keeps the resulting
*intents* in memory, answers queries about them, and uploads them periodically
to a cloud service.

```
 sniffer  --captureResults, tcp, socketScan-->  +--------- mapper ------------+
 kafka-watcher  --kafkaMapperResults--------->  | resolvers: 9 bounded queues |
 istio-watcher  --istioConnectionResults----->  |   | one goroutine per queue |
                                                |   v                         |
                                                | holders: intents, external, |
 CLI  --intents, serviceIntents, reset------->  |   incoming, AWS/GCP/Azure,  |
                                                |   traffic levels            |
                                                |   | periodic upload loops   |
 cluster API  --reconcilers------------------>  | reporters (metadata, ...)   |--> cloud
                                                | DNS cache -> DNS publisher  |--> cluster API
                                                +-----------------------------+
```

### Components

| Component (source) | State | Operations | Hard behaviour | What makes it correct |
|---|---|---|---|---|
| Connection counting (`mapper/pkg/concurrentconnectioncounter`) | per edge: method, set of source ports, DNS count; current and previous window | add, count, diff, reset | two methods mixed in one window, differences across methods | the count does not depend on the order; current = previous + added - removed |
| Intents holder (`mapper/pkg/intentsstore`) | accumulating store, store since last upload, counters | AddIntent, Reset, GetIntents, GetNewIntentsSinceLastGet, periodic upload | two stores, batches and query results share identities through pointers; out of order reports | each store summarises exactly the reports since its own last emptying |
| Cloud uploader (`mapper/pkg/clouduploader`) | chunk counter of the batch in hand | NotifyIntents and one Notify per other holder | requests that fail after they were received, retries, giving up, shutdown | at least once delivery unless given up; the cloud hears only of whole windows |
| External and incoming traffic holders (`externaltrafficholder`, `incomingtrafficholder`) | map from edge to intent, counters | AddIntent, periodic upload | merging IPs into a map that may be nil | no report lost, no panic |
| AWS, GCP, Azure holders | map from edge to set of actions | AddIntent, periodic upload | one try per upload | union of the actions since the last upload |
| Traffic collector (`collectors/traffic`) | map from edge to samples | Add, periodic upload | no lock between reports and upload | sums over a sliding window |
| TTL cache, DNS cache (`dnscache`) | index key -> value -> list element, LRU list | Insert, Get, Filter, cleanup | index and list have to agree; eviction, expiry and reads interleave | bounded; a value is dropped only when it expired or fell behind maxSize others |
| DNS publisher (`dnsintentspublisher`) | `status.resolvedIPs` of ClientIntents | a tick over all ClientIntents | cache smaller than the names; errors in the middle; own lookups | every resolved name is published in the end |
| Resolvers (`resolvers`) | nine buffered channels | nine report mutations, reset, queries, nine handlers | full queues drop, shutdown abandons | an accepted report is handled once |
| Kube finder (`kubefinder`) | informer caches, cache of seen IPs | IP and name to identity | stale pods, host network, ambiguous IPs, seen IPs that expire or are dropped | no intent for a wrong identity |
| Metadata reporter (`metadatareporter`) | cache of reported metadata | report services, report all once | retry after a failed report, early returns for what is gone | cached means reported; updates are known in the end |
| Webhook, metrics, service and policy reporters (`webhook_traffic`, `metrics_collection_traffic`, `resourcevisibility`, `networkpolicyreport`) | hash of the last snapshot reported | several reconcilers collect and report | a snapshot is collected before the lock is taken | the cloud has the latest snapshot in the end |
| Sniffer loop and collectors (`sniffer/pkg/sniffer`, `collectors`) | maps of captured requests, packets pending a host name | packet, refresh, report | reports in goroutines, lost on failure | every captured request is reported once |
| Process monitor, procfs resolver (`sniffer/pkg/ipresolver`) | known and failing processes; per IP host name with a count of processes | poll, process new, process exit | failing processes, scans that fail half way | a host name is there exactly while a process holds it |
| Kafka watcher (`kafka-watcher`) | map of records seen | log line, flush and report | flushed before reported, gap between two log streams | every record reported |
| Istio watcher (`istio-watcher`) | map of connections, last value per metric | collect, flush and report | no lock, marks before it reports, values shared by replicas, names without namespaces | every change of a metric noted and reported |

The traffic collector, the metric exporter, the mapper's own webhooks and the API
clients are not modelled; section 7 says why.

`PROJECT.json` lists every component with its status, and every hazard of this
code, at its line, with the properties that guard against it.

## 2. Modules

| Module | Models | Kind |
|---|---|---|
| `ConnectionCounter` | `ConnectionCounter`, `ConnectionCountDiffer` | pure operators |
| `IntentsStore` | `IntentsHolder`, one action per method | component |
| `ReportPipeline` | what the mapper promises about facts on their way to the cloud | abstract specification |
| `IntentsUpload` | `PeriodicIntentsUpload` with `NotifyIntents`, composed with the holder | composition, implements `ReportPipeline` |
| `DNSCache` | what the DNS cache promises those who use it | abstract specification |
| `TTLCache` | `TTLCache` and `DNSCache` on top of it | component, implements `DNSCache` |
| `DNSPublisher` | package `dnsintentspublisher`, on top of `DNSCache` | composition |
| `IPResolver` | `ProcessMonitor` and `ProcFSIPResolver` of the sniffer | component |
| `Sniffer` | the sniffer's loop with its DNS and TCP collectors, on top of `IPResolver` | composition |
| `KubeFinder` | the cluster, the informer's indexes and what `KubeFinder` finds with them | component |
| `Resolvers` | how the handlers of package `resolvers` name client and server, on top of `KubeFinder` | composition |
| `TrafficHolders` | the holders of external and incoming traffic and of AWS, GCP and Azure operations, with their upload loops | component, on `ConnectionCounter` |
| `ResultQueues` | the mapper's bounded queues and handle loops, in front of a holder | composition |
| `Watchers` | the Kafka and Istio watchers, in front of a queue | composition |
| `ClusterReporters` | webhook, metrics, service, metadata, policy and ingress reporters | component |
| `MC*` | values of the constants for TLC | instances |
| `IntentsStore_proofs`, `IntentsUpload_proofs`, `TTLCache_proofs`, `DNSPublisher_proofs`, `Sniffer_proofs`, `Resolvers_proofs`, `Watchers_proofs`, `ClusterReporters_proofs` | theorems | proofs |

### IntentsStore

`accumulatingStore` and `sinceLastGetStore` are the two Go maps: functions from
the keys present to what a map entry holds *by value* (timestamp, topics and HTTP
resources). What an entry holds *by pointer*, the `Client` and `Server`
identities, is in `heap`: every intent brings new identities, numbered by its
place in `log`, and an entry names those of the intent that was inserted first.
`addIntentToStore` is therefore two operators: `addIntentToStore` for the map and
`addIntentToHeap` for the labels and the `TCPDestResolveFixData` it rewrites in
place. `AddIntent` calls both for one store and then for the other, as the code
does, so the second call sees what the first one wrote.

Every method runs under the holder's lock and is one action. `GetIntents` and
`GetNewIntentsSinceLastGet` release the lock with a result that still shares
identities; `batch` and `answers` keep such results across later steps.
`log`, `resetAt` and `cuts` are history variables: all intents ever added and the
places at which the stores were emptied.

Abstracted: names, labels and resources are members of small sets; a label is
one value instead of a key and a value, client and server labels are one set;
merging topics and paths is a set union (each report carries one topic or one
path, so the merge functions compute a union). A data race between a reader of
shared identities and `AddIntent` is modelled as reading either value, not as a
torn read.

### IntentsUpload

The loop is one goroutine: `TakeBatch` (timer), `Convert` per intent (the lock
is not held, so intents may be added in between), `NextChunk`, `SendFailed`,
`SendSucceeded`, `GiveUp`, `Stop`. A request may fail with or without the cloud
having taken the chunk. `backoff.Retry` ends by elapsed time and ignores the
context; the model lets it end at any failure and bounds the retries by
`MaxRetries`. `GiveUp` with zero retries covers a batch abandoned at once. One
callback is registered, the cloud uploader; the OpenTelemetry callback runs
before or after it in the same goroutine and changes nothing here.

### ReportPipeline

Facts (an edge exists; an edge has a resource) are collected, taken into flight
together, delivered at least once, or given up with the flight they are in.
`IntentsUpload!Pipeline` is the refinement mapping.

### TTLCache and DNSCache

`items` is the index, a function per key from values to entries. The LRU list of
`container/list` is `front`: its domain is the list's elements and `front[e]` what
stands in front of `e`, so that removing, pushing and moving to the front are
functions on sets. An entry stands for its list element, which is sound because the
list never holds two elements with one key and value (`IndexMatchesList`). Each
operation runs under the cache's lock and is one action: `Insert` with its
eviction; `Get` for one key or, as `Filter`, for all keys that match a wildcard, in
any order in which Go may go through its maps; `cleanupExpired`. `Tick` is the
clock. `expires` and `since` are history variables: what the last insertion of a
value promised, and which values were used since its last use.

Abstracted: an operation reads the clock once, where the code calls `time.Now()`
for each value it looks at; the wildcard match is the constant `Patterns`; a
capacity below 1 is excluded (`NewDNSCache` panics at 0).

`DNSCache` is what is left of it for a caller: a name has some of the addresses
that were learned for it, any of them may be gone at any time, and one just learned
is there. `TTLCache!ImplementsDNSCache` is the refinement, and `DNSPublisher` uses
the abstract cache.

### DNSPublisher

One action per step of a tick of the one publisher goroutine: `PublishDNSIntents`
lists, `Take` begins with a ClientIntents, `appendResolvedIps` handles a name,
`LookupFails` and `LookupSucceeds` end a lookup, `NothingToUpdate`, `Patch` and
`PatchFails` end the element. `current` holds the local variables between them.
Beside it: `Capture` and `Expire` (the cache), `Edit` (users), `Watch` (the informer
from which the list is read lags behind the API server), `Restart`.

Abstracted: a lookup answers with some of the addresses DNS has for the name;
several addresses of one answer enter the cache together; the merge patch replaces
the list, as merge patches do.

### IPResolver and Sniffer

The node's processes start and end (`ProcessStarts`, `ProcessEnds`) while a scan of
/proc goes on: `ListProcesses` reads the directory, `SeenBefore`, `ProcNew` and
`ProcNewFails` handle one process each, in any order, `ScanEnds` calls
`onProcessExit` for what was not seen. `ScanFails` is a directory that cannot be
read. `entries` are the `ProcFSIPResolverEntry` objects, which `byAddr` and `byPid`
point to.

Assumed of the node: an address is one pod's at a time and does not come back to a
host that had it before; a pid is not used again until a scan has seen that its
process is gone.

`Sniffer` is the goroutine of `RunForever`: `HandlePacket` of either collector,
`RefreshDue`, `ReportDue` with both of its refreshes, `Report`. Reports are sent by
goroutines of their own, once; what fails is lost, so `Report` ends what the model
follows. Packets are numbered by the order of handling, which stands for the time
and, for TCP, for the source port. `CapturedRequest`s are told apart by source
address and host name; the destination is left out, since captures to different
destinations share nothing. The socket scanner scans within a report and reads the
host name of each process itself; it is left out.

### KubeFinder and Resolvers

`KubeFinder` has the pods with their phase, address and age, and the operators that
answer a question as the methods of that name do over the informer's indexes. The
informer is taken to be up to date and its reads not to fail. `seenIPs` is the cache
of addresses that pods had, an LRU with a time to live and room for `SeenIPsSize`.
Every address that is indexed is added, be its pod new, updated (`PodUpdated`, which
is also a resync) or marked deleted, and the one added least recently makes room:
`newerIPs` has, for each, those added since, and the history variable `evicted` what
was dropped that way.

`Resolvers` follows one capture from the traffic to what is recorded: `Traffic`
makes a capture of one of seven kinds as sniffers and watchers would report it
(`Senders`, `Targets`), with who really sent and received it; `FindClient`,
`FindServer` and `reportIncomingInternetTraffic` are the handlers, which see the
cluster as it is when they run. One capture at a time is enough, because captures do
not influence how others resolve. Time matters for the age of pods only:
`TrustAge` is `TimeServerHasToLiveBeforeWeTrustIt`, and captures are handled within
`Grace`, as pods end within it.

Assumed: a pod gets its address before it is old enough to be trusted, and the time to
live of seen addresses is at least twice `Grace`. How much room there is for them is
not assumed: `IncomingIsExternal` excepts senders whose address was dropped. It also
excepts `InsideIP`, an address of the cluster that is no pod's and no node's, which
the code calls a known issue (`kubefinder.go:532`).

### TrafficHolders, ResultQueues and Watchers

`TrafficHolders` is one holder of any of three kinds: external traffic and incoming
traffic, which count connections and upload in chunks with a back-off, and
operations, which have neither. `AddIntent` merges; `TakeBatch`, `NextChunk`,
`Retry`, `GiveUp`, `RequestSucceeds` and `StopLoop` are the upload loop.

`ResultQueues` puts a queue in front of it. `Report` is a mutation, which drops what
does not fit; `TakeReport`, `SkipResult`, `FailReport`, `RecordResult` and
`StopHandler` are `runHandleLoop` with what a handler may do to a result (why it
does is in `Resolvers`). `Cancel` is a shutdown and `Restart` its end, or a crash.
What comes of Kafka and Istio results goes to the intents holder, module
`IntentsStore`, and is only marked as handed over here.

`Watchers` puts the two watchers in front of the queue. Requests that Kafka or a
sidecar sees are numbers in `trail`, and `via` has the sidecar of each. A sidecar
counts the requests of a key (`Value`), replicas have sidecars of their own that
count under the same name, and one that ends (`SidecarEnds`) takes its counts along
and is followed by one that counts anew. The Istio watcher sees the values only:
`IsNew` compares one with what it read last under that name, from whatever sidecar.
`Fetch`, `Look`, `Fetched`, `FetchFails` and
`Deadline` are `watchOnce` in `watchForever`, or one collection of the Istio watcher;
`Follow` is `LogFileWatcher`; `Flush`, `Delivered` and `NotDelivered` are the report
loop. The Istio watcher writes to `connections` while `Flush` exchanges and reads it:
`Note` lets the write be read with the map taken, be lost, or go to the new map. That
the runtime may also end the process is among the outcomes of `Restart`.
`AsResults` merges connections whose names differ in namespaces only (`NamesOf`), as
`ToGraphQLIstioConnections` does: the result has the namespaces of the one that comes
first, in the order of a Go map, and the latest time. So a connection may reach the
mapper under another's namespaces only, and `NotesReachMapper` says no more than that.

### ClusterReporters

`Change` changes a kind of objects and gives a request to the controllers that watch
it (`WatchersOf`). A controller takes a request (`Take`), or is done with it at once
(`Skip`): the metadata reporter's return early when the pod or the endpoints are gone,
or when the endpoints still name a pod that is gone. `Begin` and `Read` collect the snapshot, one kind
of objects after the other; `Compare` takes the lock and compares with the cache;
`ReportSucceeds` and `ReportFails` end the request to the cloud, `ReadFails` one to
the cluster, and a failed request is put back. Each of six kinds of reporters has its
controllers, reads and place of the lock as in the code: only the metadata reporter
collects under its lock, and its first call reports everything once before any other
(`Once`); network policies, Cilium's and ingresses have no cache. `Resync` is the
informers' resync, which finds the cache expired or not. Snapshots are versions, and
the hash takes two values in turn, so that an object that comes back as it was is
not seen as new.

For metadata, `goes` says what the odd versions are: updates, endpoints that are
gone, a replica that is gone while others stay (`Rest` stands for their requests),
or the last pod. A removal is skipped by its own controller, and may take requests
with it that were not done, so that the cloud keeps what it was told until the
workload is updated or a resync comes. The history variable `due` has the parts that
some request must still make known, and `CloudFollowsCluster` is about those. One
key of the cache is taken to be one workload; the code's key is a name and a kind
(`workload_metadata_cache.go:57`).

## 3. Runs

| Run | Instance and bounds | What it shows |
|---|---|---|
| `store` | three keys (network, HTTP, one of an excluded namespace), six reports covering every way of counting, with and without the fix, out of order in time; at most 4 reports in a behaviour (`MaxReports`) | `StoreTypeOK`, `StoresSummariseReports`, `CountersFollowWindows`, `BatchCountsExplainChange`, `BatchDescribesWindow` |
| `included_labels` (violation) | as above, one query that names a label | `ResponseHasIncludedLabelsOnly` fails: see Findings |
| `upload` | two keys, three reports, chunks of one intent, one retry, at most 3 reports | `UploadTypeOK`, `EveryReportCovered`, `CloudReportsSummariseWindows`, `ImplementsPipeline`, `FactsSettle` |
| `ttl_cache` | two names with two addresses each, room for two of the four, times to live 0 and 1, time up to 3, reads of either name or both | `CacheTypeOK`, `IndexMatchesList`, `ReadsAreFresh`, `RecentlyUsedStays`, `ImplementsDNSCache` |
| `publisher` | two names, one of which a wildcard matches, one address each; a ClientIntents that is edited between a domain, none and no Internet target, and one that declares the wildcard; one restart | `PubTypeOK`, `PublishedWereResolved`, `DeclaredNamesPublished`, `UndeclaredNamesGo` |
| `ip_resolver` | three pids, used again, two hosts that use one address one after the other, one retry, one scan that fails | `CountsFollowProcesses`, `HandledProcessesResolve`, `MappingsGo` |
| `sniffer` | the same with two pids that are used once, no retry, and two packets to either collector, on AWS and not | `SnifferTypeOK`, `HostHeldAddress`, `ReportedOnce`, `CapturesLeave` |
| `resolvers` | three workloads, two of which use two addresses in turn and one the host network; a service, that of the API server, a load balancer; room for two seen addresses; time up to 2; the two addresses are symmetric | `ResolverTypeOK`, `ClientsWereSenders`, `ServersWereReceivers`, `IncomingIsExternal` |
| `pod_names` (violation) | as above, room for one seen address and time up to 3 | `PodNamesWereReceivers` fails: see Findings |
| `results` | every kind of holder and watcher; two keys and an excluded one, reports of one and two results in any order of time, a queue of one, at most three results; chunks of one, one retry, one shutdown or crash; two requests to watch of keys that differ in namespaces only, two sidecars that count beside or after each other, one error of a watcher | `QueuesTypeOK`, `EveryResultAccounted`, `UploadsSummariseWindows`, `NotesReachMapper`, `AcceptedSettle`, `RequestsNoticed` |
| `reporters` | each of the six kinds of reporters, metadata with each kind of removal, two changes, one failing request, one resync | `ReportersTypeOK`, `CacheTellsCloud`, `NeverOlder`, `CloudFollowsCluster` |
| `webhook_endpoints` (violation) | as above with one change | `WebhooksNoticeEndpoints` fails: see Findings |

### Bounds

- `store`, `upload`: four reports are enough for two windows with two reports of one
  key each, or for a report before a reset, one between reset and upload, and one in
  each of two windows: each store and window boundary can fall between any two
  reports of an edge, and each pair of counting methods meets in one window and across
  two. With chunks of one intent a batch of two edges has a first and a last chunk,
  and one retry is enough for a chunk to be received twice or a batch to be given up
  in the middle.
- `ttl_cache`: room for two of four values is enough for an eviction to have a choice
  and to meet a key with and without other values; with two times to live a value can
  be renewed with a longer or a shorter one.
- `publisher`: an element may be handled with a list that is behind by an edit and by
  the publisher's own patch; two elements are enough for an error to strand one.
- `ip_resolver`, `sniffer`: with two hosts on one address an entry is replaced while
  the old one still has processes; with three pids an entry gains one process while it
  loses another. More addresses share nothing. Two packets are enough for one before
  and one after each of a scan, a refresh and a report, and for two under one request.
- `resolvers`: two addresses and two workloads beside each other are enough for an
  address to be free, to be used again by another workload, or to become ambiguous;
  captures do not meet, so one at a time is enough. Two ticks let a pod be too young,
  just old enough, and older, and with the host network's there are three addresses for
  the two that the cache has room for: one is dropped, and may be seen again. That an address expires
  comes after the clock's end here; the theorem covers it.
- `results`: three results give a queue that is full while another report is handled,
  a window after an empty one, and a key in two windows; two requests may be noted
  under one key or under two, before and after a flush. They may differ in sidecar, in
  key, in both or in neither, so that equal values of two replicas, or of one that ended
  and its successor, hide a request, and two connections merge into one result.
- `reporters`: with two changes a snapshot misses one, both or, of two kinds of
  objects, the second, and a value comes back as it was; up to three controllers
  overtake each other. One failure is enough for a report that arrives unanswered.

The theorems remove the bounds for the properties they state.

### Fairness

Fairness is stated for what the code drives on its own, never for callers, traffic,
users or failures.

- `store`, `included_labels`, `ttl_cache`, `resolvers`, `pod_names`: none.
- `upload`: `WF_vars(Loop)`. The loop is a single goroutine whose timer fires, whose
  conversion always ends and whose requests return (the HTTP client fails in the end
  if the cloud does not answer). `FactsSettle` excepts only a loop that stopped for
  shutdown, which abandons what is in the store.
- `publisher`: the ticker fires and calls return (`WF` of `Tick`); the informer
  catches up (`WF` of `Watch`); a lookup of a name that has addresses, or a patch, that is
  tried for ever succeeds in the end (`SF`). The liveness properties hold once users
  stop editing and the cache forgets nothing (`Calm`).
- `ip_resolver`: the sniffer polls again and again and a poll ends; failures are
  bounded, not assumed away.
- `sniffer`: a refresh goes on and a report is sent (`WF`), and `select`, which chooses
  at random among what is ready, takes an overdue report in the end (`SF`). Nothing is
  assumed about the refresh timers, which every packet starts anew.
- `results`: the watch loop, the report loop, the handle loop and the upload loop are
  goroutines that never block for ever, and a mapper that shuts down ends, if need be
  because it is killed. `AcceptedSettle` is about the time when nobody reports any more,
  which the bounds bring about. `RequestsNoticed` excepts what the code cannot notice: lines of
  Kafka's log that were written while it was read or that a broken stream had not
  given yet, and for Istio requests of a sidecar that ended and counts equal to what
  was read last of another sidecar.
- `reporters`: as long as a controller's worker can go on, some worker does. Resyncs
  come when nothing else is going on, as they are hours apart; requests fail
  finitely often.

`results`, `reporters` and `webhook_endpoints` are checked without deadlock checking:
once every bounded report, change, failure and restart has happened and everything
settled, the system waits for input that the bounds do not give.

Every property of a passing run has a mutant in `PROJECT.json`: a definition of
the model changed as a plausible bug would change the code (the mutants stand
before the definitions they replace, marked "A mutant"), on which TLC finds the
property violated.

## 4. Theorems

Every invariant and every action property of the passing runs is a theorem of the
specification that the run checks, or of the one without fairness that it implies,
and so are both refinements. `Sniffer_proofs` is also about `IPResolver`,
`Resolvers_proofs` about `KubeFinder`, and `Watchers_proofs` about `TrafficHolders`
and `ResultQueues`, which it takes as they run in the composition.

`IntentsStore_proofs`:

- `CountDiffBalances`: the change attached to a batch explains the difference of
  two windows, whatever the two counters are.
- `StoreTypeCorrect`: `StoreSpec => []StoreTypeOK`.
- `StoresAlwaysSummarise`: `StoreSpec => []StoresSummariseReports`. The inductive
  invariant `StoreInv` adds to the two summaries the type invariant and the order
  of the history marks. It has to speak of the two stores together: a report
  rewrites the identities behind one store's entry, and the proof has to know
  that if the other store's entry has the same identities, the rewrite is the one
  that store makes too (`HeapStep`), and that its own identities are untouched
  otherwise. `SummaryStep` is one store's half of `AddIntent`.
- `CountersAlwaysFollow`, `BatchCountsAlwaysExplain`, `BatchAlwaysDescribesWindow`:
  `CountersFollowWindows`, `BatchCountsExplainChange` and `BatchDescribesWindow`. Their
  invariant `WindowsInv` stands beside `StoreInv`: each counter is the count of the
  log between two cuts, and a batch in the loop's hands still has the identities of
  its own window. The second half is the delicate one. The batch shares identities
  with the accumulating store, so that a later intent reaches into it; what that
  intent may change is exactly what the property excepts.

`IntentsUpload_proofs`:

- `UploadTypeCorrect`: `Spec => []UploadTypeOK`, with the invariant `UploadInv`
  (an element of the batch has an identity in `heap`).
- `NoReportLostTrackOf`: `Spec => []EveryReportCovered`, for every batch size and
  number of retries.
- `UploadImplementsPipeline`: `Spec => ImplementsPipeline`. One lemma per action
  shows which abstract step it is or that it stutters.
- `CloudAlwaysToldSummaries`: `Spec => []CloudReportsSummariseWindows`. `CloudInv`
  follows an intent from the batch over the conversion and the chunk to the cloud,
  and takes what it says of the batch from `WindowsInv`.

`TTLCache_proofs`:

- `IndexAlwaysMatchesList`, `CacheTypeCorrect`, `ReadsAlwaysFresh` and
  `EvictsLeastRecentlyUsed`: `CacheSpec => []P` for the four properties of the run,
  with one inductive invariant, `CacheInv`. It says that `front` is a total order
  (`IsList`), that `items` indexes exactly its elements (`IsIndex`), that an entry's
  expiration is that of the last insertion, and that everything in front of an entry
  was used since the entry's last use. The last one is what makes eviction right:
  the entry at the back has all others in front of it (`BackOfList`, by the pigeon
  hole principle on the number of elements in front), so when the list is one too
  long, `maxSize` others were used since.
- `CacheImplementsNames`: `CacheSpec => ImplementsDNSCache`. Eviction, expiry, reads
  and time are steps in which addresses may go; an insertion learns one address, and
  `CacheInv` shows that the entry just inserted is not the one evicted.

`DNSPublisher_proofs`:

- `PubTypesCorrect`, `PublishedWereLearned`: `PubTypeOK` and `PublishedWereResolved`. The
  published addresses go in a circle: from the resource to the informer, to what List
  returned, to the element in hand and back. So `PubInv` says of all four places that
  what they hold for a name was learned for it, or for a name that the wildcard
  matches.

`Sniffer_proofs`:

- `CountsAlwaysFollow`, `HandledAlwaysResolve`: `CountsFollowProcesses` and
  `HandledProcessesResolve`, of `IPResolverSpec`. `IPInv`
  has two versions of the counts. One holds always (`CountsSuffice`: no process is
  missing from a count), the other while every scan could read /proc (`CountsExact`).
  The rest says who has an address (`HoldersRun`, `HostsHeldTheirAddress`), what the
  pids point to (`PointToEntries`, `EntryAsRead`) and how far the scan is
  (`ListedTogether`, `HandledWereSeen`). `UnusedExists` shows that a new entry always
  finds a reference that nothing points to.
- `SnifferTypesCorrect`, `HostsAlwaysHeldAddress`, `AlwaysReportedOnce`: `SnifferTypeOK`,
  `HostHeldAddress` and `ReportedOnce`, with `SniffInv` on top of `IPInv`. A packet is in one of
  the places pending, capture map and reports (`PacketsInOnePlace`). One that waits for
  the refresh has the host name that held the address when it was handled, or an
  earlier one of which the scan under way lists no process, so that the refresh does
  not confirm it (`PendingHosts`).

`Resolvers_proofs`:

- `ResolverTypesCorrect`, `ClientsAlwaysSenders`, `ServersAlwaysReceivers`,
  `IncomingAlwaysExternal`: the four properties of the run. `ClusterInv` says that
  running pods have addresses of their own and that the address of a pod that ends
  was seen when that began; `SenderInv` and `ReceiverInv` say what a capture that is on
  its way knows of both ends. The arguments are about time: a pod old enough to be
  trusted has had its address since before the capture, when it was the sender's;
  and an address is remembered longer than the end of a pod and the handling of a
  capture take together, or was dropped for lack of room. `IncomingAlwaysExternal` is for
  every size of the cache, and an action property, as it is about what the cache had
  dropped when the capture was handled.

`Watchers_proofs`, all of `WatchersSpec`, for holders and queues of every kind and size:

- `QueueTypesCorrect`: `QueuesTypeOK`.
- `ResultsAlwaysAccounted`: `EveryResultAccounted`. `OnePlace` says that the results
  ever reported are divided among the queue, the report in hand, the holder, the
  upload, the intents holder and what is gone; each action moves results from one
  place to another.
- `UploadsAlwaysSummarise`: `UploadsSummariseWindows`. `HolderInv` says the same of
  the window that is being collected, entry by entry (`EntriesOK`) and counter by
  counter (`CountersOK`), and of an upload under way.
- `NotesAlwaysReach`: `NotesReachMapper`, which with `WatchOK` is inductive beside the
  other two. A note carries the time of its writing, which is no
  earlier than its request: so it may overwrite an earlier note of its key, and what
  is delivered stands for every request of that key noted before. `LatestIsLast` shows
  that a merged result has the latest time of all connections it stands for, which is
  why the merging loses namespaces but no time.

`ClusterReporters_proofs`:

- `ReportersTypesCorrect`, `CacheTellsTheCloud`: `ReportersTypeOK` and `CacheTellsCloud`.
- `ReportsNeverOlder`: `ReporterSpec => NeverOlder`. `ReportersInv` says what a controller
  has in hand (`InHand`): parts no newer than the cluster, all of them once it compares;
  who collects under the lock has the lock; and where reports are ordered, nothing
  in hand is older than what the cloud was told. The last part is where the lock
  matters: without it two snapshots may be in hand at once.

The assumptions are on the constants only, and TLC evaluates each of them in the
passing runs:

- `PortsAssumption`, `StoreAssumption`: the ports are a finite set, so that they can
  be counted; network intents carry no resources, Kafka and HTTP intents no fix data.
- `UploadAssumption`, `HoldersAssumption`, `QueuesAssumption`: batches have room for one
  intent; results have keys, times and details of the right type; a report is not empty.
- `CacheAssumption`: finite sets of names and addresses, room for at least one value.
- `PublisherAssumption`: names and wildcards differ, and a declared domain is an
  Internet target.
- `IPResolverAssumption`: finitely many pids and addresses, and more references than
  both together. References stand for the objects of a garbage-collected heap, where
  allocation never fails.
- `KubeFinderAssumption`, `ResolversAssumption`: finitely many pods; every service has a
  cluster address of its own that is no pod's; the time to live of seen addresses is at
  least twice `Grace`, 10 minutes in the code (`seenIPsCacheTTL`), where `Grace` is the seconds a pod
  takes to end or a capture to be handled; the internet's addresses
  are not the cluster's.
- `ReportersAssumption`, `SnifferAssumption`, `WatchersAssumption`: bounds are numbers,
  and `Nil` is neither a version nor a controller.

What stays with TLC: liveness under fairness, which the provers do not reach
(`FactsSettle`, `DeclaredNamesPublished`, `UndeclaredNamesGo`, `MappingsGo`, `CapturesLeave`, `AcceptedSettle`, `RequestsNoticed`, `CloudFollowsCluster`), and the counterexamples of the violation runs. Data defined by
induction, which is out of their reach too, the models have none of.

## 5. Findings

**Labels of a response are not filtered** (run `included_labels`).
`getIntentsFromStore` filters the labels of `intentCopy`, then appends the stored
`intent` (`mapper/pkg/intentsstore/holder.go:321-339`). The schema says of the
query's argument "Labels to include in the response"
(`mappergraphql/schema.graphql:217`). Since a response without filtering holds
the stored pointers, it also shares them with later calls of `AddIntent`.

**A pod younger than a DNS answer is trusted** (run `pod_names`). For the DNS name of a
pod, `TimeServerHasToLiveBeforeWeTrustItKey` is added to the time of the capture
(`mapper/pkg/resolvers/schema.helpers.resolvers.go:499`), where the other handlers
subtract it (`:115`, `:206`). A pod created up to that time after the capture is taken
for its destination, though the comment above the line says that this kind of name is
less reliable than others. `ServersWereReceivers` excepts these names and holds.

**Webhook reports miss changes of endpoints** (run `webhook_endpoints`). The webhooks'
`EndpointsReconciler` is set up for Services
(`mapper/pkg/webhook_traffic/endpoints_reconciler.go:33`), not for Endpoints as its
annotation and its namesake for metrics are. When only endpoints change, no controller
gets a request. `CloudFollowsCluster` claims nothing of kinds nobody watches.

Three facts that are not findings, because nothing in the repository says otherwise, or
because there is nothing to check by steps: a scan of /proc that fails forgets the known
processes and has them counted twice afterwards (`process_monitor.go:39`; the properties
of `ip_resolver` are stated for scans that did not fail so far); connections of an edge
that has no intent in a window are never reported as removed, as the upload asks for
the counts of the window's keys only (`connection_count_differ.go:53`); and
`KubernetesLogWatcher.validateKafkaServers` compares strings with names, so that it
never fails, and names the valid servers in the log without keeping to them.

## 6. Plan

2. *`TTLCache`*, *`DNSCache`*, *`DNSPublisher`* (done).
3. *`IPResolver`*, *`Sniffer`* (done).
4. *`KubeFinder`*, *`Resolvers`* (done).
5. *`TrafficHolders`*, *`ResultQueues`*, *`Watchers`* (done).
6. *`ClusterReporters`* (done).
7. *Proofs* (done for every safety property and refinement of the passing runs; see
   section 4). What is left: the lemmas on `ConnectionCounter` and on windows of a log
   that `IntentsStore_proofs` and `Watchers_proofs` both need, in one place; an abstract
   specification of the queues and the traffic holders after `ReportPipeline`, as
   results pass through the same stages; and the orders of `Watchers`, where a key's
   time at the mapper never goes back.

All modules with proofs, and those they extend, are written without recursive operators.

## 7. Not modelled

- *Traffic level collector* (`mapper/pkg/collectors/traffic`): `Add` and `getTrafficMap`
  use one map from two goroutines without a lock. The runtime ends the process when it
  sees the race; else a sample of the last hour is lost or not, and no code or document
  promises more of an average.
- *Metric exporter* (`metricexporter`): one increment of a library's counter per intent.
- *Mapper webhooks* (`mapperwebhooks`), process wiring, flags: start-up only.
- *API clients, generated GraphQL code, logging*: no logic of their own. The generated
  code is about half of the lines of the repository.
- *Conversions*: models to GraphQL inputs, the parsing of packets, logs, metrics and
  /proc files, hashes and sort orders. A hash in the reporters is modelled by its
  values; that the service hash covers name, server, type and named ports only is left
  out.
- Workloads of two namespaces that may share a key of the metadata reporter's cache: the
  key is made by a library.
- *Socket scanner* of the sniffer, and the namespace reconciler of the metadata
  reporter: they keep no state between two reports.
- Stale informers: `DNSPublisher` has one; `KubeFinder` and `ClusterReporters` read the
  cluster as it is.
