--------------------------- MODULE ClusterReporters ---------------------------
(***************************************************************************)
(* How the mapper tells the cloud what it sees of the cluster itself: the  *)
(* services behind webhooks, the pods and services that metrics are        *)
(* scraped from, services, metadata of workloads, network policies and     *)
(* ingresses.  Controllers watch kinds of objects; each request makes one  *)
(* collect a snapshot, compare it with a cached hash of what was reported  *)
(* last, report it if it differs, and cache it.  Policies and ingresses    *)
(* are lists without a cache, reported whatever was reported before.       *)
(*                                                                         *)
(* One reporter is followed, for one key of its cache: all webhooks, a     *)
(* namespace, or a workload.                                               *)
(***************************************************************************)
EXTENDS Naturals, FiniteSets, Sequences

CONSTANTS
  Nil,
  MaxChanges,   \* bound on the changes of the cluster
  MaxFailures,  \* bound on the requests, to the cluster and the cloud, that fail
  MaxResyncs    \* bound on the informers' resyncs, which come hours apart

Reporters == {"webhooks", "pod metrics", "service metrics", "services", "metadata", "lists"}
Parts == {"configurations", "services", "endpoints", "pods"}
Once == "once"  \* not a controller: syncAllOnce, in the first call of ReportMetadata
Rest == "rest"  \* not one of its own: the controller of pods, asked for the pods that stay
Controllers == Parts \cup {Once, Rest}
Removals == {"endpoints", "replica", "last pod"}

ASSUME ReportersAssumption ==
  /\ MaxChanges \in Nat /\ MaxFailures \in Nat /\ MaxResyncs \in Nat
  /\ Nil \notin Nat /\ Nil \notin Controllers

VARIABLES
  reporter,
  goes,         \* metadata: what is gone at odd versions, else they are updates
  cluster,      \* the version of each kind of objects, as far as the hash covers it:
                \* objects come and go, and two states take turns
  pending,      \* controllers with a request in their queue
  work,         \* what each controller does: see Work
  lock,         \* who has reportToCloudLock or reportCacheLock
  reported,     \* the cache: a hash of the snapshot reported last, or Nil
  told,         \* the snapshot that the cloud received last
  unanswered,   \* history: whether it was received without an answer since
  failures,     \* history: requests that failed
  resyncs,      \* history: resyncs
  refreshed,    \* history: a resync found the cache expired, and nothing changed since
  due           \* history: parts that a request since their last change must make known

history == <<failures, resyncs, refreshed, due>>
reporterVars == <<reporter, goes, cluster, pending, work, lock, reported, told, unanswered, history>>

\* A snapshot is read one kind of objects after the other.
Work == [at: {"idle", "waiting", "reading", "locking", "reporting"}, snapshot: [Parts -> Nat \cup {Nil}]]
NoSnapshot == [p \in Parts |-> Nil]
Idle == [at |-> "idle", snapshot |-> NoSnapshot]

Value(snapshot) == [p \in Parts |-> IF snapshot[p] = Nil THEN Nil ELSE snapshot[p] % 2]

\* Names of services resolve by their endpoints; addresses of services are read with the
\* endpoints of a workload.
Reads ==
  CASE reporter = "webhooks" -> <<"configurations", "services", "endpoints">>
    [] reporter = "lists" -> <<"configurations">>
    [] reporter = "pod metrics" -> <<"pods">>
    [] reporter \in {"service metrics", "services"} -> <<"services", "endpoints">>
    [] OTHER -> <<"pods", "endpoints">>

\* What the controllers are for: the comments on them and their names say it.
Intended ==
  CASE reporter = "webhooks" -> {"configurations", "services", "endpoints"}
    [] reporter = "lists" -> {"configurations"}
    [] reporter = "pod metrics" -> {"pods"}
    [] reporter = "service metrics" -> {"services", "endpoints"}
    [] reporter = "services" -> {"endpoints"}
    [] OTHER -> {"pods", "endpoints"}

\* SetupWithManager: the controllers that watch a kind of objects.  The webhooks'
\* EndpointsReconciler is set up for services.
WatchersOf(p) ==
  IF reporter = "webhooks"
  THEN CASE p = "services" -> {"services", "endpoints"}
         [] p = "configurations" -> {"configurations"}
         [] OTHER -> {}
  ELSE {p} \cap Intended

ReporterInit ==
  /\ reporter \in Reporters
  /\ goes \in SUBSET IF reporter = "metadata" THEN Removals ELSE {}
  /\ ~({"replica", "last pod"} \subseteq goes)
  /\ cluster = [p \in Parts |-> 0]
  /\ pending = Intended \cup (IF reporter = "metadata" THEN {Once} ELSE {})
                       \cup (IF "replica" \in goes THEN {Rest} ELSE {})
  /\ work = [c \in Controllers |-> Idle]
  /\ lock = Nil
  /\ reported = Nil /\ told = NoSnapshot /\ unanswered = FALSE
  /\ failures = 0 /\ resyncs = 0 /\ refreshed = FALSE /\ due = Parts

-----------------------------------------------------------------------------
Changes == cluster["configurations"] + cluster["services"] + cluster["endpoints"] + cluster["pods"]

Odd(versions, p) == versions[p] % 2 = 1

\* A pod is deleted or about to be, endpoints are gone or without pods.
Gone(p) ==
  \/ p = "endpoints" /\ "endpoints" \in goes /\ Odd(cluster, p)
  \/ p = "pods" /\ goes \cap {"replica", "last pod"} # {} /\ Odd(cluster, p)

\* Reconcile, before ReportMetadata: requests for what is gone are done with, and so are
\* those for endpoints that name a pod that is gone.
MaySkip(c) == Gone(c) \/ (c = "endpoints" /\ Gone("pods"))

\* A change that may be skipped may take the requests with it that are not done yet.
Open == {c \in Controllers : c \in pending \/ work[c] # Idle}
DueAfter(p) ==
  IF WatchersOf(p) # {} /\ ~MaySkip(p)' THEN Parts
  ELSE IF \E c \in Open : MaySkip(c)' THEN {}
  ELSE due \ {p}

Change(p) ==
  /\ Changes < MaxChanges
  /\ \E n \in DOMAIN Reads : Reads[n] = p
  /\ cluster' = [cluster EXCEPT ![p] = @ + 1] /\ UNCHANGED goes
  /\ pending' = pending \cup WatchersOf(p)
  /\ refreshed' = FALSE /\ due' = DueAfter(p)
  /\ UNCHANGED <<reporter, work, lock, reported, told, unanswered, failures, resyncs>>

\* Nothing is going on: the informers' resyncs, hours apart, come then.
Quiet == pending = {} /\ \A c \in Controllers : work[c] = Idle

\* All objects are handled again; the cache may have expired by then.
Resync ==
  /\ Quiet
  /\ resyncs < MaxResyncs /\ resyncs' = resyncs + 1
  /\ pending' = pending \cup (IF "replica" \in goes THEN {Rest} ELSE {})
                        \cup UNION {WatchersOf(p) : p \in Parts}
  /\ due' = Parts
  /\ \/ reported' = Nil /\ refreshed' = TRUE
     \/ UNCHANGED <<reported, refreshed>>
  /\ UNCHANGED <<reporter, goes, cluster, work, lock, told, unanswered, failures>>

-----------------------------------------------------------------------------
(* Reconcile, of one controller.  A request that comes meanwhile waits.    *)

\* Network policies, those of Cilium and ingresses are reported as they are listed.
Cached == reporter # "lists"

CollectsLocked == reporter = "metadata"

\* The first call of ReportMetadata reports all workloads, and all calls wait for it.
Synced == Once \notin pending /\ work[Once] = Idle

\* With the n-th kind of objects read, the snapshot may be complete.
Collected(c, n) ==
  work' = [work EXCEPT ![c].snapshot[Reads[n]] = cluster[Reads[n]],
                       ![c].at = IF n = Len(Reads) THEN "locking" ELSE "reading"]

\* A controller has one worker.
Free(c) == \A d \in IF c \in {"pods", Rest} THEN {"pods", Rest} ELSE {c} : work[d] = Idle

Skip(c) ==
  /\ Free(c) /\ c \in pending /\ MaySkip(c)
  /\ pending' = pending \ {c}
  /\ UNCHANGED <<reporter, goes, cluster, work, lock, reported, told, unanswered, history>>

\* What the request is for is there, or does not matter.
Take(c) ==
  /\ Free(c) /\ c \in pending /\ ~Gone(c)
  /\ pending' = pending \ {c}
  /\ work' = [work EXCEPT ![c].at = "waiting"]
  /\ UNCHANGED <<reporter, goes, cluster, lock, reported, told, unanswered, history>>

\* A mutant: the snapshot is collected before the lock is taken.
BeginUnlocked(c) ==
  /\ work[c].at = "waiting" /\ (c # Once => Synced)
  /\ Collected(c, 1)
  /\ UNCHANGED <<reporter, goes, cluster, pending, lock, reported, told, unanswered, history>>

Begin(c) ==
  /\ work[c].at = "waiting" /\ (c # Once => Synced)
  /\ IF CollectsLocked THEN lock = Nil /\ lock' = c ELSE UNCHANGED lock
  /\ Collected(c, 1)
  /\ UNCHANGED <<reporter, goes, cluster, pending, reported, told, unanswered, history>>

Read(c) ==
  /\ work[c].at = "reading"
  /\ \E n \in DOMAIN Reads :
       /\ work[c].snapshot[Reads[n]] = Nil
       /\ \A m \in 1 .. n - 1 : work[c].snapshot[Reads[m]] # Nil
       /\ Collected(c, n)
  /\ UNCHANGED <<reporter, goes, cluster, pending, lock, reported, told, unanswered, history>>

Unlocked(c) == IF lock = c THEN Nil ELSE lock
Done(c) == work' = [work EXCEPT ![c] = Idle] /\ lock' = Unlocked(c)

\* A mutant: a request that fails is not put back.
NotPutBack(c) == failures < MaxFailures /\ failures' = failures + 1 /\ UNCHANGED pending

\* A request that fails is put back; syncAllOnce is not.
PutBack(c) ==
  /\ failures < MaxFailures /\ failures' = failures + 1
  /\ pending' = pending \cup ({c} \ {Once})

ReadFails(c) ==
  /\ work[c].at \in {"waiting", "reading"}
  /\ Done(c) /\ PutBack(c)
  /\ UNCHANGED <<reporter, goes, cluster, reported, told, unanswered, resyncs, refreshed, due>>

\* Metadata of a workload all whose pods are gone is not reported.
Nothing(snapshot) == "last pod" \in goes /\ Odd(snapshot, "pods")

\* A mutant: the lock is kept when there is nothing to report.
CompareKeepingLock(c) ==
  LET s == work[c].snapshot
      skip == Nothing(s) \/ reported = Value(s)
  IN /\ work[c].at = "locking" /\ lock \in {Nil, c}
     /\ IF skip THEN work' = [work EXCEPT ![c] = Idle] /\ lock' = c
        ELSE work' = [work EXCEPT ![c].at = "reporting"] /\ lock' = c
     /\ UNCHANGED <<reporter, goes, cluster, pending, reported, told, unanswered, history>>

\* reportToCloud, reportWorkloadMetadataWithCache: not what was reported last.
Compare(c) ==
  LET s == work[c].snapshot
      skip == Nothing(s) \/ reported = Value(s)
  IN /\ work[c].at = "locking" /\ lock \in {Nil, c}
     /\ IF skip THEN work' = [work EXCEPT ![c] = Idle] /\ lock' = Nil
        ELSE work' = [work EXCEPT ![c].at = "reporting"] /\ lock' = c
     /\ UNCHANGED <<reporter, goes, cluster, pending, reported, told, unanswered, history>>

ReportSucceeds(c) ==
  /\ work[c].at = "reporting"
  /\ told' = work[c].snapshot /\ unanswered' = FALSE
  /\ reported' = IF Cached THEN Value(work[c].snapshot) ELSE Nil
  /\ Done(c)
  /\ UNCHANGED <<reporter, goes, cluster, pending, history>>

\* A mutant: the snapshot is cached whatever comes of the request.
ReportFailsCached(c) ==
  /\ work[c].at = "reporting"
  /\ \/ UNCHANGED <<told, unanswered, refreshed>>
     \/ told' = work[c].snapshot /\ unanswered' = TRUE /\ refreshed' = FALSE
  /\ reported' = Value(work[c].snapshot)
  /\ Done(c) /\ PutBack(c)
  /\ UNCHANGED <<reporter, goes, cluster, resyncs, due>>

\* Before the cloud received the request or after; the request is put back.
ReportFails(c) ==
  /\ work[c].at = "reporting"
  /\ \/ UNCHANGED <<told, unanswered, refreshed>>
     \/ told' = work[c].snapshot /\ unanswered' = TRUE /\ refreshed' = FALSE
  /\ Done(c) /\ PutBack(c)
  /\ UNCHANGED <<reporter, goes, cluster, reported, resyncs, due>>

Reconcile(c) ==
  Skip(c) \/ Take(c) \/ Begin(c) \/ Read(c) \/ ReadFails(c) \/ Compare(c) \/ ReportSucceeds(c) \/ ReportFails(c)

ReporterNext ==
  \/ \E p \in Parts : Change(p)
  \/ \E c \in Controllers : Reconcile(c)
  \/ Resync

ReporterSpec == ReporterInit /\ [][ReporterNext]_reporterVars

\* As long as one of the controllers' workers can go on, one does.
ReporterFairness == WF_reporterVars(\E c \in Controllers : Reconcile(c))

-----------------------------------------------------------------------------
ReportersTypeOK ==
  /\ reporter \in Reporters /\ goes \subseteq Removals /\ due \subseteq Parts
  /\ cluster \in [Parts -> 0 .. MaxChanges]
  /\ pending \subseteq Intended \cup {Once, Rest}
  /\ work \in [Controllers -> Work]
  /\ \A c \in Controllers : work[c].at = "reporting" => lock = c
  /\ lock # Nil => lock \in Intended \cup {Once, Rest} /\ work[lock] # Idle

(* The cache never hides a difference: as long as every request was        *)
(* answered, what it holds is what the cloud was told last, although       *)
(* several controllers share it and each compares a snapshot of its own.   *)
CacheTellsCloud == reported # Nil /\ ~unanswered => reported = Value(told)

(* Where one controller reports, or snapshots are collected under the      *)
(* lock, an older snapshot never replaces a newer one at the cloud.        *)
Ordered == reporter \in {"pod metrics", "services", "metadata", "lists"}

NeverOlder ==
  [][Ordered => \A p \in Parts : told[p] # Nil => told'[p] >= told[p]]_reporterVars

\* The kinds of objects that the cloud must know as they are: all after a resync that
\* finds the cache expired, and else those due, if reports are not overtaken and no
\* answer was lost.
Shown == {p \in due : told[p] # Nil /\ (refreshed \/ (Ordered /\ ~unanswered))}

(* When the cluster stays as it is, the cloud knows it in the end, after   *)
(* requests that failed and were put back, snapshots that were overtaken   *)
(* and kinds of objects that changed while others were read.  That pods or *)
(* endpoints of a workload are gone is not due of itself: it is known with *)
(* the workload's next update, or by a resync.                             *)
CloudFollowsCluster ==
  <>[](/\ Quiet
       /\ \A p \in Shown : Nothing(cluster) \/ told[p] % 2 = cluster[p] % 2)

(* Endpoints that change make the webhooks' services be looked at again:   *)
(* "We need the service itself when reporting to Otterize cloud (for name  *)
(* resolution)", and it has a name by its endpoints only.                  *)
WebhooksNoticeEndpoints ==
  [][reporter = "webhooks" /\ cluster'["endpoints"] # cluster["endpoints"]
     => pending' # {}]_reporterVars
=============================================================================
