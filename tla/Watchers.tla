------------------------------- MODULE Watchers -------------------------------
(***************************************************************************)
(* The Kafka watcher, which reads the authorizer's records out of a        *)
(* server's log, interval by interval from the cluster or following a      *)
(* file, and the Istio watcher, which asks sidecars how often each request *)
(* was made.  Both note what they see in a map, with the time they saw it, *)
(* and a second loop exchanges the map and reports it to the mapper's      *)
(* queue.  The Kafka watcher is a process of its own; the Istio watcher is *)
(* a part of the mapper, and its loops do not synchronise.                 *)
(***************************************************************************)
EXTENDS ResultQueues

CONSTANTS
  NoDetail,
  NamesOf,      \* NamesOf[key]: its workloads and path, without their namespaces
  MaxSidecars,  \* bound on the lives of sidecars, of replicas or of one pod after the other
  MaxRequests,  \* bound on the requests that Kafka or sidecars see
  MaxErrors     \* bound on the requests of a watcher that fail

ASSUME WatchersAssumption == MaxRequests \in Nat /\ MaxSidecars \in Nat /\ MaxErrors \in Nat

VARIABLES
  follows,   \* Kafka: it is a LogFileWatcher
  trail,     \* the requests, as keys: the server's log, or what sidecars counted
  via,       \* and the sidecar of each; sidecars have numbers, in the order of their first requests
  ended,     \* the sidecars that do not run any more
  inbox,     \* what was fetched and not looked at: numbers of requests
  fetching,  \* between the begin of watchOnce or a collection and its end
  readFrom,  \* Kafka: readFromTime, or the place in the file, as the number of requests before it
  counts,    \* Istio: metricsCount, by key
  noted,     \* seen, connections: when a key was seen last, as a number of requests
  sending,   \* the map that is being reported
  errors,    \* history: requests that failed
  noticed,   \* history: requests that were noted
  passed,    \* history: requests that were passed over
  missed     \* history: requests noted and lost before the mapper had them

watchVars == <<inbox, fetching, readFrom, counts, noticed, passed>>
requestVars == <<follows, trail, via, ended>>
watcherVars == <<requestVars, watchVars, noted, sending, errors, missed>>
allVars == <<vars, watcherVars>>

Now == Len(trail)

WatchersInit ==
  /\ QueuesInit
  /\ follows \in IF kind = "kafka" THEN BOOLEAN ELSE {FALSE}
  /\ trail = <<>> /\ via = <<>> /\ ended = {}
  /\ inbox = <<>> /\ fetching = FALSE /\ readFrom = 0
  /\ counts = EmptyMap /\ noted = EmptyMap /\ sending = EmptyMap
  /\ errors = 0 /\ noticed = {} /\ passed = {} /\ missed = {}

Set(map, k, v) == [j \in DOMAIN map \cup {k} |-> IF j = k THEN v ELSE map[j]]

\* Metrics have the names of workloads, not of pods: Value(i) is what the sidecar of
\* request i says of its key after it, and another sidecar may say the same.
Series(i) == <<trail[i], via[i]>>
Counted(i) == {j \in 1 .. i : Series(j) = Series(i)}
Value(i) == Cardinality(Counted(i))
IsLast(i) == \A j \in i + 1 .. Now : Series(j) # Series(i)

-----------------------------------------------------------------------------
\* What is logged while watchOnce reads is read as well, or is too late: the time to
\* read from will be later.
LoggedWhileFetching ==
  \/ /\ readFrom + 1 .. Now \cap passed = {}
     /\ inbox' = Append(inbox, Now + 1) /\ UNCHANGED passed
  \/ passed' = passed \cup {Now + 1} /\ UNCHANGED inbox

Request(k) ==
  /\ kind \in WatchedKinds
  /\ Now < MaxRequests
  /\ trail' = Append(trail, k)
  /\ \E s \in 1 .. MaxSidecars \ ended :
       /\ kind = "kafka" => s = 1
       /\ s - 1 \in ToSet(via) \cup {0}
       /\ via' = Append(via, s)
  /\ IF kind = "kafka" /\ fetching THEN LoggedWhileFetching ELSE UNCHANGED <<inbox, passed>>
  /\ UNCHANGED <<vars, follows, ended, fetching, readFrom, counts, noticed, noted, sending, errors,
                 missed>>

\* A pod ends, or its sidecar does and starts to count anew.  What counted nothing is not
\* told from what has not begun.
SidecarEnds ==
  /\ kind = "istio"
  /\ \E s \in ToSet(via) \ ended : ended' = ended \cup {s}
  /\ UNCHANGED <<vars, follows, trail, via, watchVars, noted, sending, errors, missed>>

Fail == errors < MaxErrors /\ errors' = errors + 1

\* One sidecar after the other, in any order.
BySidecar(q) ==
  \A l, m, n \in DOMAIN q : l < m /\ m < n /\ via[q[l]] = via[q[n]] => via[q[m]] = via[q[l]]
MetricsOf(sidecars) ==
  {q \in SetToSeqs({i \in 1 .. Now : via[i] \in sidecars /\ IsLast(i)}) : BySidecar(q)}

\* watchOnce: the log from readFrom to its end.  CollectIstioConnectionMetrics: the count
\* of every request, of sidecars that answer.  They answer when they like, which matters
\* to none but themselves.
Fetch ==
  /\ ~follows /\ ~fetching /\ fetching' = TRUE
  /\ IF kind = "kafka"
     THEN inbox' = [n \in 1 .. Now - readFrom |-> readFrom + n] /\ UNCHANGED errors
     ELSE \/ inbox' \in MetricsOf(ToSet(via) \ ended) /\ UNCHANGED errors
          \/ Fail /\ \E s \in ToSet(via) \ ended : inbox' \in MetricsOf(ToSet(via) \ (ended \cup {s}))
  /\ UNCHANGED <<vars, requestVars, readFrom, counts, noted, sending, noticed, passed, missed>>

\* isMetricNew
IsNew(i) == kind = "kafka" \/ trail[i] \notin DOMAIN counts \/ counts[trail[i]] # Value(i)

\* processLogRecord, convertMetricsToConnections.  Between finding the map of connections
\* and writing to it, Flush may take it: the write is read with it, or is not; that the
\* runtime may also end the mapper is in Restart.
Note(i) ==
  LET k == trail[i]
      seen == IF kind = "kafka" THEN {i} ELSE Counted(i)
  IN /\ counts' = IF kind = "istio" THEN Set(counts, k, Value(i)) ELSE counts
     /\ noticed' = noticed \cup seen
     /\ \/ noted' = Set(noted, k, Now) /\ UNCHANGED <<sending, missed>>
        \/ /\ kind = "istio" /\ sending # EmptyMap
           /\ \/ sending' = Set(sending, k, Now) /\ UNCHANGED missed
              \/ missed' = missed \cup seen /\ UNCHANGED sending
           /\ UNCHANGED noted

Look ==
  /\ inbox # <<>>
  /\ inbox' = Tail(inbox)
  /\ IF IsNew(Head(inbox)) THEN Note(Head(inbox))
     ELSE UNCHANGED <<counts, noted, sending, noticed, missed>>
  /\ UNCHANGED <<vars, requestVars, fetching, readFrom, errors, passed>>

\* LogFileWatcher.watchForever: the next line.
Follow ==
  /\ follows /\ readFrom < Now
  /\ readFrom' = readFrom + 1
  /\ Note(readFrom + 1)
  /\ UNCHANGED <<vars, requestVars, inbox, fetching, errors, passed>>

\* watchForever, after watchOnce.  (The cluster gets the time in whole seconds; what it
\* sends once more is left out.)
EndFetch ==
  /\ fetching' = FALSE /\ inbox' = <<>>
  /\ readFrom' = IF kind = "kafka" THEN Now ELSE readFrom
  /\ UNCHANGED <<vars, requestVars, counts, noted, sending, noticed, missed>>

Fetched == fetching /\ inbox = <<>> /\ UNCHANGED <<errors, passed>> /\ EndFetch

\* The pod is not found or not running, or the stream breaks, which nobody asks about:
\* what was not read by now never will be.
FetchFails ==
  /\ kind = "kafka" /\ fetching /\ Fail
  /\ passed' = passed \cup ((readFrom + 1 .. Now) \ noticed)
  /\ EndFetch

\* A mutant: the time to read from moves on after a deadline, too.
DeadlineMovesOn ==
  /\ kind = "kafka" /\ ~follows /\ ~fetching /\ Fail
  /\ readFrom' = Now
  /\ UNCHANGED <<vars, requestVars, inbox, fetching, counts, noted, sending, noticed, passed, missed>>

\* The request for the log has no answer within a minute: the same once more.
Deadline ==
  /\ kind = "kafka" /\ ~follows /\ ~fetching /\ Fail
  /\ UNCHANGED <<vars, requestVars, watchVars, noted, sending, missed>>

Watch == Follow \/ Fetch \/ Look \/ Fetched \/ FetchFails \/ Deadline

-----------------------------------------------------------------------------
(* reportResults                                                           *)

Flush ==
  /\ sending = EmptyMap /\ noted # EmptyMap
  /\ sending' = noted /\ noted' = EmptyMap
  /\ UNCHANGED <<vars, requestVars, watchVars, errors, missed>>

\* ToGraphQLIstioConnections makes one result of connections that differ in namespaces
\* only: it has those of the connection that comes first, and the latest time.
Alike(k) == IF kind = "istio" THEN {j \in Keys : NamesOf[j] = NamesOf[k]} ELSE {k}

Firsts(map) ==
  {first \in SUBSET DOMAIN map :
     /\ \A k \in DOMAIN map : \E f \in first : k \in Alike(f)
     /\ \A f, g \in first : f \in Alike(g) => f = g}

Latest(map, k) ==
  LET times == {map[j] : j \in Alike(k) \cap DOMAIN map}
  IN CHOOSE t \in times : \A u \in times : u <= t

\* A mutant: the time is that of the first connection.
AsResultsOfFirst(map, first) ==
  {[key |-> k, lastSeen |-> map[k], detail |-> NoDetail] : k \in first}

AsResults(map, first) ==
  {[key |-> k, lastSeen |-> Latest(map, k), detail |-> NoDetail] : k \in first}

ReportSending ==
  \E first \in Firsts(sending) : \E rep \in SetToSeqs(AsResults(sending, first)) : Report(rep)

Delivered ==
  /\ sending # EmptyMap /\ ReportSending
  /\ sending' = EmptyMap
  /\ UNCHANGED <<requestVars, watchVars, noted, errors, missed>>

NotedOf(map) == {i \in noticed : trail[i] \in DOMAIN map}

\* The Kafka watcher's request does not get to the mapper.
NotDelivered ==
  /\ kind = "kafka" /\ sending # EmptyMap /\ Fail
  /\ missed' = missed \cup NotedOf(sending)
  /\ sending' = EmptyMap
  /\ UNCHANGED <<vars, requestVars, watchVars, noted>>

ReportNoted == Flush \/ Delivered \/ NotDelivered

-----------------------------------------------------------------------------
\* The Istio watcher ends with the mapper, the Kafka watcher does not.
RestartMapper ==
  /\ Restart
  /\ IF kind = "istio"
     THEN /\ inbox' = <<>> /\ fetching' = FALSE /\ counts' = EmptyMap
          /\ noted' = EmptyMap /\ sending' = EmptyMap
          /\ missed' = missed \cup NotedOf(noted) \cup NotedOf(sending)
     ELSE UNCHANGED <<inbox, fetching, counts, noted, sending, missed>>
  /\ UNCHANGED <<requestVars, readFrom, errors, noticed, passed>>

Reported == \E rep \in Reports : kind \notin WatchedKinds /\ Report(rep)

WatchersNext ==
  \/ \E k \in Keys \ ExcludedKeys : Request(k)
  \/ SidecarEnds
  \/ kind \in WatchedKinds /\ (Watch \/ ReportNoted)
  \/ (Reported \/ HandleStep \/ Upload \/ Cancel) /\ UNCHANGED watcherVars
  \/ RestartMapper

\* Each loop is a goroutine that never blocks for ever; a mapper that shuts down ends,
\* if need be because it is killed.
WatchersSpec ==
  /\ WatchersInit /\ [][WatchersNext]_allVars
  /\ WF_allVars(kind \in WatchedKinds /\ Watch) /\ WF_allVars(kind \in WatchedKinds /\ ReportNoted)
  /\ WF_allVars(HandleStep /\ UNCHANGED watcherVars) /\ WF_allVars(Upload /\ UNCHANGED watcherVars)
  /\ WF_allVars(cancelled /\ RestartMapper)

-----------------------------------------------------------------------------
(* What a watcher noted is never behind: it is in the map, on its way or   *)
(* at the mapper with the time of the request or a later one, unless its   *)
(* report was lost or it was noted in a map already taken.  The mapper     *)
(* gets it under its own names, but maybe with the namespaces of another   *)
(* connection of these names that was reported with it.                    *)
NotesReachMapper ==
  \A i \in noticed \ missed :
    \/ \E map \in {noted, sending} : trail[i] \in DOMAIN map /\ map[trail[i]] >= i
    \/ \E n \in DOMAIN log : log[n].key \in Alike(trail[i]) /\ log[n].lastSeen >= i

\* What the sidecar of i has counted in the end is what was read last of another.
HiddenByAnother(i) ==
  \E j \in noticed, l \in 1 .. Now :
    /\ trail[j] = trail[i] /\ via[j] # via[i]
    /\ \A m \in noticed : Series(m) = Series(j) => m <= j
    /\ Series(l) = Series(i) /\ IsLast(l) /\ Value(j) = Value(l)

(* Every request is noted in the end, unless the log could not be read, it *)
(* was written while the log was read, its sidecar ended, or the count of  *)
(* its sidecar is what was read last of another's metric of the same name: *)
(* an answer that is late, replicas whose counts differ and collections    *)
(* that fail cost nothing.                                                 *)
RequestsNoticed ==
  <>[](kind \in WatchedKinds => \A i \in 1 .. Now :
         \/ i \in noticed
         \/ kind = "kafka" /\ i \in passed
         \/ kind = "istio" /\ (via[i] \in ended \/ HiddenByAnother(i)))
=============================================================================
