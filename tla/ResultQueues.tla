----------------------------- MODULE ResultQueues -----------------------------
(***************************************************************************)
(* The way of results through the mapper: a report is accepted into a      *)
(* bounded queue or dropped, a loop takes the reports and handles their    *)
(* results one by one, and the holder uploads what comes of them.  The     *)
(* mapper keeps all of it in memory and may exit and start again.          *)
(***************************************************************************)
EXTENDS TrafficHolders, SequencesExt

CONSTANTS
  Reports,       \* sequences of results that a reporter may send
  QueueSize,     \* of the channels made in NewResolver
  MaxResults,    \* bound on the results reported
  MaxRestarts    \* bound on the restarts of the mapper

ASSUME QueuesAssumption ==
  /\ \A rep \in Reports : rep \in Seq(Results) /\ rep # <<>>
  /\ QueueSize \in Nat /\ MaxResults \in Nat /\ MaxRestarts \in Nat

VARIABLES
  queue,      \* the channel: reports, which are sequences of numbers of results
  handling,   \* what is left of the report being handled
  handler,    \* the handle loop runs
  restarts,
  handed,     \* history: results given to the intents holder
  gone        \* history: why a result was not recorded

queueVars == <<queue, handling, handler, handed, gone>>
vars == <<kind, log, cancelled, holderVars, queueVars, restarts>>

Gone(results, why) ==
  gone' = [i \in DOMAIN gone \cup results |-> IF i \in results THEN why ELSE gone[i]]

QueuesInit ==
  /\ HolderInit
  /\ queue = <<>> /\ handling = <<>> /\ handler = TRUE /\ restarts = 0
  /\ handed = {} /\ gone = EmptyMap

-----------------------------------------------------------------------------
\* ReportCaptureResults and its like.  While the mapper shuts down it still serves, but
\* the request may be cancelled, and then select may take that branch.
Report(rep) ==
  /\ Len(log) + Len(rep) <= MaxResults
  /\ LET ids == [n \in 1 .. Len(rep) |-> Len(log) + n]
     IN \/ /\ Len(queue) < QueueSize
           /\ queue' = Append(queue, ids) /\ UNCHANGED gone
        \/ /\ Len(queue) = QueueSize \/ cancelled
           /\ Gone(ToSet(ids), "dropped") /\ UNCHANGED queue
  /\ log' = log \o rep
  /\ UNCHANGED <<kind, cancelled, holderVars, handling, handler, handed, restarts>>

\* runHandleLoop
TakeReport ==
  /\ handler /\ handling = <<>> /\ queue # <<>>
  /\ handling' = Head(queue)
  /\ queue' = Tail(queue)
  /\ UNCHANGED <<kind, log, cancelled, holderVars, handler, handed, gone, restarts>>

\* A mutant: handling goes on with the next report after a result that was skipped.
SkipResultAndReport ==
  /\ handling # <<>>
  /\ Gone({Head(handling)}, "ignored")
  /\ handling' = <<>>
  /\ UNCHANGED <<kind, log, cancelled, holderVars, queue, handler, handed, restarts>>

\* A result does not resolve, or is of an excluded namespace: continue.
SkipResult ==
  /\ handling # <<>>
  /\ Gone({Head(handling)}, "ignored")
  /\ handling' = Tail(handling)
  /\ UNCHANGED <<kind, log, cancelled, holderVars, queue, handler, handed, restarts>>

\* A mutant: an error of the handler ends the loop.
FailReportAndStop ==
  /\ handling # <<>> /\ kind = "kafka"
  /\ Gone(ToSet(handling), "failed")
  /\ handling' = <<>> /\ handler' = FALSE
  /\ UNCHANGED <<kind, log, cancelled, holderVars, queue, handed, restarts>>

\* handleReportKafkaMapperResults returns at an operation it does not know.
FailReport ==
  /\ handling # <<>> /\ kind = "kafka"
  /\ Gone(ToSet(handling), "failed")
  /\ handling' = <<>>
  /\ UNCHANGED <<kind, log, cancelled, holderVars, queue, handler, handed, restarts>>

RecordResult ==
  /\ handling # <<>>
  /\ IF kind \in WatchedKinds THEN handed' = handed \cup {Head(handling)} /\ UNCHANGED holderMaps
     ELSE AddIntent(Head(handling)) /\ UNCHANGED handed
  /\ handling' = Tail(handling)
  /\ UNCHANGED <<kind, log, cancelled, uploadVars, queue, handler, gone, restarts>>

\* With reports waiting as well, select may take either branch.
StopHandler ==
  /\ cancelled /\ handler /\ handling = <<>>
  /\ handler' = FALSE
  /\ UNCHANGED <<kind, log, cancelled, holderVars, queue, handling, handed, gone, restarts>>

HandleStep ==
  TakeReport \/ SkipResult \/ FailReport \/ RecordResult \/ StopHandler

Upload ==
  /\ kind \notin WatchedKinds
  /\ UploadStep
  /\ UNCHANGED <<kind, log, cancelled, queueVars, restarts>>

-----------------------------------------------------------------------------
Cancel ==
  /\ ~cancelled /\ restarts < MaxRestarts
  /\ cancelled' = TRUE
  /\ UNCHANGED <<kind, log, holderVars, queueVars, restarts>>

InQueue == UNION {ToSet(queue[n]) : n \in DOMAIN queue}
InHolder == UNION {entries[k].results : k \in DOMAIN entries}
InFlight == UNION {e.results : e \in unsent}
AtCloud == UNION {e.results : e \in cloud}
GivenUp == UNION {e.results : e \in lost}

\* The process ends, at the end of its shutdown, killed during it or by a panic, and
\* a new one starts: what was in memory is gone.
Restart ==
  /\ restarts < MaxRestarts
  /\ restarts' = restarts + 1
  /\ Gone(InQueue \cup ToSet(handling) \cup InHolder \cup InFlight, "forgotten")
  /\ queue' = <<>> /\ handling' = <<>> /\ handler' = TRUE
  /\ entries' = EmptyMap /\ current' = EmptyMap /\ previous' = EmptyMap
  /\ windows' = [last |-> {}, this |-> {}]
  /\ unsent' = {} /\ chunk' = {} /\ retries' = 0 /\ looping' = TRUE
  /\ cancelled' = FALSE
  /\ UNCHANGED <<kind, log, cloud, lost, handed>>

Next ==
  \/ \E rep \in Reports : Report(rep)
  \/ HandleStep \/ Upload
  \/ Cancel \/ Restart

\* Each loop is a goroutine that never blocks for ever; a mapper that shuts down ends,
\* if need be because it is killed.
Spec ==
  /\ QueuesInit /\ [][Next]_vars
  /\ WF_vars(HandleStep) /\ WF_vars(Upload) /\ WF_vars(cancelled /\ Restart)

-----------------------------------------------------------------------------
QueuesTypeOK ==
  /\ HolderTypeOK
  /\ Len(log) <= MaxResults
  /\ Len(queue) <= QueueSize
  /\ handler \/ (cancelled /\ handling = <<>>)
  /\ \A i \in DOMAIN gone : gone[i] \in {"dropped", "ignored", "failed", "forgotten"}
  /\ kind \in WatchedKinds => Intents = {}

(* Every result is in one place of the mapper, or left it for a cause that *)
(* is known: no step of the loops, however they interleave, loses one or   *)
(* keeps it to count it again.                                             *)
EveryResultAccounted ==
  \A i \in 1 .. Len(log) :
    /\ Cardinality({place \in {<<"queue", InQueue>>, <<"handling", ToSet(handling)>>,
                       <<"holder", InHolder>>, <<"upload", InFlight \cup AtCloud \cup GivenUp>>,
                       <<"handed", handed>>, <<"gone", DOMAIN gone \ AtCloud>>} :
                     i \in place[2]}) = 1
    /\ Cardinality({e \in Intents : i \in e.results}) <= 1

(* When no more is reported, every result comes to the cloud or to the     *)
(* intents holder in the end, unless it was dropped, names nobody, its     *)
(* upload was given up or the mapper exited: no queue, no loop and no      *)
(* holder keeps it for ever.                                               *)
AcceptedSettle ==
  <>[](\A i \in 1 .. Len(log) : i \in AtCloud \cup GivenUp \cup handed \cup DOMAIN gone)
=============================================================================
