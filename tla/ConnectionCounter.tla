-------------------------- MODULE ConnectionCounter --------------------------
(***************************************************************************)
(* The counting of connections of package concurrentconnectioncounter:     *)
(* a ConnectionCounter per intent and upload window, and the               *)
(* ConnectionCountDiffer that compares the window being collected with the *)
(* window before it.  The counters are values here: the holder that owns   *)
(* them serialises every call with its own lock.                           *)
(***************************************************************************)
EXTENDS Integers, FiniteSets

CONSTANT Ports                  \* TCP source ports a capture can report

ASSUME PortsAssumption == IsFiniteSet(Ports)

\* consts.go: the resolution a resolver writes into Intent.ResolutionData.
\* "none" is the nil pointer.
SrcPortResolutions == {"addSocketScanServiceIntent", "addSocketScanPodIntent",
                       "handleInternalTrafficTCPResult"}
DNSResolutions == {"handleDNSCaptureResultsAsKubernetesPods"}
UncountedResolutions == {"handleReportKafkaMapperResults",
                         "handleReportIstioConnectionResults", "none"}
Resolutions == SrcPortResolutions \cup DNSResolutions \cup UncountedResolutions

ShouldCountUsingSrcPortMethod(resolution) == resolution \in SrcPortResolutions
ShouldCountUsingDNSMethod(resolution) == resolution \in DNSResolutions

-----------------------------------------------------------------------------
Counter == [countMethod: {"Unset", "DNS", "SourcePort"},
            SourcePorts: SUBSET Ports,
            DNSCounter: Nat]

NewConnectionCounter == [countMethod |-> "Unset", SourcePorts |-> {}, DNSCounter |-> 0]

\* A mutant: a DNS intent switches a counter of source ports back to DNS.
AddConnectionDNSWins(c, resolution, ports) ==
  IF ShouldCountUsingSrcPortMethod(resolution)
  THEN [c EXCEPT !.countMethod = "SourcePort", !.SourcePorts = @ \cup ports]
  ELSE IF ShouldCountUsingDNSMethod(resolution)
       THEN [c EXCEPT !.countMethod = "DNS", !.DNSCounter = @ + 1]
       ELSE c

\* "TCP source port connections wins over DNS": once a counter counts source
\* ports, DNS intents are no longer counted by it.
AddConnection(c, resolution, ports) ==
  IF ShouldCountUsingSrcPortMethod(resolution)
  THEN [c EXCEPT !.countMethod = "SourcePort", !.SourcePorts = @ \cup ports]
  ELSE IF c.countMethod \in {"Unset", "DNS"} /\ ShouldCountUsingDNSMethod(resolution)
       THEN [c EXCEPT !.countMethod = "DNS", !.DNSCounter = @ + 1]
       ELSE c

\* getConnectionCountUnsafe returns (0, false) for a counter nothing was
\* counted in.
HasCount(c) == c.countMethod # "Unset"

ConnectionCount(c) ==
  CASE c.countMethod = "SourcePort" -> Cardinality(c.SourcePorts)
    [] c.countMethod = "DNS" -> c.DNSCounter
    [] OTHER -> 0

-----------------------------------------------------------------------------
\* cloudclient.ConnectionsCount; "valid" is the second result of the functions
\* that return it (a count that is not valid is not attached to the intent).
ConnectionsCount == [valid: BOOLEAN, Current: Nat, Added: Nat, Removed: Nat]

NoCount == [valid |-> FALSE, Current |-> 0, Added |-> 0, Removed |-> 0]

CountOf(current, added, removed) ==
  [valid |-> TRUE, Current |-> current, Added |-> added, Removed |-> removed]

\* A mutant: the two set differences are swapped.
GetConnectionCountDiffSwapped(c, other) ==
  IF ~HasCount(c) \/ ~HasCount(other) THEN NoCount
  ELSE IF c.countMethod # other.countMethod \/ c.countMethod = "DNS"
       THEN CountOf(ConnectionCount(c), ConnectionCount(c), ConnectionCount(other))
       ELSE CountOf(Cardinality(c.SourcePorts),
                    Cardinality(other.SourcePorts \ c.SourcePorts),
                    Cardinality(c.SourcePorts \ other.SourcePorts))

\* A mutant: the change is the difference of the two counts.
GetConnectionCountDiffOfCounts(c, other) ==
  IF ~HasCount(c) \/ ~HasCount(other) THEN NoCount
  ELSE CountOf(ConnectionCount(c), ConnectionCount(c) - ConnectionCount(other), 0)

\* Counters of different methods, and two DNS counters, share no identity of
\* single connections: everything of c counts as added, everything of other as
\* removed.  Two source port counters are compared as sets.
GetConnectionCountDiff(c, other) ==
  IF ~HasCount(c) \/ ~HasCount(other) THEN NoCount
  ELSE IF c.countMethod # other.countMethod \/ c.countMethod = "DNS"
       THEN CountOf(ConnectionCount(c), ConnectionCount(c), ConnectionCount(other))
       ELSE CountOf(Cardinality(c.SourcePorts),
                    Cardinality(c.SourcePorts \ other.SourcePorts),
                    Cardinality(other.SourcePorts \ c.SourcePorts))

\* ConnectionCountDiffer.GetDiff: current and previous are maps (functions
\* whose domain is the set of keys present).
GetDiff(current, previous, key) ==
  IF key \in DOMAIN current
  THEN IF key \in DOMAIN previous
       THEN GetConnectionCountDiff(current[key], previous[key])
       ELSE IF HasCount(current[key])
            THEN CountOf(ConnectionCount(current[key]), ConnectionCount(current[key]), 0)
            ELSE NoCount
  ELSE IF key \in DOMAIN previous /\ HasCount(previous[key])
       THEN CountOf(0, 0, ConnectionCount(previous[key]))
       ELSE NoCount
=============================================================================
