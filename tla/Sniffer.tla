-------------------------------- MODULE Sniffer --------------------------------
(***************************************************************************)
(* Sniffer.RunForever: one goroutine that handles captured DNS answers and *)
(* TCP SYNs, refreshes the map from addresses to host names, and reports.  *)
(* On AWS a capture whose source resolves waits in pending and is recorded *)
(* only if it resolves to the same host after the next scan of /proc.      *)
(* Reports are sent by goroutines of their own and are lost when they fail.*)
(*                                                                         *)
(* A packet is a number, in the order of handling; it stands for the       *)
(* source port of a SYN too.  The destination of a capture is left out:    *)
(* captures to different destinations are recorded apart.                  *)
(***************************************************************************)
EXTENDS IPResolver

CONSTANTS MaxPackets  \* bound on packets

ASSUME SnifferAssumption == MaxPackets \in Nat

Collectors == {"dns", "tcp"}
Packets == 1 .. MaxPackets

\* UniqueRequest: its source address and host name, which may be unknown.
UniqueRequest == [srcIP: IPs, srcHostname: Hosts \cup {Nil}]

\* capturesMap: when the request was last seen, and its source ports.
Captured == [lastSeen: Packets, srcPorts: SUBSET Packets]
NoData == [req \in {} |-> Nil]

VARIABLES
  isRunningOnAWS,
  loop,              \* where RunForever is: see Loop
  handled,           \* packets handled so far
  pending,           \* [packet, srcIp, srcHostname] of each collector
  capturedRequests,  \* of each collector
  sent,              \* history: the packets of each collector that left in a report
  truth              \* history: the last host to use the source when a packet was handled

captures == <<pending, capturedRequests>>
snifferVars == <<node, resolver, monitor, isRunningOnAWS, loop, handled, captures, sent, truth>>

\* Waiting in select, refreshing for a collector, or reporting; and whether the
\* refresh is part of a report.
Loop == [at: {"select", "dns done", "tcp done"} \cup Collectors, reporting: BOOLEAN]
Select == [at |-> "select", reporting |-> FALSE]

SnifferInit ==
  /\ IPResolverInit
  /\ isRunningOnAWS \in BOOLEAN
  /\ loop = Select
  /\ handled = 0
  /\ pending = [c \in Collectors |-> {}]
  /\ capturedRequests = [c \in Collectors |-> NoData]
  /\ sent = [c \in Collectors |-> {}]
  /\ truth = [n \in Packets |-> {}]

-----------------------------------------------------------------------------
(* Captures.                                                               *)

\* Only SYNs have a source port.
Ports(c, n) == IF c = "tcp" THEN {n} ELSE {}

addCapturedRequest(requests, c, req, n) ==
  LET ports == IF req \in DOMAIN requests THEN requests[req].srcPorts ELSE {}
  IN [r \in DOMAIN requests \cup {req} |->
        IF r = req THEN [lastSeen |-> n, srcPorts |-> ports \cup Ports(c, n)] ELSE requests[r]]

Record(c, ip, host, n) ==
  capturedRequests' = [capturedRequests EXCEPT
    ![c] = addCapturedRequest(@, c, [srcIP |-> ip, srcHostname |-> host], n)]

\* Keeps DNS captures whose source does not resolve.
HandlePacketUnresolved(c, ip) ==
  LET n == handled + 1
      host == ResolveIP(ip)
  IN /\ loop = Select
     /\ n \in Packets
     /\ handled' = n
     /\ truth' = [truth EXCEPT ![n] = IF host = Nil THEN {} ELSE {holder[ip]}]
     /\ \/ /\ ~isRunningOnAWS
           /\ Record(c, ip, Nil, n)
           /\ UNCHANGED pending
        \/ /\ isRunningOnAWS /\ (host # Nil \/ c = "dns")
           /\ pending' = [pending EXCEPT
                ![c] = @ \cup {[packet |-> n, srcIp |-> ip, srcHostname |-> host]}]
           /\ UNCHANGED capturedRequests
        \/ \* Might be ingress traffic: the mapper decides.
           /\ isRunningOnAWS /\ host = Nil /\ c = "tcp"
           /\ Record(c, ip, Nil, n)
           /\ UNCHANGED pending
        \/ /\ isRunningOnAWS /\ host = Nil /\ c = "dns"
           /\ UNCHANGED captures
     /\ UNCHANGED <<node, resolver, monitor, isRunningOnAWS, loop, sent>>

HandlePacket(c, ip) ==
  LET n == handled + 1
      host == ResolveIP(ip)
  IN /\ loop = Select
     /\ n \in Packets
     /\ handled' = n
     /\ truth' = [truth EXCEPT ![n] = IF host = Nil THEN {} ELSE {holder[ip]}]
     /\ \/ /\ ~isRunningOnAWS
           /\ Record(c, ip, Nil, n)
           /\ UNCHANGED pending
        \/ /\ isRunningOnAWS /\ host # Nil
           /\ pending' = [pending EXCEPT
                ![c] = @ \cup {[packet |-> n, srcIp |-> ip, srcHostname |-> host]}]
           /\ UNCHANGED capturedRequests
        \/ \* Might be ingress traffic: the mapper decides.
           /\ isRunningOnAWS /\ host = Nil /\ c = "tcp"
           /\ Record(c, ip, Nil, n)
           /\ UNCHANGED pending
        \/ /\ isRunningOnAWS /\ host = Nil /\ c = "dns"
           /\ UNCHANGED captures
     /\ UNCHANGED <<node, resolver, monitor, isRunningOnAWS, loop, sent>>

\* The order of packets, which pending keeps, decides lastSeen.
Recorded(c, verified) ==
  LET reqs == {[srcIP |-> p.srcIp, srcHostname |-> p.srcHostname] : p \in verified}
      of(req) == {p.packet : p \in {q \in verified :
                    q.srcIp = req.srcIP /\ q.srcHostname = req.srcHostname}}
      last(req) == CHOOSE n \in of(req) : \A k \in of(req) : k <= n
      old(req) == IF req \in DOMAIN capturedRequests[c]
                    THEN capturedRequests[c][req].srcPorts ELSE {}
  IN [req \in reqs \cup DOMAIN capturedRequests[c] |->
        IF req \in reqs
        THEN [lastSeen |-> last(req), srcPorts |-> old(req) \cup UNION {Ports(c, n) : n \in of(req)}]
        ELSE capturedRequests[c][req]]

-----------------------------------------------------------------------------
(* Refreshing.                                                             *)

\* A report refreshes for both collectors before it collects.
AfterRefresh(c, reporting) ==
  IF reporting THEN [at |-> IF c = "dns" THEN "dns done" ELSE "tcp done", reporting |-> TRUE]
  ELSE Select

\* A refresh scans /proc, or fails at once and leaves pending for the next one.
Refresh(c, reporting) ==
  /\ isRunningOnAWS
  /\ \/ ListProcesses /\ loop' = [at |-> c, reporting |-> reporting]
     \/ ScanFails /\ loop' = AfterRefresh(c, reporting)
  /\ UNCHANGED <<isRunningOnAWS, handled, captures, sent, truth>>

\* The refresh timer of a collector.
RefreshDue(c) == loop = Select /\ Refresh(c, FALSE)

Scanning ==
  /\ loop.at \in Collectors
  /\ Callbacks
  /\ UNCHANGED <<isRunningOnAWS, loop, handled, captures, sent, truth>>

\* Does not resolve a second time.
RefreshHostsMappingUnverified(c) ==
  /\ loop.at = c
  /\ ScanEnds
  /\ capturedRequests' = [capturedRequests EXCEPT
       ![c] = Recorded(c, pending[c])]
  /\ pending' = [pending EXCEPT ![c] = {}]
  /\ loop' = AfterRefresh(c, loop.reporting)
  /\ UNCHANGED <<isRunningOnAWS, handled, sent, truth>>

\* Does not clear pending.
RefreshHostsMappingAgain(c) ==
  /\ loop.at = c
  /\ ScanEnds
  /\ capturedRequests' = [capturedRequests EXCEPT
       ![c] = Recorded(c, {p \in pending[c] : ResolveIP(p.srcIp)' = p.srcHostname})]
  /\ loop' = AfterRefresh(c, loop.reporting)
  /\ UNCHANGED <<isRunningOnAWS, handled, pending, sent, truth>>

RefreshHostsMapping(c) ==
  /\ loop.at = c
  /\ ScanEnds
  /\ capturedRequests' = [capturedRequests EXCEPT
       ![c] = Recorded(c, {p \in pending[c] : ResolveIP(p.srcIp)' = p.srcHostname})]
  /\ pending' = [pending EXCEPT ![c] = {}]
  /\ loop' = AfterRefresh(c, loop.reporting)
  /\ UNCHANGED <<isRunningOnAWS, handled, sent, truth>>

-----------------------------------------------------------------------------
(* Reporting.                                                              *)

\* Reports without refreshing.
ReportDueUnrefreshed ==
  /\ loop = Select
  /\ loop' = AfterRefresh("tcp", TRUE)
  /\ UNCHANGED <<node, resolver, monitor, isRunningOnAWS, handled, captures, sent, truth>>

ReportDue ==
  /\ loop = Select
  /\ \/ Refresh("dns", TRUE)
     \/ /\ ~isRunningOnAWS
        /\ loop' = AfterRefresh("tcp", TRUE)
        /\ UNCHANGED <<node, resolver, monitor, isRunningOnAWS, handled, captures, sent, truth>>

SecondRefresh == loop.at = "dns done" /\ Refresh("tcp", TRUE)

\* The packets that a capture, or a map of them, stands for.
PacketsOf(data) == {data.lastSeen} \cup data.srcPorts
PacketsIn(requests) == UNION {PacketsOf(requests[req]) : req \in DOMAIN requests}

\* What CollectResults takes is given to a goroutine, which tries to send it once.
Report ==
  /\ loop.at = "tcp done"
  /\ sent' = [c \in Collectors |-> sent[c] \cup PacketsIn(capturedRequests[c])]
  /\ capturedRequests' = [c \in Collectors |-> NoData]
  /\ loop' = Select
  /\ truth' = [n \in Packets |-> IF n \in UNION Range(sent') THEN {} ELSE truth[n]]
  /\ UNCHANGED <<node, resolver, monitor, isRunningOnAWS, handled, pending>>

-----------------------------------------------------------------------------
Node ==
  /\ ProcessStarts \/ ProcessEnds
  /\ UNCHANGED <<isRunningOnAWS, loop, handled, captures, sent, truth>>

Refreshing ==
  \/ Scanning
  \/ \E c \in Collectors : RefreshHostsMapping(c)
  \/ SecondRefresh

SnifferNext ==
  \/ Node
  \/ \E c \in Collectors : RefreshDue(c) \/ \E ip \in IPs : HandlePacket(c, ip)
  \/ Refreshing
  \/ ReportDue
  \/ Report

SnifferSpec == SnifferInit /\ [][SnifferNext]_snifferVars

\* The goroutine goes on, and select, which chooses at random among what is
\* ready, takes an overdue report in the end.  The refresh timers get nothing:
\* every packet starts them anew.
SnifferLiveSpec ==
  /\ SnifferSpec
  /\ WF_snifferVars(Refreshing)
  /\ SF_snifferVars(ReportDue)
  /\ WF_snifferVars(Report)

-----------------------------------------------------------------------------
SnifferTypeOK ==
  /\ IPResolverTypeOK
  /\ isRunningOnAWS \in BOOLEAN
  /\ loop \in Loop
  /\ handled \in 0 .. MaxPackets
  /\ pending \in [Collectors -> SUBSET [packet: Packets, srcIp: IPs, srcHostname: Hosts]]
  /\ \A c \in Collectors :
       /\ DOMAIN capturedRequests[c] \subseteq UniqueRequest
       /\ Range(capturedRequests[c]) \subseteq Captured
       /\ sent[c] \subseteq Packets
  /\ truth \in [Packets -> SUBSET Hosts]

(* A capture is recorded under a host only if that host was the last to    *)
(* use the source address when the packet was handled: the scan before the *)
(* packet and the scan after it name it, though each may be out of date.   *)
HostHeldAddress ==
  scanFailures = 0 =>
    \A c \in Collectors : \A req \in DOMAIN capturedRequests[c] :
      req.srcHostname # Nil =>
        \A n \in PacketsOf(capturedRequests[c][req]) : req.srcHostname \in truth[n]

Held(c, n) ==
  \/ \E p \in pending[c] : p.packet = n
  \/ n \in PacketsIn(capturedRequests[c])

(* A packet is in one report at most: what a failed refresh leaves in      *)
(* pending, or a report collects, is not recorded a second time.           *)
ReportedOnce == \A c \in Collectors : \A n \in sent[c] : ~Held(c, n)

(* Whatever is pending or recorded leaves with a report, or is dropped by  *)
(* the refresh that every report begins with, even if the refresh timers   *)
(* never fire because packets keep coming.                                 *)
CapturesLeave ==
  (\E c \in Collectors, n \in Packets : Held(c, n))
    ~> (\A c \in Collectors, n \in Packets : ~Held(c, n))
=============================================================================
