------------------------------- MODULE Resolvers -------------------------------
(***************************************************************************)
(* How the mapper turns captures into intents: the handlers of package     *)
(* resolvers name the client and the server of a capture by what the       *)
(* cluster looks like when they run, not when the traffic flowed.          *)
(*                                                                         *)
(* One capture at a time is followed from the traffic to what is recorded  *)
(* of it: captures do not influence how others are resolved.  How they     *)
(* queue up on the way is in ResultQueues.                                 *)
(***************************************************************************)
EXTENDS KubeFinder

CONSTANTS
  Outside,      \* an address outside the cluster, and who is there
  InsideIP,     \* one inside that is no pod's and no node's, of a service or endpoints
  ExternalName  \* a DNS name outside the cluster

ASSUME ResolversAssumption ==
  /\ {Outside, InsideIP} \cap (PodIPs \cup {NodeIP, ControlPlaneIP, Nil}) = {}
  /\ Outside # InsideIP

Kinds == {"dns", "tcp", "socket", "kafka", "istio", "operation", "traffic"}

VARIABLES
  isRunningOnAws,
  capture,   \* the last capture
  stage,     \* how far it is: "none", "sent", "client found" or "done"
  client,    \* the client found for it
  recorded   \* what was recorded of it: a set with an Entry at most

resolverVars == <<capture, client, recorded>>
allVars == <<clusterVars, isRunningOnAws, stage, resolverVars>>

\* The holder that an intent was added to, and whom it names.
Entry(holder, from, to) == {[holder |-> holder, client |-> from, server |-> to]}

NoCapture ==
  [kind |-> Nil, srcIP |-> Nil, srcHostname |-> Nil, sender |-> Nil,
   dest |-> Nil, type |-> Nil, destIP |-> Nil, receiver |-> Nil, lastSeen |-> 0]

ResolverInit ==
  /\ ClusterInit
  /\ isRunningOnAws \in BOOLEAN
  /\ capture = NoCapture /\ stage = "none" /\ client = Nil /\ recorded = {}

-----------------------------------------------------------------------------
(* Traffic, as the sniffers and watchers report it.                        *)

Sending == InPhase({"running", "deleting"})

PodSender(p) == [srcIP |-> pods[p].ip, srcHostname |-> p, sender |-> WorkloadOf[p]]
Unresolved(s) == [s EXCEPT !.srcHostname = Nil]
PodSenders == {PodSender(p) : p \in Sending \ HostPods}
OtherSenders == {[srcIP |-> ControlPlaneIP, srcHostname |-> Nil, sender |-> APIServer]}
                \cup {Unresolved(PodSender(p)) : p \in Sending \cap HostPods}
InsideSender == [srcIP |-> InsideIP, srcHostname |-> Nil, sender |-> InsideIP]
OutsideSender == [srcIP |-> Outside, srcHostname |-> Nil, sender |-> Outside]

\* The sniffer names the host of a socket always, that of a DNS answer on AWS, and
\* that of a SYN on AWS if it resolves.
Senders(kind) ==
  CASE kind = "socket" -> PodSenders
    [] kind = "dns" -> IF isRunningOnAws THEN PodSenders ELSE {Unresolved(s) : s \in PodSenders}
    [] kind = "tcp" -> {Unresolved(s) : s \in PodSenders} \cup OtherSenders \cup {InsideSender, OutsideSender}
                       \cup (IF isRunningOnAws THEN PodSenders ELSE {})
    [] OTHER -> {Unresolved(s) : s \in PodSenders}

Target(type, dest, ip, receiver) ==
  [type |-> type, dest |-> dest, destIP |-> ip, receiver |-> receiver]

ToPods(type) ==
  {Target(type, p, pods[p].ip, WorkloadOf[p]) : p \in Sending \ HostPods}
ToServices(type) == {Target(type, s, ClusterIP[s], Selector[s]) : s \in Services}
FromOutside(type) ==
  {Target(type, ip, ip, Selector[ExternalAccess[ip]]) : ip \in DOMAIN ExternalAccess}

\* By address, by the name that the sniffer has for it, or by a DNS name.
Targets(kind, s) ==
  CASE kind = "tcp" /\ s.srcIP = Outside -> ToPods("ip") \cup ToPods("pod name") \cup FromOutside("ip")
    [] kind = "tcp" -> ToPods("ip") \cup ToPods("pod name") \cup ToServices("ip")
    [] kind \in {"socket", "traffic"} -> ToPods("ip") \cup ToServices("ip")
    [] kind = "dns" -> ToServices("service name") \cup ToPods("pod DNS name")
                       \cup {Target("outside name", ExternalName, Nil, Outside)}
    [] kind = "operation" -> {Target("resource", Nil, Nil, Outside)}
    [] OTHER -> ToPods("pod name")

Traffic ==
  /\ stage = "none"
  /\ \E kind \in Kinds : \E s \in Senders(kind) : \E t \in Targets(kind, s) :
       capture' = [kind |-> kind, lastSeen |-> clock,
         srcIP |-> s.srcIP, srcHostname |-> s.srcHostname, sender |-> s.sender,
         dest |-> t.dest, type |-> t.type, destIP |-> t.destIP, receiver |-> t.receiver]
  /\ stage' = "sent"
  /\ UNCHANGED <<clusterVars, isRunningOnAws, client, recorded>>

\* Another capture may follow.
TrafficHandled ==
  /\ stage = "done"
  /\ stage' = "none" /\ capture' = NoCapture /\ client' = Nil /\ recorded' = {}
  /\ UNCHANGED <<clusterVars, isRunningOnAws>>

-----------------------------------------------------------------------------
(* The client of a capture; Nil if it is ignored.                          *)

Created(p) == pods[p].since

\* Does not compare the host name that was captured with the pod found.
discoverInternalSrcIdentityByIP(c) ==
  LET p == ResolveIPToPod(c.srcIP)
  IN IF ResolveIPToControlPlane(c.srcIP)
       THEN IF IsIpHostNetworkIp(c.srcIP) THEN Nil ELSE APIServer
     ELSE IF p = Nil \/ Created(p) > c.lastSeen THEN Nil
     ELSE WorkloadOf[p]

\* If no destination is left after filterTargetsAccordingToPodCreationTime, nothing
\* comes of the client either.
discoverInternalSrcIdentity(c) ==
  LET p == ResolveIPToPod(c.srcIP)
      mismatch == (c.srcHostname # Nil \/ isRunningOnAws) /\ p # c.srcHostname
  IN IF ResolveIPToControlPlane(c.srcIP)
       THEN IF IsIpHostNetworkIp(c.srcIP) THEN Nil ELSE APIServer
     ELSE IF p = Nil \/ mismatch \/ Created(p) > c.lastSeen THEN Nil
     ELSE WorkloadOf[p]

\* Traffic levels have no time; addresses mean what they mean now.
resolveIPToIdentity(ip) ==
  IF IsPodIp(ip)
    THEN {IF ResolveIPToPod(ip) = Nil THEN Nil ELSE WorkloadOf[ResolveIPToPod(ip)]}
  ELSE IF ResolveIPToService(ip) = Nil THEN {Nil}
  ELSE ResolveOtterizeIdentityForService(ResolveIPToService(ip), clock)

Clients(c) ==
  LET p == ResolveIPToPod(c.srcIP)
  IN CASE c.kind \in {"dns", "tcp", "socket"} -> {discoverInternalSrcIdentity(c)}
       [] c.kind = "kafka" -> {IF p = Nil \/ Created(p) > c.lastSeen THEN Nil ELSE WorkloadOf[p]}
       [] c.kind = "operation" -> {IF p = Nil THEN Nil ELSE WorkloadOf[p]}
       [] c.kind = "traffic" -> resolveIPToIdentity(c.srcIP)
       [] OTHER -> \* Istio reports the workload itself
            {IF ResolveIstioWorkloadToPod(c.sender) = {} THEN Nil ELSE c.sender}

Incoming(c) == c.kind = "tcp" /\ ~IsSrcIpClusterInternal(c.srcIP)

FindClient ==
  /\ stage = "sent" /\ ~Incoming(capture)
  /\ client' \in Clients(capture)
  /\ stage' = IF client' = Nil THEN "done" ELSE "client found"
  /\ UNCHANGED <<clusterVars, isRunningOnAws, capture, recorded>>

-----------------------------------------------------------------------------
(* The server; Nil if it does not resolve.                                 *)

\* Trusts any pod that was there when the traffic flowed.
TrustedAtAnyAge(p, lastSeen) == p # Nil /\ Created(p) <= lastSeen

\* A pod younger than that may have got its address after the traffic.
Trusted(p, lastSeen) == p # Nil /\ Created(p) + TrustAge <= lastSeen

ByPodOfAnyAge(ip, lastSeen) ==
  LET p == ResolveIPToPod(ip) IN IF TrustedAtAnyAge(p, lastSeen) THEN WorkloadOf[p] ELSE Nil
ByPod(ip, lastSeen) ==
  LET p == ResolveIPToPod(ip) IN IF Trusted(p, lastSeen) THEN WorkloadOf[p] ELSE Nil
ByService(ip, lastSeen) ==
  IF ResolveIPToService(ip) = Nil THEN {Nil}
  ELSE ResolveOtterizeIdentityForService(ResolveIPToService(ip), lastSeen)

resolveDestIdentityTCP(ip, lastSeen) ==
  {IF id # Nil THEN id ELSE ByPod(ip, lastSeen) : id \in ByService(ip, lastSeen)}

\* First by the destination, which finds nothing if that is a name; then by its IP.
handleInternalTrafficTCPResult(c) ==
  LET byIP == resolveDestIdentityTCP(c.destIP, c.lastSeen)
      byDestination == IF c.type = "ip" THEN byIP ELSE {Nil}
  IN {IF first # Nil THEN first ELSE second : first \in byDestination, second \in byIP}

handleSocketScanDestination(c) ==
  IF ResolveIPToService(c.destIP) # Nil THEN ByService(c.destIP, c.lastSeen)
  ELSE {ByPod(c.destIP, c.lastSeen)}

\* ResolveServiceAddressToPods, and which of the pods are taken.  For the name of a
\* pod the age is added to the time of the capture.
DNSPods(c) ==
  IF c.type = "service name"
    THEN {p \in ResolveServiceToPods(c.dest) \ HostPods : c.lastSeen > Created(p)}
    ELSE {p \in {ResolveIPToPod(c.destIP)} \ {Nil} : c.lastSeen + TrustAge > Created(p)}

resolveOtterizeIdentityForDestinationAddress(c) ==
  IF c.type = "service name" /\ ServiceIsAPIServer(c.dest) THEN {APIServer}
  ELSE IF DNSPods(c) = {} THEN {Nil}
  ELSE {WorkloadOf[p] : p \in DNSPods(c)}

Servers(c) ==
  CASE c.kind = "tcp" -> handleInternalTrafficTCPResult(c)
    [] c.kind = "socket" -> handleSocketScanDestination(c)
    [] c.kind = "dns" /\ c.type # "outside name" -> resolveOtterizeIdentityForDestinationAddress(c)
    [] c.kind = "kafka" -> {IF ResolvePodByName(c.dest) = Nil THEN Nil ELSE WorkloadOf[c.dest]}
    [] c.kind = "traffic" -> resolveIPToIdentity(c.destIP)
    [] c.kind = "istio" -> {IF ResolveIstioWorkloadToPod(c.receiver) = {} THEN Nil ELSE c.receiver}
    [] OTHER -> {Outside}

HolderFor(c) ==
  CASE c.kind = "operation" -> "operations"
    [] c.kind = "traffic" -> "traffic levels"
    [] c.type = "outside name" -> "external traffic"
    [] OTHER -> "intents"

\* Records a server that did not resolve.
FindServerUnchecked ==
  /\ stage = "client found"
  /\ \E server \in Servers(capture) :
       recorded' = Entry(HolderFor(capture), client, server)
  /\ stage' = "done"
  /\ UNCHANGED <<clusterVars, isRunningOnAws, capture, client>>

FindServer ==
  /\ stage = "client found"
  /\ \E server \in Servers(capture) :
       recorded' = IF server = Nil THEN {} ELSE Entry(HolderFor(capture), client, server)
  /\ stage' = "done"
  /\ UNCHANGED <<clusterVars, isRunningOnAws, capture, client>>

\* A service with access from outside, or else the pod with the address, whose name
\* must be the one the sniffer had.
resolveOtterizeIdentityForExternalAccessDestination(c) ==
  LET s == ResolveIPToExternalAccessService(c.destIP)
      p == ResolveIPToPod(c.destIP)
  IN IF s # Nil THEN ResolveOtterizeIdentityForService(s, c.lastSeen)
     ELSE IF p = Nil \/ Created(p) > c.lastSeen THEN {Nil}
     ELSE IF c.type = "pod name" /\ c.dest # p THEN {Nil}
     ELSE {WorkloadOf[p]}

reportIncomingInternetTraffic ==
  /\ stage = "sent" /\ Incoming(capture)
  /\ \E server \in resolveOtterizeIdentityForExternalAccessDestination(capture) :
       recorded' = IF server = Nil THEN {} ELSE Entry("incoming traffic", Outside, server)
  /\ stage' = "done"
  /\ UNCHANGED <<clusterVars, isRunningOnAws, capture, client>>

-----------------------------------------------------------------------------
\* Captures are handled before they are old.
TimePasses ==
  /\ stage \in {"sent", "client found"} => clock < capture.lastSeen + Grace
  /\ Tick
  /\ UNCHANGED <<isRunningOnAws, stage, resolverVars>>

ClusterChanges == ClusterNext /\ UNCHANGED <<isRunningOnAws, stage, resolverVars>>

ResolverNext ==
  \/ ClusterChanges \/ TimePasses
  \/ Traffic \/ TrafficHandled
  \/ FindClient \/ FindServer \/ reportIncomingInternetTraffic

ResolverSpec == ResolverInit /\ [][ResolverNext]_allVars

-----------------------------------------------------------------------------
Holders == {"intents", "external traffic", "incoming traffic", "operations", "traffic levels"}

ResolverTypeOK ==
  /\ ClusterTypeOK
  /\ stage \in {"none", "sent", "client found", "done"}
  /\ capture.lastSeen \in 0 .. clock
  /\ capture # NoCapture =>
       capture.kind \in Kinds /\ capture.sender \in Identities \cup {Outside, InsideIP}
  /\ client \in Identities \cup {Nil}
  /\ \A e \in recorded :
       e.holder \in Holders /\ {e.client, e.server} \subseteq Identities \cup {Outside}

(* Addresses are used again, but a capture that came with a host name is   *)
(* never recorded under a workload that did not send it.                   *)
ClientsWereSenders ==
  \A e \in recorded :
    capture.srcHostname # Nil /\ e.client # Outside => e.client = capture.sender

InternalServer(e) == e.holder = "intents" /\ e.server # Outside

(* The server of a recorded intent is the workload the traffic went to,    *)
(* though its address may be another pod's by the time the capture is      *)
(* handled.  DNS names of pods are an exception: see PodNamesWereReceivers.*)
ServersWereReceivers ==
  \A e \in recorded :
    InternalServer(e) /\ capture.type # "pod DNS name" => e.server = capture.receiver

(* Nothing that a pod or the control plane sent is recorded as traffic     *)
(* from the internet, although the pod may be gone by then, unless so many *)
(* other addresses were seen in the meantime that the cache has dropped    *)
(* the sender's.  Other addresses of the cluster are the "Known issue" of  *)
(* IsSrcIpClusterInternal: they count as external.                         *)
IncomingIsExternal ==
  [][\A e \in recorded' \ recorded : e.holder = "incoming traffic" =>
       capture.sender \in {Outside, InsideIP} \/ capture.srcIP \in evicted]_allVars

(* "In this case the DNS was a "pod" DNS - which contains IP - and         *)
(* therefore less reliable": the pod must be older than for other names,   *)
(* so that it is the one the name stood for.                               *)
PodNamesWereReceivers ==
  \A e \in recorded :
    InternalServer(e) /\ capture.type = "pod DNS name" => e.server = capture.receiver
=============================================================================
