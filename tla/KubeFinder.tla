------------------------------ MODULE KubeFinder ------------------------------
(***************************************************************************)
(* The cluster as the mapper reads it, and the questions KubeFinder        *)
(* answers about it from the indexes of the informer's cache: which pod or *)
(* service an address belongs to.  Pods come and go and addresses are used *)
(* again, while captures are on their way to the mapper.                   *)
(*                                                                         *)
(* The cache is taken to be up to date and its reads not to fail; captures *)
(* are seconds old when they are handled.                                  *)
(***************************************************************************)
EXTENDS Naturals, FiniteSets

CONSTANTS
  Pods,            \* pods, each of which exists once: their names
  HostPods,        \* those that use the network of their node
  Services,
  Workloads,       \* identities that pods resolve to
  APIServer,       \* the identity of service kubernetes in namespace default
  WorkloadOf,      \* WorkloadOf[pod], by serviceIdResolver
  PodIPs,          \* addresses for pods
  NodeIP,          \* the address of the nodes' network
  ControlPlaneIP,  \* an address of the endpoints of kubernetes
  ClusterIP,       \* ClusterIP[service]
  Selector,        \* Selector[service]: the workload behind it, or the API server
  ExternalAccess,  \* services by address and port from outside: node ports, load balancers
  Nil,
  TrustAge,        \* TimeServerHasToLiveBeforeWeTrustItKey
  SeenIPsTTL,      \* seenIPsCacheTTL
  SeenIPsSize,     \* seenIPsCacheSize
  Grace,           \* how long pods take to end, and captures to be handled
  MaxTime          \* bound on the clock

Identities == Workloads \cup {APIServer}
Time == 0 .. MaxTime

ASSUME KubeFinderAssumption ==
  /\ IsFiniteSet(Pods) /\ HostPods \subseteq Pods
  /\ APIServer \notin Workloads
  /\ WorkloadOf \in [Pods -> Workloads] /\ Selector \in [Services -> Workloads \cup {APIServer}]
  /\ PodIPs \cap {NodeIP, ControlPlaneIP} = {}
  /\ \A s \in Services : ClusterIP[s] \notin PodIPs /\ \A t \in Services \ {s} : ClusterIP[t] # ClusterIP[s]
  /\ \A ip \in DOMAIN ExternalAccess : ExternalAccess[ip] \in Services
  /\ Nil \notin Nat /\ Nil \notin Identities \cup PodIPs \cup Pods \cup Services
  /\ TrustAge \in Nat \ {0} /\ MaxTime \in Nat
  /\ Grace \in Nat /\ SeenIPsTTL \in Nat /\ SeenIPsTTL >= 2 * Grace
  /\ SeenIPsSize \in Nat \ {0}

VARIABLES
  clock,
  pods,     \* of each pod: its phase, its address, and since when
  seenIPs,  \* seenIPsTTLCache: when an address was last added, or Nil
  newerIPs, \* and which others were added since
  evicted   \* history: the addresses that it dropped to make room, and not seen again

seenVars == <<seenIPs, newerIPs, evicted>>
clusterVars == <<clock, pods, seenVars>>

Phases == {"absent", "pending", "running", "deleting", "gone"}

\* Since its creation, or for a deleting pod since its deletion began.
Pod == [phase: Phases, ip: PodIPs \cup {NodeIP, ControlPlaneIP, Nil}, since: Time]

InPhase(phases) == {p \in Pods : pods[p].phase \in phases}
Exists == InPhase({"pending", "running", "deleting"})

\* The holder of an address keeps it until it is gone.
HolderOf(ip) == {p \in Exists : pods[p].ip = ip}

-----------------------------------------------------------------------------
(* The indexes, and what KubeFinder finds with them.                       *)

\* podIPIndexField.
ResolveIPToPod(ip) ==
  LET found == {p \in InPhase({"running"}) \ HostPods : pods[p].ip = ip}
  IN IF Cardinality(found) = 1 THEN CHOOSE p \in found : TRUE ELSE Nil

\* podIPIncludingHostNetworkIndexField.
IncludingHostNetwork(ip) == {p \in InPhase({"pending", "running"}) : pods[p].ip = ip}
IsPodIp(ip) == IncludingHostNetwork(ip) # {}
IsIpHostNetworkIp(ip) == IncludingHostNetwork(ip) \cap HostPods # {}

WasPodIP(ip) ==
  ip \in DOMAIN seenIPs /\ seenIPs[ip] # Nil /\ clock <= seenIPs[ip] + SeenIPsTTL

ResolvePodByName(p) == IF p \in Exists THEN p ELSE Nil

\* Services have cluster IPs of their own.
ResolveIPToService(ip) ==
  LET found == {s \in Services : ClusterIP[s] = ip}
  IN IF Cardinality(found) = 1 THEN CHOOSE s \in found : TRUE ELSE Nil

\* The pods of its endpoints, ready or not, in any order.
ResolveServiceToPods(s) ==
  {p \in InPhase({"pending", "running"}) : WorkloadOf[p] = Selector[s] /\ pods[p].ip # Nil}

ServiceIsAPIServer(s) == Selector[s] = APIServer

ResolveIPToExternalAccessService(ip) ==
  IF ip \in DOMAIN ExternalAccess THEN ExternalAccess[ip] ELSE Nil

IsNodeIP(ip) == ip \in {NodeIP, ControlPlaneIP}
ResolveIPToControlPlane(ip) == ip = ControlPlaneIP

ResolveIstioWorkloadToPod(w) == {p \in Exists : WorkloadOf[p] = w}

\* The identity of the pod that comes first, which may be too young.
ResolveOtterizeIdentityForService(s, lastSeen) ==
  IF ResolveServiceToPods(s) = {} THEN {IF ServiceIsAPIServer(s) THEN APIServer ELSE Nil}
  ELSE {IF pods[p].since > lastSeen THEN Nil ELSE WorkloadOf[p] : p \in ResolveServiceToPods(s)}

\* Asks only whether the address belongs to the cluster now.
IsSrcIpClusterInternalNow(ip) == IsNodeIP(ip) \/ IsPodIp(ip) \/ ResolveIPToControlPlane(ip)

IsSrcIpClusterInternal(ip) ==
  WasPodIP(ip) \/ IsNodeIP(ip) \/ IsPodIp(ip) \/ ResolveIPToControlPlane(ip)

-----------------------------------------------------------------------------
(* The cluster.                                                            *)

\* The informer computes the index of the old object and of the new one, so that
\* an address is added again when its pod is marked deleted.
\* The cache drops what was added least recently when it is full.  Entries expire in
\* the order of their addition, so that exactly the newer ones count.
NoRoomFor(a, ip) == seenIPs[a] # Nil /\ Cardinality(newerIPs[a] \cup {ip}) >= SeenIPsSize

Indexed(ip) ==
  LET dropped == {a \in DOMAIN seenIPs \ {ip} : NoRoomFor(a, ip)}
      kept == {a \in DOMAIN seenIPs \ {ip} : seenIPs[a] # Nil} \ dropped
  IN /\ seenIPs' = [a \in DOMAIN seenIPs |->
           IF a = ip THEN clock ELSE IF a \in dropped THEN Nil ELSE seenIPs[a]]
     /\ newerIPs' = [a \in DOMAIN seenIPs |-> IF a \in kept THEN newerIPs[a] \cup {ip} ELSE {}]
     /\ evicted' = (evicted \ {ip}) \cup dropped

PodCreated ==
  \E p \in InPhase({"absent"}) \ HostPods :
    /\ pods' = [pods EXCEPT ![p] = [phase |-> "pending", ip |-> Nil, since |-> clock]]
    /\ UNCHANGED <<clock, seenVars>>

\* It gets an address before it is old enough to be trusted.
PodRuns ==
  \E p \in InPhase({"pending"}) \ HostPods, ip \in PodIPs :
    /\ clock < pods[p].since + TrustAge
    /\ HolderOf(ip) = {}
    /\ pods' = [pods EXCEPT ![p] = [@ EXCEPT !.phase = "running", !.ip = ip]]
    /\ Indexed(ip)
    /\ UNCHANGED clock

\* Any update of a pod, and every resync, adds its address again.
PodUpdated ==
  \E p \in InPhase({"running"}) : Indexed(pods[p].ip) /\ UNCHANGED <<clock, pods>>

PodDeleted ==
  \E p \in InPhase({"running"}) :
    /\ pods' = [pods EXCEPT ![p] = [@ EXCEPT !.phase = "deleting", !.since = clock]]
    /\ Indexed(pods[p].ip)
    /\ UNCHANGED clock

PodGone ==
  \E p \in InPhase({"deleting"}) :
    /\ pods' = [pods EXCEPT ![p] = [phase |-> "gone", ip |-> Nil, since |-> 0]]
    /\ UNCHANGED <<clock, seenVars>>

Tick ==
  /\ clock < MaxTime
  /\ \A p \in InPhase({"deleting"}) : clock < pods[p].since + Grace
  /\ clock' = clock + 1
  /\ UNCHANGED <<pods, seenVars>>

ClusterNext == PodCreated \/ PodRuns \/ PodUpdated \/ PodDeleted \/ PodGone

\* Some pods are there already; the host network pods run beside the control plane.
ClusterInit ==
  /\ clock = 0
  /\ \E there \in SUBSET Pods, at \in PodIPs :
       /\ Cardinality(there \ HostPods) <= 1
       /\ pods = [p \in Pods |->
            IF p \notin there THEN [phase |-> "absent", ip |-> Nil, since |-> 0]
            ELSE [phase |-> "running", since |-> 0,
                  ip |-> IF p \in HostPods THEN ControlPlaneIP ELSE at]]
       /\ \E last \in {pods[p].ip : p \in there} \cup {Nil} :
            LET before == {pods[p].ip : p \in there} \ {last} IN
              /\ last = Nil => there = {}
              /\ evicted = IF SeenIPsSize = 1 THEN before ELSE {}
              /\ seenIPs = [ip \in PodIPs \cup {NodeIP, ControlPlaneIP} |->
                   IF ip \in (before \ evicted) \cup {last} THEN 0 ELSE Nil]
              /\ newerIPs = [ip \in DOMAIN seenIPs |->
                   IF ip \in before \ evicted THEN {last} ELSE {}]

ClusterTypeOK ==
  /\ clock \in Time
  /\ pods \in [Pods -> Pod]
  /\ seenIPs \in [PodIPs \cup {NodeIP, ControlPlaneIP} -> Time \cup {Nil}]
  /\ newerIPs \in [DOMAIN seenIPs -> SUBSET DOMAIN seenIPs]
  /\ evicted \subseteq {ip \in DOMAIN seenIPs : seenIPs[ip] = Nil}
=============================================================================
