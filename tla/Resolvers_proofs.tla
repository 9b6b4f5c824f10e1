---------------------------- MODULE Resolvers_proofs ----------------------------
(***************************************************************************)
(* Proofs about Resolvers: whatever a capture meets on its way to the      *)
(* mapper, it is recorded under the client that sent it, with the server   *)
(* it went to, and as internet traffic only if it came from outside.       *)
(*                                                                         *)
(* The arguments are about time.  A pod that is trusted has had its        *)
(* address since before the capture, when somebody else had it if it is    *)
(* not the right one.  An address that a pod had when it sent is a pod's   *)
(* still, or has been seen no longer ago than its end and the handling of  *)
(* the capture may take.                                                   *)
(***************************************************************************)
EXTENDS Resolvers, FiniteSetTheorems, TLAPS

-----------------------------------------------------------------------------
(* The invariant of the cluster.                                           *)

\* Running and deleting pods have addresses, no two pods the same.
OwnAddresses ==
  /\ \A p \in Pods \ HostPods :
       pods[p].ip \in IF p \in Sending THEN PodIPs ELSE {Nil}
  /\ \A p \in HostPods : pods[p].ip \in {ControlPlaneIP, Nil}
  /\ \A p \in Sending \cap HostPods : pods[p].ip = ControlPlaneIP
  /\ \A p, q \in Sending \ HostPods : pods[p].ip = pods[q].ip => p = q

\* The cache has the address as of that time or later, or had no room for it.
SeenSince(ip, time) == ip \in evicted \/ (seenIPs[ip] # Nil /\ time <= seenIPs[ip])

\* The address of a pod that ends was seen when that began, a moment ago.
SeenWhenDeleted ==
  \A p \in InPhase({"deleting"}) :
    /\ pods[p].since <= clock /\ clock <= pods[p].since + Grace
    /\ SeenSince(pods[p].ip, pods[p].since)

ClusterInv == ClusterTypeOK /\ OwnAddresses /\ SeenWhenDeleted

-----------------------------------------------------------------------------
(* The invariant of a capture.                                             *)

\* The sender of a capture, and what the sniffer knew of it.
SenderInv ==
  /\ capture.kind \in Kinds
  /\ capture.lastSeen \in 0 .. clock
  /\ capture.sender \in Identities \cup {Outside, InsideIP}
  /\ capture.srcIP \in PodIPs \cup {ControlPlaneIP, Outside, InsideIP}
  /\ capture.srcIP \in {Outside, InsideIP} =>
       capture.kind = "tcp" /\ capture.sender = capture.srcIP
  /\ capture.srcHostname # Nil =>
       /\ capture.srcHostname \in Pods /\ capture.srcIP \in PodIPs
       /\ capture.sender = WorkloadOf[capture.srcHostname]
       /\ capture.kind \in {"dns", "tcp", "socket"}

\* Where it went, if a pod sent it or the control plane.
ReceiverInv ==
  capture.srcIP # Outside =>
    CASE capture.kind \in {"tcp", "socket", "traffic"} ->
           /\ capture.type \in {"ip", "pod name"}
           /\ \/ capture.destIP \in PodIPs
              \/ \E s \in Services : capture.destIP = ClusterIP[s] /\ capture.receiver = Selector[s]
      [] capture.kind = "dns" ->
           \/ capture.type = "service name" /\ capture.dest \in Services
              /\ capture.receiver = Selector[capture.dest]
           \/ capture.type \in {"pod DNS name", "outside name"}
      [] capture.kind = "kafka" ->
           capture.dest \in Pods /\ capture.receiver = WorkloadOf[capture.dest]
      [] capture.kind = "istio" -> capture.receiver \in Identities
      [] OTHER -> TRUE

\* Less than Grace has passed since, or the cache had no room for it.
SeenLately(ip, time) ==
  ip \in evicted \/ (seenIPs[ip] # Nil /\ time <= seenIPs[ip] + Grace)

\* The source address is the cluster's, or was not so long ago.
SourceKnown ==
  \/ IsPodIp(capture.srcIP) \/ ResolveIPToControlPlane(capture.srcIP)
  \/ capture.srcIP = InsideIP
  \/ capture.srcIP \in PodIPs /\ SeenLately(capture.srcIP, capture.lastSeen)

\* A pod that is older than the capture by the age that makes it trusted, and that has
\* the destination's address, is of the workload the capture went to.
TrustedPodsReceived ==
  \A p \in InPhase({"running"}) \ HostPods :
    pods[p].ip = capture.destIP /\ Trusted(p, capture.lastSeen)
      => WorkloadOf[p] = capture.receiver

\* While a capture is handled.
OnItsWay ==
  /\ clock <= capture.lastSeen + Grace
  /\ capture.srcIP # Outside => TrustedPodsReceived \/ capture.kind \notin {"tcp", "socket"}
  /\ stage = "sent" /\ capture.srcIP # Outside => SourceKnown
  /\ stage = "client found" =>
       /\ client \in Identities /\ capture.srcIP # Outside
       /\ capture.srcHostname # Nil => client = capture.sender

EntriesOK ==
  /\ \A e \in recorded :
       e.holder \in Holders /\ {e.client, e.server} \subseteq Identities \cup {Outside}
  /\ ClientsWereSenders /\ ServersWereReceivers

ResolverInv ==
  /\ ClusterInv
  /\ stage \in {"none", "sent", "client found", "done"} /\ client \in Identities \cup {Nil}
  /\ stage = "none" => capture = NoCapture
  /\ stage # "none" => SenderInv /\ ReceiverInv
  /\ stage \in {"sent", "client found"} => OnItsWay
  /\ stage # "done" => recorded = {}
  /\ EntriesOK
-----------------------------------------------------------------------------
(* The cluster.                                                            *)

LEMMA ClusterInitInv == ClusterInit => ClusterInv
<1> SUFFICES ASSUME ClusterInit
             PROVE  ClusterInv
  OBVIOUS
<1> DEFINE IPs == PodIPs \cup {NodeIP, ControlPlaneIP}
<1>1. PICK there \in SUBSET Pods, at \in PodIPs :
        /\ clock = 0
        /\ Cardinality(there \ HostPods) <= 1
        /\ pods = [p \in Pods |->
             IF p \notin there THEN [phase |-> "absent", ip |-> Nil, since |-> 0]
             ELSE [phase |-> "running", since |-> 0,
                   ip |-> IF p \in HostPods THEN ControlPlaneIP ELSE at]]
        /\ \E last \in {pods[p].ip : p \in there} \cup {Nil} :
             LET before == {pods[p].ip : p \in there} \ {last} IN
               /\ last = Nil => there = {}
               /\ evicted = IF SeenIPsSize = 1 THEN before ELSE {}
               /\ seenIPs = [ip \in IPs |-> IF ip \in (before \ evicted) \cup {last} THEN 0 ELSE Nil]
               /\ newerIPs = [ip \in DOMAIN seenIPs |->
                    IF ip \in before \ evicted THEN {last} ELSE {}]
  BY DEF ClusterInit
<1> DEFINE used == {pods[p].ip : p \in there}
<1>2. PICK last \in used \cup {Nil} :
        /\ last = Nil => there = {}
        /\ evicted = IF SeenIPsSize = 1 THEN used \ {last} ELSE {}
        /\ seenIPs = [ip \in IPs |->
             IF ip \in ((used \ {last}) \ evicted) \cup {last} THEN 0 ELSE Nil]
        /\ newerIPs = [ip \in DOMAIN seenIPs |->
             IF ip \in (used \ {last}) \ evicted THEN {last} ELSE {}]
  BY <1>1
<1>3. ClusterTypeOK
  <2>1. 0 \in Time
    BY KubeFinderAssumption DEF Time
  <2>2. used \subseteq IPs
    BY <1>1
  <2>3. used # {} => last \in IPs
    BY <1>2, <2>2
  <2>4. clock \in Time /\ pods \in [Pods -> Pod]
    BY <1>1, <2>1 DEF Pod, Phases
  <2> HIDE DEF used
  <2>5. seenIPs \in [IPs -> Time \cup {Nil}] /\ DOMAIN seenIPs = IPs
    BY <1>2, <2>1
  <2>6. newerIPs \in [IPs -> SUBSET IPs]
    BY <1>2, <2>3, <2>5
  <2>7. evicted \subseteq {ip \in IPs : seenIPs[ip] = Nil}
    BY <1>2, <2>2
  <2> QED  BY <2>4, <2>5, <2>6, <2>7 DEF ClusterTypeOK
<1>4. Sending = there
  BY <1>1 DEF Sending, InPhase
<1>5. \A p, q \in there \ HostPods : p = q
  <2> SUFFICES ASSUME NEW p \in there \ HostPods, NEW q \in there \ HostPods, p # q
               PROVE  FALSE
    OBVIOUS
  <2>1. IsFiniteSet(there \ HostPods)
    BY KubeFinderAssumption, FS_Subset
  <2>2. IsFiniteSet({p, q}) /\ Cardinality({p, q}) = 2
    <3>1. IsFiniteSet({p}) /\ Cardinality({p}) = 1
      BY FS_Singleton
    <3>2. {p} \cup {q} = {p, q} /\ q \notin {p}
      OBVIOUS
    <3>3. IsFiniteSet({p} \cup {q}) /\ Cardinality({p} \cup {q}) = 1 + 1
      BY <3>1, <3>2, FS_AddElement
    <3> QED  BY <3>2, <3>3
  <2>3. Cardinality({p, q}) <= Cardinality(there \ HostPods)
    <3>1. {p, q} \subseteq there \ HostPods
      OBVIOUS
    <3> QED  BY <2>1, <3>1, FS_Subset
  <2>4. Cardinality(there \ HostPods) \in Nat
    BY <2>1, FS_CardinalityType
  <2> QED  BY <1>1, <2>2, <2>3, <2>4
<1>6. OwnAddresses
  BY <1>1, <1>4, <1>5, KubeFinderAssumption DEF OwnAddresses
<1>7. SeenWhenDeleted
  BY <1>1 DEF SeenWhenDeleted, InPhase
<1> QED  BY <1>3, <1>6, <1>7 DEF ClusterInv

\* What an address that is added does to the cache.
LEMMA IndexedEffect ==
  ASSUME ClusterTypeOK, NEW ip \in DOMAIN seenIPs, Indexed(ip)
  PROVE  /\ DOMAIN seenIPs' = DOMAIN seenIPs
         /\ seenIPs' \in [DOMAIN seenIPs -> Time \cup {Nil}]
         /\ newerIPs' \in [DOMAIN seenIPs -> SUBSET DOMAIN seenIPs]
         /\ evicted' \subseteq {a \in DOMAIN seenIPs : seenIPs'[a] = Nil}
         /\ seenIPs'[ip] = clock
         /\ \A a \in DOMAIN seenIPs \ {ip} :
              a \in evicted' \/ (a \notin evicted /\ seenIPs'[a] = seenIPs[a])
<1> DEFINE dropped == {a \in DOMAIN seenIPs \ {ip} : NoRoomFor(a, ip)}
           kept == {a \in DOMAIN seenIPs \ {ip} : seenIPs[a] # Nil} \ dropped
<1>1. /\ seenIPs' = [a \in DOMAIN seenIPs |->
           IF a = ip THEN clock ELSE IF a \in dropped THEN Nil ELSE seenIPs[a]]
      /\ newerIPs' = [a \in DOMAIN seenIPs |-> IF a \in kept THEN newerIPs[a] \cup {ip} ELSE {}]
      /\ evicted' = (evicted \ {ip}) \cup dropped
  BY DEF Indexed
<1>2. dropped \subseteq DOMAIN seenIPs \ {ip} /\ kept \subseteq DOMAIN seenIPs
  OBVIOUS
<1> HIDE DEF dropped, kept
<1> QED  BY <1>1, <1>2 DEF ClusterTypeOK

\* Time goes on, or the address is added again.
LEMMA SeenSinceKept ==
  ASSUME ClusterTypeOK, NEW ip \in DOMAIN seenIPs, Indexed(ip),
         NEW a \in DOMAIN seenIPs, NEW time, time <= clock, SeenSince(a, time)
  PROVE  a \in evicted' \/ (seenIPs'[a] # Nil /\ time <= seenIPs'[a])
<1>1. clock # Nil
  BY KubeFinderAssumption DEF ClusterTypeOK, Time
<1> QED  BY <1>1, IndexedEffect DEF SeenSince

\* Nobody but the pod of an address that is in use has it.
LEMMA HoldersOfAddress ==
  ASSUME NEW ip, HolderOf(ip) = {}
  PROVE  \A p \in Sending : pods[p].ip # ip
BY DEF HolderOf, Exists, Sending, InPhase

\* Who sends has an address that the cache may have.
LEMMA AddressOfSender ==
  ASSUME ClusterInv, NEW p \in Sending
  PROVE  p \in Pods /\ pods[p].ip \in DOMAIN seenIPs
BY KubeFinderAssumption DEF ClusterInv, ClusterTypeOK, OwnAddresses, Sending, InPhase

LEMMA PodCreatedInv ==
  ASSUME ClusterInv, PodCreated
  PROVE  ClusterInv'
<1>1. PICK p \in InPhase({"absent"}) \ HostPods :
        /\ pods' = [pods EXCEPT ![p] = [phase |-> "pending", ip |-> Nil, since |-> clock]]
        /\ UNCHANGED <<clock, seenVars>>
  BY DEF PodCreated
<1>2. /\ p \in Pods /\ p \notin HostPods /\ pods[p].phase = "absent"
      /\ pods'[p] = [phase |-> "pending", ip |-> Nil, since |-> clock]
      /\ \A q \in Pods \ {p} : pods'[q] = pods[q]
  BY <1>1 DEF ClusterInv, ClusterTypeOK, InPhase
<1>3. Sending' = Sending /\ p \notin Sending /\ InPhase({"deleting"})' = InPhase({"deleting"})
  BY <1>2 DEF Sending, InPhase
<1>4. ClusterTypeOK'
  BY <1>1, <1>2 DEF ClusterInv, ClusterTypeOK, Pod, Phases, seenVars
<1>5. OwnAddresses'
  <2>1. Sending \subseteq Pods /\ HostPods \subseteq Pods
    BY KubeFinderAssumption DEF Sending, InPhase
  <2>2. pods'[p].ip = Nil
    BY <1>2
  <2> QED  BY <1>2, <1>3, <2>1, <2>2 DEF ClusterInv, OwnAddresses
<1>6. SeenWhenDeleted'
  BY <1>1, <1>2, <1>3 DEF ClusterInv, SeenWhenDeleted, SeenSince, InPhase, seenVars
<1> QED  BY <1>4, <1>5, <1>6 DEF ClusterInv

LEMMA PodRunsInv ==
  ASSUME ClusterInv, PodRuns
  PROVE  ClusterInv'
<1>1. PICK p \in InPhase({"pending"}) \ HostPods : \E ip \in PodIPs :
        /\ clock < pods[p].since + TrustAge
        /\ HolderOf(ip) = {}
        /\ pods' = [pods EXCEPT ![p] = [@ EXCEPT !.phase = "running", !.ip = ip]]
        /\ Indexed(ip)
        /\ UNCHANGED clock
  BY DEF PodRuns
<1>2. PICK ip \in PodIPs :
        /\ clock < pods[p].since + TrustAge
        /\ HolderOf(ip) = {}
        /\ pods' = [pods EXCEPT ![p] = [@ EXCEPT !.phase = "running", !.ip = ip]]
        /\ Indexed(ip)
        /\ UNCHANGED clock
  BY <1>1
<1>3. /\ p \in Pods /\ p \notin HostPods /\ pods[p].phase = "pending" /\ pods[p] \in Pod
      /\ pods'[p] = [pods[p] EXCEPT !.phase = "running", !.ip = ip]
      /\ \A q \in Pods \ {p} : pods'[q] = pods[q]
  BY <1>2 DEF ClusterInv, ClusterTypeOK, InPhase
<1>4. pods'[p].phase = "running" /\ pods'[p].ip = ip /\ pods'[p] \in Pod
  BY <1>3 DEF Pod, Phases
<1>5. Sending' = Sending \cup {p} /\ InPhase({"deleting"})' = InPhase({"deleting"})
  BY <1>3, <1>4 DEF Sending, InPhase
<1>6. Indexed(ip) /\ clock' = clock /\ ip \in DOMAIN seenIPs
  BY <1>2 DEF ClusterInv, ClusterTypeOK
<1>7. ClusterTypeOK'
  BY <1>2, <1>4, <1>6, IndexedEffect DEF ClusterInv, ClusterTypeOK
<1>8. OwnAddresses'
  <2>1. \A q \in Sending : pods[q].ip # ip
    BY <1>2, HoldersOfAddress
  <2>2. Sending \subseteq Pods /\ HostPods \subseteq Pods
    BY KubeFinderAssumption DEF Sending, InPhase
  <2>3. \A q, r \in Sending' \ HostPods : pods'[q].ip = pods'[r].ip => q = r
    <3>1. \A q \in Sending' \ {p} : q \in Sending /\ pods'[q] = pods[q] /\ pods[q].ip # ip
      BY <1>3, <1>5, <2>1, <2>2
    <3>2. \A q, r \in Sending \ HostPods : pods[q].ip = pods[r].ip => q = r
      BY DEF ClusterInv, OwnAddresses
    <3> QED  BY <1>4, <3>1, <3>2
  <2>4. \A q \in Pods \ HostPods : pods'[q].ip \in IF q \in Sending' THEN PodIPs ELSE {Nil}
    BY <1>3, <1>4, <1>5 DEF ClusterInv, OwnAddresses
  <2> QED  BY <1>3, <1>5, <2>2, <2>3, <2>4 DEF ClusterInv, OwnAddresses
<1>9. SeenWhenDeleted'
  <2> SUFFICES ASSUME NEW q \in InPhase({"deleting"})
               PROVE  /\ pods'[q].since <= clock /\ clock <= pods'[q].since + Grace
                      /\ \/ pods'[q].ip \in evicted'
                         \/ seenIPs'[pods'[q].ip] # Nil /\ pods'[q].since <= seenIPs'[pods'[q].ip]
    BY <1>5, <1>6 DEF SeenWhenDeleted, SeenSince
  <2>1. q \in Sending /\ q # p
    BY <1>3 DEF InPhase, Sending
  <2>2. pods'[q] = pods[q]
    BY <1>3, <2>1 DEF Sending, InPhase
  <2>3. pods[q].ip \in DOMAIN seenIPs
    BY <2>1, AddressOfSender
  <2>4. /\ pods[q].since <= clock /\ clock <= pods[q].since + Grace
        /\ SeenSince(pods[q].ip, pods[q].since)
    BY DEF ClusterInv, SeenWhenDeleted
  <2> QED  BY <1>6, <2>2, <2>3, <2>4, SeenSinceKept DEF ClusterInv
<1> QED  BY <1>7, <1>8, <1>9 DEF ClusterInv

LEMMA PodUpdatedInv ==
  ASSUME ClusterInv, PodUpdated
  PROVE  ClusterInv'
<1>1. PICK p \in InPhase({"running"}) : Indexed(pods[p].ip) /\ UNCHANGED <<clock, pods>>
  BY DEF PodUpdated
<1>2. Indexed(pods[p].ip) /\ pods[p].ip \in DOMAIN seenIPs
  <2>1. p \in Sending
    BY DEF Sending, InPhase
  <2> QED  BY <1>1, <2>1, AddressOfSender
<1>3. Sending' = Sending /\ InPhase({"deleting"})' = InPhase({"deleting"})
  BY <1>1 DEF Sending, InPhase
<1>4. ClusterTypeOK'
  BY <1>1, <1>2, IndexedEffect DEF ClusterInv, ClusterTypeOK
<1>5. OwnAddresses'
  BY <1>1, <1>3 DEF ClusterInv, OwnAddresses
<1>6. SeenWhenDeleted'
  <2> SUFFICES ASSUME NEW q \in InPhase({"deleting"})
               PROVE  /\ pods[q].since <= clock /\ clock <= pods[q].since + Grace
                      /\ \/ pods[q].ip \in evicted'
                         \/ seenIPs'[pods[q].ip] # Nil /\ pods[q].since <= seenIPs'[pods[q].ip]
    BY <1>1, <1>3 DEF SeenWhenDeleted, SeenSince
  <2>1. q \in Sending
    BY DEF Sending, InPhase
  <2>2. pods[q].ip \in DOMAIN seenIPs
    BY <2>1, AddressOfSender
  <2>3. /\ pods[q].since <= clock /\ clock <= pods[q].since + Grace
        /\ SeenSince(pods[q].ip, pods[q].since)
    BY DEF ClusterInv, SeenWhenDeleted
  <2> QED  BY <1>2, <2>2, <2>3, SeenSinceKept DEF ClusterInv
<1> QED  BY <1>4, <1>5, <1>6 DEF ClusterInv

LEMMA PodDeletedInv ==
  ASSUME ClusterInv, PodDeleted
  PROVE  ClusterInv'
<1>1. PICK p \in InPhase({"running"}) :
        /\ pods' = [pods EXCEPT ![p] = [@ EXCEPT !.phase = "deleting", !.since = clock]]
        /\ Indexed(pods[p].ip)
        /\ UNCHANGED clock
  BY DEF PodDeleted
<1>2. /\ p \in Pods /\ pods[p].phase = "running" /\ pods[p] \in Pod
      /\ pods'[p] = [pods[p] EXCEPT !.phase = "deleting", !.since = clock]
      /\ \A q \in Pods \ {p} : pods'[q] = pods[q]
  BY <1>1 DEF ClusterInv, ClusterTypeOK, InPhase
<1>3. clock \in Time /\ clock \in Nat
  BY KubeFinderAssumption DEF ClusterInv, ClusterTypeOK, Time
<1>4. /\ pods'[p].phase = "deleting" /\ pods'[p].ip = pods[p].ip /\ pods'[p].since = clock
      /\ pods'[p] \in Pod
  BY <1>2, <1>3 DEF Pod, Phases
<1>5. Sending' = Sending /\ InPhase({"deleting"})' = InPhase({"deleting"}) \cup {p}
  BY <1>2, <1>4 DEF Sending, InPhase
<1>6. Indexed(pods[p].ip) /\ clock' = clock /\ pods[p].ip \in DOMAIN seenIPs
  <2>1. p \in Sending
    BY <1>2 DEF Sending, InPhase
  <2> QED  BY <1>1, <2>1, AddressOfSender
<1>7. ClusterTypeOK'
  BY <1>1, <1>3, <1>4, <1>6, IndexedEffect DEF ClusterInv, ClusterTypeOK
<1>8. \A q \in Pods : pods'[q].ip = pods[q].ip
  BY <1>2, <1>4
<1>9. OwnAddresses'
  BY <1>5, <1>8, KubeFinderAssumption DEF ClusterInv, OwnAddresses, Sending, InPhase
<1>10. SeenWhenDeleted'
  <2> SUFFICES ASSUME NEW q \in InPhase({"deleting"})'
               PROVE  /\ pods'[q].since <= clock /\ clock <= pods'[q].since + Grace
                      /\ \/ pods[q].ip \in evicted'
                         \/ seenIPs'[pods[q].ip] # Nil /\ pods'[q].since <= seenIPs'[pods[q].ip]
    BY <1>6, <1>8 DEF SeenWhenDeleted, SeenSince, InPhase
  <2>1. q \in Pods /\ q \in Sending
    BY <1>5 DEF InPhase, Sending
  <2>2. pods[q].ip \in DOMAIN seenIPs
    BY <2>1, AddressOfSender
  <2>3. CASE q = p
    <3>1. seenIPs'[pods[q].ip] = clock /\ clock # Nil
      BY <1>3, <1>6, <2>3, IndexedEffect, KubeFinderAssumption DEF ClusterInv
    <3> QED  BY <1>3, <1>4, <2>3, <3>1, KubeFinderAssumption
  <2>4. CASE q # p
    <3>1. q \in InPhase({"deleting"}) /\ pods'[q] = pods[q]
      BY <1>2, <1>5, <2>1, <2>4
    <3>2. /\ pods[q].since <= clock /\ clock <= pods[q].since + Grace
          /\ SeenSince(pods[q].ip, pods[q].since)
      BY <3>1 DEF ClusterInv, SeenWhenDeleted
    <3> QED  BY <1>6, <2>2, <3>1, <3>2, SeenSinceKept DEF ClusterInv
  <2> QED  BY <2>3, <2>4
<1> QED  BY <1>7, <1>9, <1>10 DEF ClusterInv

LEMMA PodGoneInv ==
  ASSUME ClusterInv, PodGone
  PROVE  ClusterInv'
<1>1. PICK p \in InPhase({"deleting"}) :
        /\ pods' = [pods EXCEPT ![p] = [phase |-> "gone", ip |-> Nil, since |-> 0]]
        /\ UNCHANGED <<clock, seenVars>>
  BY DEF PodGone
<1>2. /\ p \in Pods
      /\ pods'[p] = [phase |-> "gone", ip |-> Nil, since |-> 0]
      /\ \A q \in Pods \ {p} : pods'[q] = pods[q]
  BY <1>1 DEF ClusterInv, ClusterTypeOK, InPhase
<1>3. /\ Sending' = Sending \ {p} /\ Sending \subseteq Pods /\ HostPods \subseteq Pods
      /\ InPhase({"deleting"})' = InPhase({"deleting"}) \ {p}
  BY <1>2, KubeFinderAssumption DEF Sending, InPhase
<1>4. ClusterTypeOK'
  BY <1>1, <1>2, KubeFinderAssumption DEF ClusterInv, ClusterTypeOK, Pod, Phases, Time, seenVars
<1>5. OwnAddresses'
  <2>1. pods'[p].ip = Nil
    BY <1>2
  <2> QED  BY <1>2, <1>3, <2>1 DEF ClusterInv, OwnAddresses
<1>6. SeenWhenDeleted'
  BY <1>1, <1>2, <1>3 DEF ClusterInv, SeenWhenDeleted, SeenSince, InPhase, seenVars
<1> QED  BY <1>4, <1>5, <1>6 DEF ClusterInv

LEMMA TickInv ==
  ASSUME ClusterInv, Tick
  PROVE  ClusterInv'
<1>1. /\ clock < MaxTime /\ clock' = clock + 1 /\ pods' = pods /\ UNCHANGED seenVars
      /\ \A p \in InPhase({"deleting"}) : clock < pods[p].since + Grace
  BY DEF Tick
<1>2. clock \in Nat /\ \A p \in Pods : pods[p].since \in Nat
  BY KubeFinderAssumption DEF ClusterInv, ClusterTypeOK, Time, Pod
<1>3. ClusterTypeOK'
  BY <1>1, <1>2, KubeFinderAssumption DEF ClusterInv, ClusterTypeOK, Time, seenVars
<1>4. OwnAddresses'
  BY <1>1 DEF ClusterInv, OwnAddresses, Sending, InPhase
<1>5. SeenWhenDeleted'
  BY <1>1, <1>2, KubeFinderAssumption
     DEF ClusterInv, SeenWhenDeleted, SeenSince, InPhase, seenVars
<1> QED  BY <1>3, <1>4, <1>5 DEF ClusterInv

LEMMA ClusterStep ==
  ASSUME ClusterInv, ClusterNext \/ Tick \/ UNCHANGED clusterVars
  PROVE  ClusterInv'
<1>1. CASE UNCHANGED clusterVars
  BY <1>1 DEF clusterVars, seenVars, ClusterInv, ClusterTypeOK, OwnAddresses, SeenWhenDeleted,
              SeenSince, Sending, InPhase
<1> QED  BY <1>1, PodCreatedInv, PodRunsInv, PodUpdatedInv, PodDeletedInv, PodGoneInv, TickInv DEF ClusterNext

\* What a step of the cluster does to the pods that run and to the addresses seen.
LEMMA StepEffect ==
  ASSUME ClusterInv, ClusterNext \/ Tick \/ UNCHANGED clusterVars
  PROVE  /\ clock' \in Nat /\ clock <= clock'
         /\ \A p \in Pods : pods'[p].phase = "running" =>
              \/ pods[p].phase = "running" /\ pods'[p] = pods[p]
              \/ clock < pods'[p].since + TrustAge
         /\ \A ip \in PodIPs :
              /\ IsPodIp(ip) => IsPodIp(ip)' \/ seenIPs'[ip] = clock
              /\ \/ ip \in evicted' \/ seenIPs'[ip] = clock
                 \/ ip \notin evicted /\ seenIPs'[ip] = seenIPs[ip]
<1>1. clock \in Nat /\ DOMAIN seenIPs = PodIPs \cup {NodeIP, ControlPlaneIP} /\ ClusterTypeOK
  BY DEF ClusterInv, ClusterTypeOK, Time
<1>2. CASE PodCreated
  <2>1. PICK p \in InPhase({"absent"}) \ HostPods :
          /\ pods' = [pods EXCEPT ![p] = [phase |-> "pending", ip |-> Nil, since |-> clock]]
          /\ UNCHANGED <<clock, seenVars>>
    BY <1>2 DEF PodCreated
  <2>2. /\ p \in Pods /\ pods[p].phase = "absent" /\ pods'[p].phase = "pending"
        /\ \A q \in Pods \ {p} : pods'[q] = pods[q]
    BY <2>1 DEF ClusterInv, ClusterTypeOK, InPhase
  <2>3. \A ip \in PodIPs : IsPodIp(ip) => IsPodIp(ip)'
    BY <2>2 DEF IsPodIp, IncludingHostNetwork, InPhase
  <2> QED  BY <1>1, <2>1, <2>2, <2>3 DEF seenVars
<1>3. CASE PodRuns
  <2>1. PICK p \in InPhase({"pending"}) \ HostPods : \E ip \in PodIPs :
          /\ clock < pods[p].since + TrustAge
          /\ pods' = [pods EXCEPT ![p] = [@ EXCEPT !.phase = "running", !.ip = ip]]
          /\ Indexed(ip)
          /\ UNCHANGED clock
    BY <1>3 DEF PodRuns
  <2>2. PICK ip \in PodIPs :
          /\ clock < pods[p].since + TrustAge
          /\ pods' = [pods EXCEPT ![p] = [@ EXCEPT !.phase = "running", !.ip = ip]]
          /\ Indexed(ip)
          /\ UNCHANGED clock
    BY <2>1
  <2>3. /\ p \in Pods /\ p \notin HostPods /\ pods[p].phase = "pending" /\ pods[p] \in Pod
        /\ pods'[p] = [pods[p] EXCEPT !.phase = "running", !.ip = ip]
        /\ \A q \in Pods \ {p} : pods'[q] = pods[q]
    BY <2>2 DEF ClusterInv, ClusterTypeOK, InPhase
  <2>4. pods'[p].phase = "running" /\ pods'[p].ip = ip /\ pods'[p].since = pods[p].since
    BY <2>3 DEF Pod
  <2>5. pods[p].ip = Nil
    BY <2>3 DEF ClusterInv, OwnAddresses, Sending, InPhase
  <2>6. \A i \in PodIPs : IsPodIp(i) => IsPodIp(i)'
    BY <2>3, <2>4, <2>5, KubeFinderAssumption DEF IsPodIp, IncludingHostNetwork, InPhase
  <2>7. \A i \in PodIPs : \/ i \in evicted' \/ seenIPs'[i] = clock
                          \/ i \notin evicted /\ seenIPs'[i] = seenIPs[i]
    BY <1>1, <2>2, IndexedEffect
  <2> QED  BY <1>1, <2>2, <2>3, <2>4, <2>6, <2>7
<1>4. CASE PodDeleted
  <2>1. PICK p \in InPhase({"running"}) :
          /\ pods' = [pods EXCEPT ![p] = [@ EXCEPT !.phase = "deleting", !.since = clock]]
          /\ Indexed(pods[p].ip)
          /\ UNCHANGED clock
    BY <1>4 DEF PodDeleted
  <2>2. /\ p \in Pods /\ pods[p].phase = "running" /\ pods[p] \in Pod
        /\ pods'[p] = [pods[p] EXCEPT !.phase = "deleting", !.since = clock]
        /\ \A q \in Pods \ {p} : pods'[q] = pods[q]
    BY <2>1 DEF ClusterInv, ClusterTypeOK, InPhase
  <2>3. pods'[p].phase = "deleting"
    BY <2>2 DEF Pod
  <2>4. /\ seenIPs'[pods[p].ip] = clock
        /\ \A ip \in PodIPs \ {pods[p].ip} :
             ip \in evicted' \/ (ip \notin evicted /\ seenIPs'[ip] = seenIPs[ip])
    <3>1. p \in Sending
      BY <2>2 DEF Sending, InPhase
    <3>2. pods[p].ip \in DOMAIN seenIPs
      BY <3>1, AddressOfSender
    <3> QED  BY <1>1, <2>1, <3>2, IndexedEffect
  <2>5. \A ip \in PodIPs : ip # pods[p].ip /\ IsPodIp(ip) => IsPodIp(ip)'
    BY <2>2 DEF IsPodIp, IncludingHostNetwork, InPhase
  <2> QED  BY <1>1, <2>1, <2>2, <2>3, <2>4, <2>5
<1>5. CASE PodGone
  <2>1. PICK p \in InPhase({"deleting"}) :
          /\ pods' = [pods EXCEPT ![p] = [phase |-> "gone", ip |-> Nil, since |-> 0]]
          /\ UNCHANGED <<clock, seenVars>>
    BY <1>5 DEF PodGone
  <2>2. /\ p \in Pods /\ pods[p].phase = "deleting" /\ pods'[p].phase = "gone"
        /\ \A q \in Pods \ {p} : pods'[q] = pods[q]
    BY <2>1 DEF ClusterInv, ClusterTypeOK, InPhase
  <2>3. \A ip \in PodIPs : IsPodIp(ip) => IsPodIp(ip)'
    BY <2>2 DEF IsPodIp, IncludingHostNetwork, InPhase
  <2> QED  BY <1>1, <2>1, <2>2, <2>3 DEF seenVars
<1>6. CASE Tick \/ UNCHANGED clusterVars
  <2>1. clock' \in {clock, clock + 1} /\ pods' = pods /\ seenIPs' = seenIPs /\ evicted' = evicted
    BY <1>6 DEF Tick, clusterVars, seenVars
  <2> QED  BY <1>1, <2>1 DEF IsPodIp, IncludingHostNetwork, InPhase
<1>7. CASE PodUpdated
  <2>1. PICK p \in InPhase({"running"}) : Indexed(pods[p].ip) /\ clock' = clock /\ pods' = pods
    BY <1>7 DEF PodUpdated
  <2>2. pods[p].ip \in DOMAIN seenIPs
    <3>1. p \in Sending
      BY DEF Sending, InPhase
    <3> QED  BY <3>1, AddressOfSender
  <2>3. \A ip \in PodIPs : \/ ip \in evicted' \/ seenIPs'[ip] = clock
                           \/ ip \notin evicted /\ seenIPs'[ip] = seenIPs[ip]
    BY <1>1, <2>1, <2>2, IndexedEffect
  <2> QED  BY <1>1, <2>1, <2>3 DEF IsPodIp, IncludingHostNetwork, InPhase
<1> QED  BY <1>2, <1>3, <1>4, <1>5, <1>6, <1>7 DEF ClusterNext

\* A pod that is found by its address runs and has it.
LEMMA PodOfAddress ==
  ASSUME NEW ip, ResolveIPToPod(ip) # Nil
  PROVE  /\ ResolveIPToPod(ip) \in InPhase({"running"}) \ HostPods
         /\ pods[ResolveIPToPod(ip)].ip = ip
<1> DEFINE found == {p \in InPhase({"running"}) \ HostPods : pods[p].ip = ip}
<1>1. Cardinality(found) = 1 /\ ResolveIPToPod(ip) = CHOOSE p \in found : TRUE
  BY DEF ResolveIPToPod
<1>2. found # {}
  <2> HIDE DEF found
  <2> QED  BY <1>1, FS_EmptySet
<1> QED  BY <1>1, <1>2

\* A cluster IP is that of its service, and a pod's address is none.
LEMMA ServiceOfAddress ==
  /\ \A s \in Services : ResolveIPToService(ClusterIP[s]) = s
  /\ \A ip \in PodIPs : ResolveIPToService(ip) = Nil
  /\ \A ip : ResolveIPToService(ip) \in Services \cup {Nil}
<1>1. ASSUME NEW s \in Services
      PROVE  ResolveIPToService(ClusterIP[s]) = s
  <2>1. {t \in Services : ClusterIP[t] = ClusterIP[s]} = {s}
    BY KubeFinderAssumption
  <2>2. Cardinality({s}) = 1
    BY FS_Singleton
  <2> QED  BY <2>1, <2>2 DEF ResolveIPToService
<1>2. ASSUME NEW ip \in PodIPs
      PROVE  ResolveIPToService(ip) = Nil
  <2>1. {t \in Services : ClusterIP[t] = ip} = {}
    BY KubeFinderAssumption
  <2>2. Cardinality({}) # 1
    BY FS_EmptySet
  <2> QED  BY <2>1, <2>2 DEF ResolveIPToService
<1>3. ASSUME NEW ip
      PROVE  ResolveIPToService(ip) \in Services \cup {Nil}
  <2> DEFINE found == {s \in Services : ClusterIP[s] = ip}
  <2>1. found # {} \/ Cardinality(found) # 1
    <3> HIDE DEF found
    <3> QED  BY FS_EmptySet
  <2> QED  BY <2>1 DEF ResolveIPToService
<1> QED  BY <1>1, <1>2, <1>3

\* Nobody in the cluster has the address of the outside.
LEMMA OutsideIsExternal ==
  ASSUME ClusterInv
  PROVE  ~IsSrcIpClusterInternal(Outside)
<1>1. ~WasPodIP(Outside)
  BY ResolversAssumption DEF WasPodIP, ClusterInv, ClusterTypeOK
<1>2. ~IsPodIp(Outside)
  BY ResolversAssumption DEF IsPodIp, IncludingHostNetwork, InPhase, ClusterInv, OwnAddresses
<1> QED  BY <1>1, <1>2, ResolversAssumption
         DEF IsSrcIpClusterInternal, IsNodeIP, ResolveIPToControlPlane

-----------------------------------------------------------------------------
(* The steps that a capture does not take part in.                         *)

\* A pod that comes to run is not old enough to be trusted with the capture.
LEMMA TrustedKept ==
  ASSUME ClusterInv, SenderInv, TrustedPodsReceived, capture' = capture,
         ClusterNext \/ Tick \/ UNCHANGED clusterVars
  PROVE  TrustedPodsReceived'
<1> SUFFICES ASSUME NEW p \in Pods \ HostPods, pods'[p].phase = "running",
                    pods'[p].ip = capture.destIP, Trusted(p, capture.lastSeen)'
             PROVE  WorkloadOf[p] = capture.receiver
  BY DEF TrustedPodsReceived, InPhase
<1>1. pods'[p].since + TrustAge <= capture.lastSeen
  BY DEF Trusted, Created
<1>2. capture.lastSeen \in Nat /\ clock \in Nat /\ capture.lastSeen <= clock
  BY DEF SenderInv, ClusterInv, ClusterTypeOK, Time
<1>3. pods'[p].since \in Nat
  <2>1. ClusterInv'
    BY ClusterStep
  <2> QED  BY <2>1 DEF ClusterInv, ClusterTypeOK, Pod, Time
<1>4. pods[p].phase = "running" /\ pods'[p] = pods[p]
  <2>1. (pods[p].phase = "running" /\ pods'[p] = pods[p]) \/ clock < pods'[p].since + TrustAge
    BY StepEffect
  <2> QED  BY <1>1, <1>2, <1>3, <2>1, KubeFinderAssumption
<1>5. Trusted(p, capture.lastSeen)
  BY <1>1, <1>4, KubeFinderAssumption DEF Trusted, Created
<1> QED  BY <1>4, <1>5 DEF TrustedPodsReceived, InPhase

\* An address stays a pod's until it is seen once more.
LEMMA SourceKept ==
  ASSUME ClusterInv, SenderInv, SourceKnown, capture.srcIP # Outside, capture' = capture,
         ClusterNext \/ Tick \/ UNCHANGED clusterVars
  PROVE  SourceKnown'
<1>1. CASE capture.srcIP \in {ControlPlaneIP, InsideIP}
  BY <1>1 DEF SourceKnown, ResolveIPToControlPlane
<1>2. CASE capture.srcIP \in PodIPs
  <2>1. /\ IsPodIp(capture.srcIP) =>
             IsPodIp(capture.srcIP)' \/ seenIPs'[capture.srcIP] = clock
        /\ \/ capture.srcIP \in evicted' \/ seenIPs'[capture.srcIP] = clock
           \/ /\ capture.srcIP \notin evicted
              /\ seenIPs'[capture.srcIP] = seenIPs[capture.srcIP]
    <3> DEFINE ip == capture.srcIP
    <3>1. ip' = ip
      OBVIOUS
    <3>2. \A i \in PodIPs : IsPodIp(i) => IsPodIp(i)' \/ seenIPs'[i] = clock
      BY StepEffect
    <3>3. \A i : IsPodIp(i)' <=> {p \in InPhase({"pending", "running"})' : pods'[p].ip = i} # {}
      BY DEF IsPodIp, IncludingHostNetwork
    <3>4. IsPodIp(capture.srcIP)'
             <=> {p \in InPhase({"pending", "running"})' : pods'[p].ip = capture.srcIP} # {}
      BY <3>1 DEF IsPodIp, IncludingHostNetwork
    <3>5. \/ capture.srcIP \in evicted' \/ seenIPs'[capture.srcIP] = clock
          \/ /\ capture.srcIP \notin evicted
             /\ seenIPs'[capture.srcIP] = seenIPs[capture.srcIP]
      BY <1>2, StepEffect
    <3> QED  BY <1>2, <3>2, <3>3, <3>4, <3>5
  <2>2. ~ResolveIPToControlPlane(capture.srcIP) /\ capture.srcIP # InsideIP
    BY <1>2, KubeFinderAssumption, ResolversAssumption DEF ResolveIPToControlPlane
  <2>3. capture.lastSeen <= clock + Grace /\ clock # Nil
    BY KubeFinderAssumption DEF SenderInv, ClusterInv, ClusterTypeOK, Time
  <2> QED  BY <1>2, <2>1, <2>2, <2>3 DEF SourceKnown, SeenLately
<1> QED  BY <1>1, <1>2 DEF SenderInv

LEMMA ClusterChangesInv ==
  ASSUME ResolverInv, ClusterChanges \/ TimePasses \/ UNCHANGED allVars
  PROVE  ResolverInv'
<1>1. /\ ClusterNext \/ Tick \/ UNCHANGED clusterVars
      /\ isRunningOnAws' = isRunningOnAws /\ stage' = stage
      /\ capture' = capture /\ client' = client /\ recorded' = recorded
      /\ stage \in {"sent", "client found"} =>
           (clock < capture.lastSeen + Grace /\ clock' = clock + 1) \/ clock' = clock
  BY DEF ClusterChanges, TimePasses, allVars, resolverVars, ClusterNext, Tick, clusterVars,
         PodCreated, PodRuns, PodUpdated, PodDeleted, PodGone
<1>2. ClusterInv /\ ClusterInv'
  BY <1>1, ClusterStep DEF ResolverInv
<1>3. clock \in Nat /\ clock' \in Nat /\ clock <= clock'
  <2>1. clock \in Nat
    BY <1>2 DEF ClusterInv, ClusterTypeOK, Time
  <2>2. clock' \in Nat /\ clock <= clock'
    BY <1>1, <1>2, StepEffect
  <2> QED  BY <2>1, <2>2
<1>4. stage # "none" => SenderInv' /\ ReceiverInv'
  <2>1. capture' = capture
    BY <1>1
  <2>2. SenderInv => SenderInv'
    BY <1>3, <2>1 DEF SenderInv
  <2>3. ReceiverInv => ReceiverInv'
    BY <2>1 DEF ReceiverInv
  <2> QED  BY <2>2, <2>3 DEF ResolverInv
<1>5. ASSUME stage \in {"sent", "client found"}
      PROVE  OnItsWay'
  <2>1. SenderInv /\ OnItsWay
    BY <1>5 DEF ResolverInv
  <2>2. clock' <= capture.lastSeen + Grace
    <3>1. capture.lastSeen \in Nat
      BY <1>3, <2>1 DEF SenderInv
    <3>2. clock <= capture.lastSeen + Grace
      BY <2>1 DEF OnItsWay
    <3>3. (clock < capture.lastSeen + Grace /\ clock' = clock + 1) \/ clock' = clock
      BY <1>1, <1>5
    <3> QED  BY <1>3, <3>1, <3>2, <3>3, KubeFinderAssumption
  <2>3. TrustedPodsReceived => TrustedPodsReceived'
    BY <1>1, <1>2, <2>1, TrustedKept
  <2>4. stage = "sent" /\ capture.srcIP # Outside => SourceKnown'
    BY <1>1, <1>2, <2>1, SourceKept DEF OnItsWay
  <2> QED  BY <1>1, <2>1, <2>2, <2>3, <2>4 DEF OnItsWay
<1>6. EntriesOK'
  BY <1>1 DEF ResolverInv, EntriesOK, ClientsWereSenders, ServersWereReceivers, InternalServer
<1> QED  BY <1>1, <1>2, <1>4, <1>5, <1>6 DEF ResolverInv

-----------------------------------------------------------------------------
(* Traffic.                                                                *)

\* Who sends, and what the sniffer knows of it.
LEMMA SendersOf ==
  ASSUME ClusterInv, NEW k \in Kinds, NEW s \in Senders(k)
  PROVE  /\ s.sender \in Identities \cup {Outside, InsideIP}
         /\ s.srcIP \in PodIPs \cup {ControlPlaneIP, Outside, InsideIP}
         /\ s.srcIP \in {Outside, InsideIP} => k = "tcp" /\ s.sender = s.srcIP
         /\ s.srcHostname # Nil =>
              /\ s.srcHostname \in Pods /\ s.srcIP \in PodIPs
              /\ s.sender = WorkloadOf[s.srcHostname] /\ k \in {"dns", "tcp", "socket"}
         /\ s.srcIP \in PodIPs => IsPodIp(s.srcIP) \/ SeenLately(s.srcIP, clock)
<1>1. ASSUME NEW p \in Sending
      PROVE  /\ PodSender(p).sender = WorkloadOf[p] /\ Unresolved(PodSender(p)).sender = WorkloadOf[p]
             /\ PodSender(p).srcIP = pods[p].ip /\ Unresolved(PodSender(p)).srcIP = pods[p].ip
             /\ PodSender(p).srcHostname = p /\ Unresolved(PodSender(p)).srcHostname = Nil
             /\ WorkloadOf[p] \in Identities /\ p \in Pods
  BY <1>1, KubeFinderAssumption DEF PodSender, Unresolved, Sending, InPhase, Identities
<1>2. \A p \in Sending \ HostPods : pods[p].ip \in PodIPs
  BY DEF ClusterInv, OwnAddresses, Sending, InPhase
<1>3. \A p \in Sending \cap HostPods : pods[p].ip = ControlPlaneIP
  BY DEF ClusterInv, OwnAddresses
<1>4. \/ \E p \in Sending \ HostPods : s = PodSender(p) /\ k \in {"dns", "tcp", "socket"}
      \/ \E p \in Sending \ HostPods : s = Unresolved(PodSender(p))
      \/ \E p \in Sending \cap HostPods : s = Unresolved(PodSender(p))
      \/ s = [srcIP |-> ControlPlaneIP, srcHostname |-> Nil, sender |-> APIServer]
      \/ s \in {InsideSender, OutsideSender} /\ k = "tcp"
  <2>1. CASE k = "socket"
    BY <2>1 DEF Senders, PodSenders
  <2>2. CASE k = "dns"
    BY <2>2 DEF Senders, PodSenders
  <2>3. CASE k = "tcp"
    BY <2>3 DEF Senders, PodSenders, OtherSenders
  <2>4. CASE k \notin {"socket", "dns", "tcp"}
    BY <2>4 DEF Senders, PodSenders
  <2> QED  BY <2>1, <2>2, <2>3, <2>4
<1>5. ASSUME NEW p \in Sending \ HostPods
      PROVE  IsPodIp(pods[p].ip) \/ SeenLately(pods[p].ip, clock)
  <2>1. CASE pods[p].phase = "running"
    BY <2>1 DEF IsPodIp, IncludingHostNetwork, InPhase, Sending
  <2>2. CASE pods[p].phase = "deleting"
    <3>1. /\ p \in InPhase({"deleting"}) /\ pods[p].since \in Nat /\ clock \in Nat
          /\ seenIPs[pods[p].ip] \in Nat \cup {Nil}
      BY <1>2, <2>2 DEF Sending, InPhase, ClusterInv, ClusterTypeOK, Pod, Time
    <3> QED  BY <3>1, KubeFinderAssumption DEF ClusterInv, SeenWhenDeleted, SeenSince, SeenLately
  <2> QED  BY <2>1, <2>2 DEF Sending, InPhase
<1>6. ASSUME NEW p \in Sending \ HostPods, s = PodSender(p) \/ s = Unresolved(PodSender(p))
      PROVE  IsPodIp(s.srcIP) \/ SeenLately(s.srcIP, clock)
  <2>1. s.srcIP = pods[p].ip
    BY <1>1, <1>6
  <2> QED  BY <1>5, <2>1
<1>7. CASE \E p \in Sending \ HostPods : s = PodSender(p) /\ k \in {"dns", "tcp", "socket"}
  BY <1>1, <1>2, <1>6, <1>7, ResolversAssumption
<1>8. CASE \E p \in Sending \ HostPods : s = Unresolved(PodSender(p))
  BY <1>1, <1>2, <1>6, <1>8, ResolversAssumption
<1>9. CASE \E p \in Sending \cap HostPods : s = Unresolved(PodSender(p))
  BY <1>1, <1>3, <1>9, ResolversAssumption, KubeFinderAssumption
<1>10. CASE s = [srcIP |-> ControlPlaneIP, srcHostname |-> Nil, sender |-> APIServer]
  BY <1>10, ResolversAssumption, KubeFinderAssumption DEF Identities
<1>11. CASE s \in {InsideSender, OutsideSender} /\ k = "tcp"
  BY <1>11, ResolversAssumption DEF InsideSender, OutsideSender
<1> QED  BY <1>4, <1>7, <1>8, <1>9, <1>10, <1>11

\* Pods and services as targets, by whatever name.
LEMMA PodTargets ==
  ASSUME ClusterInv, NEW type, NEW t \in ToPods(type)
  PROVE  /\ t.type = type /\ t.dest \in Pods /\ t.receiver = WorkloadOf[t.dest]
         /\ t.receiver \in Identities
         /\ t.destIP \in PodIPs
         /\ \A p \in InPhase({"running"}) \ HostPods :
              pods[p].ip = t.destIP => WorkloadOf[p] = t.receiver
<1>1. PICK q \in Sending \ HostPods : t = Target(type, q, pods[q].ip, WorkloadOf[q])
  BY DEF ToPods
<1>2. /\ t.type = type /\ t.dest = q /\ t.receiver = WorkloadOf[q] /\ t.destIP = pods[q].ip
      /\ q \in Pods
  BY <1>1 DEF Target, Sending, InPhase
<1>3. \A p \in InPhase({"running"}) \ HostPods : pods[p].ip = pods[q].ip => p = q
  BY DEF ClusterInv, OwnAddresses, Sending, InPhase
<1>4. pods[q].ip \in PodIPs
  BY <1>2 DEF ClusterInv, OwnAddresses
<1>5. WorkloadOf[q] \in Identities
  BY <1>2, KubeFinderAssumption DEF Identities
<1> QED  BY <1>2, <1>3, <1>4, <1>5

LEMMA ServiceTargets ==
  ASSUME ClusterInv, NEW type, NEW t \in ToServices(type)
  PROVE  /\ t.type = type /\ t.dest \in Services
         /\ t.destIP = ClusterIP[t.dest] /\ t.receiver = Selector[t.dest]
         /\ \A p \in InPhase({"running"}) \ HostPods : pods[p].ip # t.destIP
<1>1. PICK s \in Services : t = Target(type, s, ClusterIP[s], Selector[s])
  BY DEF ToServices
<1>2. t.type = type /\ t.dest = s /\ t.destIP = ClusterIP[s] /\ t.receiver = Selector[s]
  BY <1>1 DEF Target
<1>3. \A p \in InPhase({"running"}) \ HostPods : pods[p].ip \in PodIPs
  BY DEF ClusterInv, OwnAddresses, Sending, InPhase
<1> QED  BY <1>2, <1>3, KubeFinderAssumption

\* Traffic within the cluster: the destination is that of a pod or of a service.
LEMMA TargetsOf ==
  ASSUME ClusterInv, NEW k \in Kinds, NEW s, s.srcIP # Outside, NEW t \in Targets(k, s)
  PROVE  /\ k \in {"tcp", "socket", "traffic"} =>
              /\ t.type \in {"ip", "pod name"}
              /\ \/ t.destIP \in PodIPs
                 \/ \E svc \in Services : t.destIP = ClusterIP[svc] /\ t.receiver = Selector[svc]
              /\ \A p \in InPhase({"running"}) \ HostPods :
                   pods[p].ip = t.destIP => WorkloadOf[p] = t.receiver
         /\ k = "dns" =>
              \/ t.type = "service name" /\ t.dest \in Services /\ t.receiver = Selector[t.dest]
              \/ t.type \in {"pod DNS name", "outside name"}
         /\ k \in {"kafka", "istio"} =>
              t.dest \in Pods /\ t.receiver = WorkloadOf[t.dest] /\ t.receiver \in Identities
<1>1. CASE k \in {"tcp", "socket", "traffic"}
  <2>1. t \in ToPods("ip") \cup ToPods("pod name") \cup ToServices("ip")
    BY <1>1 DEF Targets
  <2>2. CASE t \in ToPods("ip") \cup ToPods("pod name")
    BY <1>1, <2>2, PodTargets
  <2>3. CASE t \in ToServices("ip")
    <3>1. /\ t.type = "ip" /\ t.dest \in Services
          /\ t.destIP = ClusterIP[t.dest] /\ t.receiver = Selector[t.dest]
          /\ \A p \in InPhase({"running"}) \ HostPods : pods[p].ip # t.destIP
      BY <2>3, ServiceTargets
    <3> QED  BY <1>1, <3>1
  <2> QED  BY <2>1, <2>2, <2>3
<1>2. CASE k = "dns"
  <2>1. t \in ToServices("service name") \cup ToPods("pod DNS name")
               \cup {Target("outside name", ExternalName, Nil, Outside)}
    BY <1>2 DEF Targets
  <2>2. Target("outside name", ExternalName, Nil, Outside).type = "outside name"
    BY DEF Target
  <2> QED  BY <1>2, <2>1, <2>2, PodTargets, ServiceTargets
<1>3. CASE k \in {"kafka", "istio"}
  <2>1. t \in ToPods("pod name")
    BY <1>3 DEF Targets
  <2> QED  BY <1>3, <2>1, PodTargets
<1> QED  BY <1>1, <1>2, <1>3

LEMMA TrafficInv ==
  ASSUME ResolverInv, Traffic
  PROVE  ResolverInv'
<1>1. PICK k \in Kinds : \E s \in Senders(k) : \E t \in Targets(k, s) :
        capture' = [kind |-> k, lastSeen |-> clock,
          srcIP |-> s.srcIP, srcHostname |-> s.srcHostname, sender |-> s.sender,
          dest |-> t.dest, type |-> t.type, destIP |-> t.destIP, receiver |-> t.receiver]
  BY DEF Traffic
<1>2. PICK s \in Senders(k) : \E t \in Targets(k, s) :
        capture' = [kind |-> k, lastSeen |-> clock,
          srcIP |-> s.srcIP, srcHostname |-> s.srcHostname, sender |-> s.sender,
          dest |-> t.dest, type |-> t.type, destIP |-> t.destIP, receiver |-> t.receiver]
  BY <1>1
<1>3. PICK t \in Targets(k, s) :
        capture' = [kind |-> k, lastSeen |-> clock,
          srcIP |-> s.srcIP, srcHostname |-> s.srcHostname, sender |-> s.sender,
          dest |-> t.dest, type |-> t.type, destIP |-> t.destIP, receiver |-> t.receiver]
  BY <1>2
<1>4. /\ capture'.kind = k /\ capture'.lastSeen = clock
      /\ capture'.srcIP = s.srcIP /\ capture'.srcHostname = s.srcHostname
      /\ capture'.sender = s.sender /\ capture'.dest = t.dest /\ capture'.type = t.type
      /\ capture'.destIP = t.destIP /\ capture'.receiver = t.receiver
  BY <1>3
<1>5. /\ clock' = clock /\ pods' = pods /\ UNCHANGED seenVars
      /\ stage = "none" /\ stage' = "sent" /\ client' = client /\ recorded' = recorded
  BY DEF Traffic, clusterVars
<1>6. ClusterInv /\ ClusterInv' /\ recorded = {} /\ clock \in Nat
  <2>1. UNCHANGED clusterVars
    BY <1>5 DEF clusterVars
  <2> QED  BY <1>5, <2>1, ClusterStep DEF ResolverInv, ClusterInv, ClusterTypeOK, Time
<1>7. SenderInv'
  BY <1>4, <1>5, <1>6, SendersOf DEF SenderInv
<1>8. ReceiverInv'
  <2> SUFFICES ASSUME s.srcIP # Outside
               PROVE  ReceiverInv'
    BY <1>4 DEF ReceiverInv
  <2>1. CASE k \in {"tcp", "socket", "traffic"}
    <3>1. /\ t.type \in {"ip", "pod name"}
          /\ \/ t.destIP \in PodIPs
             \/ \E svc \in Services : t.destIP = ClusterIP[svc] /\ t.receiver = Selector[svc]
      BY <1>6, <2>1, TargetsOf
    <3> QED  BY <1>4, <2>1, <3>1 DEF ReceiverInv
  <2>2. CASE k = "dns"
    <3>1. \/ t.type = "service name" /\ t.dest \in Services /\ t.receiver = Selector[t.dest]
          \/ t.type \in {"pod DNS name", "outside name"}
      BY <1>6, <2>2, TargetsOf
    <3> QED  BY <1>4, <2>2, <3>1 DEF ReceiverInv
  <2>3. CASE k \in {"kafka", "istio"}
    <3>1. t.dest \in Pods /\ t.receiver = WorkloadOf[t.dest] /\ t.receiver \in Identities
      BY <1>6, <2>3, TargetsOf
    <3> QED  BY <1>4, <2>3, <3>1 DEF ReceiverInv
  <2>4. CASE k = "operation"
    BY <1>4, <2>4 DEF ReceiverInv
  <2> QED  BY <2>1, <2>2, <2>3, <2>4 DEF Kinds
<1>9. OnItsWay'
  <2>1. clock <= clock + Grace
    BY <1>6, KubeFinderAssumption
  <2>2. s.srcIP # Outside => TrustedPodsReceived' \/ k \notin {"tcp", "socket"}
    <3>1. s.srcIP # Outside /\ k \in {"tcp", "socket"} =>
            \A p \in InPhase({"running"}) \ HostPods :
              pods[p].ip = t.destIP => WorkloadOf[p] = t.receiver
      BY <1>6, TargetsOf
    <3>2. InPhase({"running"})' = InPhase({"running"})
      BY <1>5 DEF InPhase
    <3> QED  BY <1>4, <1>5, <3>1, <3>2 DEF TrustedPodsReceived
  <2>3. s.srcIP # Outside => SourceKnown'
    <3>1. s.srcIP \in {ControlPlaneIP, InsideIP} => SourceKnown'
      BY <1>4 DEF SourceKnown, ResolveIPToControlPlane
    <3>2. s.srcIP \in PodIPs => SourceKnown'
      BY <1>4, <1>5, <1>6, SendersOf
         DEF SourceKnown, SeenLately, seenVars, IsPodIp, IncludingHostNetwork, InPhase
    <3> QED  BY <1>6, <3>1, <3>2, SendersOf
  <2> QED  BY <1>4, <1>5, <2>1, <2>2, <2>3 DEF OnItsWay
<1>10. EntriesOK'
  BY <1>5, <1>6 DEF EntriesOK, ClientsWereSenders, ServersWereReceivers
<1> QED  BY <1>5, <1>6, <1>7, <1>8, <1>9, <1>10 DEF ResolverInv

LEMMA TrafficHandledInv ==
  ASSUME ResolverInv, TrafficHandled
  PROVE  ResolverInv'
<1>1. /\ stage' = "none" /\ capture' = NoCapture /\ client' = Nil /\ recorded' = {}
      /\ UNCHANGED clusterVars
  BY DEF TrafficHandled, clusterVars
<1>2. ClusterInv'
  BY <1>1, ClusterStep DEF ResolverInv
<1>3. EntriesOK'
  BY <1>1 DEF EntriesOK, ClientsWereSenders, ServersWereReceivers
<1> QED  BY <1>1, <1>2, <1>3 DEF ResolverInv

-----------------------------------------------------------------------------
(* The client of a capture.                                                *)

\* A service's identity is its workload, the API server, or not known.
LEMMA IdentityOfService ==
  ASSUME NEW svc \in Services, NEW time, NEW id \in ResolveOtterizeIdentityForService(svc, time)
  PROVE  id \in {Nil, Selector[svc]} /\ id \in Identities \cup {Nil}
<1>1. Selector[svc] \in Identities
  BY KubeFinderAssumption DEF Identities
<1>2. CASE ResolveServiceToPods(svc) = {}
  BY <1>1, <1>2 DEF ResolveOtterizeIdentityForService, ServiceIsAPIServer
<1>3. CASE ResolveServiceToPods(svc) # {}
  <2>1. \A p \in ResolveServiceToPods(svc) : WorkloadOf[p] = Selector[svc]
    BY DEF ResolveServiceToPods
  <2> QED  BY <1>1, <1>3, <2>1 DEF ResolveOtterizeIdentityForService
<1> QED  BY <1>2, <1>3

LEMMA IdentityOfAddress ==
  ASSUME NEW ip, NEW id \in resolveIPToIdentity(ip)
  PROVE  id \in Identities \cup {Nil}
<1>1. CASE IsPodIp(ip)
  <2>1. ResolveIPToPod(ip) # Nil => WorkloadOf[ResolveIPToPod(ip)] \in Identities
    BY PodOfAddress, KubeFinderAssumption DEF InPhase, Identities
  <2> QED  BY <1>1, <2>1 DEF resolveIPToIdentity
<1>2. CASE ~IsPodIp(ip)
  BY <1>2, ServiceOfAddress, IdentityOfService DEF resolveIPToIdentity
<1> QED  BY <1>1, <1>2

\* With a host name the client is the pod of that name or nobody.
LEMMA ClientsOf ==
  ASSUME ResolverInv, SenderInv, NEW id \in Clients(capture)
  PROVE  /\ id \in Identities \cup {Nil}
         /\ capture.srcHostname # Nil => id \in {Nil, capture.sender}
<1> DEFINE p == ResolveIPToPod(capture.srcIP)
<1>1. p # Nil => p \in Pods /\ WorkloadOf[p] \in Identities
  BY PodOfAddress, KubeFinderAssumption DEF InPhase, Identities
<1>2. CASE capture.kind \in {"dns", "tcp", "socket"}
  <2>1. id = discoverInternalSrcIdentity(capture)
    BY <1>2 DEF Clients
  <2>2. CASE ResolveIPToControlPlane(capture.srcIP)
    <3>1. capture.srcIP = ControlPlaneIP /\ id \in {Nil, APIServer}
      BY <2>1, <2>2 DEF discoverInternalSrcIdentity, ResolveIPToControlPlane
    <3>2. capture.srcHostname = Nil
      BY <3>1, KubeFinderAssumption DEF SenderInv
    <3> QED  BY <3>1, <3>2 DEF Identities
  <2>3. CASE ~ResolveIPToControlPlane(capture.srcIP)
    <3>1. \/ id = Nil
          \/ /\ p # Nil /\ id = WorkloadOf[p]
             /\ capture.srcHostname # Nil => p = capture.srcHostname
      BY <2>1, <2>3 DEF discoverInternalSrcIdentity
    <3> QED  BY <1>1, <3>1 DEF SenderInv
  <2> QED  BY <2>2, <2>3
<1>3. CASE capture.kind \notin {"dns", "tcp", "socket"}
  <2>1. capture.srcHostname = Nil
    BY <1>3 DEF SenderInv
  <2>2. CASE capture.kind \in {"kafka", "operation"}
    <3>1. id = Nil \/ (p # Nil /\ id = WorkloadOf[p])
      BY <2>2 DEF Clients
    <3> QED  BY <1>1, <2>1, <3>1
  <2>3. CASE capture.kind = "traffic"
    BY <2>1, <2>3, IdentityOfAddress DEF Clients
  <2>4. CASE capture.kind = "istio"
    <3>1. id = Nil \/ id = capture.sender
      BY <2>4 DEF Clients
    <3>2. ASSUME id = capture.sender, id # Nil
          PROVE  id \in Identities
      <4>1. ResolveIstioWorkloadToPod(capture.sender) # {}
        BY <2>4, <3>2 DEF Clients
      <4>2. PICK q \in Pods : WorkloadOf[q] = capture.sender
        BY <4>1 DEF ResolveIstioWorkloadToPod, Exists, InPhase
      <4> QED  BY <3>2, <4>2, KubeFinderAssumption DEF Identities
    <3> QED  BY <2>1, <3>1, <3>2
  <2> QED  BY <1>3, <2>2, <2>3, <2>4 DEF SenderInv, Kinds
<1> QED  BY <1>2, <1>3

LEMMA FindClientInv ==
  ASSUME ResolverInv, FindClient
  PROVE  ResolverInv'
<1>1. /\ stage = "sent" /\ ~Incoming(capture) /\ client' \in Clients(capture)
      /\ stage' = IF client' = Nil THEN "done" ELSE "client found"
      /\ capture' = capture /\ recorded' = recorded
      /\ clock' = clock /\ pods' = pods /\ UNCHANGED seenVars
  BY DEF FindClient, clusterVars
<1>2. ClusterInv /\ SenderInv /\ ReceiverInv /\ OnItsWay /\ recorded = {}
  BY <1>1 DEF ResolverInv
<1>3. ClusterInv'
  BY <1>1, <1>2, ClusterStep DEF clusterVars
<1>4. SenderInv' /\ ReceiverInv'
  BY <1>1, <1>2 DEF SenderInv, ReceiverInv
<1>5. /\ client' \in Identities \cup {Nil}
      /\ capture.srcHostname # Nil => client' \in {Nil, capture.sender}
  BY <1>1, <1>2, ClientsOf
<1>6. capture.srcIP # Outside
  BY <1>1, <1>2, OutsideIsExternal DEF Incoming, SenderInv
<1>7. stage' = "client found" => OnItsWay'
  <2>1. TrustedPodsReceived => TrustedPodsReceived'
    BY <1>1 DEF TrustedPodsReceived, InPhase, Trusted, Created
  <2> QED  BY <1>1, <1>2, <1>5, <1>6, <2>1 DEF OnItsWay
<1>8. EntriesOK'
  BY <1>1, <1>2 DEF EntriesOK, ClientsWereSenders, ServersWereReceivers
<1> QED  BY <1>1, <1>2, <1>3, <1>4, <1>5, <1>7, <1>8 DEF ResolverInv

-----------------------------------------------------------------------------
(* The server of a capture.                                                *)

\* What the destination's address resolves to.
LEMMA AddressOfDestination ==
  ASSUME SenderInv, TrustedPodsReceived, NEW ip,
         ip = capture.destIP,
         ip \in PodIPs \/ \E s \in Services : ip = ClusterIP[s] /\ capture.receiver = Selector[s]
  PROVE  /\ ByPod(ip, capture.lastSeen) \in Identities \cup {Nil}
         /\ ByPod(ip, capture.lastSeen) \in {Nil, capture.receiver}
         /\ \A id \in ByService(ip, capture.lastSeen) :
              id \in {Nil, capture.receiver} /\ id \in Identities \cup {Nil}
<1> DEFINE p == ResolveIPToPod(ip)
<1>1. ASSUME Trusted(p, capture.lastSeen)
      PROVE  /\ ByPod(ip, capture.lastSeen) \in Identities
             /\ ByPod(ip, capture.lastSeen) = capture.receiver
  <2>1. p \in InPhase({"running"}) \ HostPods /\ pods[p].ip = ip
    BY <1>1, PodOfAddress DEF Trusted
  <2>2. WorkloadOf[p] = capture.receiver
    BY <1>1, <2>1 DEF TrustedPodsReceived
  <2>3. WorkloadOf[p] \in Identities
    BY <2>1, KubeFinderAssumption DEF Identities, InPhase
  <2> QED  BY <1>1, <2>2, <2>3 DEF ByPod
<1>2. ~Trusted(p, capture.lastSeen) => ByPod(ip, capture.lastSeen) = Nil
  BY DEF ByPod
<1>3. ASSUME NEW id \in ByService(ip, capture.lastSeen)
      PROVE  id \in {Nil, capture.receiver} /\ id \in Identities \cup {Nil}
  <2>1. CASE ip \in PodIPs
    BY <2>1, ServiceOfAddress DEF ByService
  <2>2. CASE \E s \in Services : ip = ClusterIP[s] /\ capture.receiver = Selector[s]
    <3>1. PICK s \in Services : ip = ClusterIP[s] /\ capture.receiver = Selector[s]
      BY <2>2
    <3>2. ResolveIPToService(ip) = s /\ s # Nil
      BY <3>1, ServiceOfAddress, KubeFinderAssumption
    <3>3. id \in ResolveOtterizeIdentityForService(s, capture.lastSeen)
      BY <3>2 DEF ByService
    <3> QED  BY <3>1, <3>3, IdentityOfService
  <2> QED  BY <2>1, <2>2
<1> QED  BY <1>1, <1>2, <1>3

LEMMA ServersOf ==
  ASSUME SenderInv, ReceiverInv, capture.srcIP # Outside,
         TrustedPodsReceived \/ capture.kind \notin {"tcp", "socket"},
         NEW id \in Servers(capture), id # Nil
  PROVE  /\ id \in Identities \cup {Outside}
         /\ HolderFor(capture) = "intents" /\ id # Outside /\ capture.type # "pod DNS name"
              => id = capture.receiver
<1>1. CASE capture.kind = "tcp"
  <2>1. capture.destIP \in PodIPs
           \/ \E s \in Services : capture.destIP = ClusterIP[s] /\ capture.receiver = Selector[s]
    BY <1>1 DEF ReceiverInv
  <2>2. \A by \in resolveDestIdentityTCP(capture.destIP, capture.lastSeen) :
          by \in {Nil, capture.receiver} /\ by \in Identities \cup {Nil}
    BY <1>1, <2>1, AddressOfDestination DEF resolveDestIdentityTCP
  <2>3. id \in resolveDestIdentityTCP(capture.destIP, capture.lastSeen)
    BY <1>1 DEF Servers, handleInternalTrafficTCPResult
  <2> QED  BY <2>2, <2>3
<1>2. CASE capture.kind = "socket"
  <2>1. capture.destIP \in PodIPs
           \/ \E s \in Services : capture.destIP = ClusterIP[s] /\ capture.receiver = Selector[s]
    BY <1>2 DEF ReceiverInv
  <2>2. id \in ByService(capture.destIP, capture.lastSeen)
           \/ id = ByPod(capture.destIP, capture.lastSeen)
    BY <1>2 DEF Servers, handleSocketScanDestination
  <2> QED  BY <1>2, <2>1, <2>2, AddressOfDestination
<1>3. CASE capture.kind = "dns" /\ capture.type = "service name"
  <2>1. capture.dest \in Services /\ capture.receiver = Selector[capture.dest]
    BY <1>3 DEF ReceiverInv
  <2>2. id = Selector[capture.dest]
    <3>1. \A p \in DNSPods(capture) : WorkloadOf[p] = Selector[capture.dest]
      BY <1>3 DEF DNSPods, ResolveServiceToPods
    <3> QED  BY <1>3, <3>1
             DEF Servers, resolveOtterizeIdentityForDestinationAddress, ServiceIsAPIServer
  <2> QED  BY <2>1, <2>2, KubeFinderAssumption DEF Identities
<1>4. CASE capture.kind = "dns" /\ capture.type = "pod DNS name"
  <2>1. \A p \in DNSPods(capture) : WorkloadOf[p] \in Identities
    <3>1. \A ip : ResolveIPToPod(ip) # Nil => ResolveIPToPod(ip) \in Pods
      BY PodOfAddress DEF InPhase
    <3> QED  BY <1>4, <3>1, KubeFinderAssumption DEF DNSPods, Identities
  <2>2. id \in {WorkloadOf[p] : p \in DNSPods(capture)}
    BY <1>4 DEF Servers, resolveOtterizeIdentityForDestinationAddress
  <2> QED  BY <1>4, <2>1, <2>2
<1>5. CASE capture.kind = "dns" /\ capture.type = "outside name"
  BY <1>5 DEF Servers
<1>6. CASE capture.kind = "kafka"
  <2>1. capture.dest \in Pods /\ capture.receiver = WorkloadOf[capture.dest]
    BY <1>6 DEF ReceiverInv
  <2>2. id = WorkloadOf[capture.dest]
    BY <1>6 DEF Servers
  <2> QED  BY <2>1, <2>2, KubeFinderAssumption DEF Identities
<1>7. CASE capture.kind = "istio"
  <2>1. capture.receiver \in Identities
    BY <1>7 DEF ReceiverInv
  <2> QED  BY <1>7, <2>1 DEF Servers
<1>8. CASE capture.kind = "traffic"
  <2>1. id \in resolveIPToIdentity(capture.destIP)
    BY <1>8 DEF Servers
  <2>2. HolderFor(capture) # "intents"
    BY <1>8 DEF HolderFor
  <2>3. id \in Identities \cup {Nil}
    BY <2>1, IdentityOfAddress
  <2> QED  BY <2>2, <2>3
<1>9. CASE capture.kind = "operation"
  BY <1>9 DEF Servers
<1>10. capture.kind = "dns" => capture.type \in {"service name", "pod DNS name", "outside name"}
  BY DEF ReceiverInv
<1> QED  BY <1>1, <1>2, <1>3, <1>4, <1>5, <1>6, <1>7, <1>8, <1>9, <1>10 DEF SenderInv, Kinds

LEMMA FindServerInv ==
  ASSUME ResolverInv, FindServer
  PROVE  ResolverInv'
<1>1. PICK server \in Servers(capture) :
        recorded' = IF server = Nil THEN {} ELSE Entry(HolderFor(capture), client, server)
  BY DEF FindServer
<1>2. /\ stage = "client found" /\ stage' = "done" /\ capture' = capture /\ client' = client
      /\ clock' = clock /\ UNCHANGED clusterVars
  BY DEF FindServer, clusterVars
<1>3. ClusterInv /\ SenderInv /\ ReceiverInv /\ OnItsWay /\ client \in Identities
  BY <1>2 DEF ResolverInv, OnItsWay
<1>4. ClusterInv'
  BY <1>2, <1>3, ClusterStep
<1>5. SenderInv' /\ ReceiverInv'
  BY <1>2, <1>3 DEF SenderInv, ReceiverInv
<1>6. ASSUME NEW e \in recorded'
      PROVE  /\ e.holder = HolderFor(capture) /\ e.holder \in Holders \ {"incoming traffic"}
             /\ e.client = client /\ e.server \in Identities \cup {Outside}
             /\ e.holder = "intents" /\ e.server # Outside /\ capture.type # "pod DNS name"
                  => e.server = capture.receiver
  <2>1. server # Nil /\ e = [holder |-> HolderFor(capture), client |-> client, server |-> server]
    BY <1>1, <1>6 DEF Entry
  <2>2. HolderFor(capture) \in Holders \ {"incoming traffic"}
    BY DEF HolderFor, Holders
  <2>3. /\ server \in Identities \cup {Outside}
        /\ HolderFor(capture) = "intents" /\ server # Outside /\ capture.type # "pod DNS name"
             => server = capture.receiver
    BY <1>2, <1>3, <2>1, ServersOf DEF OnItsWay
  <2> QED  BY <2>1, <2>2, <2>3
<1>7. EntriesOK'
  <2>1. \A e \in recorded' :
          e.holder \in Holders /\ {e.client, e.server} \subseteq Identities \cup {Outside}
    BY <1>3, <1>6
  <2>2. ClientsWereSenders'
    BY <1>2, <1>3, <1>6 DEF ClientsWereSenders, OnItsWay
  <2>3. ServersWereReceivers'
    BY <1>2, <1>6 DEF ServersWereReceivers, InternalServer
  <2> QED  BY <2>1, <2>2, <2>3 DEF EntriesOK
<1> QED  BY <1>2, <1>3, <1>4, <1>5, <1>7 DEF ResolverInv

\* Only an address that no pod has or had lately is from outside.
LEMMA IncomingSender ==
  ASSUME ClusterInv, SenderInv, clock <= capture.lastSeen + Grace, Incoming(capture),
         capture.srcIP # Outside => SourceKnown
  PROVE  capture.sender \in {Outside, InsideIP} \/ capture.srcIP \in evicted
<1> SUFFICES ASSUME capture.srcIP \notin {Outside, InsideIP}, capture.srcIP \notin evicted
             PROVE  FALSE
  BY DEF SenderInv
<1>1. /\ ~IsPodIp(capture.srcIP) /\ ~ResolveIPToControlPlane(capture.srcIP)
      /\ ~WasPodIP(capture.srcIP)
  BY DEF Incoming, IsSrcIpClusterInternal
<1>2. /\ capture.srcIP \in PodIPs
      /\ seenIPs[capture.srcIP] # Nil /\ capture.lastSeen <= seenIPs[capture.srcIP] + Grace
  BY <1>1 DEF SourceKnown, SeenLately
<1>3. capture.srcIP \in DOMAIN seenIPs /\ seenIPs[capture.srcIP] \in Nat
  BY <1>2 DEF ClusterInv, ClusterTypeOK, Time
<1>4. clock \in Nat /\ capture.lastSeen \in Nat
  BY DEF SenderInv, ClusterInv, ClusterTypeOK, Time
<1>5. clock <= seenIPs[capture.srcIP] + SeenIPsTTL
  BY <1>2, <1>3, <1>4, KubeFinderAssumption
<1> QED  BY <1>1, <1>2, <1>3, <1>5 DEF WasPodIP

LEMMA IncomingInv ==
  ASSUME ResolverInv, reportIncomingInternetTraffic
  PROVE  ResolverInv'
<1>1. PICK server \in resolveOtterizeIdentityForExternalAccessDestination(capture) :
        recorded' = IF server = Nil THEN {} ELSE Entry("incoming traffic", Outside, server)
  BY DEF reportIncomingInternetTraffic
<1>2. /\ stage = "sent" /\ Incoming(capture)
      /\ stage' = "done" /\ capture' = capture /\ client' = client
      /\ clock' = clock /\ UNCHANGED clusterVars
  BY DEF reportIncomingInternetTraffic, clusterVars
<1>3. ClusterInv /\ SenderInv /\ ReceiverInv /\ OnItsWay
  BY <1>2 DEF ResolverInv
<1>4. ClusterInv'
  BY <1>2, <1>3, ClusterStep
<1>5. SenderInv' /\ ReceiverInv'
  BY <1>2, <1>3 DEF SenderInv, ReceiverInv
<1>7. server \in Identities \cup {Nil}
  <2> DEFINE s == ResolveIPToExternalAccessService(capture.destIP)
             p == ResolveIPToPod(capture.destIP)
  <2>1. s \in Services \cup {Nil}
    BY KubeFinderAssumption DEF ResolveIPToExternalAccessService
  <2>2. p # Nil => WorkloadOf[p] \in Identities
    BY PodOfAddress, KubeFinderAssumption DEF InPhase, Identities
  <2>3. CASE s # Nil
    <3>1. server \in ResolveOtterizeIdentityForService(s, capture.lastSeen)
      BY <2>3 DEF resolveOtterizeIdentityForExternalAccessDestination
    <3>2. s \in Services
      BY <2>1, <2>3
    <3> HIDE DEF s
    <3> QED  BY <3>1, <3>2, IdentityOfService
  <2>4. CASE s = Nil
    BY <2>2, <2>4 DEF resolveOtterizeIdentityForExternalAccessDestination
  <2> QED  BY <2>3, <2>4
<1>8. ASSUME NEW e \in recorded'
      PROVE  e.holder = "incoming traffic" /\ e.client = Outside /\ e.server \in Identities
  <2>1. server # Nil /\ e = [holder |-> "incoming traffic", client |-> Outside, server |-> server]
    BY <1>1, <1>8 DEF Entry
  <2> QED  BY <1>7, <2>1
<1>9. EntriesOK'
  <2>1. \A e \in recorded' :
          e.holder \in Holders /\ {e.client, e.server} \subseteq Identities \cup {Outside}
    BY <1>8 DEF Holders
  <2>2. ClientsWereSenders'
    BY <1>2, <1>8 DEF ClientsWereSenders
  <2>3. ServersWereReceivers'
    BY <1>8 DEF ServersWereReceivers, InternalServer
  <2> QED  BY <2>1, <2>2, <2>3 DEF EntriesOK
<1> QED  BY <1>2, <1>3, <1>4, <1>5, <1>9 DEF ResolverInv

-----------------------------------------------------------------------------
(* Theorems.                                                               *)

LEMMA ResolverInitInv == ResolverInit => ResolverInv
<1> SUFFICES ASSUME ResolverInit
             PROVE  ResolverInv
  OBVIOUS
<1>1. ClusterInv
  BY ClusterInitInv DEF ResolverInit
<1>2. EntriesOK
  BY DEF ResolverInit, EntriesOK, ClientsWereSenders, ServersWereReceivers
<1> QED  BY <1>1, <1>2 DEF ResolverInit, ResolverInv

LEMMA ResolverStep == ResolverInv /\ [ResolverNext]_allVars => ResolverInv'
BY ClusterChangesInv, TrafficInv, TrafficHandledInv, FindClientInv, FindServerInv, IncomingInv
   DEF ResolverNext

LEMMA ResolverInvAlways == ResolverSpec => []ResolverInv
BY ResolverInitInv, ResolverStep, PTL DEF ResolverSpec

\* What the handlers record names identities that exist, in holders that exist.
THEOREM ResolverTypesCorrect == ResolverSpec => []ResolverTypeOK
<1>1. ResolverInv => ResolverTypeOK
  <2> SUFFICES ASSUME ResolverInv
               PROVE  ResolverTypeOK
    OBVIOUS
  <2>1. ClusterTypeOK
    BY DEF ResolverInv, ClusterInv
  <2>2. CASE stage = "none"
    <3>1. capture = NoCapture /\ recorded = {} /\ client \in Identities \cup {Nil}
      BY <2>2 DEF ResolverInv
    <3>2. NoCapture.lastSeen = 0
      BY DEF NoCapture
    <3>3. clock \in Nat
      BY <2>1 DEF ClusterTypeOK, Time
    <3> QED  BY <2>1, <2>2, <3>1, <3>2, <3>3 DEF ResolverTypeOK
  <2>3. CASE stage # "none"
    BY <2>3 DEF ResolverTypeOK, ResolverInv, ClusterInv, SenderInv, EntriesOK
  <2> QED  BY <2>2, <2>3
<1> QED  BY <1>1, ResolverInvAlways, PTL

\* discoverInternalSrcIdentity compares the host name of a capture with the pod that has
\* the address now: a capture that has one is never recorded under another client than
\* its sender, although addresses are used again.
THEOREM ClientsAlwaysSenders == ResolverSpec => []ClientsWereSenders
<1>1. ResolverInv => ClientsWereSenders
  BY DEF ResolverInv, EntriesOK
<1> QED  BY <1>1, ResolverInvAlways, PTL

\* TimeServerHasToLiveBeforeWeTrustItKey is enough: the server recorded is the workload
\* that the traffic went to, whoever has its address when the capture is handled.
THEOREM ServersAlwaysReceivers == ResolverSpec => []ServersWereReceivers
<1>1. ResolverInv => ServersWereReceivers
  BY DEF ResolverInv, EntriesOK
<1> QED  BY <1>1, ResolverInvAlways, PTL

\* seenIPsCacheTTL is enough, and only seenIPsCacheSize may not be: what is recorded as
\* traffic from the internet was not sent by a pod or the control plane, also when the
\* pod that had the address has ended, unless the cache dropped its address to make
\* room for others.
THEOREM IncomingAlwaysExternal == ResolverSpec => IncomingIsExternal
<1>1. ASSUME ResolverInv, [ResolverNext]_allVars, NEW e \in recorded' \ recorded,
             e.holder = "incoming traffic"
      PROVE  capture.sender \in {Outside, InsideIP} \/ capture.srcIP \in evicted
  <2>1. CASE reportIncomingInternetTraffic
    <3>1. stage = "sent" /\ Incoming(capture)
      BY <2>1 DEF reportIncomingInternetTraffic
    <3> QED  BY <1>1, <3>1, IncomingSender DEF ResolverInv, OnItsWay
  <2>2. CASE FindServer
    <3>1. PICK server \in Servers(capture) :
            recorded' = IF server = Nil THEN {} ELSE Entry(HolderFor(capture), client, server)
      BY <2>2 DEF FindServer
    <3>2. server # Nil /\ e = [holder |-> HolderFor(capture), client |-> client, server |-> server]
      BY <3>1 DEF Entry
    <3>3. e.holder = HolderFor(capture)
      BY <3>2
    <3> QED  BY <1>1, <3>3 DEF HolderFor
  <2>3. CASE ClusterChanges \/ TimePasses \/ Traffic \/ TrafficHandled \/ FindClient
             \/ UNCHANGED allVars
    <3>1. recorded' \in {recorded, {}}
      BY <2>3 DEF ClusterChanges, TimePasses, Traffic, TrafficHandled, FindClient, allVars,
                  resolverVars
    <3> QED  BY <1>1, <3>1
  <2> QED  BY <1>1, <2>1, <2>2, <2>3 DEF ResolverNext
<1>2. ResolverInv /\ [ResolverNext]_allVars =>
        [\A e \in recorded' \ recorded : e.holder = "incoming traffic" =>
           capture.sender \in {Outside, InsideIP} \/ capture.srcIP \in evicted]_allVars
  BY <1>1
<1> QED  BY <1>2, ResolverInvAlways, PTL DEF ResolverSpec, IncomingIsExternal
===============================================================================
