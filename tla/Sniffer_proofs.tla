---------------------------- MODULE Sniffer_proofs ----------------------------
(***************************************************************************)
(* Proofs about the sniffer: first its map from addresses to host names,   *)
(* then what becomes of captures.                                          *)
(***************************************************************************)
EXTENDS Sniffer, FiniteSetTheorems, TLAPS

-----------------------------------------------------------------------------
(* The invariant of the map from addresses to host names.                  *)

\* What byAddr and byPid point to exists.
PointToEntries ==
  /\ \A ip \in IPs : byAddr[ip] # Nil => entries[byAddr[ip]] # Nil
  /\ \A p \in Pids : byPid[p] # Nil => entries[byPid[p]] # Nil

AtTheirAddress ==
  \A ip \in IPs : byAddr[ip] # Nil => entries[byAddr[ip]].IPAddr = ip

\* Even when scans fail, no process is missing from a count.
CountsSuffice ==
  \A r \in Refs : entries[r] # Nil =>
    entries[r].ProcessRefCount >= Cardinality(ProcessesOf(r))

CountsExact ==
  /\ \A r \in Refs : entries[r] # Nil =>
       entries[r].ProcessRefCount = Cardinality(ProcessesOf(r))
  /\ \A ip \in IPs : byAddr[ip] # Nil => ProcessesOf(byAddr[ip]) # {}

\* An address belongs to one pod at a time, and to no pod again.
HoldersRun ==
  /\ \A p \in Live : procs[p].host = holder[procs[p].ip]
  /\ \A ip \in IPs : holder[ip] \notin former[ip]

HostsHeldTheirAddress ==
  \A ip \in IPs : byAddr[ip] # Nil =>
    entries[byAddr[ip]].Hostname \in former[ip] \cup {holder[ip]}

\* A process that runs has the entry of its own address and host name, if any.
EntryAsRead ==
  \A p \in Live : byPid[p] # Nil =>
    /\ entries[byPid[p]].IPAddr = procs[p].ip
    /\ entries[byPid[p]].Hostname = procs[p].host

\* The processes of this scan, handled or not.
Listed == IF scan = Nil THEN {} ELSE scan.left \cup processes

\* All processes that were handled were seen, in this scan or in the one before,
\* and those that are left in the scan have not been seen in it.
HandledWereSeen ==
  /\ \A p \in Pids : byPid[p] # Nil =>
       p \in processes \/ (scan # Nil /\ p \in scan.seenLast)
  /\ scan # Nil => scan.left \cap processes = {}

\* What is listed ran at the same time, when the scan began: a process that still
\* does has the host name of all others that had its address then.
ListedTogether ==
  \A p \in Listed, q \in Listed \cap Live :
    byPid[p] # Nil /\ entries[byPid[p]].IPAddr = procs[q].ip
      => entries[byPid[p]].Hostname = procs[q].host

\* A handled process resolves, unless the scan will find it gone.
ResolveOrGo ==
  \A p \in Pids : byPid[p] # Nil =>
    byAddr[entries[byPid[p]].IPAddr] = byPid[p] \/ (scan # Nil /\ p \notin Listed)

IPInv ==
  /\ IPResolverTypeOK
  /\ PointToEntries
  /\ AtTheirAddress
  /\ CountsSuffice
  /\ HoldersRun
  /\ HostsHeldTheirAddress
  /\ EntryAsRead
  /\ ListedTogether
  /\ scanFailures = 0 => CountsExact /\ HandledWereSeen /\ ResolveOrGo

-----------------------------------------------------------------------------
(* Facts about sets of processes.                                          *)

LEMMA SetsOfPids ==
  ASSUME NEW S \in SUBSET Pids
  PROVE  /\ IsFiniteSet(S) /\ Cardinality(S) \in Nat
         /\ \A p \in Pids : Cardinality(S \cup {p}) = IF p \in S THEN Cardinality(S) ELSE Cardinality(S) + 1
         /\ \A T \in SUBSET S : /\ Cardinality(T) \in Nat /\ Cardinality(T) <= Cardinality(S)
                                /\ Cardinality(S \ T) = Cardinality(S) - Cardinality(T)
         /\ S # {} => Cardinality(S) > 0
         /\ \A T \in SUBSET S : Cardinality(T) = Cardinality(S) => T = S
<1>1. IsFiniteSet(S)
  BY FS_Subset, IPResolverAssumption
<1>2. Cardinality(S) \in Nat
  BY <1>1, FS_CardinalityType
<1>3. \A p \in Pids : Cardinality(S \cup {p}) = IF p \in S THEN Cardinality(S) ELSE Cardinality(S) + 1
  BY <1>1, FS_AddElement
<1>4. ASSUME NEW T \in SUBSET S
      PROVE  /\ Cardinality(T) \in Nat /\ Cardinality(T) <= Cardinality(S)
             /\ Cardinality(S \ T) = Cardinality(S) - Cardinality(T)
             /\ Cardinality(T) = Cardinality(S) => T = S
  <2>1. IsFiniteSet(T) /\ Cardinality(T) <= Cardinality(S)
        /\ (Cardinality(S) = Cardinality(T) => S = T)
    BY <1>1, FS_Subset
  <2>2. Cardinality(T) \in Nat
    BY <2>1, FS_CardinalityType
  <2>3. S \cap T = T
    OBVIOUS
  <2>4. Cardinality(S \ T) = Cardinality(S) - Cardinality(S \cap T)
    BY <1>1, FS_Difference
  <2> QED  BY <2>1, <2>2, <2>3, <2>4
<1>5. S # {} => Cardinality(S) > 0
  BY <1>1, <1>2, FS_EmptySet
<1> QED  BY <1>1, <1>2, <1>3, <1>4, <1>5

\* There are objects that nothing points to.
LEMMA UnusedExists ==
  ASSUME byAddr \in [IPs -> Refs \cup {Nil}], byPid \in [Pids -> Refs \cup {Nil}]
  PROVE  \E r \in Refs : Unused(r)
<1> DEFINE A == Range(byAddr)
           B == Range(byPid)
<1>1. byAddr \in Surjection(IPs, A) /\ byPid \in Surjection(Pids, B)
  BY DEF Surjection, Range
<1>2. /\ IsFiniteSet(A) /\ Cardinality(A) <= Cardinality(IPs)
      /\ IsFiniteSet(B) /\ Cardinality(B) <= Cardinality(Pids)
  BY <1>1, FS_Surjection, IPResolverAssumption
<1>3. /\ IsFiniteSet(A \cup B)
      /\ Cardinality(A \cup B) = Cardinality(A) + Cardinality(B) - Cardinality(A \cap B)
  BY <1>2, FS_Union
<1>4. IsFiniteSet(A \cap B)
  BY <1>2, FS_Intersection
<1>5. /\ Cardinality(A) \in Nat /\ Cardinality(B) \in Nat /\ Cardinality(A \cap B) \in Nat
      /\ Cardinality(IPs) \in Nat /\ Cardinality(Pids) \in Nat /\ Cardinality(Refs) \in Nat
  BY <1>2, <1>4, FS_CardinalityType, IPResolverAssumption
<1>6. ASSUME Refs \subseteq A \cup B
      PROVE  FALSE
  <2>1. Cardinality(Refs) <= Cardinality(A \cup B)
    BY <1>3, <1>6, FS_Subset
  <2> QED  BY <1>2, <1>3, <1>5, <2>1, IPResolverAssumption
<1> QED  BY <1>6 DEF Unused

-----------------------------------------------------------------------------
(* What onProcessNew and onProcessExit do.                                 *)

\* The entry r that a process joins, or that is made for it.
Joins(p, proc, r) ==
  /\ byPid' = [byPid EXCEPT ![p] = r]
  /\ byAddr' = [byAddr EXCEPT ![proc.ip] = r]
  /\ entries' = [entries EXCEPT ![r] =
       [IPAddr |-> proc.ip, Hostname |-> proc.host,
        ProcessRefCount |-> (IF byAddr[proc.ip] = r THEN entries[r].ProcessRefCount ELSE 0) + 1]]
  /\ \/ /\ byAddr[proc.ip] = r /\ entries[r] # Nil
        /\ entries[r].IPAddr = proc.ip /\ entries[r].Hostname = proc.host
     \/ /\ Unused(r)
        /\ byAddr[proc.ip] = Nil \/ entries[byAddr[proc.ip]].Hostname # proc.host

LEMMA NewJoins ==
  ASSUME IPInv, NEW p \in Pids, NEW proc \in Process, onProcessNew(p, proc)
  PROVE  \E r \in Refs : Joins(p, proc, r)
<1> DEFINE known == byAddr[proc.ip]
<1>1. /\ proc.ip \in IPs /\ byAddr \in [IPs -> Refs \cup {Nil}] /\ byPid \in [Pids -> Refs \cup {Nil}]
      /\ entries \in [Refs -> Entry \cup {Nil}]
  BY DEF Process, IPInv, IPResolverTypeOK
<1>2. CASE known # Nil /\ entries[known].Hostname = proc.host
  <2>1. known \in Refs /\ entries[known] # Nil /\ entries[known].IPAddr = proc.ip
    BY <1>1, <1>2, IPResolverAssumption DEF IPInv, PointToEntries, AtTheirAddress
  <2>2. entries[known] \in Entry
    BY <1>1, <2>1
  <2>3. byPid' = [byPid EXCEPT ![p] = known] /\ byAddr' = byAddr
        /\ entries' = [entries EXCEPT ![known].ProcessRefCount = @ + 1]
    BY <1>2 DEF onProcessNew
  <2>4. [entries[known] EXCEPT !.ProcessRefCount = @ + 1] =
          [IPAddr |-> proc.ip, Hostname |-> proc.host,
           ProcessRefCount |-> entries[known].ProcessRefCount + 1]
    BY <1>2, <2>1, <2>2 DEF Entry
  <2>5. byAddr = [byAddr EXCEPT ![proc.ip] = known]
    BY <1>1
  <2>6. Joins(p, proc, known)
    BY <1>2, <2>1, <2>3, <2>4, <2>5 DEF Joins
  <2> QED  BY <2>1, <2>6
<1>3. CASE ~(known # Nil /\ entries[known].Hostname = proc.host)
  <2> DEFINE new == CHOOSE r \in Refs : Unused(r)
  <2>1. new \in Refs /\ Unused(new)
    BY <1>1, UnusedExists
  <2>2. /\ entries' = [entries EXCEPT
             ![new] = [IPAddr |-> proc.ip, Hostname |-> proc.host, ProcessRefCount |-> 1]]
        /\ byPid' = [byPid EXCEPT ![p] = new]
        /\ byAddr' = [byAddr EXCEPT ![proc.ip] = new]
    BY <1>3 DEF onProcessNew
  <2> HIDE DEF new
  <2>3. byAddr[proc.ip] # new
    BY <1>1, <2>1 DEF Unused, Range
  <2>4. Joins(p, proc, new)
    BY <1>3, <2>1, <2>2, <2>3 DEF Joins
  <2> QED  BY <2>1, <2>4
<1> QED  BY <1>2, <1>3

\* An entry keeps its address and host name.
Same(r) ==
  /\ entries'[r] # Nil
  /\ entries'[r].IPAddr = entries[r].IPAddr /\ entries'[r].Hostname = entries[r].Hostname

\* Others keep their entries when a process joins one.
LEMMA JoiningKeeps ==
  ASSUME IPInv, NEW p \in Pids, NEW proc \in Process, NEW r \in Refs, Joins(p, proc, r)
  PROVE  /\ entries' \in [Refs -> Entry \cup {Nil}]
         /\ byAddr' \in [IPs -> Refs \cup {Nil}] /\ byPid' \in [Pids -> Refs \cup {Nil}]
         /\ byPid'[p] = r /\ byAddr'[proc.ip] = r
         /\ entries'[r] # Nil
         /\ entries'[r].IPAddr = proc.ip /\ entries'[r].Hostname = proc.host
         /\ \A q \in Pids \ {p} : byPid'[q] = byPid[q] /\ (byPid[q] # Nil => Same(byPid[q]))
         /\ \A ip \in IPs \ {proc.ip} :
              byAddr'[ip] = byAddr[ip] /\ (byAddr[ip] # Nil => Same(byAddr[ip]))
<1>1. /\ proc.ip \in IPs /\ proc.host \in Hosts
      /\ byAddr \in [IPs -> Refs \cup {Nil}] /\ byPid \in [Pids -> Refs \cup {Nil}]
      /\ entries \in [Refs -> Entry \cup {Nil}]
  BY DEF Process, IPInv, IPResolverTypeOK
<1> DEFINE n == IF byAddr[proc.ip] = r THEN entries[r].ProcessRefCount ELSE 0
           e == [IPAddr |-> proc.ip, Hostname |-> proc.host, ProcessRefCount |-> n + 1]
<1>2. n \in Nat
  <2>1. CASE byAddr[proc.ip] = r
    <3>1. entries[r] # Nil
      BY <1>1, <2>1, IPResolverAssumption DEF IPInv, PointToEntries
    <3> QED  BY <1>1, <2>1, <3>1 DEF Entry
  <2>2. CASE byAddr[proc.ip] # r
    BY <2>2
  <2> QED  BY <2>1, <2>2
<1>3. entries' = [entries EXCEPT ![r] = e]
  BY DEF Joins
<1> HIDE DEF n
<1>4. e \in Entry
  BY <1>1, <1>2 DEF Entry
<1>5. e # Nil
  BY <1>4, IPResolverAssumption DEF Entry
<1>6. /\ entries' \in [Refs -> Entry \cup {Nil}] /\ entries'[r] = e
      /\ \A r2 \in Refs \ {r} : entries'[r2] = entries[r2]
  BY <1>1, <1>3, <1>4
<1>7. e.IPAddr = proc.ip /\ e.Hostname = proc.host
  OBVIOUS
<1> HIDE DEF e
<1>8. ASSUME NEW r2 \in Refs, r2 \in Range(byAddr) \cup Range(byPid), entries[r2] # Nil
      PROVE  Same(r2)
  <2>1. CASE r2 = r
    BY <1>5, <1>6, <1>7, <1>8, <2>1 DEF Same, Joins, Unused
  <2>2. CASE r2 # r
    BY <1>6, <1>8, <2>2 DEF Same
  <2> QED  BY <2>1, <2>2
<1>9. byPid' = [byPid EXCEPT ![p] = r] /\ byAddr' = [byAddr EXCEPT ![proc.ip] = r]
  BY DEF Joins
<1>10. ASSUME NEW q \in Pids \ {p}
       PROVE  byPid'[q] = byPid[q] /\ (byPid[q] # Nil => Same(byPid[q]))
  <2>1. byPid[q] \in Range(byPid)
    BY <1>1 DEF Range
  <2> QED  BY <1>1, <1>8, <1>9, <2>1 DEF IPInv, PointToEntries
<1>11. ASSUME NEW ip \in IPs \ {proc.ip}
       PROVE  byAddr'[ip] = byAddr[ip] /\ (byAddr[ip] # Nil => Same(byAddr[ip]))
  <2>1. byAddr[ip] \in Range(byAddr)
    BY <1>1 DEF Range
  <2> QED  BY <1>1, <1>8, <1>9, <2>1 DEF IPInv, PointToEntries
<1> QED  BY <1>1, <1>5, <1>6, <1>7, <1>9, <1>10, <1>11

\* The process that joins is counted.
LEMMA JoiningCounts ==
  ASSUME IPInv, NEW p \in Pids, NEW proc \in Process, NEW r \in Refs, Joins(p, proc, r)
  PROVE  /\ CountsSuffice'
         /\ CountsExact /\ byPid[p] = Nil => CountsExact'
<1>1. /\ proc.ip \in IPs /\ byAddr \in [IPs -> Refs \cup {Nil}] /\ byPid \in [Pids -> Refs \cup {Nil}]
      /\ entries \in [Refs -> Entry \cup {Nil}]
  BY DEF Process, IPInv, IPResolverTypeOK
<1>2. byPid' = [byPid EXCEPT ![p] = r] /\ byAddr' = [byAddr EXCEPT ![proc.ip] = r]
  BY DEF Joins
<1> DEFINE n == IF byAddr[proc.ip] = r THEN entries[r].ProcessRefCount ELSE 0
           P(q) == {x \in Pids : byPid'[x] = q}
<1>3. /\ \A q : P(q) = ProcessesOf(q)'
      /\ \A q \in Refs \ {r} : entries'[q] = entries[q]
      /\ entries'[r].ProcessRefCount = n + 1
  BY <1>1 DEF Joins, ProcessesOf
<1>4. n \in Nat /\ n >= Cardinality(ProcessesOf(r)) /\ (CountsExact => n = Cardinality(ProcessesOf(r)))
  <2>1. CASE byAddr[proc.ip] = r /\ entries[r] # Nil
    BY <1>1, <2>1 DEF IPInv, CountsSuffice, CountsExact, Entry
  <2>2. CASE Unused(r)
    <3>1. ProcessesOf(r) = {} /\ byAddr[proc.ip] # r
      BY <1>1, <2>2 DEF Unused, Range, ProcessesOf
    <3> QED  BY <3>1, FS_EmptySet
  <2> QED  BY <2>1, <2>2 DEF Joins
<1> HIDE DEF n
<1>5. P(r) = ProcessesOf(r) \cup {p} /\ \A q \in Refs \ {r} : P(q) = ProcessesOf(q) \ {p}
  BY <1>1, <1>2 DEF ProcessesOf
<1>6. \A q : ProcessesOf(q) \in SUBSET Pids
  BY DEF ProcessesOf
<1> HIDE DEF P
<1>7. /\ \A q \in Refs : Cardinality(ProcessesOf(q)) \in Nat
      /\ Cardinality(P(r)) <= Cardinality(ProcessesOf(r)) + 1
      /\ byPid[p] = Nil => Cardinality(P(r)) = Cardinality(ProcessesOf(r)) + 1
      /\ \A q \in Refs \ {r} : /\ Cardinality(P(q)) \in Nat
                               /\ Cardinality(P(q)) <= Cardinality(ProcessesOf(q))
  <2>1. \A q \in Refs : Cardinality(ProcessesOf(q)) \in Nat
    BY <1>6, SetsOfPids
  <2>2. Cardinality(ProcessesOf(r) \cup {p}) =
          IF p \in ProcessesOf(r) THEN Cardinality(ProcessesOf(r)) ELSE Cardinality(ProcessesOf(r)) + 1
    BY <1>6, SetsOfPids
  <2>3. byPid[p] = Nil => p \notin ProcessesOf(r)
    BY IPResolverAssumption DEF ProcessesOf
  <2>4. \A q \in Refs \ {r} : /\ Cardinality(P(q)) \in Nat
                              /\ Cardinality(P(q)) <= Cardinality(ProcessesOf(q))
    <3> SUFFICES ASSUME NEW q \in Refs \ {r}
                 PROVE  /\ Cardinality(P(q)) \in Nat
                        /\ Cardinality(P(q)) <= Cardinality(ProcessesOf(q))
      OBVIOUS
    <3>1. P(q) \in SUBSET ProcessesOf(q)
      BY <1>5
    <3>2. ProcessesOf(q) \in SUBSET Pids
      BY <1>6
    <3> HIDE <1>6
    <3> QED  BY <3>1, <3>2, SetsOfPids
  <2> QED  BY <1>5, <2>1, <2>2, <2>3, <2>4
<1>8. CountsSuffice'
  <2> SUFFICES ASSUME NEW q \in Refs, entries'[q] # Nil
               PROVE  entries'[q].ProcessRefCount >= Cardinality(P(q))
    BY <1>3 DEF CountsSuffice
  <2>1. CASE q = r
    <3>1. Cardinality(P(r)) \in Nat
      BY <1>5, <1>6, SetsOfPids
    <3> QED  BY <1>3, <1>4, <1>7, <2>1, <3>1
  <2>2. CASE q # r
    <3>1. entries[q] # Nil /\ entries[q] \in Entry
      BY <1>1, <1>3, <2>2
    <3> QED  BY <1>3, <1>7, <2>2, <3>1 DEF IPInv, CountsSuffice, Entry
  <2> QED  BY <2>1, <2>2
<1>9. ASSUME CountsExact, byPid[p] = Nil
      PROVE  CountsExact'
  <2>1. \A q \in Refs \ {r} : P(q) = ProcessesOf(q)
    BY <1>5, <1>9, IPResolverAssumption DEF ProcessesOf
  <2>2. ASSUME NEW q \in Refs, entries'[q] # Nil
        PROVE  entries'[q].ProcessRefCount = Cardinality(P(q))
    BY <1>3, <1>4, <1>7, <1>9, <2>1, <2>2 DEF CountsExact
  <2>3. ASSUME NEW ip \in IPs, byAddr'[ip] # Nil
        PROVE  P(byAddr'[ip]) # {}
    BY <1>1, <1>2, <1>5, <1>9, <2>1, <2>3 DEF CountsExact
  <2> QED  BY <1>3, <2>2, <2>3 DEF CountsExact
<1> QED  BY <1>8, <1>9

\* The callback for a new process.
LEMMA ProcNewInv ==
  ASSUME IPInv, ProcNew
  PROVE  IPInv'
<1>1. PICK p \in (scan.left \ scan.seenLast) \cap Live :
        /\ onProcessNew(p, procs[p])
        /\ processes' = processes \cup {p}
        /\ scan' = Visited(p)
  BY DEF ProcNew
<1> DEFINE proc == procs[p]
<1>2. /\ scan # Nil /\ p \in scan.left /\ p \notin scan.seenLast /\ p \in Live
      /\ procs' = procs /\ spent' = spent /\ holder' = holder /\ former' = former
      /\ failingProcesses' = failingProcesses /\ scanFailures' = scanFailures
  BY <1>1 DEF ProcNew, node
<1>3. /\ p \in Pids /\ proc \in Process /\ proc.ip \in IPs
      /\ scan \in Scan
      /\ byAddr \in [IPs -> Refs \cup {Nil}] /\ byPid \in [Pids -> Refs \cup {Nil}]
  BY <1>2 DEF Live, IPInv, IPResolverTypeOK, Process
<1>4. /\ scan' \in Scan /\ scan'.left = scan.left \ {p} /\ scan'.seenLast = scan.seenLast
  BY <1>1, <1>3 DEF Visited, Scan
<1>5. scan' # Nil
  BY <1>4, IPResolverAssumption DEF Scan
<1>6. PICK r \in Refs : Joins(p, proc, r)
  BY <1>1, <1>3, NewJoins
<1>7. /\ entries' \in [Refs -> Entry \cup {Nil}]
      /\ byAddr' \in [IPs -> Refs \cup {Nil}] /\ byPid' \in [Pids -> Refs \cup {Nil}]
      /\ byPid'[p] = r /\ byAddr'[proc.ip] = r
      /\ entries'[r] # Nil
      /\ entries'[r].IPAddr = proc.ip /\ entries'[r].Hostname = proc.host
      /\ \A q \in Pids \ {p} : byPid'[q] = byPid[q] /\ (byPid[q] # Nil => Same(byPid[q]))
      /\ \A ip \in IPs \ {proc.ip} :
           byAddr'[ip] = byAddr[ip] /\ (byAddr[ip] # Nil => Same(byAddr[ip]))
  BY <1>3, <1>6, JoiningKeeps
<1>8. IPResolverTypeOK'
  BY <1>1, <1>2, <1>3, <1>4, <1>7 DEF IPInv, IPResolverTypeOK
<1>9. PointToEntries' /\ AtTheirAddress'
  BY <1>7 DEF IPInv, PointToEntries, AtTheirAddress, Same
<1>10. CountsSuffice' /\ (CountsExact /\ byPid[p] = Nil => CountsExact')
  BY <1>3, <1>6, JoiningCounts
<1>11. HoldersRun'
  BY <1>2 DEF IPInv, HoldersRun, Live
<1>12. HostsHeldTheirAddress'
  BY <1>2, <1>3, <1>7 DEF IPInv, HostsHeldTheirAddress, HoldersRun, Same
<1>13. EntryAsRead'
  BY <1>2, <1>7 DEF IPInv, EntryAsRead, Live, Same
<1>14. Listed' = Listed /\ p \in Listed
  BY <1>1, <1>2, <1>4, <1>5 DEF Listed
<1>15. ListedTogether'
  <2> SUFFICES ASSUME NEW a \in Listed, NEW q \in Listed \cap Live,
                      byPid'[a] # Nil, entries'[byPid'[a]].IPAddr = procs[q].ip
               PROVE  entries'[byPid'[a]].Hostname = procs[q].host
    BY <1>2, <1>14 DEF ListedTogether, Live
  <2>1. a \in Pids
    BY <1>3 DEF Listed, Scan, IPInv, IPResolverTypeOK
  <2>2. CASE a = p
    BY <1>2, <1>7, <2>2 DEF IPInv, HoldersRun
  <2>3. CASE a # p
    BY <1>7, <2>1, <2>3 DEF IPInv, ListedTogether, Same
  <2> QED  BY <2>2, <2>3
<1>16. ASSUME scanFailures = 0
       PROVE  CountsExact' /\ HandledWereSeen' /\ ResolveOrGo'
  <2>1. CountsExact /\ HandledWereSeen /\ ResolveOrGo
    BY <1>16 DEF IPInv
  <2>2. byPid[p] = Nil
    BY <1>2, <1>3, <2>1 DEF HandledWereSeen
  <2>3. HandledWereSeen'
    BY <1>1, <1>2, <1>4, <1>5, <1>7, <2>1 DEF HandledWereSeen
  <2>4. ASSUME NEW a \in Pids, byPid'[a] # Nil
        PROVE  byAddr'[entries'[byPid'[a]].IPAddr] = byPid'[a] \/ a \notin Listed
    <3>1. CASE a = p
      BY <1>7, <3>1
    <3>2. CASE a # p /\ entries[byPid[a]].IPAddr # proc.ip
      <4>1. byPid'[a] = byPid[a] /\ entries'[byPid[a]].IPAddr = entries[byPid[a]].IPAddr
        BY <1>7, <2>4, <3>2 DEF Same
      <4>2. byPid[a] # Nil /\ entries[byPid[a]].IPAddr \in IPs
        BY <1>3, <2>4, <4>1 DEF IPInv, PointToEntries, IPResolverTypeOK, Entry
      <4> QED  BY <1>7, <2>1, <3>2, <4>1, <4>2 DEF ResolveOrGo
    <3>3. CASE a # p /\ entries[byPid[a]].IPAddr = proc.ip /\ a \in Listed
      <4>1. byPid'[a] = byPid[a] /\ byPid[a] # Nil /\ entries'[byPid[a]].IPAddr = proc.ip
        BY <1>7, <2>4, <3>3 DEF Same
      <4>2. byAddr[proc.ip] = byPid[a]
        BY <2>1, <3>3, <4>1 DEF ResolveOrGo
      <4>3. entries[byAddr[proc.ip]].Hostname = proc.host
        BY <1>2, <1>14, <3>3, <4>1, <4>2 DEF IPInv, ListedTogether
      <4>4. byAddr[proc.ip] = r
        BY <1>6, <4>1, <4>2, <4>3 DEF Joins
      <4> QED  BY <1>7, <4>1, <4>2, <4>4
    <3> QED  BY <3>1, <3>2, <3>3
  <2>5. ResolveOrGo'
    BY <1>5, <1>14, <2>4 DEF ResolveOrGo
  <2> QED  BY <1>10, <2>1, <2>2, <2>3, <2>5
<1> QED  BY <1>2, <1>8, <1>9, <1>10, <1>11, <1>12, <1>13, <1>15, <1>16 DEF IPInv

\* The callbacks that change no entry.
LEMMA OtherCallbacksInv ==
  ASSUME IPInv, SeenBefore \/ ProcNewFails
  PROVE  IPInv'
<1>1. PICK p \in scan.left :
        /\ scan' = Visited(p)
        /\ \/ p \in scan.seenLast /\ processes' = processes \cup {p} /\ failingProcesses' = failingProcesses
           \/ /\ p \notin scan.seenLast
              /\ processes' = processes \/ processes' = processes \cup {p}
              /\ failingProcesses' \in [Pids -> 0 .. MaxRetries]
  <2>1. CASE SeenBefore
    BY <2>1 DEF SeenBefore
  <2>2. CASE ProcNewFails
    <3>1. PICK p \in scan.left \ scan.seenLast :
            LET failures == failingProcesses[p] + 1
                retry == failures <= MaxRetries
            IN /\ failingProcesses' = [failingProcesses EXCEPT ![p] = IF retry THEN failures ELSE 0]
               /\ processes' = IF retry THEN processes ELSE processes \cup {p}
               /\ scan' = Visited(p)
      BY <2>2 DEF ProcNewFails
    <3>2. scan \in Scan
      BY <2>2 DEF ProcNewFails, IPInv, IPResolverTypeOK
    <3>3. failingProcesses' \in [Pids -> 0 .. MaxRetries]
      BY <3>1, <3>2, IPResolverAssumption DEF IPInv, IPResolverTypeOK, Scan
    <3> QED  BY <3>1, <3>3
  <2> QED  BY <2>1, <2>2
<1>2. /\ scan # Nil
      /\ procs' = procs /\ spent' = spent /\ holder' = holder /\ former' = former
      /\ scanFailures' = scanFailures
      /\ entries' = entries /\ byAddr' = byAddr /\ byPid' = byPid
  BY DEF SeenBefore, ProcNewFails, node, resolver
<1>3. scan \in Scan /\ p \in Pids
  BY <1>2 DEF IPInv, IPResolverTypeOK, Scan
<1>4. /\ scan' \in Scan /\ scan'.left = scan.left \ {p} /\ scan'.seenLast = scan.seenLast
  BY <1>1, <1>3 DEF Visited, Scan
<1>5. scan' # Nil
  BY <1>4, IPResolverAssumption DEF Scan
<1>6. IPResolverTypeOK'
  BY <1>1, <1>2, <1>3, <1>4 DEF IPInv, IPResolverTypeOK
<1>7. PointToEntries' /\ AtTheirAddress' /\ CountsSuffice' /\ HoldersRun' /\ HostsHeldTheirAddress' /\ EntryAsRead'
  BY <1>2 DEF IPInv, PointToEntries, AtTheirAddress, CountsSuffice, HoldersRun,
              HostsHeldTheirAddress, EntryAsRead, Live, ProcessesOf
<1>8. Listed' \subseteq Listed
  BY <1>1, <1>2, <1>4, <1>5 DEF Listed
<1>9. ListedTogether'
  BY <1>2, <1>8 DEF IPInv, ListedTogether, Live
<1>10. ASSUME scanFailures = 0
       PROVE  CountsExact' /\ HandledWereSeen' /\ ResolveOrGo'
  <2>1. CountsExact /\ HandledWereSeen /\ ResolveOrGo
    BY <1>10 DEF IPInv
  <2>2. CountsExact'
    BY <1>2, <2>1 DEF CountsExact, ProcessesOf
  <2>3. HandledWereSeen'
    BY <1>1, <1>2, <1>4, <1>5, <2>1 DEF HandledWereSeen
  <2>4. ResolveOrGo'
    BY <1>2, <1>5, <1>8, <2>1 DEF ResolveOrGo
  <2> QED  BY <2>2, <2>3, <2>4
<1> QED  BY <1>2, <1>6, <1>7, <1>9, <1>10 DEF IPInv

\* What onProcessExit leaves behind: the entries of others, and their addresses.
LEMMA ExitKeeps ==
  ASSUME IPInv, NEW exited \in SUBSET Pids, onProcessExit(exited)
  PROVE  /\ entries' \in [Refs -> Entry \cup {Nil}]
         /\ byAddr' \in [IPs -> Refs \cup {Nil}] /\ byPid' \in [Pids -> Refs \cup {Nil}]
         /\ \A p \in Pids : byPid'[p] = IF p \in exited THEN Nil ELSE byPid[p]
         /\ \A p \in Pids : byPid'[p] # Nil => Same(byPid[p])
         /\ \A ip \in IPs : byAddr'[ip] # Nil => byAddr'[ip] = byAddr[ip] /\ Same(byAddr[ip])
         /\ \A ip \in IPs : byAddr[ip] \notin Gone(exited) => byAddr'[ip] = byAddr[ip]
         /\ \A r \in Refs : entries'[r] # Nil =>
              /\ entries[r] # Nil
              /\ entries'[r].ProcessRefCount = Count(r, exited)
<1>1. /\ byAddr \in [IPs -> Refs \cup {Nil}] /\ byPid \in [Pids -> Refs \cup {Nil}]
      /\ entries \in [Refs -> Entry \cup {Nil}]
  BY DEF IPInv, IPResolverTypeOK
<1>2. /\ byPid' = [p \in Pids |-> IF p \in exited THEN Nil ELSE byPid[p]]
      /\ byAddr' = [ip \in IPs |-> IF byAddr[ip] \in Gone(exited) THEN Nil ELSE byAddr[ip]]
  BY DEF onProcessExit
<1> DEFINE Used(r) == r \in Range(byAddr') \cup Range(byPid')
           Hit(r) == r \in {byPid[p] : p \in exited}
           Left(r) == [entries[r] EXCEPT !.ProcessRefCount = Count(r, exited)]
<1>3. entries' = [r \in Refs |-> IF ~Hit(r) THEN entries[r] ELSE IF Used(r) THEN Left(r) ELSE Nil]
  BY DEF onProcessExit
<1>4. byAddr' \in [IPs -> Refs \cup {Nil}] /\ byPid' \in [Pids -> Refs \cup {Nil}]
  BY <1>1, <1>2
<1>5. ASSUME NEW r \in Refs, Used(r)
      PROVE  entries[r] # Nil /\ entries[r] \in Entry
  <2>1. r # Nil
    BY IPResolverAssumption
  <2>2. (\E ip \in IPs : byAddr[ip] = r) \/ (\E p \in Pids : byPid[p] = r)
    BY <1>2, <1>5, <2>1 DEF Range
  <2> QED  BY <1>1, <2>1, <2>2 DEF IPInv, PointToEntries
<1>6. ASSUME NEW r \in Refs, entries[r] # Nil
      PROVE  /\ Count(r, exited) \in Nat
             /\ ~Hit(r) => Count(r, exited) = entries[r].ProcessRefCount
  <2>1. entries[r] \in Entry /\ entries[r].ProcessRefCount \in Nat
    BY <1>1, <1>6 DEF Entry
  <2> DEFINE S == {p \in exited : byPid[p] = r}
  <2>2. ProcessesOf(r) \in SUBSET Pids /\ S \in SUBSET ProcessesOf(r)
    BY DEF ProcessesOf
  <2>3. entries[r].ProcessRefCount >= Cardinality(ProcessesOf(r))
    BY <1>6 DEF IPInv, CountsSuffice
  <2>4. ~Hit(r) => S = {}
    OBVIOUS
  <2>5. Count(r, exited) = entries[r].ProcessRefCount - Cardinality(S)
    BY DEF Count
  <2> HIDE DEF S, Hit
  <2>6. Cardinality(S) \in Nat /\ Cardinality(S) <= Cardinality(ProcessesOf(r))
    BY <2>2, SetsOfPids
  <2>7. Cardinality(ProcessesOf(r)) \in Nat
    BY <2>2, SetsOfPids
  <2>8. Cardinality({}) = 0
    BY FS_EmptySet
  <2> QED  BY <2>1, <2>3, <2>4, <2>5, <2>6, <2>7, <2>8
<1>7. ASSUME NEW r \in Refs, Used(r)
      PROVE  Left(r) \in Entry /\ Same(r)
  <2>1. entries[r] # Nil /\ entries[r] \in Entry /\ Count(r, exited) \in Nat
    BY <1>5, <1>6, <1>7
  <2>2. Left(r) \in Entry
    BY <2>1 DEF Entry
  <2>3. Left(r) # Nil
    BY <2>2, IPResolverAssumption DEF Entry
  <2>4. Left(r).IPAddr = entries[r].IPAddr /\ Left(r).Hostname = entries[r].Hostname
    BY <2>1 DEF Entry
  <2> QED  BY <1>3, <1>7, <2>1, <2>2, <2>3, <2>4 DEF Same
<1>8. entries' \in [Refs -> Entry \cup {Nil}]
  BY <1>1, <1>3, <1>7
<1>9. ASSUME NEW r \in Refs, entries'[r] # Nil
      PROVE  entries[r] # Nil /\ entries'[r].ProcessRefCount = Count(r, exited)
  <2>1. CASE ~Hit(r)
    BY <1>3, <1>6, <1>9, <2>1
  <2>2. CASE Hit(r) /\ Used(r)
    <3>1. entries'[r] = Left(r) /\ entries[r] # Nil /\ entries[r] \in Entry
      BY <1>3, <1>5, <2>2
    <3> QED  BY <3>1 DEF Entry
  <2> QED  BY <1>3, <1>9, <2>1, <2>2
<1>10. \A p \in Pids : byPid'[p] # Nil => Same(byPid[p])
  <2> SUFFICES ASSUME NEW p \in Pids, byPid'[p] # Nil
               PROVE  Same(byPid[p])
    OBVIOUS
  <2>1. byPid'[p] = byPid[p] /\ byPid[p] \in Refs
    BY <1>1, <1>2
  <2>2. Used(byPid[p])
    BY <1>4, <2>1 DEF Range
  <2> QED  BY <1>7, <2>1, <2>2
<1>11. \A ip \in IPs : byAddr'[ip] # Nil => byAddr'[ip] = byAddr[ip] /\ Same(byAddr[ip])
  <2> SUFFICES ASSUME NEW ip \in IPs, byAddr'[ip] # Nil
               PROVE  byAddr'[ip] = byAddr[ip] /\ Same(byAddr[ip])
    OBVIOUS
  <2>1. byAddr'[ip] = byAddr[ip] /\ byAddr[ip] \in Refs
    BY <1>1, <1>2
  <2>2. Used(byAddr[ip])
    BY <1>4, <2>1 DEF Range
  <2> QED  BY <1>7, <2>1, <2>2
<1> QED  BY <1>2, <1>4, <1>8, <1>9, <1>10, <1>11

\* The end of a scan.
LEMMA ScanEndsInv ==
  ASSUME IPInv, ScanEnds
  PROVE  IPInv'
<1> DEFINE exited == scan.seenLast \ processes
<1>1. /\ scan # Nil /\ scan.left = {} /\ scan' = Nil
      /\ onProcessExit(exited)
      /\ procs' = procs /\ spent' = spent /\ holder' = holder /\ former' = former
      /\ processes' = processes
      /\ failingProcesses' = failingProcesses /\ scanFailures' = scanFailures
  BY DEF ScanEnds, node
<1>2. scan \in Scan /\ exited \in SUBSET Pids
      /\ byAddr \in [IPs -> Refs \cup {Nil}] /\ byPid \in [Pids -> Refs \cup {Nil}]
      /\ entries \in [Refs -> Entry \cup {Nil}]
  BY <1>1 DEF IPInv, IPResolverTypeOK, Scan
<1>3. /\ entries' \in [Refs -> Entry \cup {Nil}]
      /\ byAddr' \in [IPs -> Refs \cup {Nil}] /\ byPid' \in [Pids -> Refs \cup {Nil}]
      /\ \A p \in Pids : byPid'[p] = IF p \in exited THEN Nil ELSE byPid[p]
      /\ \A p \in Pids : byPid'[p] # Nil => Same(byPid[p])
      /\ \A ip \in IPs : byAddr'[ip] # Nil => byAddr'[ip] = byAddr[ip] /\ Same(byAddr[ip])
      /\ \A ip \in IPs : byAddr[ip] \notin Gone(exited) => byAddr'[ip] = byAddr[ip]
      /\ \A r \in Refs : entries'[r] # Nil =>
           /\ entries[r] # Nil
           /\ entries'[r].ProcessRefCount = Count(r, exited)
  BY <1>1, <1>2, ExitKeeps
<1> HIDE DEF exited
<1>4. IPResolverTypeOK'
  BY <1>1, <1>3 DEF IPInv, IPResolverTypeOK
<1>5. PointToEntries' /\ AtTheirAddress'
  BY <1>3 DEF IPInv, PointToEntries, AtTheirAddress, Same
<1>6. HoldersRun' /\ HostsHeldTheirAddress'
  BY <1>1, <1>3 DEF IPInv, HoldersRun, HostsHeldTheirAddress, Live, Same
<1>7. EntryAsRead'
  <2> SUFFICES ASSUME NEW p \in Live, byPid'[p] # Nil
               PROVE  /\ entries'[byPid'[p]].IPAddr = procs[p].ip
                      /\ entries'[byPid'[p]].Hostname = procs[p].host
    BY <1>1 DEF EntryAsRead, Live
  <2>1. p \in Pids
    BY DEF Live
  <2>2. byPid'[p] = byPid[p] /\ byPid[p] # Nil /\ Same(byPid[p])
    BY <1>3, <2>1
  <2> QED  BY <2>2 DEF IPInv, EntryAsRead, Same
<1>8. Listed' = {} /\ ListedTogether'
  BY <1>1 DEF Listed, ListedTogether
<1>9. \A r \in Refs : /\ ProcessesOf(r) \in SUBSET Pids
                      /\ {p \in exited : byPid[p] = r} \in SUBSET ProcessesOf(r)
                      /\ {p \in Pids : byPid'[p] = r} = ProcessesOf(r) \ {p \in exited : byPid[p] = r}
  BY <1>2, <1>3, IPResolverAssumption DEF ProcessesOf
<1>10. ASSUME NEW r \in Refs
       PROVE  /\ Cardinality(ProcessesOf(r)) \in Nat
              /\ Cardinality({p \in exited : byPid[p] = r}) \in Nat
              /\ Cardinality({p \in exited : byPid[p] = r}) <= Cardinality(ProcessesOf(r))
              /\ Cardinality({p \in Pids : byPid'[p] = r})
                   = Cardinality(ProcessesOf(r)) - Cardinality({p \in exited : byPid[p] = r})
              /\ {p \in Pids : byPid'[p] = r} # {} => Cardinality({p \in Pids : byPid'[p] = r}) > 0
              /\ {p \in Pids : byPid'[p] = r} = {} => Cardinality({p \in Pids : byPid'[p] = r}) = 0
  <2> DEFINE S == ProcessesOf(r)
             T == {p \in exited : byPid[p] = r}
             U == {p \in Pids : byPid'[p] = r}
  <2>1. S \in SUBSET Pids /\ T \in SUBSET S /\ U = S \ T /\ U \in SUBSET Pids
    BY <1>9
  <2> HIDE DEF S, T, U
  <2>2. /\ Cardinality(S) \in Nat /\ Cardinality(T) \in Nat /\ Cardinality(T) <= Cardinality(S)
        /\ Cardinality(U) = Cardinality(S) - Cardinality(T)
    BY <2>1, SetsOfPids
  <2>3. U # {} => Cardinality(U) > 0
    BY <2>1, SetsOfPids
  <2>4. U = {} => Cardinality(U) = 0
    BY FS_EmptySet
  <2> QED  BY <2>2, <2>3, <2>4 DEF S, T, U
<1>11. CountsSuffice'
  <2> SUFFICES ASSUME NEW r \in Refs, entries'[r] # Nil
               PROVE  entries'[r].ProcessRefCount >= Cardinality({p \in Pids : byPid'[p] = r})
    BY DEF CountsSuffice, ProcessesOf
  <2>1. entries[r] # Nil /\ entries[r].ProcessRefCount \in Nat
    BY <1>2, <1>3 DEF Entry
  <2>2. entries[r].ProcessRefCount >= Cardinality(ProcessesOf(r))
    BY <2>1 DEF IPInv, CountsSuffice
  <2>3. entries'[r].ProcessRefCount =
          entries[r].ProcessRefCount - Cardinality({p \in exited : byPid[p] = r})
    BY <1>3 DEF Count
  <2>4. /\ Cardinality(ProcessesOf(r)) \in Nat
        /\ Cardinality({p \in exited : byPid[p] = r}) \in Nat
        /\ Cardinality({p \in Pids : byPid'[p] = r})
             = Cardinality(ProcessesOf(r)) - Cardinality({p \in exited : byPid[p] = r})
    BY <1>10
  <2> QED  BY <2>1, <2>2, <2>3, <2>4
<1>12. ASSUME scanFailures = 0
       PROVE  CountsExact' /\ HandledWereSeen' /\ ResolveOrGo'
  <2>1. CountsExact /\ HandledWereSeen /\ ResolveOrGo
    BY <1>12 DEF IPInv
  <2>2. ASSUME NEW r \in Refs, entries[r] # Nil
        PROVE  /\ entries[r].ProcessRefCount \in Nat
               /\ entries[r].ProcessRefCount = Cardinality(ProcessesOf(r))
               /\ Count(r, exited) = Cardinality({p \in Pids : byPid'[p] = r})
    BY <1>2, <1>10, <2>1, <2>2 DEF CountsExact, Count, Entry
  <2>3. ASSUME NEW r \in Refs, entries'[r] # Nil
        PROVE  entries'[r].ProcessRefCount = Cardinality({p \in Pids : byPid'[p] = r})
    BY <1>3, <2>2, <2>3
  <2>4. ASSUME NEW ip \in IPs, byAddr'[ip] # Nil, {p \in Pids : byPid'[p] = byAddr'[ip]} = {}
        PROVE  FALSE
    <3> DEFINE r == byAddr[ip]
    <3>1. byAddr'[ip] = r /\ r \in Refs /\ r # Nil /\ entries[r] # Nil
      BY <1>2, <1>3, <2>4 DEF IPInv, PointToEntries
    <3>2. Count(r, exited) = 0
      BY <1>10, <2>2, <2>4, <3>1
    <3>3. PICK p \in ProcessesOf(r) : TRUE
      BY <2>1, <3>1 DEF CountsExact
    <3>4. p \in exited /\ byPid[p] = r
      BY <1>9, <2>4, <3>1, <3>3 DEF ProcessesOf
    <3>5. r \in Range([q \in exited |-> byPid[q]])
      BY <3>4 DEF Range
    <3>6. r \in Gone(exited)
      BY <3>1, <3>2, <3>5 DEF Gone
    <3>7. byAddr'[ip] = Nil
      BY <1>1, <3>6 DEF onProcessExit, exited
    <3> QED  BY <2>4, <3>7
  <2>5. CountsExact'
    BY <2>3, <2>4 DEF CountsExact, ProcessesOf
  <2>6. HandledWereSeen'
    BY <1>1, <1>3, <2>1 DEF HandledWereSeen, exited
  <2>7. ASSUME NEW p \in Pids, byPid'[p] # Nil
        PROVE  byAddr'[entries'[byPid'[p]].IPAddr] = byPid'[p]
    <3> DEFINE r == byPid[p]
               ip == entries[r].IPAddr
    <3>1. byPid'[p] = r /\ r \in Refs /\ r # Nil /\ entries[r] # Nil /\ entries'[r].IPAddr = ip
          /\ p \notin exited
      BY <1>2, <1>3, <2>7 DEF IPInv, PointToEntries, Same
    <3>2. p \in Listed /\ ip \in IPs
      BY <1>1, <1>2, <2>1, <3>1 DEF HandledWereSeen, Listed, exited, Entry
    <3>3. byAddr[ip] = r
      BY <2>1, <3>1, <3>2 DEF ResolveOrGo
    <3>4. Count(r, exited) # 0
      <4>1. {q \in Pids : byPid'[q] = r} # {}
        BY <3>1
      <4>2. Cardinality({q \in Pids : byPid'[q] = r}) > 0
        BY <1>10, <3>1, <4>1
      <4>3. Count(r, exited) = Cardinality({q \in Pids : byPid'[q] = r})
        BY <2>2, <3>1
      <4> QED  BY <4>2, <4>3
    <3>5. r \notin Gone(exited)
      BY <3>4 DEF Gone
    <3> QED  BY <1>3, <3>1, <3>2, <3>3, <3>5
  <2>8. ResolveOrGo'
    BY <2>7 DEF ResolveOrGo
  <2> QED  BY <2>5, <2>6, <2>8
<1> QED  BY <1>1, <1>4, <1>5, <1>6, <1>7, <1>8, <1>11, <1>12 DEF IPInv

\* A process starts or ends: no entry changes.
LEMMA NodeInv ==
  ASSUME IPInv, ProcessStarts \/ ProcessEnds
  PROVE  IPInv'
<1>1. /\ entries' = entries /\ byAddr' = byAddr /\ byPid' = byPid
      /\ processes' = processes /\ failingProcesses' = failingProcesses
      /\ scan' = scan /\ scanFailures' = scanFailures
  BY DEF ProcessStarts, ProcessEnds, resolver, monitor
<1>2. /\ IPResolverTypeOK /\ procs \in [Pids -> Process \cup {Nil}]
      /\ holder \in [IPs -> Hosts] /\ former \in [IPs -> SUBSET Hosts]
  BY DEF IPInv, IPResolverTypeOK
<1>3. /\ PointToEntries' /\ AtTheirAddress' /\ CountsSuffice' /\ Listed' = Listed
      /\ scanFailures = 0 => CountsExact' /\ HandledWereSeen' /\ ResolveOrGo'
  BY <1>1 DEF IPInv, PointToEntries, AtTheirAddress, CountsSuffice, ProcessesOf, Listed,
              CountsExact, HandledWereSeen, ResolveOrGo
<1>4. /\ spent' \subseteq Pids /\ procs' \in [Pids -> Process \cup {Nil}]
      /\ holder' \in [IPs -> Hosts] /\ former' \in [IPs -> SUBSET Hosts]
      /\ HoldersRun' /\ HostsHeldTheirAddress' /\ EntryAsRead' /\ ListedTogether'
  <2>1. CASE ProcessStarts
    <3>1. PICK p \in Pids, ip \in IPs, h \in Hosts :
            /\ Reusable(p)
            /\ spent' = IF PidsComeBack THEN spent ELSE spent \cup {p}
            /\ \A q \in Live : procs[q].ip = ip => procs[q].host = h
            /\ h \notin former[ip]
            /\ procs' = [procs EXCEPT ![p] = [ip |-> ip, host |-> h]]
            /\ former' = [former EXCEPT ![ip] = @ \cup ({holder[ip]} \ {h})]
            /\ holder' = [holder EXCEPT ![ip] = h]
            /\ UNCHANGED <<resolver, monitor>>
      BY <2>1, Zenon DEF ProcessStarts
    <3> DEFINE proc == [ip |-> ip, host |-> h]
    <3>2. proc \in Process /\ proc # Nil /\ proc.ip = ip /\ proc.host = h
      BY IPResolverAssumption DEF Process
    <3> HIDE DEF proc
    <3>3. /\ procs'[p] = proc
          /\ \A q \in Pids \ {p} : procs'[q] = procs[q]
          /\ Live' = Live \cup {p}
      BY <1>2, <3>1, <3>2 DEF Live, proc
    <3>4. /\ holder'[ip] = h /\ former'[ip] = former[ip] \cup ({holder[ip]} \ {h})
          /\ \A a \in IPs \ {ip} : holder'[a] = holder[a] /\ former'[a] = former[a]
      BY <1>2, <3>1
    <3>5. p \notin Listed /\ byPid[p] = Nil /\ p \notin Live
      BY <3>1 DEF Reusable, Listed, Live
    <3>6. spent' \subseteq Pids /\ procs' \in [Pids -> Process \cup {Nil}]
          /\ holder' \in [IPs -> Hosts] /\ former' \in [IPs -> SUBSET Hosts]
      BY <1>2, <3>1, <3>2 DEF IPResolverTypeOK, proc
    <3>7. HoldersRun'
      <4>1. ASSUME NEW q \in Live \cup {p}
            PROVE  procs'[q].host = holder'[procs'[q].ip]
        <5>1. CASE q = p
          BY <3>2, <3>3, <3>4, <5>1
        <5>2. CASE q # p
          <6>1. q \in Live /\ q \in Pids /\ procs[q].ip \in IPs
            BY <1>2, <4>1, <5>2 DEF Live, Process
          <6> QED  BY <3>1, <3>3, <3>4, <5>2, <6>1 DEF IPInv, HoldersRun
        <5> QED  BY <5>1, <5>2
      <4>2. ASSUME NEW a \in IPs
            PROVE  holder'[a] \notin former'[a]
        BY <3>1, <3>4 DEF IPInv, HoldersRun
      <4> QED  BY <3>3, <4>1, <4>2 DEF HoldersRun
    <3>8. HostsHeldTheirAddress'
      <4> SUFFICES ASSUME NEW a \in IPs, byAddr[a] # Nil
                   PROVE  entries[byAddr[a]].Hostname \in former'[a] \cup {holder'[a]}
        BY <1>1 DEF HostsHeldTheirAddress
      <4>1. entries[byAddr[a]].Hostname \in former[a] \cup {holder[a]}
        BY DEF IPInv, HostsHeldTheirAddress
      <4> QED  BY <3>4, <4>1
    <3>9. EntryAsRead'
      BY <1>1, <3>3, <3>5 DEF IPInv, EntryAsRead, Live
    <3>10. ListedTogether'
      <4> SUFFICES ASSUME NEW a \in Listed, NEW q \in Listed \cap Live',
                          byPid[a] # Nil, entries[byPid[a]].IPAddr = procs'[q].ip
                   PROVE  entries[byPid[a]].Hostname = procs'[q].host
        BY <1>1, <1>3 DEF ListedTogether
      <4>1. q # p /\ q \in Live /\ q \in Pids
        BY <3>3, <3>5 DEF Live
      <4> QED  BY <3>3, <4>1 DEF IPInv, ListedTogether
    <3> QED  BY <3>6, <3>7, <3>8, <3>9, <3>10
  <2>2. CASE ProcessEnds
    <3>1. PICK p \in Live : procs' = [procs EXCEPT ![p] = Nil]
      BY <2>2 DEF ProcessEnds
    <3>2. spent' = spent /\ holder' = holder /\ former' = former
      BY <2>2 DEF ProcessEnds
    <3>3. Live' = Live \ {p} /\ \A q \in Live \ {p} : procs'[q] = procs[q]
      BY <1>2, <3>1 DEF Live
    <3>4. spent' \subseteq Pids /\ procs' \in [Pids -> Process \cup {Nil}]
          /\ holder' \in [IPs -> Hosts] /\ former' \in [IPs -> SUBSET Hosts]
      BY <1>2, <3>1, <3>2 DEF IPResolverTypeOK
    <3>5. HoldersRun' /\ HostsHeldTheirAddress' /\ EntryAsRead'
      BY <1>1, <3>2, <3>3 DEF IPInv, HoldersRun, HostsHeldTheirAddress, EntryAsRead
    <3>6. ListedTogether'
      BY <1>1, <1>3, <3>3 DEF IPInv, ListedTogether
    <3> QED  BY <3>4, <3>5, <3>6
  <2> QED  BY <2>1, <2>2
<1>5. IPResolverTypeOK'
  BY <1>1, <1>2, <1>4 DEF IPResolverTypeOK
<1> QED  BY <1>1, <1>3, <1>4, <1>5 DEF IPInv

\* A scan begins with the processes that run; what is known of them is right.
LEMMA ListProcessesInv ==
  ASSUME IPInv, ListProcesses
  PROVE  IPInv' /\ Listed' = Live
<1>1. /\ scan = Nil /\ scan' = [seenLast |-> processes, left |-> Live] /\ processes' = {}
      /\ procs' = procs /\ spent' = spent /\ holder' = holder /\ former' = former
      /\ entries' = entries /\ byAddr' = byAddr /\ byPid' = byPid
      /\ failingProcesses' = failingProcesses /\ scanFailures' = scanFailures
  BY DEF ListProcesses, node, resolver
<1>2. scan' \in Scan /\ scan'.left = Live /\ scan'.seenLast = processes
  BY <1>1 DEF IPInv, IPResolverTypeOK, Scan, Live
<1>3. scan' # Nil
  BY <1>2, IPResolverAssumption DEF Scan
<1>4. IPResolverTypeOK'
  BY <1>1, <1>2 DEF IPInv, IPResolverTypeOK
<1>5. PointToEntries' /\ AtTheirAddress' /\ CountsSuffice' /\ HoldersRun' /\ HostsHeldTheirAddress' /\ EntryAsRead'
  BY <1>1 DEF IPInv, PointToEntries, AtTheirAddress, CountsSuffice, HoldersRun,
              HostsHeldTheirAddress, EntryAsRead, Live, ProcessesOf
<1>6. Listed' = Live
  BY <1>1, <1>2, <1>3 DEF Listed
<1>7. ListedTogether'
  BY <1>1, <1>6 DEF IPInv, ListedTogether, EntryAsRead, HoldersRun, Live
<1>8. ASSUME scanFailures = 0
      PROVE  CountsExact' /\ HandledWereSeen' /\ ResolveOrGo'
  BY <1>1, <1>2, <1>3, <1>8 DEF IPInv, CountsExact, HandledWereSeen, ResolveOrGo, ProcessesOf
<1> QED  BY <1>1, <1>4, <1>5, <1>6, <1>7, <1>8 DEF IPInv

LEMMA ScanFailsInv ==
  ASSUME IPInv, ScanFails
  PROVE  IPInv' /\ scanFailures' # 0
<1>1. /\ scan = Nil /\ scan' = scan /\ processes' = {} /\ scanFailures' = scanFailures + 1
      /\ scanFailures < MaxScanFailures
      /\ procs' = procs /\ spent' = spent /\ holder' = holder /\ former' = former
      /\ entries' = entries /\ byAddr' = byAddr /\ byPid' = byPid
      /\ failingProcesses' = failingProcesses
  BY DEF ScanFails, node, resolver
<1>2. scanFailures' \in 0 .. MaxScanFailures /\ scanFailures' # 0
  BY <1>1, IPResolverAssumption DEF IPInv, IPResolverTypeOK
<1>3. IPResolverTypeOK'
  BY <1>1, <1>2 DEF IPInv, IPResolverTypeOK
<1>4. PointToEntries' /\ AtTheirAddress' /\ CountsSuffice' /\ HoldersRun' /\ HostsHeldTheirAddress' /\ EntryAsRead'
  BY <1>1 DEF IPInv, PointToEntries, AtTheirAddress, CountsSuffice, HoldersRun,
              HostsHeldTheirAddress, EntryAsRead, Live, ProcessesOf
<1>5. ListedTogether'
  BY <1>1 DEF ListedTogether, Listed
<1> QED  BY <1>2, <1>3, <1>4, <1>5 DEF IPInv

LEMMA IPInitInv == IPResolverInit => IPInv
<1> SUFFICES ASSUME IPResolverInit
             PROVE  IPInv
  OBVIOUS
<1>1. /\ procs = [p \in Pids |-> Nil] /\ byPid = [p \in Pids |-> Nil]
      /\ byAddr = [ip \in IPs |-> Nil] /\ entries = [r \in Refs |-> Nil]
      /\ scan = Nil /\ processes = {} /\ scanFailures = 0
      /\ former = [ip \in IPs |-> {}]
  BY DEF IPResolverInit
<1>2. holder \in [IPs -> Hosts]
  <2>1. (CHOOSE h \in Hosts : TRUE) \in Hosts
    BY IPResolverAssumption
  <2> QED  BY <2>1 DEF IPResolverInit
<1>3. IPResolverTypeOK
  BY <1>1, <1>2, IPResolverAssumption DEF IPResolverTypeOK, IPResolverInit
<1>4. Live = {} /\ Listed = {}
  BY <1>1 DEF Live, Listed
<1>5. PointToEntries /\ AtTheirAddress /\ CountsSuffice /\ HoldersRun /\ HostsHeldTheirAddress
      /\ EntryAsRead /\ ListedTogether
  BY <1>1, <1>4 DEF PointToEntries, AtTheirAddress, CountsSuffice, HoldersRun,
                    HostsHeldTheirAddress, EntryAsRead, ListedTogether
<1>6. CountsExact /\ HandledWereSeen /\ ResolveOrGo
  BY <1>1 DEF CountsExact, HandledWereSeen, ResolveOrGo
<1> QED  BY <1>3, <1>5, <1>6 DEF IPInv

LEMMA IPStep == IPInv /\ [IPResolverNext]_resolverVars => IPInv'
<1> SUFFICES ASSUME IPInv, IPResolverNext \/ UNCHANGED resolverVars
             PROVE  IPInv'
  OBVIOUS
<1>1. CASE UNCHANGED resolverVars
  BY <1>1 DEF resolverVars, node, resolver, monitor, IPInv, IPResolverTypeOK, PointToEntries,
              AtTheirAddress, CountsSuffice, HoldersRun, HostsHeldTheirAddress, EntryAsRead,
              ListedTogether, Listed, Live, ProcessesOf, CountsExact, HandledWereSeen, ResolveOrGo
<1> QED  BY <1>1, NodeInv, ListProcessesInv, ProcNewInv, OtherCallbacksInv, ScanFailsInv, ScanEndsInv
         DEF IPResolverNext, Callbacks

-----------------------------------------------------------------------------
(* Theorems about the map from addresses to host names.                    *)

LEMMA IPInvAlways == IPResolverSpec => []IPInv
BY IPInitInv, IPStep, PTL DEF IPResolverSpec

\* As long as /proc can be read, the count of an entry is that of the processes that
\* point to it, and no address stays mapped to an entry without a process, through
\* replaced mappings, processes given up and any order of starts, ends and scans.
THEOREM CountsAlwaysFollow == IPResolverSpec => []CountsFollowProcesses
<1>1. IPInv => CountsFollowProcesses
  BY DEF IPInv, CountsFollowProcesses, CountsExact, AtTheirAddress
<1> QED  BY <1>1, IPInvAlways, PTL

\* As long as /proc can be read, between scans every process that was read resolves to
\* its own entry: dropping an older pod's entry never takes the address of a newer one.
THEOREM HandledAlwaysResolve == IPResolverSpec => []HandledProcessesResolve
<1>1. IPInv => HandledProcessesResolve
  BY DEF IPInv, HandledProcessesResolve, ResolveOrGo
<1> QED  BY <1>1, IPInvAlways, PTL

-----------------------------------------------------------------------------
(* The invariant of captures.                                              *)

CapturedMaps == UNION {[S -> Captured] : S \in SUBSET UniqueRequest}
Pending == [packet: Packets, srcIp: IPs, srcHostname: Hosts]

CaptureTypes ==
  /\ isRunningOnAWS \in BOOLEAN
  /\ loop \in Loop
  /\ handled \in 0 .. MaxPackets
  /\ pending \in [Collectors -> SUBSET Pending]
  /\ capturedRequests \in [Collectors -> CapturedMaps]
  /\ sent \in [Collectors -> SUBSET Packets]
  /\ truth \in [Packets -> SUBSET Hosts]

ScansWhileRefreshing == scan # Nil <=> loop.at \in Collectors

\* What has become of a packet: it belongs to one collector and is in one place.
Kept(c, n) == Held(c, n) \/ n \in sent[c]
PacketsInOnePlace ==
  /\ \A c \in Collectors, n \in Packets : Kept(c, n) => n <= handled
  /\ \A c, d \in Collectors, n \in Packets : Kept(c, n) /\ Kept(d, n) => c = d
  /\ \A c \in Collectors : \A p \in pending[c] : p.packet \notin PacketsIn(capturedRequests[c])
  /\ ReportedOnce

\* The entry of a process that was handled is this one.
HasEntry(p, ip, host) ==
  byPid[p] # Nil /\ entries[byPid[p]].IPAddr = ip /\ entries[byPid[p]].Hostname = host

\* A pending capture names the host that held the address, or one that held it before
\* and of which no process is listed in the scan that decides.
PendingHosts ==
  \A c \in Collectors : \A k \in pending[c] :
    \/ k.srcHostname \in truth[k.packet]
    \/ /\ k.srcHostname \in former[k.srcIp]
       /\ \A p \in Listed : ~HasEntry(p, k.srcIp, k.srcHostname)

SniffInv ==
  /\ IPInv
  /\ CaptureTypes
  /\ ScansWhileRefreshing
  /\ PacketsInOnePlace
  /\ HostHeldAddress
  /\ scanFailures = 0 => PendingHosts

-----------------------------------------------------------------------------
(* What is recorded.                                                       *)

\* Some packets have a last one.
LEMMA LastPacket ==
  ASSUME NEW S \in SUBSET Packets, S # {}
  PROVE  \E n \in S : \A k \in S : k <= n
<1> DEFINE T == {MaxPackets - n : n \in S}
<1>1. T \subseteq Nat /\ T # {}
  <2>1. \A n \in S : MaxPackets - n \in Nat
    BY SnifferAssumption DEF Packets
  <2>2. T # {}
    OBVIOUS
  <2> QED  BY <2>1, <2>2
<1> DEFINE R == OpToRel(<, Nat)
<1>2. PICK x \in T : \A y \in T : ~ (<<y, x>> \in R)
  <2> HIDE DEF T, R
  <2> QED  BY <1>1, NatLessThanWellFounded, WFMin DEF R
<1>3. \A y \in T : ~ (y < x)
  BY <1>1, <1>2 DEF OpToRel
<1>4. PICK n \in S : x = MaxPackets - n
  BY <1>2
<1>5. \A k \in S : k <= n
  BY <1>3, <1>4, SnifferAssumption DEF Packets
<1> QED  BY <1>5

LEMMA PacketsOfRequests ==
  \A f, n : n \in PacketsIn(f) <=> \E req \in DOMAIN f : n \in PacketsOf(f[req])
BY DEF PacketsIn

LEMMA MapsOfCaptures ==
  ASSUME NEW f
  PROVE  f \in CapturedMaps <=>
           /\ f = [req \in DOMAIN f |-> f[req]]
           /\ DOMAIN f \subseteq UniqueRequest
           /\ \A req \in DOMAIN f : f[req] \in Captured
<1>1. ASSUME f \in CapturedMaps
      PROVE  /\ f = [req \in DOMAIN f |-> f[req]]
             /\ DOMAIN f \subseteq UniqueRequest
             /\ \A req \in DOMAIN f : f[req] \in Captured
  <2>1. PICK S \in SUBSET UniqueRequest : f \in [S -> Captured]
    BY <1>1 DEF CapturedMaps
  <2> QED  BY <2>1
<1>2. ASSUME f = [req \in DOMAIN f |-> f[req]], DOMAIN f \subseteq UniqueRequest,
             \A req \in DOMAIN f : f[req] \in Captured
      PROVE  f \in CapturedMaps
  <2>1. f \in [DOMAIN f -> Captured]
    BY <1>2
  <2> QED  BY <1>2, <2>1 DEF CapturedMaps
<1> QED  BY <1>1, <1>2

\* A packet without a host name is recorded beside the others.
LEMMA AddedRequest ==
  ASSUME NEW requests \in CapturedMaps, NEW c \in Collectors, NEW req \in UniqueRequest,
         NEW n \in Packets
  PROVE  LET added == addCapturedRequest(requests, c, req, n)
         IN  /\ added \in CapturedMaps
             /\ DOMAIN added = DOMAIN requests \cup {req}
             /\ \A r \in DOMAIN requests \ {req} : added[r] = requests[r]
             /\ \A m \in PacketsIn(added) : m = n \/ m \in PacketsIn(requests)
<1> DEFINE ports == (IF req \in DOMAIN requests THEN requests[req].srcPorts ELSE {}) \cup Ports(c, n)
           data == [lastSeen |-> n, srcPorts |-> ports]
           added == [r \in DOMAIN requests \cup {req} |-> IF r = req THEN data ELSE requests[r]]
<1>1. /\ DOMAIN requests \subseteq UniqueRequest
      /\ \A r \in DOMAIN requests : requests[r] \in Captured
  BY MapsOfCaptures
<1>2. added = addCapturedRequest(requests, c, req, n)
  BY DEF addCapturedRequest
<1>3. data \in Captured /\ \A m : m \in PacketsOf(data) => m = n \/ (req \in DOMAIN requests /\ m \in PacketsOf(requests[req]))
  BY <1>1 DEF Captured, Ports, PacketsOf
<1> HIDE DEF data
<1>4. added \in CapturedMaps
  BY <1>1, <1>3, MapsOfCaptures
<1>5. ASSUME NEW m \in PacketsIn(added)
      PROVE  m = n \/ m \in PacketsIn(requests)
  <2>1. PICK r \in DOMAIN added : m \in PacketsOf(added[r])
    BY PacketsOfRequests
  <2> QED  BY <1>3, <2>1, PacketsOfRequests
<1> QED  BY <1>2, <1>4, <1>5

\* What a refresh records: the packets of the captures that were verified, each
\* under its own address and host name, beside those recorded before.
LEMMA RecordedRequests ==
  ASSUME CaptureTypes, NEW c \in Collectors, NEW verified \in SUBSET pending[c]
  PROVE  /\ Recorded(c, verified) \in CapturedMaps
         /\ \A req \in DOMAIN Recorded(c, verified) : \A n : n \in PacketsOf(Recorded(c, verified)[req]) =>
              \/ req \in DOMAIN capturedRequests[c] /\ n \in PacketsOf(capturedRequests[c][req])
              \/ \E k \in verified :
                   k.packet = n /\ k.srcIp = req.srcIP /\ k.srcHostname = req.srcHostname
<1> DEFINE requests == capturedRequests[c]
           reqs == {[srcIP |-> p.srcIp, srcHostname |-> p.srcHostname] : p \in verified}
           of(req) == {p.packet : p \in {q \in verified :
                         q.srcIp = req.srcIP /\ q.srcHostname = req.srcHostname}}
           last(req) == CHOOSE n \in of(req) : \A k \in of(req) : k <= n
           old(req) == IF req \in DOMAIN requests THEN requests[req].srcPorts ELSE {}
           data(req) == [lastSeen |-> last(req),
                         srcPorts |-> old(req) \cup UNION {Ports(c, n) : n \in of(req)}]
           all == [req \in reqs \cup DOMAIN requests |->
                     IF req \in reqs THEN data(req) ELSE requests[req]]
<1>1. /\ DOMAIN requests \subseteq UniqueRequest
      /\ \A r \in DOMAIN requests : requests[r] \in Captured
      /\ verified \in SUBSET Pending
  BY MapsOfCaptures DEF CaptureTypes
<1>2. Recorded(c, verified) = all
  BY DEF Recorded
<1>3. ASSUME NEW req \in reqs
      PROVE  /\ req \in UniqueRequest
             /\ data(req) \in Captured
             /\ \A n : n \in PacketsOf(data(req)) =>
                  n \in of(req) \/ (req \in DOMAIN requests /\ n \in PacketsOf(requests[req]))
  <2>1. PICK p \in verified : req = [srcIP |-> p.srcIp, srcHostname |-> p.srcHostname]
    BY <1>3
  <2>2. p \in Pending /\ req \in UniqueRequest /\ p.packet \in of(req)
    BY <1>1, <2>1 DEF Pending, UniqueRequest
  <2>3. of(req) \in SUBSET Packets /\ of(req) # {}
    BY <1>1, <2>2 DEF Pending
  <2> HIDE DEF of
  <2>4. last(req) \in of(req)
    BY <2>3, LastPacket
  <2> HIDE DEF last
  <2>5. UNION {Ports(c, n) : n \in of(req)} \subseteq of(req)
    BY DEF Ports
  <2>6. old(req) \subseteq Packets
    BY <1>1 DEF Captured
  <2>7. data(req) \in Captured
    BY <2>3, <2>4, <2>5, <2>6 DEF Captured
  <2>8. \A n : n \in PacketsOf(data(req)) =>
          n \in of(req) \/ (req \in DOMAIN requests /\ n \in PacketsOf(requests[req]))
    BY <2>4, <2>5 DEF PacketsOf
  <2> QED  BY <2>2, <2>7, <2>8
<1> HIDE DEF data, requests
<1>4. all \in CapturedMaps
  <2>1. DOMAIN all \subseteq UniqueRequest
    BY <1>1, <1>3 DEF requests
  <2>2. \A req \in DOMAIN all : all[req] \in Captured
    BY <1>1, <1>3 DEF requests
  <2> HIDE DEF reqs
  <2> QED  BY <2>1, <2>2, MapsOfCaptures
<1>5. ASSUME NEW req \in DOMAIN all, NEW n, n \in PacketsOf(all[req])
      PROVE  \/ req \in DOMAIN requests /\ n \in PacketsOf(requests[req])
             \/ \E k \in verified :
                  k.packet = n /\ k.srcIp = req.srcIP /\ k.srcHostname = req.srcHostname
  <2>1. CASE req \in reqs
    BY <1>3, <1>5, <2>1
  <2>2. CASE req \notin reqs
    BY <1>5, <2>2
  <2> QED  BY <2>1, <2>2
<1> QED  BY <1>2, <1>4, <1>5 DEF requests

-----------------------------------------------------------------------------
(* The invariant of captures is inductive.                                 *)

\* What is left alone with the captures.
LEMMA CapturesAlone ==
  ASSUME UNCHANGED <<handled, captures, sent, truth>>, SniffInv
  PROVE  /\ PacketsInOnePlace'
         /\ (scanFailures' = 0 => scanFailures = 0) => HostHeldAddress'
         /\ isRunningOnAWS' = isRunningOnAWS /\ loop' \in Loop => CaptureTypes'
BY DEF captures, SniffInv, PacketsInOnePlace, ReportedOnce, Kept, Held, PacketsIn, PacketsOf,
       HostHeldAddress, CaptureTypes

\* Callbacks list no further process, and those they handle have the host name that
\* holds their address.
LEMMA CallbacksList ==
  ASSUME IPInv, Callbacks
  PROVE  /\ scan # Nil /\ scan' # Nil /\ former' = former /\ scanFailures' = scanFailures
         /\ \A p \in Listed' :
              p \in Listed /\ \A ip, host : HasEntry(p, ip, host)' =>
                                HasEntry(p, ip, host) \/ (ip \in IPs /\ host = holder[ip])
<1>1. scan # Nil /\ former' = former /\ scanFailures' = scanFailures
  BY DEF Callbacks, SeenBefore, ProcNew, ProcNewFails, node
<1>2. scan \in Scan
  BY <1>1 DEF IPInv, IPResolverTypeOK
<1>3. PICK p \in scan.left : scan' = Visited(p) /\ (processes' = processes \/ processes' = processes \cup {p})
  <2>1. CASE SeenBefore
    BY <2>1 DEF SeenBefore
  <2>2. CASE ProcNew
    BY <2>2 DEF ProcNew
  <2>3. CASE ProcNewFails
    BY <2>3 DEF ProcNewFails
  <2> QED  BY <2>1, <2>2, <2>3 DEF Callbacks
<1>4. scan' \in Scan /\ scan'.left = scan.left \ {p}
  BY <1>2, <1>3 DEF Visited, Scan
<1>5. scan' # Nil
  BY <1>4, IPResolverAssumption DEF Scan
<1>6. Listed' \subseteq Listed /\ Listed \subseteq Pids
  BY <1>1, <1>2, <1>3, <1>4, <1>5 DEF Listed, Scan, IPInv, IPResolverTypeOK
<1>7. ASSUME NEW a \in Listed', NEW ip, NEW host, HasEntry(a, ip, host)'
      PROVE  HasEntry(a, ip, host) \/ (ip \in IPs /\ host = holder[ip])
  <2>1. CASE SeenBefore \/ ProcNewFails
    BY <1>7, <2>1 DEF SeenBefore, ProcNewFails, resolver, HasEntry
  <2>2. CASE ProcNew
    <3>1. PICK q \in (scan.left \ scan.seenLast) \cap Live : onProcessNew(q, procs[q])
      BY <2>2 DEF ProcNew
    <3>2. q \in Pids /\ procs[q] \in Process /\ procs[q].host = holder[procs[q].ip]
      BY <3>1 DEF Live, IPInv, IPResolverTypeOK, HoldersRun
    <3>3. PICK r \in Refs : Joins(q, procs[q], r)
      BY <3>1, <3>2, NewJoins
    <3>4. /\ byPid'[q] = r
          /\ entries'[r].IPAddr = procs[q].ip /\ entries'[r].Hostname = procs[q].host
          /\ \A x \in Pids \ {q} : byPid'[x] = byPid[x] /\ (byPid[x] # Nil => Same(byPid[x]))
      BY <3>2, <3>3, JoiningKeeps
    <3> QED  BY <1>6, <1>7, <3>2, <3>4 DEF HasEntry, Same, Process
  <2> QED  BY <2>1, <2>2 DEF Callbacks
<1> QED  BY <1>1, <1>5, <1>6, <1>7

LEMMA NodeStepInv ==
  ASSUME SniffInv, Node
  PROVE  SniffInv'
<1>1. IPInv'
  BY NodeInv DEF Node, SniffInv
<1>2. /\ entries' = entries /\ byPid' = byPid /\ processes' = processes /\ scan' = scan
      /\ scanFailures' = scanFailures /\ loop' = loop /\ isRunningOnAWS' = isRunningOnAWS
      /\ pending' = pending /\ truth' = truth
  BY DEF Node, ProcessStarts, ProcessEnds, resolver, monitor, captures
<1>3. CaptureTypes' /\ PacketsInOnePlace' /\ HostHeldAddress'
  BY <1>2, CapturesAlone DEF Node, SniffInv, CaptureTypes
<1>4. ScansWhileRefreshing'
  BY <1>2 DEF SniffInv, ScansWhileRefreshing
<1>5. \A ip \in IPs : former[ip] \subseteq former'[ip]
  <2>1. CASE ProcessEnds
    BY <2>1 DEF ProcessEnds
  <2>2. CASE ProcessStarts
    <3>1. PICK ip \in IPs, h \in Hosts :
            former' = [former EXCEPT ![ip] = @ \cup ({holder[ip]} \ {h})]
      BY <2>2 DEF ProcessStarts
    <3> QED  BY <3>1 DEF SniffInv, IPInv, IPResolverTypeOK
  <2> QED  BY <2>1, <2>2 DEF Node
<1>6. ASSUME PendingHosts
      PROVE  PendingHosts'
  <2> SUFFICES ASSUME NEW c \in Collectors, NEW k \in pending[c]
               PROVE  \/ k.srcHostname \in truth[k.packet]
                      \/ /\ k.srcHostname \in former'[k.srcIp]
                         /\ \A p \in Listed : ~HasEntry(p, k.srcIp, k.srcHostname)
    BY <1>2 DEF PendingHosts, Listed, HasEntry
  <2>1. k.srcIp \in IPs
    BY DEF SniffInv, CaptureTypes, Pending
  <2> QED  BY <1>5, <1>6, <2>1 DEF PendingHosts
<1> QED  BY <1>1, <1>2, <1>3, <1>4, <1>6 DEF SniffInv

LEMMA AfterRefreshType ==
  ASSUME NEW c \in Collectors, NEW reporting \in BOOLEAN
  PROVE  AfterRefresh(c, reporting) \in Loop /\ AfterRefresh(c, reporting).at \notin Collectors
BY DEF AfterRefresh, Loop, Select, Collectors

\* The begin of a refresh: a host that does not hold its address any more is not listed.
LEMMA RefreshInv ==
  ASSUME SniffInv, NEW c \in Collectors, NEW reporting \in BOOLEAN, Refresh(c, reporting)
  PROVE  SniffInv'
<1>1. isRunningOnAWS' = isRunningOnAWS /\ UNCHANGED <<handled, captures, sent, truth>>
  BY DEF Refresh
<1>2. CASE ListProcesses /\ loop' = [at |-> c, reporting |-> reporting]
  <2>1. IPInv' /\ Listed' = Live
    BY <1>2, ListProcessesInv DEF SniffInv
  <2>2. /\ scan' = [seenLast |-> processes, left |-> Live]
        /\ procs' = procs /\ former' = former /\ scanFailures' = scanFailures
        /\ entries' = entries /\ byPid' = byPid
    BY <1>2 DEF ListProcesses, node, resolver
  <2>3. scan' # Nil
    BY <2>2, IPResolverAssumption DEF SniffInv, IPInv, IPResolverTypeOK, Live
  <2>4. loop' \in Loop /\ loop'.at \in Collectors
    BY <1>2 DEF Loop
  <2>5. CaptureTypes' /\ PacketsInOnePlace' /\ HostHeldAddress'
    BY <1>1, <2>2, <2>4, CapturesAlone
  <2>6. ASSUME PendingHosts
        PROVE  PendingHosts'
    <3> SUFFICES ASSUME NEW d \in Collectors, NEW k \in pending[d],
                        k.srcHostname \in former[k.srcIp],
                        NEW p \in Live, HasEntry(p, k.srcIp, k.srcHostname)
                 PROVE  FALSE
      BY <1>1, <2>1, <2>2, <2>6 DEF PendingHosts, captures, HasEntry
    <3>1. k.srcIp = procs[p].ip /\ k.srcHostname = procs[p].host /\ k.srcIp \in IPs
      BY DEF SniffInv, IPInv, EntryAsRead, HasEntry, CaptureTypes, Pending
    <3> QED  BY <3>1 DEF SniffInv, IPInv, HoldersRun
  <2> QED  BY <2>1, <2>2, <2>3, <2>4, <2>5, <2>6 DEF SniffInv, ScansWhileRefreshing
<1>3. CASE ScanFails /\ loop' = AfterRefresh(c, reporting)
  <2>1. IPInv' /\ scanFailures' # 0
    BY <1>3, ScanFailsInv DEF SniffInv
  <2>2. scan = Nil /\ scan' = Nil
    BY <1>3 DEF ScanFails
  <2>3. loop' \in Loop /\ loop'.at \notin Collectors
    BY <1>3, AfterRefreshType
  <2>4. CaptureTypes' /\ PacketsInOnePlace' /\ HostHeldAddress'
    BY <1>1, <2>1, <2>3, CapturesAlone
  <2> QED  BY <2>1, <2>2, <2>3, <2>4 DEF SniffInv, ScansWhileRefreshing
<1> QED  BY <1>2, <1>3 DEF Refresh

LEMMA ScanningInv ==
  ASSUME SniffInv, Scanning
  PROVE  SniffInv'
<1>1. isRunningOnAWS' = isRunningOnAWS /\ loop' = loop /\ UNCHANGED <<handled, captures, sent, truth>>
  BY DEF Scanning
<1>2. IPInv'
  BY ProcNewInv, OtherCallbacksInv DEF Scanning, Callbacks, SniffInv
<1>3. /\ scan # Nil /\ scan' # Nil /\ former' = former /\ scanFailures' = scanFailures
      /\ \A p \in Listed' :
           p \in Listed /\ \A ip, host : HasEntry(p, ip, host)' =>
                             HasEntry(p, ip, host) \/ (ip \in IPs /\ host = holder[ip])
  BY CallbacksList DEF Scanning, SniffInv
<1>4. CaptureTypes' /\ PacketsInOnePlace' /\ HostHeldAddress'
  BY <1>1, <1>3, CapturesAlone DEF SniffInv, CaptureTypes
<1>5. ScansWhileRefreshing'
  BY <1>1, <1>3 DEF SniffInv, ScansWhileRefreshing
<1>6. ASSUME PendingHosts
      PROVE  PendingHosts'
  <2> SUFFICES ASSUME NEW d \in Collectors, NEW k \in pending[d],
                      k.srcHostname \notin truth[k.packet],
                      NEW p \in Listed', HasEntry(p, k.srcIp, k.srcHostname)'
               PROVE  FALSE
    BY <1>1, <1>3, <1>6 DEF PendingHosts, captures
  <2>1. /\ k.srcHostname \in former[k.srcIp]
        /\ \A q \in Listed : ~HasEntry(q, k.srcIp, k.srcHostname)
    BY <1>6 DEF PendingHosts
  <2>2. k.srcIp \in IPs /\ k.srcHostname = holder[k.srcIp]
    BY <1>3, <2>1
  <2> QED  BY <2>1, <2>2 DEF SniffInv, IPInv, HoldersRun
<1> QED  BY <1>2, <1>3, <1>4, <1>5, <1>6 DEF SniffInv

\* A step that at most adds a packet that was not there keeps packets in one place.
LEMMA OnePlaceKept ==
  ASSUME PacketsInOnePlace, handled \in Nat, sent \in [Collectors -> SUBSET Packets], sent' = sent,
         handled' \in {handled, handled + 1},
         \A c \in Collectors, n \in Packets : Held(c, n)' => Held(c, n) \/ n > handled,
         \A c \in Collectors, n \in Packets : Held(c, n)' => n <= handled',
         \A c, d \in Collectors, n \in Packets :
           n > handled /\ Held(c, n)' /\ Held(d, n)' => c = d,
         \A c \in Collectors : \A p \in pending'[c] : p.packet \notin PacketsIn(capturedRequests'[c])
  PROVE  PacketsInOnePlace'
<1>1. ASSUME NEW c \in Collectors, NEW n \in Packets, Kept(c, n)'
      PROVE  n <= handled' /\ (Kept(c, n) \/ (n > handled /\ Held(c, n)'))
  BY <1>1, SnifferAssumption DEF Kept, PacketsInOnePlace, Packets
<1>2. ASSUME NEW c \in Collectors, NEW n \in Packets, Kept(c, n)
      PROVE  ~(n > handled)
  BY <1>2, SnifferAssumption DEF PacketsInOnePlace, Packets
<1>3. ASSUME NEW c \in Collectors, NEW d \in Collectors, NEW n \in Packets, Kept(c, n)', Kept(d, n)'
      PROVE  c = d
  BY <1>1, <1>2, <1>3 DEF PacketsInOnePlace
<1>4. ReportedOnce'
  <2> SUFFICES ASSUME NEW c \in Collectors, NEW n \in sent[c], Held(c, n)'
               PROVE  FALSE
    BY DEF ReportedOnce
  <2>1. n \in Packets
    OBVIOUS
  <2> QED  BY <1>1, <1>2, <2>1 DEF Kept, PacketsInOnePlace, ReportedOnce
<1> QED  BY <1>1, <1>3, <1>4 DEF PacketsInOnePlace

\* A packet is handled: its source, if it resolves, names a host that holds the address
\* or held it before.
LEMMA HandlePacketInv ==
  ASSUME SniffInv, NEW c \in Collectors, NEW ip \in IPs, HandlePacket(c, ip)
  PROVE  SniffInv'
<1> DEFINE n == handled + 1
           host == ResolveIP(ip)
           k == [packet |-> n, srcIp |-> ip, srcHostname |-> host]
           req == [srcIP |-> ip, srcHostname |-> Nil]
<1>1. /\ loop = Select /\ loop' = loop /\ n \in Packets /\ handled' = n
      /\ truth' = [truth EXCEPT ![n] = IF host = Nil THEN {} ELSE {holder[ip]}]
      /\ isRunningOnAWS' = isRunningOnAWS /\ sent' = sent
      /\ UNCHANGED <<node, resolver, monitor>>
  BY DEF HandlePacket
<1>2. /\ former' = former /\ entries' = entries /\ byPid' = byPid
      /\ processes' = processes /\ scan' = scan /\ scanFailures' = scanFailures
  BY <1>1 DEF node, resolver, monitor
<1>3. \/ /\ capturedRequests' = [capturedRequests EXCEPT ![c] = addCapturedRequest(@, c, req, n)]
         /\ pending' = pending
      \/ /\ host # Nil /\ pending' = [pending EXCEPT ![c] = @ \cup {k}]
         /\ capturedRequests' = capturedRequests
      \/ pending' = pending /\ capturedRequests' = capturedRequests
  BY DEF HandlePacket, Record, captures
<1>4. IPInv'
  BY <1>1, IPStep DEF SniffInv, resolverVars
<1>5. /\ loop \in Loop /\ handled \in 0 .. MaxPackets
      /\ pending \in [Collectors -> SUBSET Pending]
      /\ capturedRequests \in [Collectors -> CapturedMaps]
      /\ sent \in [Collectors -> SUBSET Packets]
      /\ truth \in [Packets -> SUBSET Hosts]
      /\ byAddr \in [IPs -> Refs \cup {Nil}] /\ entries \in [Refs -> Entry \cup {Nil}]
      /\ holder \in [IPs -> Hosts]
  BY DEF SniffInv, CaptureTypes, IPInv, IPResolverTypeOK
<1>6. host # Nil => host \in Hosts /\ host \in former[ip] \cup {holder[ip]}
  <2> SUFFICES ASSUME host # Nil
               PROVE  host \in Hosts /\ host \in former[ip] \cup {holder[ip]}
    OBVIOUS
  <2>1. byAddr[ip] # Nil /\ host = entries[byAddr[ip]].Hostname
    BY DEF ResolveIP
  <2>2. byAddr[ip] \in Refs /\ entries[byAddr[ip]] \in Entry
    BY <1>5, <2>1 DEF SniffInv, IPInv, PointToEntries
  <2> QED  BY <2>1, <2>2 DEF SniffInv, IPInv, HostsHeldTheirAddress, Entry
<1>7. req \in UniqueRequest /\ (host # Nil => k \in Pending)
  BY <1>1, <1>6 DEF UniqueRequest, Pending
<1>8. /\ pending' \in [Collectors -> SUBSET Pending]
      /\ capturedRequests' \in [Collectors -> CapturedMaps]
      /\ \A d \in Collectors : \A p \in pending'[d] : p \in pending[d] \/ (d = c /\ p = k /\ host # Nil)
      /\ \A d \in Collectors : \A m \in PacketsIn(capturedRequests'[d]) :
           m \in PacketsIn(capturedRequests[d])
           \/ (d = c /\ m = n /\ pending' = pending)
      /\ \A d \in Collectors : \A r \in DOMAIN capturedRequests'[d] :
           \/ r.srcHostname = Nil
           \/ r \in DOMAIN capturedRequests[d] /\ capturedRequests'[d][r] = capturedRequests[d][r]
  <2> DEFINE added == addCapturedRequest(capturedRequests[c], c, req, n)
  <2>1. capturedRequests[c] \in CapturedMaps
    BY <1>5
  <2>2. /\ added \in CapturedMaps
        /\ DOMAIN added = DOMAIN capturedRequests[c] \cup {req}
        /\ \A r \in DOMAIN capturedRequests[c] \ {req} : added[r] = capturedRequests[c][r]
        /\ \A m \in PacketsIn(added) : m = n \/ m \in PacketsIn(capturedRequests[c])
    BY <1>1, <1>7, <2>1, AddedRequest
  <2>3. req.srcHostname = Nil
    OBVIOUS
  <2> HIDE DEF added, k, req, n
  <2>4. CASE capturedRequests' = [capturedRequests EXCEPT ![c] = added] /\ pending' = pending
    BY <1>5, <2>2, <2>3, <2>4
  <2>5. CASE host # Nil /\ pending' = [pending EXCEPT ![c] = @ \cup {k}]
             /\ capturedRequests' = capturedRequests
    BY <1>5, <1>7, <2>5
  <2>6. CASE pending' = pending /\ capturedRequests' = capturedRequests
    BY <1>5, <2>6
  <2> QED  BY <1>3, <2>4, <2>5, <2>6 DEF added
<1>9. k.packet = n /\ k.srcIp = ip /\ k.srcHostname = host
  OBVIOUS
<1> HIDE DEF k, req
<1>10. CaptureTypes'
  BY <1>1, <1>5, <1>8, SnifferAssumption DEF CaptureTypes, SniffInv, Packets
<1>11. ScansWhileRefreshing' /\ scan = Nil /\ Listed' = {}
  BY <1>1, <1>2 DEF SniffInv, ScansWhileRefreshing, Select, Collectors, Listed
<1>12. \A d \in Collectors, m \in Packets : Kept(d, m) => m <= handled /\ m # n
  BY <1>5, SnifferAssumption DEF SniffInv, PacketsInOnePlace, Packets
<1>13. PacketsInOnePlace'
  <2>1. ASSUME NEW d \in Collectors, NEW m \in Packets, Held(d, m)'
        PROVE  Held(d, m) \/ (d = c /\ m = n)
    BY <1>8, <1>9, <2>1 DEF Held
  <2>2. ASSUME NEW d \in Collectors, NEW p \in pending'[d], p.packet \in PacketsIn(capturedRequests'[d])
        PROVE  FALSE
    <3>1. p \in Pending /\ p.packet \in Packets
      BY <1>8, <2>2 DEF Pending
    <3>2. CASE p \in pending[d]
      <4>1. p.packet \notin PacketsIn(capturedRequests[d])
        BY <3>2 DEF SniffInv, PacketsInOnePlace
      <4>2. Kept(d, p.packet)
        BY <3>2 DEF Kept, Held
      <4> QED  BY <1>8, <1>12, <2>2, <3>1, <4>1, <4>2
    <3>3. CASE p \notin pending[d]
      <4>1. d = c /\ p.packet = n /\ pending' # pending
        BY <1>8, <1>9, <2>2, <3>3
      <4>2. Kept(d, p.packet)
        BY <1>8, <2>2, <4>1 DEF Kept, Held
      <4> QED  BY <1>12, <3>1, <4>1, <4>2
    <3> QED  BY <3>2, <3>3
  <2>3. handled \in Nat /\ n > handled
    BY <1>5
  <2>4. \A d \in Collectors, m \in Packets : Held(d, m)' => Held(d, m) \/ m > handled
    BY <2>1, <2>3
  <2>5. \A d \in Collectors, m \in Packets : Held(d, m)' => m <= handled'
    <3> SUFFICES ASSUME NEW d \in Collectors, NEW m \in Packets, Held(d, m)'
                 PROVE  m <= n
      BY <1>1
    <3>1. CASE Held(d, m)
      <4>1. m <= handled
        BY <1>12, <3>1 DEF Kept
      <4> QED  BY <1>5, <4>1, SnifferAssumption DEF Packets
    <3>2. CASE m = n
      BY <2>3, <3>2
    <3> QED  BY <2>1, <3>1, <3>2
  <2>6. \A d, e \in Collectors, m \in Packets :
          m > handled /\ Held(d, m)' /\ Held(e, m)' => d = e
    <3> SUFFICES ASSUME NEW d \in Collectors, NEW e \in Collectors, NEW m \in Packets,
                        m > handled, Held(d, m)', Held(e, m)'
                 PROVE  d = e
      OBVIOUS
    <3>1. ~Held(d, m) /\ ~Held(e, m)
      BY <1>5, <1>12, SnifferAssumption DEF Kept, Packets
    <3> QED  BY <2>1, <3>1
  <2> HIDE DEF n
  <2>7. handled' \in {handled, handled + 1}
    BY <1>1 DEF n
  <2> QED  BY <1>1, <1>5, <2>2, <2>3, <2>4, <2>5, <2>6, <2>7, OnePlaceKept DEF SniffInv
<1>14. HostHeldAddress'
  <2> SUFFICES ASSUME scanFailures = 0, NEW d \in Collectors, NEW r \in DOMAIN capturedRequests'[d],
                      r.srcHostname # Nil, NEW m \in PacketsOf(capturedRequests'[d][r])
               PROVE  r.srcHostname \in truth'[m]
    BY <1>2 DEF HostHeldAddress
  <2>1. r \in DOMAIN capturedRequests[d] /\ capturedRequests'[d][r] = capturedRequests[d][r]
    BY <1>8
  <2>2. r.srcHostname \in truth[m]
    BY <2>1 DEF SniffInv, HostHeldAddress
  <2>3. capturedRequests[d][r] \in Captured
    BY <1>5, <2>1, MapsOfCaptures
  <2>4. m \in Packets /\ m \in PacketsIn(capturedRequests[d])
    BY <2>1, <2>3, PacketsOfRequests DEF PacketsOf, Captured
  <2>5. m # n
    BY <1>12, <2>4 DEF Kept, Held
  <2> QED  BY <1>1, <1>5, <2>2, <2>4, <2>5
<1>15. ASSUME PendingHosts
       PROVE  PendingHosts'
  <2> SUFFICES ASSUME NEW d \in Collectors, NEW p \in pending'[d]
               PROVE  p.srcHostname \in truth'[p.packet] \/ p.srcHostname \in former[p.srcIp]
    BY <1>2, <1>11 DEF PendingHosts
  <2>1. CASE p \in pending[d]
    <3>1. p.packet \in Packets /\ Kept(d, p.packet)
      BY <1>5, <2>1 DEF Pending, Kept, Held
    <3>2. p.packet # n
      BY <1>12, <3>1
    <3>3. truth'[p.packet] = truth[p.packet]
      BY <1>1, <1>5, <3>1, <3>2
    <3> QED  BY <1>15, <2>1, <3>3 DEF PendingHosts
  <2>2. CASE d = c /\ p = k /\ host # Nil
    <3>1. truth'[n] = {holder[ip]}
      BY <1>1, <1>5, <2>2
    <3> QED  BY <1>6, <1>9, <2>2, <3>1
  <2> QED  BY <1>8, <2>1, <2>2
<1> QED  BY <1>2, <1>4, <1>10, <1>11, <1>13, <1>14, <1>15 DEF SniffInv

\* The end of a refresh: whoever still resolves to the host it was captured with has a
\* process of that host that the scan listed, and so that host held the address.
LEMMA RefreshHostsMappingInv ==
  ASSUME SniffInv, NEW c \in Collectors, RefreshHostsMapping(c)
  PROVE  SniffInv'
<1> DEFINE verified == {p \in pending[c] : ResolveIP(p.srcIp)' = p.srcHostname}
<1>1. /\ loop.at = c /\ ScanEnds
      /\ capturedRequests' = [capturedRequests EXCEPT ![c] = Recorded(c, verified)]
      /\ pending' = [pending EXCEPT ![c] = {}]
      /\ loop' = AfterRefresh(c, loop.reporting)
      /\ isRunningOnAWS' = isRunningOnAWS /\ handled' = handled /\ sent' = sent /\ truth' = truth
  BY DEF RefreshHostsMapping
<1>2. IPInv'
  BY <1>1, ScanEndsInv DEF SniffInv
<1>3. /\ scan # Nil /\ scan.left = {} /\ scan' = Nil /\ processes' = processes /\ former' = former
      /\ scanFailures' = scanFailures
      /\ onProcessExit(scan.seenLast \ processes)
  BY <1>1 DEF ScanEnds, node
<1>4. /\ loop \in Loop /\ handled \in 0 .. MaxPackets
      /\ pending \in [Collectors -> SUBSET Pending]
      /\ capturedRequests \in [Collectors -> CapturedMaps]
      /\ sent \in [Collectors -> SUBSET Packets]
  BY DEF SniffInv, CaptureTypes
<1>5. /\ Recorded(c, verified) \in CapturedMaps
      /\ \A req \in DOMAIN Recorded(c, verified) : \A n : n \in PacketsOf(Recorded(c, verified)[req]) =>
           \/ req \in DOMAIN capturedRequests[c] /\ n \in PacketsOf(capturedRequests[c][req])
           \/ \E k \in verified :
                k.packet = n /\ k.srcIp = req.srcIP /\ k.srcHostname = req.srcHostname
  <2>1. verified \in SUBSET pending[c]
    OBVIOUS
  <2>2. CaptureTypes
    BY DEF SniffInv
  <2> HIDE DEF verified
  <2> QED  BY <2>1, <2>2, RecordedRequests
<1>6. /\ capturedRequests' \in [Collectors -> CapturedMaps]
      /\ \A d \in Collectors : \A req \in DOMAIN capturedRequests'[d] :
           \A n : n \in PacketsOf(capturedRequests'[d][req]) =>
             \/ req \in DOMAIN capturedRequests[d] /\ n \in PacketsOf(capturedRequests[d][req])
             \/ /\ d = c
                /\ \E k \in verified :
                     k.packet = n /\ k.srcIp = req.srcIP /\ k.srcHostname = req.srcHostname
  <2> HIDE DEF verified
  <2> QED  BY <1>1, <1>4, <1>5
<1>7. /\ pending' \in [Collectors -> SUBSET Pending] /\ pending'[c] = {}
      /\ \A d \in Collectors \ {c} : /\ pending'[d] = pending[d]
                                     /\ capturedRequests'[d] = capturedRequests[d]
  BY <1>1, <1>4
<1>8. loop' \in Loop /\ loop'.at \notin Collectors
  <2>1. loop.reporting \in BOOLEAN
    BY <1>4 DEF Loop
  <2> QED  BY <1>1, <2>1, AfterRefreshType
<1>9. CaptureTypes' /\ ScansWhileRefreshing'
  BY <1>1, <1>3, <1>6, <1>7, <1>8 DEF SniffInv, CaptureTypes, ScansWhileRefreshing
<1>10. ASSUME NEW d \in Collectors, NEW n, Held(d, n)'
       PROVE  Held(d, n)
  <2>1. CASE \E p \in pending'[d] : p.packet = n
    BY <1>7, <2>1 DEF Held
  <2>2. CASE n \in PacketsIn(capturedRequests'[d])
    <3>1. PICK req \in DOMAIN capturedRequests'[d] : n \in PacketsOf(capturedRequests'[d][req])
      BY <2>2, PacketsOfRequests
    <3>2. CASE req \in DOMAIN capturedRequests[d] /\ n \in PacketsOf(capturedRequests[d][req])
      BY <3>2, PacketsOfRequests DEF Held
    <3>3. CASE d = c /\ \E k \in verified : k.packet = n
      BY <3>3 DEF Held
    <3> QED  BY <1>6, <3>1, <3>2, <3>3
  <2> QED  BY <1>10, <2>1, <2>2 DEF Held
<1>11. PacketsInOnePlace'
  <2>1. \A d \in Collectors : \A p \in pending'[d] : p.packet \notin PacketsIn(capturedRequests'[d])
    BY <1>7 DEF SniffInv, PacketsInOnePlace
  <2>2. \A d \in Collectors, n \in Packets : Kept(d, n)' => Kept(d, n)
    BY <1>1, <1>10 DEF Kept
  <2>3. ReportedOnce'
    BY <1>1, <1>10 DEF SniffInv, PacketsInOnePlace, ReportedOnce
  <2> QED  BY <1>1, <2>1, <2>2, <2>3 DEF SniffInv, PacketsInOnePlace
<1>12. ASSUME scanFailures = 0, NEW k \in verified
       PROVE  k.srcHostname \in truth[k.packet]
  <2> DEFINE r == byAddr'[k.srcIp]
  <2>1. k \in pending[c] /\ k.srcIp \in IPs /\ k.srcHostname \in Hosts
    BY <1>4 DEF Pending
  <2>2. r # Nil /\ entries'[r].Hostname = k.srcHostname
    BY <2>1, IPResolverAssumption DEF ResolveIP
  <2>3. scanFailures' = 0 /\ (scanFailures = 0 => AtTheirAddress /\ CountsExact)'
    BY <1>2, <1>3, <1>12 DEF IPInv
  <2>4. entries'[r].IPAddr = k.srcIp
    BY <2>1, <2>2, <2>3 DEF AtTheirAddress
  <2>5. {p \in Pids : byPid'[p] = r} # {}
    BY <2>1, <2>2, <2>3 DEF AtTheirAddress, CountsExact, ProcessesOf
  <2>6. PICK p \in Pids : byPid'[p] = r
    <3> HIDE DEF r
    <3> QED  BY <2>5
  <2>7. byPid'[p] = byPid[p] /\ Same(byPid[p])
    <3>1. scan.seenLast \ processes \in SUBSET Pids
      BY <1>3 DEF SniffInv, IPInv, IPResolverTypeOK, Scan
    <3> QED  BY <1>3, <2>2, <2>6, <3>1, ExitKeeps DEF SniffInv
  <2>8. HasEntry(p, k.srcIp, k.srcHostname)
    BY <2>2, <2>4, <2>6, <2>7 DEF HasEntry, Same
  <2>9. p \in Listed
    BY <1>2, <1>3, <1>12, <2>2, <2>6 DEF IPInv, HandledWereSeen, Listed
  <2> QED  BY <1>12, <2>1, <2>8, <2>9 DEF SniffInv, PendingHosts
<1>13. HostHeldAddress'
  <2> SUFFICES ASSUME scanFailures = 0, NEW d \in Collectors, NEW req \in DOMAIN capturedRequests'[d],
                      req.srcHostname # Nil, NEW n \in PacketsOf(capturedRequests'[d][req])
               PROVE  req.srcHostname \in truth[n]
    BY <1>1, <1>3 DEF HostHeldAddress
  <2>1. CASE req \in DOMAIN capturedRequests[d] /\ n \in PacketsOf(capturedRequests[d][req])
    BY <2>1 DEF SniffInv, HostHeldAddress
  <2>2. CASE \E k \in verified : k.packet = n /\ k.srcHostname = req.srcHostname
    BY <1>12, <2>2
  <2> QED  BY <1>6, <2>1, <2>2
<1>14. ASSUME PendingHosts
       PROVE  PendingHosts'
  <2> SUFFICES ASSUME NEW d \in Collectors, NEW k \in pending'[d]
               PROVE  k.srcHostname \in truth[k.packet] \/ k.srcHostname \in former[k.srcIp]
    BY <1>1, <1>3 DEF PendingHosts, Listed
  <2> QED  BY <1>7, <1>14 DEF PendingHosts
<1> QED  BY <1>2, <1>3, <1>9, <1>11, <1>13, <1>14 DEF SniffInv

\* A report takes all that is recorded.
LEMMA ReportInv ==
  ASSUME SniffInv, Report
  PROVE  SniffInv'
<1>1. /\ loop.at = "tcp done" /\ loop' = Select
      /\ sent' = [c \in Collectors |-> sent[c] \cup PacketsIn(capturedRequests[c])]
      /\ capturedRequests' = [c \in Collectors |-> NoData]
      /\ truth' = [n \in Packets |-> IF n \in UNION Range(sent') THEN {} ELSE truth[n]]
      /\ isRunningOnAWS' = isRunningOnAWS /\ handled' = handled /\ pending' = pending
      /\ UNCHANGED <<node, resolver, monitor>>
  BY DEF Report
<1>2. /\ former' = former /\ entries' = entries /\ byPid' = byPid
      /\ processes' = processes /\ scan' = scan /\ scanFailures' = scanFailures
  BY <1>1 DEF node, resolver, monitor
<1>3. IPInv'
  BY <1>1, IPStep DEF SniffInv, resolverVars
<1>4. /\ pending \in [Collectors -> SUBSET Pending]
      /\ capturedRequests \in [Collectors -> CapturedMaps]
      /\ sent \in [Collectors -> SUBSET Packets]
      /\ truth \in [Packets -> SUBSET Hosts]
  BY DEF SniffInv, CaptureTypes
<1>5. NoData \in CapturedMaps /\ DOMAIN NoData = {} /\ PacketsIn(NoData) = {}
  BY MapsOfCaptures DEF NoData, PacketsIn
<1>6. \A c \in Collectors : PacketsIn(capturedRequests[c]) \subseteq Packets
  <2> SUFFICES ASSUME NEW c \in Collectors, NEW n \in PacketsIn(capturedRequests[c])
               PROVE  n \in Packets
    OBVIOUS
  <2>1. PICK req \in DOMAIN capturedRequests[c] : n \in PacketsOf(capturedRequests[c][req])
    BY PacketsOfRequests
  <2>2. capturedRequests[c] \in CapturedMaps
    BY <1>4
  <2>3. capturedRequests[c][req] \in Captured
    BY <2>2, MapsOfCaptures
  <2> QED  BY <2>1, <2>3 DEF PacketsOf, Captured
<1>7. /\ sent' \in [Collectors -> SUBSET Packets] /\ truth' \in [Packets -> SUBSET Hosts]
      /\ capturedRequests' \in [Collectors -> CapturedMaps]
      /\ loop' \in Loop /\ loop'.at \notin Collectors /\ loop.at \notin Collectors
  BY <1>1, <1>4, <1>5, <1>6 DEF Loop, Select, Collectors
<1>8. CaptureTypes' /\ ScansWhileRefreshing'
  BY <1>1, <1>2, <1>7 DEF SniffInv, CaptureTypes, ScansWhileRefreshing
<1>9. ASSUME NEW c \in Collectors, NEW n
      PROVE  /\ Held(c, n)' <=> \E p \in pending[c] : p.packet = n
             /\ n \in sent'[c] <=> n \in sent[c] \/ n \in PacketsIn(capturedRequests[c])
  <2>1. capturedRequests'[c] = NoData /\ sent'[c] = sent[c] \cup PacketsIn(capturedRequests[c])
    BY <1>1
  <2> QED  BY <1>1, <1>5, <2>1 DEF Held
<1>10. PacketsInOnePlace'
  <2>1. \A c \in Collectors, n \in Packets : Kept(c, n)' => Kept(c, n)
    BY <1>9 DEF Kept, Held
  <2>2. ReportedOnce'
    BY <1>9 DEF SniffInv, PacketsInOnePlace, ReportedOnce, Held
  <2>3. \A c \in Collectors : \A p \in pending'[c] : p.packet \notin PacketsIn(capturedRequests'[c])
    BY <1>1, <1>5
  <2> QED  BY <1>1, <2>1, <2>2, <2>3 DEF SniffInv, PacketsInOnePlace
<1>11. HostHeldAddress'
  BY <1>1, <1>5 DEF HostHeldAddress
<1>12. ASSUME PendingHosts
       PROVE  PendingHosts'
  <2> SUFFICES ASSUME NEW c \in Collectors, NEW k \in pending[c]
               PROVE  truth'[k.packet] = truth[k.packet]
    <3>1. Listed' = Listed
      BY <1>2 DEF Listed
    <3>2. \A p, ip, host : HasEntry(p, ip, host)' <=> HasEntry(p, ip, host)
      BY <1>2 DEF HasEntry
    <3>3. \A c \in Collectors : \A k \in pending[c] : truth'[k.packet] = truth[k.packet]
      OBVIOUS
    <3> QED  BY <1>1, <1>2, <1>12, <3>1, <3>2, <3>3 DEF PendingHosts
  <2>1. k.packet \in Packets /\ Held(c, k.packet)'
    BY <1>4, <1>9 DEF Pending
  <2>2. ASSUME NEW d \in Collectors, k.packet \in sent'[d]
        PROVE  FALSE
    <3>1. Kept(c, k.packet)' /\ Kept(d, k.packet)'
      BY <2>1, <2>2 DEF Kept
    <3>2. c = d
      BY <1>10, <2>1, <3>1 DEF PacketsInOnePlace
    <3> QED  BY <1>10, <2>1, <2>2, <3>2 DEF PacketsInOnePlace, ReportedOnce
  <2>3. k.packet \notin UNION Range(sent')
    BY <1>7, <2>2 DEF Range
  <2> QED  BY <1>1, <2>1, <2>3
<1> QED  BY <1>2, <1>3, <1>8, <1>10, <1>11, <1>12 DEF SniffInv

\* Off AWS a report begins without a refresh.
LEMMA ReportDueInv ==
  ASSUME SniffInv, ReportDue \/ SecondRefresh
  PROVE  SniffInv'
<1>1. CASE Refresh("dns", TRUE) \/ Refresh("tcp", TRUE)
  BY <1>1, RefreshInv DEF Collectors
<1>2. CASE loop = Select /\ loop' = AfterRefresh("tcp", TRUE)
           /\ UNCHANGED <<node, resolver, monitor, isRunningOnAWS, handled, captures, sent, truth>>
  <2>1. IPInv'
    BY <1>2, IPStep DEF SniffInv, resolverVars
  <2>2. loop' \in Loop /\ loop'.at \notin Collectors /\ loop.at \notin Collectors
    BY <1>2, AfterRefreshType DEF Collectors, Select
  <2>3. /\ former' = former /\ entries' = entries /\ byPid' = byPid
        /\ processes' = processes /\ scan' = scan /\ scanFailures' = scanFailures
        /\ pending' = pending /\ truth' = truth
    BY <1>2 DEF node, resolver, monitor, captures
  <2>4. CaptureTypes' /\ PacketsInOnePlace' /\ HostHeldAddress'
    BY <1>2, <2>2, <2>3, CapturesAlone
  <2>5. PendingHosts => PendingHosts'
    BY <2>3 DEF PendingHosts, Listed, HasEntry
  <2> QED  BY <2>1, <2>2, <2>3, <2>4, <2>5 DEF SniffInv, ScansWhileRefreshing
<1> QED  BY <1>1, <1>2 DEF ReportDue, SecondRefresh

LEMMA SniffInitInv == SnifferInit => SniffInv
<1> SUFFICES ASSUME SnifferInit
             PROVE  SniffInv
  OBVIOUS
<1>1. IPInv
  BY IPInitInv DEF SnifferInit
<1>2. scan = Nil /\ loop = Select /\ handled = 0
      /\ pending = [c \in Collectors |-> {}] /\ capturedRequests = [c \in Collectors |-> NoData]
      /\ sent = [c \in Collectors |-> {}] /\ truth = [n \in Packets |-> {}]
  BY DEF SnifferInit, IPResolverInit
<1>3. NoData \in CapturedMaps /\ DOMAIN NoData = {} /\ PacketsIn(NoData) = {}
  BY MapsOfCaptures DEF NoData, PacketsIn
<1>4. CaptureTypes
  BY <1>2, <1>3, SnifferAssumption DEF CaptureTypes, SnifferInit, Loop, Select
<1>5. \A c \in Collectors, n \in Packets : ~Kept(c, n)
  BY <1>2, <1>3 DEF Kept, Held
<1>6. PacketsInOnePlace
  BY <1>2, <1>5 DEF PacketsInOnePlace, ReportedOnce
<1>7. HostHeldAddress /\ PendingHosts /\ ScansWhileRefreshing
  BY <1>2, <1>3 DEF HostHeldAddress, PendingHosts, ScansWhileRefreshing, Select, Collectors
<1> QED  BY <1>1, <1>4, <1>6, <1>7 DEF SniffInv

LEMMA SniffStep == SniffInv /\ [SnifferNext]_snifferVars => SniffInv'
<1> SUFFICES ASSUME SniffInv, SnifferNext \/ UNCHANGED snifferVars
             PROVE  SniffInv'
  OBVIOUS
<1>1. CASE UNCHANGED snifferVars
  <2>1. IPInv'
    BY <1>1, IPStep DEF SniffInv, resolverVars, snifferVars
  <2>2. /\ former' = former /\ entries' = entries /\ byPid' = byPid
        /\ processes' = processes /\ scan' = scan /\ scanFailures' = scanFailures
        /\ pending' = pending /\ truth' = truth /\ loop' = loop
    BY <1>1 DEF snifferVars, node, resolver, monitor, captures
  <2>3. CaptureTypes' /\ PacketsInOnePlace' /\ HostHeldAddress'
    BY <1>1, <2>2, CapturesAlone DEF snifferVars, SniffInv, CaptureTypes
  <2>4. (PendingHosts => PendingHosts') /\ ScansWhileRefreshing'
    BY <2>2 DEF PendingHosts, Listed, HasEntry, SniffInv, ScansWhileRefreshing
  <2> QED  BY <2>1, <2>2, <2>3, <2>4 DEF SniffInv
<1>2. ASSUME NEW c \in Collectors, RefreshDue(c)
      PROVE  SniffInv'
  BY <1>2, RefreshInv DEF RefreshDue
<1> QED  BY <1>1, <1>2, NodeStepInv, HandlePacketInv, ScanningInv, RefreshHostsMappingInv,
            ReportDueInv, ReportInv
         DEF SnifferNext, Refreshing

-----------------------------------------------------------------------------
(* Theorems about captures.                                                *)

LEMMA SniffInvAlways == SnifferSpec => []SniffInv
BY SniffInitInv, SniffStep, PTL DEF SnifferSpec

\* The sniffer's state keeps its types, and so does its map of processes, entries and
\* addresses, also when scans fail and counts are too high.
THEOREM SnifferTypesCorrect == SnifferSpec => []SnifferTypeOK
<1>1. SniffInv => SnifferTypeOK
  <2> SUFFICES ASSUME SniffInv
               PROVE  SnifferTypeOK
    OBVIOUS
  <2>1. ASSUME NEW c \in Collectors
        PROVE  /\ DOMAIN capturedRequests[c] \subseteq UniqueRequest
               /\ Range(capturedRequests[c]) \subseteq Captured
               /\ sent[c] \subseteq Packets
    <3>1. capturedRequests[c] \in CapturedMaps /\ sent[c] \in SUBSET Packets
      BY DEF SniffInv, CaptureTypes
    <3> QED  BY <3>1, MapsOfCaptures DEF Range
  <2> QED  BY <2>1 DEF SniffInv, IPInv, CaptureTypes, Pending, SnifferTypeOK
<1> QED  BY <1>1, SniffInvAlways, PTL

\* As long as /proc can be read, a capture that is recorded under a host was handled when
\* that host was the last to use its source address, for every order of packets, scans
\* and reports and however processes and pods come and go.
THEOREM HostsAlwaysHeldAddress == SnifferSpec => []HostHeldAddress
<1>1. SniffInv => HostHeldAddress
  BY DEF SniffInv
<1> QED  BY <1>1, SniffInvAlways, PTL

\* No packet is in two reports, and none that was reported is kept to be reported again.
THEOREM AlwaysReportedOnce == SnifferSpec => []ReportedOnce
<1>1. SniffInv => ReportedOnce
  BY DEF SniffInv, PacketsInOnePlace
<1> QED  BY <1>1, SniffInvAlways, PTL
===============================================================================
