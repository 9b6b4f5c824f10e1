------------------------------ MODULE IPResolver ------------------------------
(***************************************************************************)
(* The sniffer's map from addresses to host names: ProcFSIPResolver keeps  *)
(* an entry per address with a count of the processes behind it, and       *)
(* ProcessMonitor, by scanning /proc, tells it which processes are new and *)
(* which have gone.                                                        *)
(*                                                                         *)
(* A scan reads the directory first and each process' files afterwards;    *)
(* processes start and end in between.                                     *)
(***************************************************************************)
EXTENDS Naturals, FiniteSets, Functions

CONSTANTS
  Pids,            \* process ids
  IPs,             \* pod addresses
  Hosts,           \* host names of pods
  Refs,            \* identities of ProcFSIPResolverEntry objects: as many as can be in use
  Nil,             \* no entry, no process
  MaxRetries,      \* how often a process that cannot be read is tried again
  PidsComeBack,    \* whether a pid is used again; FALSE bounds the processes
  MaxScanFailures  \* bound on directory reads that fail

ASSUME IPResolverAssumption ==
  /\ IsFiniteSet(Pids) /\ IsFiniteSet(IPs) /\ IsFiniteSet(Refs)
  /\ Cardinality(Refs) > Cardinality(Pids) + Cardinality(IPs)
  /\ Hosts # {} /\ Nil \notin Hosts
  /\ Nil \notin Refs
  /\ Nil \notin [ip: IPs, host: Hosts]
  /\ Nil \notin [IPAddr: IPs, Hostname: Hosts, ProcessRefCount: Nat]
  /\ Nil \notin [seenLast: SUBSET Pids, left: SUBSET Pids]
  /\ PidsComeBack \in BOOLEAN /\ MaxRetries \in Nat /\ MaxScanFailures \in Nat

VARIABLES
  procs,       \* the processes of the node: address and host name, or Nil
  spent,       \* pids that are not used again
  holder,      \* the host name that used an address last
  former,      \* the hosts that used it before
  processes,   \* ProcessMonitor.processes
  failingProcesses,
  scan,        \* a scan under way: see Scan
  entries,     \* the ProcFSIPResolverEntry objects, Nil for an unused one
  byAddr,
  byPid,
  scanFailures \* history: directory reads that failed

node == <<procs, spent, holder, former>>
resolver == <<entries, byAddr, byPid>>
monitor == <<processes, failingProcesses, scan, scanFailures>>

Process == [ip: IPs, host: Hosts]
Entry == [IPAddr: IPs, Hostname: Hosts, ProcessRefCount: Nat]

\* processesSeenLastTime, and the pids listed whose callback is still to run.
Scan == [seenLast: SUBSET Pids, left: SUBSET Pids]

Live == {p \in Pids : procs[p] # Nil}

IPResolverInit ==
  /\ procs = [p \in Pids |-> Nil]
  /\ spent = {}
  /\ holder = [ip \in IPs |-> CHOOSE h \in Hosts : TRUE]
  /\ former = [ip \in IPs |-> {}]
  /\ processes = {}
  /\ failingProcesses = [p \in Pids |-> 0]
  /\ scan = Nil
  /\ entries = [r \in Refs |-> Nil]
  /\ byAddr = [ip \in IPs |-> Nil]
  /\ byPid = [p \in Pids |-> Nil]
  /\ scanFailures = 0

-----------------------------------------------------------------------------
(* The node.  An address belongs to one pod at a time, and no host gets    *)
(* back an address that went to another; a pid is not given out again      *)
(* before a scan has seen that its process ended.                          *)

Reusable(p) == procs[p] = Nil /\ p \notin spent /\ byPid[p] = Nil /\ p \notin processes
               /\ (scan # Nil => p \notin scan.seenLast \cup scan.left)

ProcessStarts ==
  \E p \in Pids, ip \in IPs, h \in Hosts :
    /\ Reusable(p)
    /\ spent' = IF PidsComeBack THEN spent ELSE spent \cup {p}
    /\ \A q \in Live : procs[q].ip = ip => procs[q].host = h
    /\ h \notin former[ip]
    /\ procs' = [procs EXCEPT ![p] = [ip |-> ip, host |-> h]]
    /\ former' = [former EXCEPT ![ip] = @ \cup ({holder[ip]} \ {h})]
    /\ holder' = [holder EXCEPT ![ip] = h]
    /\ UNCHANGED <<resolver, monitor>>

ProcessEnds ==
  \E p \in Live :
    /\ procs' = [procs EXCEPT ![p] = Nil]
    /\ UNCHANGED <<spent, holder, former, resolver, monitor>>

-----------------------------------------------------------------------------
(* ProcFSIPResolver.                                                       *)

ResolveIP(ip) == IF byAddr[ip] = Nil THEN Nil ELSE entries[byAddr[ip]].Hostname

\* An object that nothing points to is as good as new.
Unused(r) == r \notin Range(byAddr) \cup Range(byPid)

\* Forgets to count a process that joins an entry.
onProcessNewUncounted(p, proc) ==
  IF ResolveIP(proc.ip) = proc.host
    THEN byPid' = [byPid EXCEPT ![p] = byAddr[proc.ip]] /\ UNCHANGED <<entries, byAddr>>
    ELSE \E new \in {CHOOSE r \in Refs : Unused(r)} :
           /\ entries' = [entries EXCEPT
                ![new] = [IPAddr |-> proc.ip, Hostname |-> proc.host, ProcessRefCount |-> 1]]
           /\ byPid' = [byPid EXCEPT ![p] = new]
           /\ byAddr' = [byAddr EXCEPT ![proc.ip] = new]

onProcessNew(p, proc) ==
  LET known == byAddr[proc.ip]
  IN IF known # Nil /\ entries[known].Hostname = proc.host
       THEN /\ byPid' = [byPid EXCEPT ![p] = known]
            /\ entries' = [entries EXCEPT ![known].ProcessRefCount = @ + 1]
            /\ UNCHANGED byAddr
       ELSE \E new \in {CHOOSE r \in Refs : Unused(r)} :
            /\ entries' = [entries EXCEPT
                 ![new] = [IPAddr |-> proc.ip, Hostname |-> proc.host, ProcessRefCount |-> 1]]
            /\ byPid' = [byPid EXCEPT ![p] = new]
            /\ byAddr' = [byAddr EXCEPT ![proc.ip] = new]

\* Each entry's count without the processes that exited, and the entries that lost
\* their last one.
Count(r, exited) == entries[r].ProcessRefCount - Cardinality({p \in exited : byPid[p] = r})
Gone(exited) == {r \in Range([p \in exited |-> byPid[p]]) \ {Nil} : Count(r, exited) = 0}

\* Unmaps the address whichever entry it has by now.
onProcessExitAnyEntry(exited) ==
  /\ byPid' = [p \in Pids |-> IF p \in exited THEN Nil ELSE byPid[p]]
  /\ byAddr' = [ip \in IPs |-> IF \E r \in Gone(exited) : entries[r].IPAddr = ip THEN Nil ELSE byAddr[ip]]
  /\ entries' = [r \in Refs |->
       IF r \notin {byPid[p] : p \in exited} THEN entries[r]
       ELSE IF r \in Range(byAddr') \cup Range(byPid')
         THEN [entries[r] EXCEPT !.ProcessRefCount = Count(r, exited)] ELSE Nil]

\* Leaves the address mapped.
onProcessExitKeepingAddr(exited) ==
  /\ byPid' = [p \in Pids |-> IF p \in exited THEN Nil ELSE byPid[p]]
  /\ byAddr' = byAddr
  /\ entries' = [r \in Refs |->
       IF r \notin {byPid[p] : p \in exited} THEN entries[r]
       ELSE IF r \in Range(byAddr') \cup Range(byPid')
         THEN [entries[r] EXCEPT !.ProcessRefCount = Count(r, exited)] ELSE Nil]

\* onProcessExit for each of a set of pids, in any order.
onProcessExit(exited) ==
  /\ byPid' = [p \in Pids |-> IF p \in exited THEN Nil ELSE byPid[p]]
  /\ byAddr' = [ip \in IPs |-> IF byAddr[ip] \in Gone(exited) THEN Nil ELSE byAddr[ip]]
  /\ entries' = [r \in Refs |->
       IF r \notin {byPid[p] : p \in exited} THEN entries[r]
       ELSE IF r \in Range(byAddr') \cup Range(byPid')
         THEN [entries[r] EXCEPT !.ProcessRefCount = Count(r, exited)] ELSE Nil]

-----------------------------------------------------------------------------
(* ProcessMonitor.Poll.                                                    *)

ListProcesses ==
  /\ scan = Nil
  /\ scan' = [seenLast |-> processes, left |-> Live]
  /\ processes' = {}
  /\ UNCHANGED <<node, failingProcesses, scanFailures, resolver>>

\* The directory cannot be read; processes has been emptied by then.
ScanFails ==
  /\ scan = Nil
  /\ scanFailures < MaxScanFailures
  /\ scanFailures' = scanFailures + 1
  /\ processes' = {}
  /\ UNCHANGED <<node, failingProcesses, scan, resolver>>

Visited(p) == [scan EXCEPT !.left = @ \ {p}]

SeenBefore ==
  /\ scan # Nil
  /\ \E p \in scan.left \cap scan.seenLast :
       /\ processes' = processes \cup {p}
       /\ scan' = Visited(p)
  /\ UNCHANGED <<node, failingProcesses, scanFailures, resolver>>

ProcNew ==
  /\ scan # Nil
  /\ \E p \in (scan.left \ scan.seenLast) \cap Live :
       /\ onProcessNew(p, procs[p])
       /\ processes' = processes \cup {p}
       /\ scan' = Visited(p)
  /\ UNCHANGED <<node, failingProcesses, scanFailures>>

\* Its environment or its addresses cannot be read: it is ending, or not ready.
ProcNewFails ==
  /\ scan # Nil
  /\ \E p \in scan.left \ scan.seenLast :
       LET failures == failingProcesses[p] + 1
           retry == failures <= MaxRetries
       IN /\ failingProcesses' = [failingProcesses EXCEPT ![p] = IF retry THEN failures ELSE 0]
          /\ processes' = IF retry THEN processes ELSE processes \cup {p}
          /\ scan' = Visited(p)
  /\ UNCHANGED <<node, scanFailures, resolver>>

ScanEnds ==
  /\ scan # Nil /\ scan.left = {}
  /\ onProcessExit(scan.seenLast \ processes)
  /\ scan' = Nil
  /\ UNCHANGED <<node, processes, failingProcesses, scanFailures>>

Callbacks == SeenBefore \/ ProcNew \/ ProcNewFails

IPResolverNext == ProcessStarts \/ ProcessEnds \/ ListProcesses \/ Callbacks \/ ScanFails \/ ScanEnds

resolverVars == <<node, resolver, monitor>>
IPResolverSpec == IPResolverInit /\ [][IPResolverNext]_resolverVars

\* The sniffer polls time and again, and a poll that begins comes to its end.
IPResolverLiveSpec == IPResolverSpec /\ WF_resolverVars(ListProcesses \/ Callbacks \/ ScanEnds)

-----------------------------------------------------------------------------
IPResolverTypeOK ==
  /\ procs \in [Pids -> Process \cup {Nil}]
  /\ spent \subseteq Pids
  /\ holder \in [IPs -> Hosts]
  /\ former \in [IPs -> SUBSET Hosts]
  /\ processes \subseteq Pids
  /\ failingProcesses \in [Pids -> 0 .. MaxRetries]
  /\ scan \in Scan \cup {Nil}
  /\ entries \in [Refs -> Entry \cup {Nil}]
  /\ byAddr \in [IPs -> Refs \cup {Nil}]
  /\ byPid \in [Pids -> Refs \cup {Nil}]
  /\ scanFailures \in 0 .. MaxScanFailures

ProcessesOf(r) == {p \in Pids : byPid[p] = r}

(* Reference counting: while every scan could read /proc, an entry's count *)
(* is the number of processes that point to it, entries are where their    *)
(* address says, and none stays in byAddr without a process.  The count is *)
(* kept across replaced mappings and across processes that were given up.  *)
CountsFollowProcesses ==
  scanFailures = 0 =>
    /\ \A r \in Refs : entries[r] # Nil =>
         entries[r].ProcessRefCount = Cardinality(ProcessesOf(r))
    /\ \A ip \in IPs : byAddr[ip] # Nil =>
         entries[byAddr[ip]].IPAddr = ip /\ ProcessesOf(byAddr[ip]) # {}

(* Between scans a process that was read and not found gone resolves: its  *)
(* address maps to its entry even when an older pod's entry for the same   *)
(* address was dropped after the new one had come.                         *)
HandledProcessesResolve ==
  scanFailures = 0 /\ scan = Nil =>
    \A p \in Pids : byPid[p] # Nil => byAddr[entries[byPid[p]].IPAddr] = byPid[p]

(* A mapping goes once the last process of its host is gone for good, also *)
(* when another pod has the address by then and its processes cannot be    *)
(* read.                                                                   *)
MappingsGo ==
  [](scanFailures = 0) =>
    \A ip \in IPs, h \in Hosts :
      <>[](\A p \in Pids : procs[p] # [ip |-> ip, host |-> h]) => <>[](ResolveIP(ip) # h)
=============================================================================
