CONSTANTS
  p1 = p1
  p2 = p2
  p3 = p3
  ip1 = ip1
  h1 = h1
  h2 = h2
  r1 = r1
  r2 = r2
  r3 = r3
  r4 = r4
  r5 = r5
  Nil = Nil
  Pids <- MCPids
  IPs <- MCIPs
  Hosts <- MCHosts
  Refs <- MCRefs
  MaxRetries = 1
  PidsComeBack = TRUE
  MaxScanFailures = 1
SPECIFICATION IPResolverLiveSpec
INVARIANTS
  CountsFollowProcesses
  HandledProcessesResolve
PROPERTIES
  MappingsGo
