CONSTANTS
  p1 = p1
  p2 = p2
  ip1 = ip1
  h1 = h1
  h2 = h2
  r1 = r1
  r2 = r2
  r3 = r3
  r4 = r4
  Nil = Nil
  Pids <- MCPids
  IPs <- MCIPs
  Hosts <- MCHosts
  Refs <- MCRefs
  MaxRetries = 0
  PidsComeBack = FALSE
  MaxScanFailures = 1
  MaxPackets = 2
SPECIFICATION SnifferLiveSpec
INVARIANTS
  SnifferTypeOK
  HostHeldAddress
  ReportedOnce
PROPERTIES
  CapturesLeave
