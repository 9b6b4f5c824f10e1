CONSTANTS
  a1 = a1
  b1 = b1
  host = host
  A = A
  B = B
  H = H
  svcB = svcB
  kubernetes = kubernetes
  ip1 = ip1
  ip2 = ip2
  ipB = ipB
  ipK = ipK
  node = node
  cp = cp
  lb = lb
  Nil = Nil
  APIServer = APIServer
  Outside = Outside
  InsideIP = inside
  ExternalName = ExternalName
  Pods <- MCPods
  HostPods <- MCHostPods
  Services <- MCServices
  Workloads <- MCWorkloads
  WorkloadOf <- MCWorkloadOf
  PodIPs <- MCPodIPs
  NodeIP = node
  ControlPlaneIP = cp
  ClusterIP <- MCClusterIP
  Selector <- MCSelector
  ExternalAccess <- MCExternalAccess
  TrustAge = 1
  SeenIPsTTL = 2
  SeenIPsSize = 2
  Grace = 1
  MaxTime = 2
SYMMETRY MCSymmetry
SPECIFICATION ResolverSpec
INVARIANTS
  ResolverTypeOK
  ClientsWereSenders
  ServersWereReceivers
PROPERTY
  IncomingIsExternal
