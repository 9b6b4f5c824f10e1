------------------------------ MODULE MCResolvers ------------------------------
\* Two workloads whose pods use two addresses in turn, a host network pod beside the
\* control plane, a service and the API server's, and a load balancer.
EXTENDS Resolvers, TLC

CONSTANTS a1, b1, host, A, B, H, svcB, kubernetes, ip1, ip2, ipB, ipK, node, cp, lb

MCPods == {a1, b1, host}
MCHostPods == {host}
MCServices == {svcB, kubernetes}
MCWorkloads == {A, B, H}
MCWorkloadOf == a1 :> A @@ b1 :> B @@ host :> H
MCPodIPs == {ip1, ip2}
MCSymmetry == Permutations(MCPodIPs)
MCClusterIP == svcB :> ipB @@ kubernetes :> ipK
MCSelector == svcB :> B @@ kubernetes :> APIServer
MCExternalAccess == lb :> svcB
=============================================================================
