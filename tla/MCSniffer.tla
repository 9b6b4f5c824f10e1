------------------------------ MODULE MCSniffer ------------------------------
\* The sniffer on one pod address that goes back and forth between two hosts.
EXTENDS Sniffer

CONSTANTS p1, p2, ip1, h1, h2, r1, r2, r3, r4

MCPids == {p1, p2}
MCIPs == {ip1}
MCHosts == {h1, h2}
MCRefs == {r1, r2, r3, r4}
=============================================================================
