----------------------------- MODULE MCIPResolver -----------------------------
\* Processes of two hosts that use the same address one after the other.
EXTENDS IPResolver

CONSTANTS p1, p2, p3, ip1, h1, h2, r1, r2, r3, r4, r5

MCPids == {p1, p2, p3}
MCIPs == {ip1}
MCHosts == {h1, h2}
MCRefs == {r1, r2, r3, r4, r5}
=============================================================================
