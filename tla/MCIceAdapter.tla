---------------------------- MODULE MCIceAdapter ----------------------------
(* Finite instances of IceAdapter for TLC. *)
EXTENDS IceAdapter, TLC

CONSTANTS c1, c2, p1, p2, a1, a2, l1

MCConnection == {c1, c2}
MCPeer == {p1, p2}
MCPort == {a1, a2}
MCIceServers == {l1}

\* Connections, peers and ports are only compared for equality, and no
\* liveness property is checked with them.
MCSymmetry ==
  Permutations(MCConnection) \cup Permutations(MCPeer) \cup Permutations(MCPort)
=============================================================================
