---------------------------- MODULE MCZoneWorld ----------------------------
(* ZoneWorld for TLC: connections are interchangeable, and a host that     *)
(* frees and reallocates the root or its first child.                        *)
EXTENDS ZoneWorld, TLC

ConnSymmetry == Permutations(Conn)

HostCells == {Root, Child(Root, 0)}
=============================================================================
