-------------------------- MODULE MCZoneHysteresis --------------------------
(* ZoneHysteresis for TLC: the first three octants are zones. *)
EXTENDS ZoneHysteresis

ThreeZones == {Child(Root, 0), Child(Root, 1), Child(Root, 2)}
=============================================================================
