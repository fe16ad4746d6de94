--------------------------- MODULE MCZoneInterest ---------------------------
(* ZoneInterest for TLC.  Entities at 1 and 2 are in each other's reach    *)
(* through the speed of the one at 1, exactly; those at 0 and 1 would be,  *)
(* by the sum of their reaches, but that sum wraps.                        *)
EXTENDS ZoneInterest, TLC

ConnSymmetry == Permutations(Conn)
HostCells == {Root, Child(Root, 0)}
Pos == 0 :> 10 @@ 1 :> 20 @@ 2 :> 26
Speed == 0 :> 1 @@ 1 :> 2 @@ 2 :> 0
Rtt == 0 :> 0 @@ 1 :> 3 @@ 2 :> 0
=============================================================================
