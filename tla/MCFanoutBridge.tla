--------------------------- MODULE MCFanoutBridge ---------------------------
(* FanoutBridge for TLC: two frames, and the header lines of the           *)
(* well-behaved and of the arbitrary client.                               *)
EXTENDS FanoutBridge, TLC

Frames == {[key |-> 1], [key |-> 2]}

WellFormed == {"SUB", "PUB", "SKB", "ZPB"}

Symmetric ==
  Permutations(Conn) \cup Permutations(Stream) \cup Permutations(Topic)
=============================================================================
