------------------------------- MODULE Octree -------------------------------
(***************************************************************************)
(* Ranges of the Hilbert curve as octree cells, and the population cost    *)
(* that decides between one zone and its eight children (Partition.lean,   *)
(* ZoneRange of Zone.lean, parentRange of ZoneDispatch.lean).              *)
(*                                                                         *)
(* The curve has 8^Bits indices (Bits = 21 in the code).  No range here    *)
(* exceeds 2^63, so UInt64 arithmetic on them is exact.                    *)
(***************************************************************************)
EXTENDS Integers, FiniteSets

CONSTANT Bits

ASSUME BitsAssumption == Bits \in Nat

(* What the proofs use of exponentiation. *)
ASSUME PowersOfEight ==
  \A k \in 0 .. Bits :
    8 ^ k \in Nat \ {0} /\ (k > 0 => 8 ^ k = 8 * 8 ^ (k - 1))

CurveIndex == 0 .. 8 ^ Bits - 1

(* The half-open range [start, stop). *)
ZoneRange(start, stop) == [start |-> start, stop |-> stop]
Ranges == {r \in [start : Nat, stop : Nat] : r.start < r.stop}
Root == ZoneRange(0, 8 ^ Bits)

Contains(r, idx) == r.start <= idx /\ idx < r.stop
Overlaps(a, b) == a.start < b.stop /\ b.start < a.stop

(* r is the cell of depth d that starts at a multiple of its length. *)
CellAt(r, d) ==
  LET len == 8 ^ (Bits - d)
  IN  r.stop - r.start = len /\ r.start % len = 0

IsCell(r) == \E d \in 0 .. Bits : CellAt(r, d)
HasChildren(r) == \E d \in 0 .. Bits - 1 : CellAt(r, d)
HasParent(r) == \E d \in 1 .. Bits : CellAt(r, d)

(* Mutant of Child: the stop is computed from the same octant number.      *)
ChildOffByOne(r, i) ==
  LET len == (r.stop - r.start) \div 8
  IN  ZoneRange(r.start + i * len, r.start + i * len)

(* octreeChildren and parentRange of a cell that has them. *)
Child(r, i) ==
  LET len == (r.stop - r.start) \div 8
  IN  ZoneRange(r.start + i * len, r.start + (i + 1) * len)
Octant == 0 .. 7
Children(r) == {Child(r, i) : i \in Octant}

ParentRange(r) ==
  LET len   == 8 * (r.stop - r.start)
      start == r.start - (r.start % len)
  IN  ZoneRange(start, start + len)

(* Theta(K^2) fanout inside a zone, plus one per zone that is kept. *)
LeafCost(population) == population * population
ZoneOverhead == 1
SplitIsCheaper(population, childPopulation) ==
  LET cost(i) == LeafCost(childPopulation[i]) + ZoneOverhead
  IN  cost(0) + cost(1) + cost(2) + cost(3) + cost(4) + cost(5) + cost(6) + cost(7)
        < LeafCost(population)
=============================================================================
