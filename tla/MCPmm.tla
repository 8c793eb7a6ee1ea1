--------------------------------- MODULE MCPmm ---------------------------------
(* Instances of Pmm for TLC: a low zone, a normal one, memory that         *)
(* straddles their border and memory whose length is no power of two.      *)
EXTENDS Pmm, TLC

Zones2 == [dma |-> [start |-> 0, end |-> 4], normal |-> [start |-> 4, end |-> 100]]
Symmetric == Permutations(Cpu)
Memory2 == {[base |-> 2, size |-> 10], [base |-> 14, size |-> 2]}

(* The count drifts upwards for good whenever an update is lost: followed  *)
(* to MaxDrift pages above the memory there is.                            *)
MaxDrift == 2
DriftBounded == free_count <= Cardinality(UNION {DataOf(r) : r \in Regions}) + MaxDrift

================================================================================
