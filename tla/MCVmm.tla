--------------------------------- MODULE MCVmm ---------------------------------
(* Instances of Vmm for TLC, and an address space that tells frames apart. *)
EXTENDS Vmm

Headers2 == {[vaddr |-> 2, filesz |-> 1, memsz |-> 2, prot |-> "RX"],
             [vaddr |-> 5, filesz |-> 2, memsz |-> 3, prot |-> "RW"]}
Screen == [phys |-> 100, size |-> 3]

(* The address space (Coarse in Vmm) with the physical memory that backs a *)
(* direct page.                                                            *)
Exact == INSTANCE AddressSpace WITH
  Nothing <- None,
  backing <- [p \in Page |-> IF Backed(p) = {} THEN None
                             ELSE LET s == CHOOSE s \in Backed(p) : TRUE
                                  IN [type |-> s.type, prot |-> s.prot,
                                      frame |-> IF s.type = "DIRECT"
                                                THEN s.phys + (p * PAGE - s.base) ELSE 0]],
  resident <- {p \in Page : pt[p] # None}

(* vmm.h:66-73: direct memory is mapped to the physical address given, and *)
(* vmm.h:78-81: unmapping a range of it leaves the rest where it was.      *)
ImplementsExactly == Exact!AbsSpec
================================================================================
