----------------------------- MODULE AddressSpace -----------------------------
(***************************************************************************)
(* What an address space promises, without segments or page tables: a page *)
(* is backed by something or by nothing.  Mapping backs a free contiguous  *)
(* range, unmapping takes the backing away from exactly the range it is    *)
(* given, and a page becomes resident when it is first used.               *)
(***************************************************************************)
EXTENDS Naturals

CONSTANTS Page, Nothing

VARIABLES
  backing,        \* what each page is backed by, or Nothing
  resident        \* the pages that are mapped in the page table

absVars == <<backing, resident>>

Ranges == {lo .. hi : lo, hi \in Page} \ {{}}

AbsInit ==
  /\ backing = [p \in Page |-> Nothing]
  /\ resident = {}

Outside(R) == \A p \in Page \ R : backing'[p] = backing[p]

(* Pages are used, and become resident; only backed pages can be used.     *)
Use ==
  /\ resident \subseteq resident'
  /\ \A p \in resident' : backing'[p] # Nothing

Map(R) ==
  /\ \A p \in R : backing[p] = Nothing /\ backing'[p] # Nothing
  /\ Outside(R)
  /\ Use

Unmap(R) ==
  /\ \A p \in R : backing'[p] = Nothing
  /\ Outside(R)
  /\ resident' = resident \ R

Touch == UNCHANGED backing /\ Use

AbsNext == Touch \/ \E R \in Ranges : Map(R) \/ Unmap(R)

AbsSpec == AbsInit /\ [][AbsNext]_absVars

===============================================================================
