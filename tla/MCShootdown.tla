----------------------------- MODULE MCShootdown -----------------------------
(* Two processors that start, the BSP second, and one that does not; one   *)
(* process with a thread on each.                                          *)
EXTENDS Shootdown

CONSTANTS bsp, ap1, dead, s, kernel

MCcpus == <<ap1, bsp, dead>>
MCCPU == {ap1, bsp, dead}
MCRights == {{"W"}, {"X"}}
=============================================================================
