------------------------------- MODULE MCClock -------------------------------
(* Two processors; a second is two periods of the PIT, so that every other *)
(* tick carries.                                                           *)
EXTENDS Clock
CONSTANTS bsp, ap, t1
MCLengths == {[seconds |-> 0, nanoseconds |-> 1], [seconds |-> 1, nanoseconds |-> 2]}
MCboot_timestamp == [seconds |-> 7, nanoseconds |-> 0]
=============================================================================
