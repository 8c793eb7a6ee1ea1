------------------------------- MODULE MCSched -------------------------------
(* Instances of Sched for TLC: two CPUs; threads t1 and t2 share process   *)
(* p1, and p2 can be created but gets no thread.                           *)
EXTENDS Sched, TLC

CONSTANTS c1, c2, t1, t2, t3, p1, p2, i1, i2, d1, d2

CPU2 == {c1, c2}
OneThread == {t1}
TwoThreads == {t1, t2}
Owner == [t \in UThread |-> IF t = t3 THEN p2 ELSE p1]
Idle == (c1 :> i1) @@ (c2 :> i2)
Dummy == (c1 :> d1) @@ (c2 :> d2)
==============================================================================
