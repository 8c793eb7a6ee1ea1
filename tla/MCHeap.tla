-------------------------------- MODULE MCHeap --------------------------------
(* An instance of Heap for TLC.                                            *)
EXTENDS Heap

(* Small blocks, blocks that leave less than a header behind them, and     *)
(* aligned ones, which split an entry in three.                            *)
Requests4 == {[size |-> 1, alignment |-> 1], [size |-> 3, alignment |-> 1],
              [size |-> 6, alignment |-> 1], [size |-> 2, alignment |-> 8]}

================================================================================
