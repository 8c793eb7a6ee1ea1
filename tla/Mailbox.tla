-------------------------------- MODULE Mailbox --------------------------------
(***************************************************************************)
(* What the keyboard buffer promises: it holds one item, storing another   *)
(* replaces it, and taking empties it.  Items are numbered as they are     *)
(* stored, so that none is returned twice or after a later one, and the    *)
(* last one is never lost.                                                 *)
(***************************************************************************)
EXTENDS Naturals

VARIABLES
  stored,         \* items stored so far
  full,           \* the last of them is in the box
  returned        \* the last one taken

boxVars == <<stored, full, returned>>

Init == stored = 0 /\ full = FALSE /\ returned = 0

Store == stored' = stored + 1 /\ full' = TRUE /\ UNCHANGED returned

Take == full /\ returned' = stored /\ full' = FALSE /\ UNCHANGED stored

Spec == Init /\ [][Store \/ Take]_boxVars
=============================================================================
