------------------------------- MODULE SchedAbs -------------------------------
(***************************************************************************)
(* What the scheduler promises, without locks, switches or memory: ready   *)
(* threads wait in one first-come-first-served line; a CPU takes the first *)
(* and holds it until it gives it back to the end of the line or ends it.  *)
(* While it changes over, a CPU holds the outgoing and the incoming        *)
(* thread, never more.                                                     *)
(***************************************************************************)
EXTENDS Sequences

CONSTANTS CPU, UThread

VARIABLES
  ready,          \* the line of threads waiting for a CPU
  held,           \* the threads each CPU holds
  ended           \* the threads that have ended

absVars == <<ready, held, ended>>

AbsInit ==
  /\ ready = <<>>
  /\ held = [c \in CPU |-> {}]
  /\ ended = {}

(* A thread nobody has seen yet joins the line.                            *)
Admit(t) ==
  /\ t \notin ended \cup UNION {held[c] : c \in CPU}
  /\ t \notin {ready[i] : i \in DOMAIN ready}
  /\ ready' = Append(ready, t)
  /\ UNCHANGED <<held, ended>>

Take(c) ==
  /\ ready # <<>> /\ \A s, t \in held[c] : s = t
  /\ held' = [held EXCEPT ![c] = @ \cup {Head(ready)}]
  /\ ready' = Tail(ready)
  /\ UNCHANGED ended

Yield(c, t) ==
  /\ t \in held[c]
  /\ held' = [held EXCEPT ![c] = @ \ {t}]
  /\ ready' = Append(ready, t)
  /\ UNCHANGED ended

End(c, t) ==
  /\ t \in held[c]
  /\ held' = [held EXCEPT ![c] = @ \ {t}]
  /\ ended' = ended \cup {t}
  /\ UNCHANGED ready

(* A CPU that holds two threads lets one of them go.                       *)
LetGo(c) ==
  /\ \E s, t \in held[c] : s # t
  /\ \E t \in UThread : Yield(c, t) \/ End(c, t)

AbsNext ==
  \/ \E t \in UThread : Admit(t)
  \/ \E c \in CPU : Take(c) \/ \E t \in UThread : Yield(c, t) \/ End(c, t)

AbsSpec == AbsInit /\ [][AbsNext]_absVars

AbsFairSpec ==
  /\ AbsSpec
  /\ \A c \in CPU : WF_absVars(Take(c)) /\ WF_absVars(LetGo(c))

==============================================================================
