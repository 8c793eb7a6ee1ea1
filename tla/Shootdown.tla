------------------------------ MODULE Shootdown ------------------------------
(***************************************************************************)
(* Page tables and what the processors remember of them                    *)
(* (arch/x86_64/vmm.c), from the boot of the processors on.  Each address  *)
(* space is cut down to one page below one directory.  Map and unmap       *)
(* change the tables under the space's cr3_lock and then ask every         *)
(* processor in turn to forget.                                            *)
(***************************************************************************)
EXTENDS Boot

CONSTANTS
  Space,          \* user address spaces
  Kernel,         \* g_vmm_kernel_address_space
  Rights,         \* protections asked for: subsets of {"W", "X"}
  OPS             \* bound: maps and unmaps made

ASSUME SpaceAssumption ==
  /\ \A r \in SUBSET UNION Rights : r # None
  /\ OPS \in Nat

VARIABLES
  ops,            \* maps and unmaps made so far
  dir, leaf,      \* each space's entries: None, or their rights
  cr3_lock,       \* each space's lock: TRUE when taken
  op,             \* the call each processor is in: its kind, space, rights
  i,              \* the loop of its tlb_shootdown
  cr3, tlb,       \* what each processor has loaded, and remembers
  lock, check,    \* tlb_shootdown_lock and tlb_shootdown_check: TRUE when taken
  target,         \* tlb_shootdown_cr3
  ipi,            \* an interrupt is pending
  missed          \* history: shootdowns that went by a processor, see below

callVars == <<ops, dir, leaf, cr3_lock, op>>
tlbVars == <<cr3, tlb, missed>>
loopVars == <<i, lock, check, target, ipi>>
vars == <<pc, bootVars, callVars, tlbVars, loopVars>>

AS == Space \cup {Kernel}
NoOp == [kind |-> "none", as |-> Kernel, rights |-> {}]

Init ==
  /\ BootInit
  /\ ops = 0
  /\ dir = [a \in AS |-> None] /\ leaf = [a \in AS |-> None]
  /\ cr3_lock = [a \in AS |-> FALSE]
  /\ op = [c \in CPU |-> NoOp] /\ i = [c \in CPU |-> 1]
  /\ cr3 = [c \in CPU |-> Kernel] /\ tlb = [c \in CPU |-> [a \in AS |-> None]]
  /\ lock = [c \in CPU |-> FALSE] /\ check = [c \in CPU |-> FALSE]
  /\ target = [c \in CPU |-> None] /\ ipi = [c \in CPU |-> FALSE]
  /\ missed = {}

(* What the tables grant: a right must be set on every level.              *)
Granted(a) == IF dir[a] = None \/ leaf[a] = None THEN None ELSE dir[a] \cap leaf[a]

(* write_cr3: no entry has the global flag, so all are forgotten.          *)
Flush(c) ==
  /\ tlb' = [tlb EXCEPT ![c] = [a \in AS |-> None]]
  /\ missed' = missed \ {c}

-----------------------------------------------------------------------------
(* A thread: memory accesses, and the scheduler's change of thread.        *)

Access(c, a) ==
  /\ pc[c] = "run" /\ a \in {cr3[c], Kernel}
  /\ tlb[c][a] = None /\ Granted(a) # None
  /\ tlb' = [tlb EXCEPT ![c][a] = Granted(a)]
  /\ UNCHANGED <<pc, bootVars, callVars, loopVars, cr3, missed>>

arch_vmm_load_address_space(c, a) ==
  /\ pc[c] = "run" /\ a # cr3[c]
  /\ cr3' = [cr3 EXCEPT ![c] = a]
  /\ Flush(c)
  /\ UNCHANGED <<pc, bootVars, callVars, loopVars>>

(* Calls come from page faults and system calls: interrupts are off, and   *)
(* the space is the thread's own or, to map only, the kernel's.            *)
Call(c, o) ==
  /\ Goto(c, "run", "lock")
  /\ ops < OPS
  /\ o.as = cr3[c] \/ (o.as = Kernel /\ o.kind = "map")
  /\ ops' = ops + 1
  /\ op' = [op EXCEPT ![c] = o]
  /\ UNCHANGED <<bootVars, dir, leaf, cr3_lock, tlbVars, loopVars>>

-----------------------------------------------------------------------------
(* arch_vmm_ptm_map, arch_vmm_ptm_unmap                                    *)

(* A directory that is there gains the rights it lacks.                    *)
Widened_Bug(d, rights) == IF d = None THEN rights ELSE d
Widened(d, rights) == IF d = None THEN rights ELSE d \cup rights

arch_vmm_ptm_map(c, a) ==
  /\ op[c].kind = "map"
  /\ dir' = [dir EXCEPT ![a] = Widened(@, op[c].rights)]
  /\ leaf' = [leaf EXCEPT ![a] = op[c].rights]
  /\ cr3_lock' = [cr3_lock EXCEPT ![a] = TRUE]

(* Without a directory the lock is released here, and then again at the    *)
(* end.                                                                    *)
arch_vmm_ptm_unmap(c, a) ==
  /\ op[c].kind = "unmap"
  /\ leaf' = [leaf EXCEPT ![a] = None]
  /\ cr3_lock' = [cr3_lock EXCEPT ![a] = dir[a] # None]
  /\ dir' = dir

Change(c) ==
  /\ Goto(c, "lock", "shoot")
  /\ ~cr3_lock[op[c].as]
  /\ arch_vmm_ptm_map(c, op[c].as) \/ arch_vmm_ptm_unmap(c, op[c].as)
  /\ i' = [i EXCEPT ![c] = 1]
  /\ UNCHANGED <<bootVars, ops, op, tlbVars, lock, check, target, ipi>>

Return(c) ==
  /\ Goto(c, "shoot", "run")
  /\ i[c] > count
  /\ cr3_lock' = [cr3_lock EXCEPT ![op[c].as] = FALSE]
  /\ op' = [op EXCEPT ![c] = NoOp]
  /\ UNCHANGED <<bootVars, ops, dir, leaf, tlbVars, loopVars>>

-----------------------------------------------------------------------------
(* tlb_shootdown                                                           *)

Mine_Bug(c, a) == cr3[c] = a
Mine(c, a) == a = Kernel \/ cr3[c] = a

FlushSelf(c) ==
  /\ pc[c] = "shoot" /\ i[c] <= count /\ slots[i[c]] = c
  /\ IF Mine(c, op[c].as) THEN Flush(c) ELSE UNCHANGED <<tlb, missed>>
  /\ i' = [i EXCEPT ![c] = @ + 1]
  /\ UNCHANGED <<pc, bootVars, callVars, cr3, lock, check, target, ipi>>

(* tlb_shootdown_check is only ever taken for long by the holder of the    *)
(* lock, so the two are acquired together.  Each try_acquire of it that    *)
(* succeeds is followed by its release with nothing between: one step, in  *)
(* HandlerEnter, which returns then, and in Served.                        *)
Acquire(c, t) ==
  /\ Goto(c, "shoot", "send") /\ i[c] <= count /\ slots[i[c]] = t /\ t # c
  /\ ~lock[t]
  /\ lock' = [lock EXCEPT ![t] = TRUE]
  /\ check' = [check EXCEPT ![t] = TRUE]
  /\ UNCHANGED <<bootVars, callVars, tlbVars, i, target, ipi>>

(* A handler that began before the target was written answers for the      *)
(* target before: the shootdown goes by unnoticed.                         *)
Crossed(t) == pc[t] \in {"flush", "answer"} \/ ~check[t]

Send(c, t) ==
  /\ Goto(c, "send", "wait") /\ slots[i[c]] = t
  /\ target' = [target EXCEPT ![t] = op[c].as]
  /\ ipi' = [ipi EXCEPT ![t] = TRUE]
  /\ missed' = IF Crossed(t) THEN missed \cup {t} ELSE missed
  /\ UNCHANGED <<bootVars, callVars, cr3, tlb, i, lock, check>>

Resend(c, t) ==
  /\ pc[c] = "wait" /\ slots[i[c]] = t
  /\ ipi' = [ipi EXCEPT ![t] = TRUE]
  /\ UNCHANGED <<pc, bootVars, callVars, tlbVars, i, lock, check, target>>

Pass(c, t) ==
  /\ Goto(c, "wait", "shoot") /\ slots[i[c]] = t
  /\ check' = [check EXCEPT ![t] = FALSE]
  /\ lock' = [lock EXCEPT ![t] = FALSE]
  /\ i' = [i EXCEPT ![c] = @ + 1]
  /\ UNCHANGED <<bootVars, callVars, cr3, tlb, target, ipi>>

Answered(t) == ~check[t]

(* The end of the wait: an answer, or 3000 turns without one.              *)
Served(c, t) == Answered(t) /\ Pass(c, t) /\ UNCHANGED missed
GiveUp_Bug(c, t) == FALSE
GiveUp(c, t) == check[t] /\ Pass(c, t) /\ missed' = missed \cup {t}

(* tlb_shootdown_handler, which finds its processor through the current    *)
(* thread: before there is one, the fault it takes has no end.             *)
HandlerEnter(c) ==
  /\ ipi[c]
  /\ \/ pc[c] \in {"ready", "switching"} /\ pc' = [pc EXCEPT ![c] = "lost"]
     \/ IF check[c] THEN Goto(c, "run", "flush") ELSE pc[c] = "run" /\ pc' = pc
  /\ ipi' = [ipi EXCEPT ![c] = FALSE]
  /\ UNCHANGED <<bootVars, callVars, tlbVars, i, lock, check, target>>

HandlerFlush(c) ==
  /\ Goto(c, "flush", "answer")
  /\ IF Mine(c, target[c]) THEN Flush(c) ELSE UNCHANGED <<tlb, missed>>
  /\ UNCHANGED <<bootVars, callVars, loopVars, cr3>>

HandlerAnswer(c) ==
  /\ Goto(c, "answer", "run")
  /\ check' = [check EXCEPT ![c] = FALSE]
  /\ UNCHANGED <<bootVars, callVars, tlbVars, i, lock, target, ipi>>

-----------------------------------------------------------------------------
Calls == [kind : {"map"}, as : AS, rights : Rights]
         \cup [kind : {"unmap"}, as : Space, rights : {{}}]

Start == BootNext /\ UNCHANGED <<callVars, tlbVars, loopVars>>

(* The steps a processor takes without being asked to.                     *)
Progress(c) ==
  \/ Change(c) \/ Return(c) \/ FlushSelf(c)
  \/ HandlerFlush(c) \/ HandlerAnswer(c)
  \/ \E t \in CPU : Acquire(c, t) \/ Send(c, t) \/ Served(c, t) \/ GiveUp(c, t)

Next ==
  \/ Start
  \/ \E c \in CPU :
       \/ Progress(c) \/ HandlerEnter(c)
       \/ \E o \in Calls : Call(c, o)
       \/ \E a \in AS : Access(c, a) \/ arch_vmm_load_address_space(c, a)
       \/ \E t \in CPU : Resend(c, t)

(* Processors execute.                                                     *)
Fairness == WF_vars(Start) /\ \A c \in CPU : WF_vars(Progress(c))

Spec == Init /\ [][Next]_vars
FairSpec == Spec /\ Fairness

-----------------------------------------------------------------------------
Where == {"init", "spin", "parked", "woken", "filled", "ready", "switching", "lost",
          "run", "lock", "shoot", "send", "wait", "flush", "answer"}

TypeOK ==
  /\ pc \in [CPU -> Where]
  /\ stage \in {"MEMORY", "SMP", "TIME", "PRE_SCHED", "SCHED"}
  /\ count \in 0 .. Len(cpus) /\ slots \in [1 .. Len(cpus) -> CPU \cup {None}]
  /\ k \in 1 .. Len(cpus) + 1 /\ previous_count \in 0 .. Len(cpus)
  /\ ops \in 0 .. OPS
  /\ dir \in [AS -> (SUBSET UNION Rights) \cup {None}]
  /\ leaf \in [AS -> Rights \cup {None}] /\ cr3_lock \in [AS -> BOOLEAN]
  /\ op \in [CPU -> Calls \cup {NoOp}] /\ i \in [CPU -> 1 .. Len(cpus) + 1]
  /\ cr3 \in [CPU -> AS] /\ tlb \in [CPU -> [AS -> (SUBSET UNION Rights) \cup {None}]]
  /\ lock \in [CPU -> BOOLEAN] /\ check \in [CPU -> BOOLEAN]
  /\ target \in [CPU -> AS \cup {None}] /\ ipi \in [CPU -> BOOLEAN]
  /\ missed \subseteq CPU

(* Directories never withhold what a page grants, however often pages      *)
(* below them come and go with other rights (vmm.c:201-209).               *)
RightsGranted == \A a \in AS : leaf[a] # None => Granted(a) = leaf[a]

(* d has changed the tables of a and its loop has not passed c yet.        *)
Pending(d, c, a) ==
  /\ pc[d] \in {"shoot", "send", "wait"} /\ op[d].as = a
  /\ \E n \in i[d] .. count : slots[n] = c

(* A processor remembers what the tables no longer say only while a        *)
(* shootdown is on its way to it, or after one went by: given up on, or    *)
(* answered by a handler that crossed it (vmm.c:112-149).                  *)
StaleOnlyAfterMiss ==
  \A c \in CPU, a \in AS :
    tlb[c][a] \notin {None, Granted(a)}
      => c \in missed \/ \E d \in CPU : Pending(d, c, a)

(* Every processor the boot loader could start gets a thread, unless a     *)
(* shootdown reaches it between the two, when it has interrupts on and no  *)
(* thread for the handler to find (init.c:157, 454-456, sched.c:284-290).  *)
ShotAtEarly(c) == ipi[c] /\ pc[c] \in {"ready", "switching"}
EveryCpuStarts ==
  \A c \in CPU \ init_failed :
    [](~ShotAtEarly(c)) => <>(stage = "SCHED" /\ pc[c] = "run")

(* Every map and unmap returns, even when two processors shoot at each     *)
(* other with interrupts off (vmm.c:134).                                  *)
ShootdownEnds == \A c \in CPU : pc[c] \in {"lock", "shoot", "send", "wait"} ~> pc[c] = "run"

(* The tables are well formed and grant what was asked (vmm.c:195-217).    *)
TablesSound == TypeOK /\ RightsGranted
=============================================================================
