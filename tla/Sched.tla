-------------------------------- MODULE Sched --------------------------------
(***************************************************************************)
(* The multiprocessor scheduler: sched/sched.c, arch/x86_64/sched.c,       *)
(* arch/x86_64/sched.asm and the exit system call.                         *)
(*                                                                         *)
(* Every CPU runs one kernel control path at a time: interrupts are off,   *)
(* or (in x86_64_sched_init_cpu) the timer is not armed yet, except in pc  *)
(* "run", where the current thread executes user code (or the idle loop).  *)
(* The CPUs share one circular run queue, the processes and the memory of  *)
(* threads and processes.  A step is what happens between two accesses to  *)
(* memory another CPU may touch.                                           *)
(***************************************************************************)
EXTENDS Naturals, Sequences

CONSTANTS
  CPU,            \* the CPUs that finished x86_64_init
  BSP,            \* the bootstrap CPU
  UThread,        \* user threads that may be created
  Proc,           \* processes that may be created
  ProcOf,         \* thread_t.proc of each user thread
  idle_thread,    \* cpu_t.idle_thread of each CPU
  dummy_thread,   \* the dummy thread each CPU boots on
  None            \* the null pointer; also "lock free" and "kernel address space"

KThread == {idle_thread[c] : c \in CPU} \cup {dummy_thread[c] : c \in CPU}
Thread == UThread \cup KThread

ASSUME SchedAssumption ==
  /\ BSP \in CPU
  /\ ProcOf \in [UThread -> Proc]
  /\ DOMAIN idle_thread = CPU
  /\ DOMAIN dummy_thread = CPU
  /\ \A c, d \in CPU :
        /\ idle_thread[c] # dummy_thread[d]
        /\ idle_thread[c] = idle_thread[d] => c = d
        /\ dummy_thread[c] = dummy_thread[d] => c = d
  /\ UThread \cap KThread = {}
  /\ None \notin CPU \cup Thread \cup Proc

VARIABLES
  (* per CPU: control point and the pointers its code holds *)
  pc,
  gs,             \* GS_BASE: arch_sched_thread_current()
  stack,          \* the thread whose kernel stack RSP points into
  nxt,            \* local "next" of x86_64_sched_next / sched_switch
  prev,           \* RDI across the context switch: the thread to drop
  (* per CPU: registers that belong to the running thread *)
  as,             \* CR3: the process whose address space is loaded
  rsp0,           \* TSS.RSP0: the thread whose kernel stack traps enter on
  regs,           \* FS_BASE, KERNEL_GS_BASE, FPU: the thread whose values they hold
  timer,          \* the LAPIC one-shot timer is counting
  irq,            \* the scheduler vector is pending in the LAPIC
  (* shared *)
  stage,          \* init_stage has reached X86_64_INIT_STAGE_SCHED
  g_sched_threads_lock,
  queue,          \* g_sched_threads_queued, head first
  g_sched_processes,  \* the processes linked in the list of that name
  (* per thread *)
  state, cpu, mem,
  saved,          \* thread.rsp points at a complete switch frame nobody runs on
  ctx,            \* thread.state.{fs,gs,fpu_area}: the thread whose values they hold
  (* per process *)
  threads, lock, rlock, pmem

cpuVars == <<gs, stack, nxt, prev>>
regVars == <<as, rsp0, regs>>
timVars == <<timer, irq>>
queVars == <<g_sched_threads_lock, queue>>
thrVars == <<state, cpu, mem, saved, ctx>>
proVars == <<threads, lock, rlock, pmem, g_sched_processes>>
vars == <<pc, cpuVars, regVars, timVars, stage, queVars, thrVars, proVars>>

Points == {"boot", "next", "dequeue", "pick", "switch", "ctx", "drop", "enqueue",
           "link", "destroy", "unlink", "pdestroy", "pfree", "tfree", "arm",
           "run", "sys", "sysheld"}

Goto(c, from, to) == pc[c] = from /\ pc' = [pc EXCEPT ![c] = to]

(***************************************************************************)
(* The pieces the steps are built from.  Beside some of them stands a      *)
(* faulty form, named ..._Bug: no action uses it; substituted for the      *)
(* piece it must make a property fail.                                     *)
(***************************************************************************)

(* spinlock_try_acquire can succeed on lock l.                             *)
Free(l) == l = None

(* list_prepend on the circular head links the thread in as the last ...   *)
sched_thread_schedule_Bug(t) == queue' = <<t>> \o queue
sched_thread_schedule(t) == queue' = Append(queue, t)

(* ... and list_delete of head.next takes the first out.                   *)
list_delete_Bug(q) == q
list_delete(q) == Tail(q)

(* sched_switch, on thread_t.cpu: next's is copied before this's is zeroed.*)
HandOverCpu_Bug(this, next) == [cpu EXCEPT ![this] = None, ![next] = None]
HandOverCpu(this, next) == [cpu EXCEPT ![next] = cpu[this], ![this] = None]

(* sched_switch, on CR3.                                                   *)
LoadAddressSpace_Bug(c, next) ==
  IF next \in UThread THEN [as EXCEPT ![c] = ProcOf[next]] ELSE as
LoadAddressSpace(c, next) ==
  [as EXCEPT ![c] = IF next \in UThread THEN ProcOf[next] ELSE None]

(* Where sched_thread_drop goes with the thread it is given.               *)
AfterDrop(c) ==
  IF prev[c] = idle_thread[cpu[gs[c]]] THEN "arm"
  ELSE IF state[prev[c]] = "DESTROY" THEN "destroy" ELSE "enqueue"

(* list_is_empty(&proc->threads), after the thread has left.               *)
LastThread_Always(left) == TRUE
LastThread_Never(left) == FALSE
LastThread(left) == left = {}

(***************************************************************************)
(* The state in which every CPU is about to run x86_64_sched_init_cpu.     *)
(***************************************************************************)
Init ==
  /\ pc = [c \in CPU |-> "boot"]
  /\ gs = [c \in CPU |-> dummy_thread[c]]
  /\ stack = [c \in CPU |-> dummy_thread[c]]
  /\ nxt = [c \in CPU |-> None]
  /\ prev = [c \in CPU |-> None]
  /\ as = [c \in CPU |-> None]
  /\ rsp0 = [c \in CPU |-> dummy_thread[c]]
  /\ regs = [c \in CPU |-> dummy_thread[c]]
  /\ timer = [c \in CPU |-> FALSE]
  /\ irq = [c \in CPU |-> FALSE]
  /\ stage = FALSE
  /\ g_sched_threads_lock = None
  /\ queue = <<>>
  /\ g_sched_processes = {}
  /\ state = [t \in Thread |-> IF \E c \in CPU : t = dummy_thread[c] THEN "DESTROY" ELSE "READY"]
  /\ cpu = [t \in Thread |-> IF \E c \in CPU : t = dummy_thread[c]
                             THEN CHOOSE c \in CPU : t = dummy_thread[c] ELSE None]
  /\ mem = [t \in Thread |-> IF t \in UThread THEN "none" ELSE "live"]
  /\ saved = [t \in Thread |-> \E c \in CPU : t = idle_thread[c]]
  /\ ctx = [t \in Thread |-> t]
  /\ threads = [p \in Proc |-> {}]
  /\ lock = [p \in Proc |-> None]
  /\ rlock = [p \in Proc |-> None]
  /\ pmem = [p \in Proc |-> "none"]

-----------------------------------------------------------------------------
(* Boot: threads are created and queued before the CPUs are released.      *)

sched_process_create(p) ==
  /\ pmem' = [pmem EXCEPT ![p] = "live"]
  /\ g_sched_processes' = g_sched_processes \cup {p}

(* create_thread: READY, a prepared frame on a fresh kernel stack.         *)
create_thread(t) ==
  /\ mem' = [mem EXCEPT ![t] = "live"]
  /\ state' = [state EXCEPT ![t] = "READY"]
  /\ cpu' = [cpu EXCEPT ![t] = None]
  /\ saved' = [saved EXCEPT ![t] = TRUE]
  /\ ctx' = [ctx EXCEPT ![t] = t]

arch_sched_thread_create_user(t) ==
  /\ create_thread(t)
  /\ threads' = [threads EXCEPT ![ProcOf[t]] = @ \cup {t}]
  /\ UNCHANGED <<lock, rlock>>

(* x86_64_init: create the process if this is its first thread, then the   *)
(* thread, then queue it.  The other CPUs still spin on the stage.         *)
Spawn(t) ==
  /\ pc[BSP] = "boot" /\ ~stage
  /\ mem[t] = "none"
  /\ sched_process_create(ProcOf[t])
  /\ arch_sched_thread_create_user(t)
  /\ sched_thread_schedule(t)
  /\ UNCHANGED <<pc, cpuVars, regVars, timVars, stage, g_sched_threads_lock>>

(* x86_64_sched_init_cpu: the BSP releases the stage, an AP waits for it,  *)
(* and each calls sched_switch(dummy_thread, idle_thread).                 *)
x86_64_sched_init_cpu(c) ==
  /\ Goto(c, "boot", "switch")
  /\ c = BSP \/ stage
  /\ stage' = TRUE
  /\ nxt' = [nxt EXCEPT ![c] = idle_thread[c]]
  /\ UNCHANGED <<gs, stack, prev, regVars, timVars, queVars, thrVars, proVars>>

-----------------------------------------------------------------------------
(* What a running thread and the hardware do.                              *)

(* The one-shot counter reaches zero; the vector stays pending while       *)
(* interrupts are off.                                                     *)
TimerExpire(c) ==
  /\ timer[c]
  /\ timer' = [timer EXCEPT ![c] = FALSE]
  /\ irq' = [irq EXCEPT ![c] = TRUE]
  /\ UNCHANGED <<pc, cpuVars, regVars, stage, queVars, thrVars, proVars>>

(* sched_entry: the interrupt is taken and calls x86_64_sched_next.        *)
sched_entry(c) ==
  /\ Goto(c, "run", "next")
  /\ irq[c]
  /\ irq' = [irq EXCEPT ![c] = FALSE]
  /\ UNCHANGED <<cpuVars, regVars, timer, stage, queVars, thrVars, proVars>>

(* The exit system call: nothing undoes DESTROY, and it never returns.     *)
x86_64_syscall_exit(c) ==
  /\ Goto(c, "run", "next")
  /\ gs[c] \in UThread
  /\ state' = [state EXCEPT ![gs[c]] = "DESTROY"]
  /\ UNCHANGED <<cpuVars, regVars, timVars, stage, queVars, cpu, mem, saved, ctx, proVars>>

(* Any other system call on the process: resource_get, resource_create and *)
(* resource_remove take the lock of the process's resource table.          *)
SyscallEnter(c) ==
  /\ Goto(c, "run", "sys")
  /\ gs[c] \in UThread
  /\ UNCHANGED <<cpuVars, regVars, timVars, stage, queVars, thrVars, proVars>>

SyscallAcquire(c) ==
  LET p == ProcOf[gs[c]] IN
  /\ Goto(c, "sys", "sysheld")
  /\ Free(rlock[p])
  /\ rlock' = [rlock EXCEPT ![p] = c]
  /\ UNCHANGED <<cpuVars, regVars, timVars, stage, queVars, thrVars,
                 threads, lock, pmem, g_sched_processes>>

SyscallReturn(c) ==
  /\ Goto(c, "sysheld", "run")
  /\ rlock' = [rlock EXCEPT ![ProcOf[gs[c]]] = None]
  /\ UNCHANGED <<cpuVars, regVars, timVars, stage, queVars, thrVars,
                 threads, lock, pmem, g_sched_processes>>

-----------------------------------------------------------------------------
(* x86_64_sched_next                                                       *)

(* sched_thread_next: take the run queue lock ...                          *)
NextAcquire(c) ==
  /\ Goto(c, "next", "dequeue")
  /\ Free(g_sched_threads_lock)
  /\ g_sched_threads_lock' = c
  /\ UNCHANGED <<cpuVars, regVars, timVars, stage, queue, thrVars, proVars>>

(* ... and unlink the head, or return 0 on an empty queue.                 *)
sched_thread_next(c) ==
  /\ Goto(c, "dequeue", "pick")
  /\ IF queue = <<>>
     THEN UNCHANGED <<nxt, queue>>
     ELSE /\ nxt' = [nxt EXCEPT ![c] = Head(queue)]
          /\ queue' = list_delete(queue)
  /\ g_sched_threads_lock' = None
  /\ UNCHANGED <<gs, stack, prev, regVars, timVars, stage, thrVars, proVars>>

(* Nothing queued: the idle thread keeps running, anything else gives way  *)
(* to the idle thread.                                                     *)
PickNext_Bug(c) ==
  LET idle == idle_thread[cpu[gs[c]]] IN
  /\ IF gs[c] = idle
     THEN Goto(c, "pick", "arm") /\ nxt' = [nxt EXCEPT ![c] = None]
     ELSE /\ Goto(c, "pick", "switch")
          /\ nxt' = [nxt EXCEPT ![c] = IF @ = None THEN idle ELSE @]
  /\ UNCHANGED <<gs, stack, prev, regVars, timVars, stage, queVars, thrVars, proVars>>
PickNext(c) ==
  LET idle == idle_thread[cpu[gs[c]]] IN
  /\ IF nxt[c] = None /\ gs[c] = idle
     THEN Goto(c, "pick", "arm") /\ UNCHANGED nxt
     ELSE /\ Goto(c, "pick", "switch")
          /\ nxt' = [nxt EXCEPT ![c] = IF @ = None THEN idle ELSE @]
  /\ UNCHANGED <<gs, stack, prev, regVars, timVars, stage, queVars, thrVars, proVars>>

(* sched_switch up to the context switch, all of it on this CPU's and the  *)
(* two threads' own state: next.cpu is copied before this.cpu is cleared.  *)
sched_switch(c) ==
  LET this == gs[c]
      next == nxt[c]
  IN
  /\ Goto(c, "switch", "ctx")
  /\ as' = LoadAddressSpace(c, next)
  /\ cpu' = HandOverCpu(this, next)
  /\ gs' = [gs EXCEPT ![c] = next]
  /\ rsp0' = [rsp0 EXCEPT ![cpu[this]] = next]
  /\ ctx' = [ctx EXCEPT ![this] = regs[c]]
  /\ regs' = [regs EXCEPT ![c] = ctx[next]]
  /\ prev' = [prev EXCEPT ![c] = this]
  /\ UNCHANGED <<stack, nxt, timVars, stage, queVars, state, mem, saved, proVars>>

(* The assembly: push the frame, store RSP in this, load RSP from next.    *)
(* It returns into sched_switch or, the first time, into                   *)
(* common_thread_init; both drop prev and then arm the timer.              *)
x86_64_sched_context_switch(c) ==
  /\ Goto(c, "ctx", "drop")
  /\ saved' = [saved EXCEPT ![prev[c]] = TRUE, ![nxt[c]] = FALSE]
  /\ stack' = [stack EXCEPT ![c] = nxt[c]]
  /\ nxt' = [nxt EXCEPT ![c] = None]
  /\ UNCHANGED <<gs, prev, regVars, timVars, stage, queVars, state, cpu, mem, ctx, proVars>>

-----------------------------------------------------------------------------
(* sched_thread_drop, on the stack of the new thread                       *)

sched_thread_drop(c) ==
  /\ Goto(c, "drop", AfterDrop(c))
  /\ prev' = IF AfterDrop(c) \in {"destroy", "enqueue"}
             THEN prev ELSE [prev EXCEPT ![c] = None]
  /\ UNCHANGED <<gs, stack, nxt, regVars, timVars, stage, queVars, thrVars, proVars>>

ScheduleAcquire(c) ==
  /\ Goto(c, "enqueue", "link")
  /\ Free(g_sched_threads_lock)
  /\ g_sched_threads_lock' = c
  /\ UNCHANGED <<cpuVars, regVars, timVars, stage, queue, thrVars, proVars>>

ScheduleLink(c) ==
  /\ Goto(c, "link", "arm")
  /\ sched_thread_schedule(prev[c])
  /\ g_sched_threads_lock' = None
  /\ prev' = [prev EXCEPT ![c] = None]
  /\ UNCHANGED <<gs, stack, nxt, regVars, timVars, stage, thrVars, proVars>>

(* arch_sched_thread_destroy: a kernel thread is only freed ...            *)
DestroyAcquire(c) ==
  LET t == prev[c] IN
  /\ IF t \in UThread
     THEN /\ Goto(c, "destroy", "unlink")
          /\ Free(lock[ProcOf[t]])
          /\ lock' = [lock EXCEPT ![ProcOf[t]] = c]
     ELSE Goto(c, "destroy", "tfree") /\ UNCHANGED lock
  /\ UNCHANGED <<cpuVars, regVars, timVars, stage, queVars, thrVars,
                 threads, rlock, pmem, g_sched_processes>>

(* ... a user thread leaves its process first; the last one destroys the   *)
(* process and never releases its lock.                                    *)
arch_sched_thread_destroy(c) ==
  LET t == prev[c]
      p == ProcOf[t]
      left == threads[p] \ {t}
  IN
  /\ pc[c] = "unlink"
  /\ threads' = [threads EXCEPT ![p] = left]
  /\ IF LastThread(left)
     THEN pc' = [pc EXCEPT ![c] = "pdestroy"] /\ UNCHANGED lock
     ELSE pc' = [pc EXCEPT ![c] = "tfree"] /\ lock' = [lock EXCEPT ![p] = None]
  /\ UNCHANGED <<cpuVars, regVars, timVars, stage, queVars, thrVars,
                 rlock, pmem, g_sched_processes>>

(* sched_process_destroy: every resource_remove takes and releases the     *)
(* table lock, the last acquire keeps it.  No other CPU competes for it    *)
(* (NoUseAfterFree), so the loop is one step.                              *)
ProcessDestroyAcquire(c) ==
  LET p == ProcOf[prev[c]] IN
  /\ Goto(c, "pdestroy", "pfree")
  /\ Free(rlock[p])
  /\ rlock' = [rlock EXCEPT ![p] = c]
  /\ UNCHANGED <<cpuVars, regVars, timVars, stage, queVars, thrVars,
                 threads, lock, pmem, g_sched_processes>>

(* The table and the process are freed; g_sched_processes still links it.  *)
sched_process_destroy(c) ==
  /\ Goto(c, "pfree", "tfree")
  /\ pmem' = [pmem EXCEPT ![ProcOf[prev[c]]] = "freed"]
  /\ UNCHANGED <<cpuVars, regVars, timVars, stage, queVars, thrVars,
                 threads, lock, rlock, g_sched_processes>>

ThreadFree(c) ==
  /\ Goto(c, "tfree", "arm")
  /\ mem' = [mem EXCEPT ![prev[c]] = "freed"]
  /\ prev' = [prev EXCEPT ![c] = None]
  /\ UNCHANGED <<gs, stack, nxt, regVars, timVars, stage, queVars,
                 state, cpu, saved, ctx, proVars>>

(* x86_64_lapic_timer_oneshot, then return to the thread.                  *)
TimerArm(c) ==
  /\ Goto(c, "arm", "run")
  /\ timer' = [timer EXCEPT ![c] = TRUE]
  /\ UNCHANGED <<cpuVars, regVars, irq, stage, queVars, thrVars, proVars>>

-----------------------------------------------------------------------------
(* The steps of CPU c that need no lock, and those that spin on one.       *)
LocalStep(c) ==
  \/ x86_64_sched_init_cpu(c) \/ sched_entry(c) \/ SyscallReturn(c)
  \/ sched_thread_next(c) \/ PickNext(c) \/ sched_switch(c)
  \/ x86_64_sched_context_switch(c) \/ sched_thread_drop(c) \/ ScheduleLink(c)
  \/ arch_sched_thread_destroy(c) \/ sched_process_destroy(c)
  \/ ThreadFree(c) \/ TimerArm(c)
AcquireStep(c) ==
  \/ SyscallAcquire(c) \/ NextAcquire(c) \/ ScheduleAcquire(c)
  \/ DestroyAcquire(c) \/ ProcessDestroyAcquire(c)

Next ==
  \/ \E t \in UThread : Spawn(t)
  \/ \E c \in CPU :
       \/ LocalStep(c) \/ AcquireStep(c)
       \/ TimerExpire(c) \/ x86_64_syscall_exit(c) \/ SyscallEnter(c)

Spec == Init /\ [][Next]_vars

(* A CPU keeps executing, the timer it armed expires, and a CPU that spins *)
(* on a lock that is free again and again gets it in the end (a spin that  *)
(* lasts is a panic in spinlock_acquire).  A pending interrupt is taken    *)
(* before the next user instruction, so system calls made again and again  *)
(* do not hold it off.  No thread has to make a call.                      *)
Fairness ==
  \A c \in CPU : /\ WF_vars(LocalStep(c))
                 /\ SF_vars(AcquireStep(c))
                 /\ WF_vars(TimerExpire(c))
                 /\ SF_vars(sched_entry(c))

FairSpec == Spec /\ Fairness

-----------------------------------------------------------------------------
(* Properties                                                              *)

Queued == {queue[i] : i \in DOMAIN queue}

(* The threads whose thread_t CPU c's code holds a pointer to.             *)
Refs(c) == {gs[c], nxt[c], prev[c]} \ {None}

(* The values every variable may take.                                     *)
TypeOK ==
  /\ pc \in [CPU -> Points]
  /\ gs \in [CPU -> Thread]
  /\ stack \in [CPU -> Thread]
  /\ nxt \in [CPU -> Thread \cup {None}]
  /\ prev \in [CPU -> Thread \cup {None}]
  /\ as \in [CPU -> Proc \cup {None}]
  /\ rsp0 \in [CPU -> Thread]
  /\ regs \in [CPU -> Thread]
  /\ timer \in [CPU -> BOOLEAN]
  /\ irq \in [CPU -> BOOLEAN]
  /\ stage \in BOOLEAN
  /\ g_sched_threads_lock \in CPU \cup {None}
  /\ queue \in Seq(UThread)
  /\ g_sched_processes \in SUBSET Proc
  /\ state \in [Thread -> {"READY", "DESTROY"}]
  /\ cpu \in [Thread -> CPU \cup {None}]
  /\ mem \in [Thread -> {"none", "live", "freed"}]
  /\ saved \in [Thread -> BOOLEAN]
  /\ ctx \in [Thread -> Thread]
  /\ threads \in [Proc -> SUBSET UThread]
  /\ lock \in [Proc -> CPU \cup {None}]
  /\ rlock \in [Proc -> CPU \cup {None}]
  /\ pmem \in [Proc -> {"none", "live", "freed"}]

(* Mutual exclusion by the three kinds of spinlock, as the acquire and     *)
(* release calls place them: whoever is between the two is the holder.     *)
LockHolders ==
  \A c \in CPU :
    /\ (pc[c] \in {"dequeue", "link"}) <=> (g_sched_threads_lock = c)
    /\ pc[c] \in {"unlink", "pdestroy", "pfree"} => lock[ProcOf[prev[c]]] = c
    /\ pc[c] = "sysheld" => rlock[ProcOf[gs[c]]] = c
    /\ pc[c] = "pfree" => rlock[ProcOf[prev[c]]] = c

(* A thread is queued once or in the hands of one CPU, never both: no two  *)
(* CPUs run it or its kernel stack, and x86_64_sched_next's                *)
(* ASSERT(current != next) holds.                                          *)
QueuedOnce == \A i, j \in DOMAIN queue : queue[i] = queue[j] => i = j
SwitchesToOther == \A c \in CPU : pc[c] \in {"pick", "switch"} => gs[c] # nxt[c]
ThreadExclusive ==
  /\ QueuedOnce
  /\ SwitchesToOther
  /\ \A c \in CPU : Queued \cap (Refs(c) \cup {stack[c]}) = {}
  /\ \A c, d \in CPU : c # d =>
       (Refs(c) \cup {stack[c]}) \cap (Refs(d) \cup {stack[d]}) = {}

(* What a CPU finds at the head of the run queue can be switched to: its   *)
(* frame is complete (sched_thread_drop runs after the context switch, not *)
(* before) and it, and its process, still exist.                           *)
QueuedIsRunnable ==
  \A t \in Queued :
    /\ saved[t] /\ state[t] = "READY" /\ mem[t] = "live"
    /\ t \in threads[ProcOf[t]] /\ pmem[ProcOf[t]] = "live"

(* cpu_current() is right wherever the scheduler asks: the thread in       *)
(* GS_BASE names this CPU, and no other thread does.                       *)
CpuCurrent ==
  \A c \in CPU, t \in Thread : cpu[t] = c <=> t = gs[c]

(* When control returns to a thread the CPU holds that thread's stack,     *)
(* registers, trap stack and address space, however many switches the      *)
(* thread has been through since it was last here.                         *)
ThreadOwnsCpu ==
  \A c \in CPU : pc[c] \in {"run", "sys", "sysheld"} =>
    /\ stack[c] = gs[c] /\ regs[c] = gs[c] /\ rsp0[c] = gs[c]
    /\ as[c] = IF gs[c] \in UThread THEN ProcOf[gs[c]] ELSE None

(* No CPU holds a pointer into freed memory it will still follow: threads  *)
(* exiting on several CPUs race for the process lock that                  *)
(* sched_process_destroy frees while holding it.                           *)
NoUseAfterFree ==
  \A c \in CPU :
    /\ \A t \in Refs(c) : mem[t] = "live"
    /\ \A t \in UThread :
         (t \in {gs[c], nxt[c]} \/ (t = prev[c] /\ pc[c] # "tfree"))
           => pmem[ProcOf[t]] = "live"

(* The only way back into the kernel for a thread that makes no call: on   *)
(* every path to "run" the timer has been armed.                           *)
TimerArmed ==
  \A c \in CPU : pc[c] \in {"run", "sys", "sysheld"} => timer[c] \/ irq[c]

(* A process lives exactly as long as its threads: it is freed only when   *)
(* each is freed or being freed, and a live process without threads is      *)
(* being destroyed by the CPU that removed the last one.                   *)
FreedWithThreads ==
  \A t \in UThread : pmem[ProcOf[t]] = "freed" /\ mem[t] = "live" =>
    \E c \in CPU : prev[c] = t /\ pc[c] = "tfree"
EmptyIsDestroyed ==
  \A p \in Proc : pmem[p] = "live" /\ threads[p] = {} =>
    \E c \in CPU : pc[c] \in {"pdestroy", "pfree"} /\ ProcOf[prev[c]] = p
ProcessLifetime == FreedWithThreads /\ EmptyIsDestroyed

(* sched/sched.h:15 on sched_process_destroy: the process "is not on the   *)
(* scheduler queue".  The code never unlinks it from g_sched_processes.    *)
DestroyedProcessIsUnlinked ==
  \A p \in g_sched_processes : pmem[p] # "freed"

(* Every queued thread gets a CPU: the queue is served in order and every  *)
(* running thread is preempted.                                            *)
QueuedThreadRuns ==
  \A t \in UThread : t \in Queued ~> \E c \in CPU : gs[c] = t /\ pc[c] = "run"

(* exit reclaims: the thread, and its process after its last thread.       *)
ExitReclaims ==
  \A t \in UThread :
    state[t] = "DESTROY" ~>
      /\ mem[t] = "freed"
      /\ threads[ProcOf[t]] = {} => pmem[ProcOf[t]] = "freed"

-----------------------------------------------------------------------------
(* The abstract scheduler this one implements: a CPU holds the user        *)
(* threads its code points at, and a thread has ended once it is freed.    *)
Holds == [c \in CPU |-> Refs(c) \cap UThread]
Ended == {t \in UThread : mem[t] = "freed"}
Abs == INSTANCE SchedAbs WITH ready <- queue, held <- Holds, ended <- Ended

(* Every step of the kernel is a step of the first-come-first-served       *)
(* dispatcher or invisible to it, and its fairness carries over.           *)
ImplementsFairAbs == Abs!AbsFairSpec

-----------------------------------------------------------------------------
(* The inductive invariant: what is known at each control point, beside    *)
(* the properties above.                                                   *)

(* From the context switch until sched_thread_drop is done with prev.      *)
Dropping == {"drop", "enqueue", "link", "destroy", "unlink", "pdestroy", "pfree", "tfree"}

ControlGs ==
  \A c \in CPU :
    /\ gs[c] \in UThread \cup {idle_thread[c], dummy_thread[c]}
    /\ pc[c] = "boot" => gs[c] = dummy_thread[c]
    /\ pc[c] # "boot" => stage
    /\ pc[c] \in {"sys", "sysheld"} => gs[c] \in UThread
    /\ stack[c] = IF pc[c] = "ctx" THEN prev[c] ELSE gs[c]

ControlNxt ==
  \A c \in CPU :
    /\ pc[c] \notin {"pick", "switch", "ctx"} => nxt[c] = None
    /\ pc[c] = "pick" => nxt[c] \in UThread \cup {None}
    /\ pc[c] \in {"switch", "ctx"} => nxt[c] \in UThread \cup {idle_thread[c]}
    /\ pc[c] = "ctx" => gs[c] = nxt[c]

ControlPrev ==
  \A c \in CPU :
    /\ pc[c] \notin Dropping \cup {"ctx"} => prev[c] = None
    /\ pc[c] \in {"ctx", "drop"} => prev[c] \in UThread \cup {idle_thread[c], dummy_thread[c]}
    /\ pc[c] \in Dropping \cup {"ctx"} => prev[c] # gs[c]
    /\ pc[c] \in Dropping => saved[prev[c]]
    /\ pc[c] \in {"enqueue", "link"} => prev[c] \in UThread /\ state[prev[c]] = "READY"
    /\ pc[c] \in {"destroy", "tfree"} => prev[c] \in UThread \cup {dummy_thread[c]}
    /\ pc[c] \in {"unlink", "pdestroy", "pfree"} => prev[c] \in UThread

KernelThreads ==
  \A c \in CPU : mem[idle_thread[c]] = "live" /\ state[dummy_thread[c]] = "DESTROY"

(* ThreadExclusive, on the pointers alone: RSP points into the stack of    *)
(* one of them (ControlGs).                                                *)
HeldOnce ==
  /\ \A c \in CPU, i \in DOMAIN queue : queue[i] \notin {gs[c], nxt[c], prev[c]}
  /\ \A c, d \in CPU : \A t \in {gs[c], nxt[c], prev[c]} :
       t \in {gs[d], nxt[d], prev[d]} /\ t # None => c = d

(* A thread belongs to its process until the CPU that drops it unlinks it. *)
Membership ==
  /\ \A c \in CPU : \A t \in UThread :
       (\/ t \in {gs[c], nxt[c]}
        \/ t = prev[c] /\ pc[c] \notin {"pdestroy", "pfree", "tfree"})
       => t \in threads[ProcOf[t]]
  /\ \A p \in Proc : \A t \in threads[p] : ProcOf[t] = p /\ pmem[p] = "live"
  /\ \A c \in CPU : pc[c] \in {"pdestroy", "pfree"} =>
       threads[ProcOf[prev[c]]] = {} /\ pmem[ProcOf[prev[c]]] = "live"

(* A live user thread is linked in its process or about to be freed.       *)
LiveThreads ==
  \A t \in UThread : mem[t] = "live" =>
    \/ t \in threads[ProcOf[t]]
    \/ \E c \in CPU : prev[c] = t /\ pc[c] \in {"pdestroy", "pfree", "tfree"}

Registers ==
  /\ \A t \in Thread : ctx[t] = t
  /\ \A c \in CPU :
       /\ regs[c] = gs[c] /\ rsp0[c] = gs[c]
       /\ as[c] = IF gs[c] \in UThread THEN ProcOf[gs[c]] ELSE None

IInv ==
  /\ TypeOK
  /\ ControlGs /\ ControlNxt /\ ControlPrev /\ KernelThreads
  /\ LockHolders /\ QueuedOnce /\ SwitchesToOther /\ HeldOnce /\ CpuCurrent
  /\ QueuedIsRunnable /\ NoUseAfterFree /\ Membership /\ LiveThreads
  /\ Registers /\ TimerArmed /\ EmptyIsDestroyed

=============================================================================
