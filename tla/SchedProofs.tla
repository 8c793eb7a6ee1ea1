----------------------------- MODULE SchedProofs -----------------------------
(* Theorems about Sched, for any number of CPUs, threads and processes.    *)
(* One lemma per action shows that the action keeps IInv; in each, the     *)
(* first step is for the conjuncts whose variables the action leaves       *)
(* alone.                                                                  *)
EXTENDS Sched, TLAPS

(* The assumptions on the constants, in the form the provers use.          *)
LEMMA Constants ==
  /\ UThread \subseteq Thread
  /\ \A c \in CPU : /\ idle_thread[c] \in Thread /\ idle_thread[c] \notin UThread
                    /\ dummy_thread[c] \in Thread /\ dummy_thread[c] \notin UThread
  /\ \A c, d \in CPU : /\ idle_thread[c] # dummy_thread[d]
                       /\ idle_thread[c] = idle_thread[d] => c = d
                       /\ dummy_thread[c] = dummy_thread[d] => c = d
  /\ None \notin Thread /\ None \notin CPU /\ None \notin Proc
  /\ \A t \in UThread : ProcOf[t] \in Proc
  /\ BSP \in CPU
BY SchedAssumption DEF Thread, KThread

(* A CPU that goes to a control point stays at one.                        *)
LEMMA Moves ==
  ASSUME pc \in [CPU -> Points], NEW c \in CPU, NEW to \in Points,
         pc' = [pc EXCEPT ![c] = to]
  PROVE  pc' \in [CPU -> Points]
OBVIOUS

(* What joining the run queue at its tail does to its elements.            *)
LEMMA AppendFacts ==
  ASSUME NEW S, NEW q \in Seq(S), NEW x \in S
  PROVE  /\ Append(q, x) \in Seq(S)
         /\ \A i \in DOMAIN Append(q, x) :
              \/ i \in DOMAIN q /\ Append(q, x)[i] = q[i]
              \/ i = Len(q) + 1 /\ Append(q, x)[i] = x
OBVIOUS

(* What leaving it at its head does.                                       *)
LEMMA TailFacts ==
  ASSUME NEW S, NEW q \in Seq(S), q # <<>>
  PROVE  /\ Tail(q) \in Seq(S)
         /\ 1 \in DOMAIN q /\ Head(q) = q[1] /\ Head(q) \in S
         /\ \A i \in DOMAIN Tail(q) :
              i + 1 \in DOMAIN q /\ i + 1 # 1 /\ i \in Nat /\ Tail(q)[i] = q[i + 1]
OBVIOUS

(* EmptyIsDestroyed survives a step after which no more processes are live *)
(* and empty, and no CPU destroying one has left off.                      *)
LEMMA EmptyStable ==
  ASSUME EmptyIsDestroyed,
         \A p \in Proc : pmem'[p] = "live" /\ threads'[p] = {} =>
                           pmem[p] = "live" /\ threads[p] = {},
         \A d \in CPU : pc[d] \in {"pdestroy", "pfree"} =>
                           pc'[d] \in {"pdestroy", "pfree"} /\ prev'[d] = prev[d]
  PROVE  EmptyIsDestroyed'
<1> SUFFICES ASSUME NEW p \in Proc, pmem'[p] = "live", threads'[p] = {}
             PROVE  \E d \in CPU : pc'[d] \in {"pdestroy", "pfree"} /\ ProcOf[prev'[d]] = p
  BY DEF EmptyIsDestroyed
<1>1. PICK d \in CPU : pc[d] \in {"pdestroy", "pfree"} /\ ProcOf[prev[d]] = p
  BY DEF EmptyIsDestroyed
<1> QED
  BY <1>1

(* The conjuncts that do not mention pc hold as long as their variables    *)
(* are left alone.                                                         *)
LEMMA Frame ==
  ASSUME IInv
  PROVE  /\ UNCHANGED <<mem, state>> => KernelThreads'
         /\ UNCHANGED queue => QueuedOnce'
         /\ UNCHANGED <<queue, gs, nxt, prev>> => HeldOnce'
         /\ UNCHANGED <<cpu, gs>> => CpuCurrent'
         /\ UNCHANGED <<queue, saved, state, mem, threads, pmem>> => QueuedIsRunnable'
         /\ UNCHANGED <<ctx, regs, gs, rsp0, as>> => Registers'
<1> USE DEF IInv
<1>1. UNCHANGED <<mem, state>> => KernelThreads'
  BY DEF KernelThreads
<1>2. UNCHANGED queue => QueuedOnce'
  BY DEF QueuedOnce
<1>3. UNCHANGED <<queue, gs, nxt, prev>> => HeldOnce'
  BY DEF HeldOnce
<1>4. UNCHANGED <<cpu, gs>> => CpuCurrent'
  BY DEF CpuCurrent
<1>5. UNCHANGED <<queue, saved, state, mem, threads, pmem>> => QueuedIsRunnable'
  BY DEF QueuedIsRunnable, Queued
<1>6. UNCHANGED <<ctx, regs, gs, rsp0, as>> => Registers'
  BY DEF Registers
<1> QED
  BY <1>1, <1>2, <1>3, <1>4, <1>5, <1>6

(* Creating a thread at boot keeps IInv: it is new to its process and to   *)
(* the queue, and no CPU has left the boot stage to look at either.        *)
LEMMA SpawnStep ==
  ASSUME IInv, NEW t \in UThread, Spawn(t)
  PROVE  IInv'
<1> USE Constants DEF IInv, Goto, cpuVars, regVars, timVars, queVars, thrVars, proVars,
             Spawn, sched_process_create, arch_sched_thread_create_user,
             create_thread, sched_thread_schedule
<1>1. TypeOK'
  <2>1. queue' \in Seq(UThread)
    BY AppendFacts DEF TypeOK
  <2> QED
    BY <2>1 DEF TypeOK
<1>2. ControlGs'
  BY DEF TypeOK, ControlGs, ControlNxt, ControlPrev
<1>3. ControlNxt'
  BY DEF TypeOK, ControlGs, ControlNxt
<1>4. ControlPrev'
  BY DEF TypeOK, ControlGs, ControlNxt, ControlPrev, KernelThreads,
         SwitchesToOther, HeldOnce, Dropping, CpuCurrent
<1>5. KernelThreads'
  BY DEF TypeOK, ControlGs, ControlPrev, KernelThreads
<1>6. LockHolders'
  BY DEF TypeOK, ControlGs, ControlPrev, LockHolders
<1>7. QueuedOnce'
  <2>1. \A i \in DOMAIN queue : queue[i] # t
    BY DEF QueuedIsRunnable, Queued
  <2> QED
    BY <2>1, AppendFacts DEF TypeOK, QueuedOnce
<1>8. SwitchesToOther'
  BY DEF TypeOK, ControlGs, SwitchesToOther, HeldOnce, CpuCurrent
<1>9. HeldOnce'
  <2>1. \A d \in CPU : t \notin {gs[d], nxt[d], prev[d]}
    BY DEF NoUseAfterFree, Refs
  <2> QED
    BY <2>1, AppendFacts DEF TypeOK, HeldOnce
<1>10. CpuCurrent'
  <2>1. \A d \in CPU : t \notin {gs[d], nxt[d], prev[d]}
    BY DEF NoUseAfterFree, Refs, TypeOK
  <2> QED
    BY <2>1 DEF TypeOK, CpuCurrent
<1>11. QueuedIsRunnable'
  <2>1. \A i \in DOMAIN queue' :
          queue'[i] = t \/ \E j \in DOMAIN queue : queue'[i] = queue[j]
    BY AppendFacts DEF TypeOK
  <2> QED
    BY <2>1 DEF TypeOK, QueuedIsRunnable, Queued
<1>12. NoUseAfterFree'
  BY DEF TypeOK, ControlGs, ControlNxt, ControlPrev, KernelThreads, HeldOnce,
         CpuCurrent, QueuedIsRunnable, NoUseAfterFree, Membership, Refs,
         Queued, Dropping
<1>13. Membership'
  BY DEF TypeOK, ControlGs, ControlNxt, ControlPrev, LockHolders, HeldOnce,
         QueuedIsRunnable, NoUseAfterFree, Membership, Refs, Queued, Dropping
<1>14. LiveThreads'
  BY DEF TypeOK, ControlPrev, LiveThreads, LockHolders
<1>15. Registers'
  <2>1. \A u \in Thread : ctx'[u] = u
    BY DEF TypeOK, Registers
  <2>2. \A d \in CPU : /\ regs'[d] = gs'[d] /\ rsp0'[d] = gs'[d]
                      /\ as'[d] = IF gs'[d] \in UThread THEN ProcOf[gs'[d]] ELSE None
    BY DEF Registers
  <2> QED
    BY <2>1, <2>2 DEF Registers
<1>16. TimerArmed'
  BY DEF TypeOK, TimerArmed
<1>17. EmptyIsDestroyed'
  <2>1. \A p \in Proc : pmem'[p] = "live" /\ threads'[p] = {} =>
                           pmem[p] = "live" /\ threads[p] = {}
    BY DEF TypeOK
  <2> QED
    BY <2>1, EmptyStable
<1> HIDE DEF Spawn, sched_process_create, arch_sched_thread_create_user,
             create_thread, sched_thread_schedule
<1> QED
  BY <1>1, <1>2, <1>3, <1>4, <1>5, <1>6, <1>7, <1>8, <1>9, <1>10, <1>11, <1>12,
     <1>13, <1>14, <1>15, <1>16, <1>17

(* Leaving the boot stage keeps IInv: the CPU's idle thread is in nobody   *)
(* else's hands.                                                           *)
LEMMA x86_64_sched_init_cpuStep ==
  ASSUME IInv, NEW c \in CPU, x86_64_sched_init_cpu(c)
  PROVE  IInv'
<1> USE Constants DEF IInv, Goto, cpuVars, regVars, timVars, queVars, thrVars, proVars,
             x86_64_sched_init_cpu
<1>1. KernelThreads' /\ QueuedOnce' /\ CpuCurrent' /\ QueuedIsRunnable'
      /\ Registers'
  BY Frame
<1>2. TypeOK'
  BY DEF TypeOK, ControlGs, ControlNxt, ControlPrev, Points
<1>3. ControlGs'
  BY DEF TypeOK, ControlGs, ControlNxt, ControlPrev
<1>4. ControlNxt'
  BY DEF TypeOK, ControlGs, ControlNxt
<1>5. ControlPrev'
  BY DEF TypeOK, ControlGs, ControlNxt, ControlPrev, KernelThreads,
         SwitchesToOther, HeldOnce, Dropping, CpuCurrent
<1>6. LockHolders'
  BY DEF TypeOK, ControlGs, ControlPrev, LockHolders
<1>7. SwitchesToOther'
  BY DEF TypeOK, ControlGs, SwitchesToOther
<1>8. HeldOnce'
  <2>1. \A d \in CPU : idle_thread[c] \in {gs[d], nxt[d], prev[d]} => d = c
    <3>1. \A d \in CPU : gs[d] = idle_thread[c] => d = c
      BY DEF ControlGs
    <3>2. \A d \in CPU : nxt[d] = idle_thread[c] => d = c
      BY DEF ControlNxt
    <3>3. \A d \in CPU : prev[d] = idle_thread[c] => d = c
      BY DEF ControlPrev, Dropping
    <3> QED
      BY <3>1, <3>2, <3>3
  <2>2. nxt' = [nxt EXCEPT ![c] = idle_thread[c]] /\ UNCHANGED <<gs, prev, queue>>
    OBVIOUS
  <2>3. \A i \in DOMAIN queue : queue[i] # idle_thread[c]
    BY DEF TypeOK
  <2> HIDE DEF x86_64_sched_init_cpu
  <2> QED
    BY <2>1, <2>2, <2>3 DEF TypeOK, HeldOnce
<1>9. NoUseAfterFree'
  BY DEF TypeOK, ControlGs, ControlNxt, ControlPrev, KernelThreads, HeldOnce,
         CpuCurrent, QueuedIsRunnable, NoUseAfterFree, Membership, Refs,
         Queued, Dropping
<1>10. Membership'
  BY DEF TypeOK, ControlGs, ControlNxt, ControlPrev, LockHolders, HeldOnce,
         QueuedIsRunnable, NoUseAfterFree, Membership, Refs, Queued, Dropping
<1>11. LiveThreads'
  BY DEF TypeOK, ControlPrev, LiveThreads, LockHolders
<1>12. TimerArmed'
  BY DEF TypeOK, TimerArmed
<1>13. EmptyIsDestroyed'
  <2>1. \A d \in CPU : pc[d] \in {"pdestroy", "pfree"} =>
                          pc'[d] \in {"pdestroy", "pfree"} /\ prev'[d] = prev[d]
    BY DEF TypeOK
  <2> QED
    BY <2>1, EmptyStable
<1> HIDE DEF x86_64_sched_init_cpu
<1> QED
  BY <1>1, <1>2, <1>3, <1>4, <1>5, <1>6, <1>7, <1>8, <1>9, <1>10, <1>11, <1>12,
     <1>13

(* The timer turning into a pending interrupt keeps IInv: TimerArmed       *)
(* counts both.                                                            *)
LEMMA TimerExpireStep ==
  ASSUME IInv, NEW c \in CPU, TimerExpire(c)
  PROVE  IInv'
<1> USE Constants DEF IInv, Goto, cpuVars, regVars, timVars, queVars, thrVars, proVars,
             TimerExpire
<1>1. KernelThreads' /\ QueuedOnce' /\ HeldOnce' /\ CpuCurrent'
      /\ QueuedIsRunnable' /\ Registers'
  BY Frame
<1>2. TypeOK'
  BY DEF TypeOK, ControlGs, ControlNxt, ControlPrev, Points
<1>3. ControlGs'
  BY DEF TypeOK, ControlGs, ControlNxt, ControlPrev
<1>4. ControlNxt'
  BY DEF TypeOK, ControlGs, ControlNxt
<1>5. ControlPrev'
  BY DEF TypeOK, ControlGs, ControlNxt, ControlPrev, KernelThreads,
         SwitchesToOther, HeldOnce, Dropping, CpuCurrent
<1>6. LockHolders'
  BY DEF TypeOK, ControlGs, ControlPrev, LockHolders
<1>7. SwitchesToOther'
  BY DEF TypeOK, ControlGs, SwitchesToOther, HeldOnce, CpuCurrent
<1>8. NoUseAfterFree'
  BY DEF TypeOK, ControlGs, ControlNxt, ControlPrev, KernelThreads, HeldOnce,
         CpuCurrent, QueuedIsRunnable, NoUseAfterFree, Membership, Refs,
         Queued, Dropping
<1>9. Membership'
  BY DEF TypeOK, ControlGs, ControlNxt, ControlPrev, LockHolders, HeldOnce,
         QueuedIsRunnable, NoUseAfterFree, Membership, Refs, Queued, Dropping
<1>10. LiveThreads'
  BY DEF TypeOK, ControlPrev, LiveThreads, LockHolders
<1>11. TimerArmed'
  BY DEF TypeOK, TimerArmed
<1>12. EmptyIsDestroyed'
  <2>1. \A d \in CPU : pc[d] \in {"pdestroy", "pfree"} =>
                          pc'[d] \in {"pdestroy", "pfree"} /\ prev'[d] = prev[d]
    BY DEF TypeOK
  <2> QED
    BY <2>1, EmptyStable
<1> HIDE DEF TimerExpire
<1> QED
  BY <1>1, <1>2, <1>3, <1>4, <1>5, <1>6, <1>7, <1>8, <1>9, <1>10, <1>11, <1>12

(* Taking the interrupt keeps IInv: the CPU leaves the control points at   *)
(* which the timer must be armed.                                          *)
LEMMA sched_entryStep ==
  ASSUME IInv, NEW c \in CPU, sched_entry(c)
  PROVE  IInv'
<1> USE Constants DEF IInv, Goto, cpuVars, regVars, timVars, queVars, thrVars, proVars,
             sched_entry
<1>1. KernelThreads' /\ QueuedOnce' /\ HeldOnce' /\ CpuCurrent'
      /\ QueuedIsRunnable' /\ Registers'
  BY Frame
<1>2. TypeOK'
  BY DEF TypeOK, ControlGs, ControlNxt, ControlPrev, Points
<1>3. ControlGs'
  BY DEF TypeOK, ControlGs, ControlNxt, ControlPrev
<1>4. ControlNxt'
  BY DEF TypeOK, ControlGs, ControlNxt
<1>5. ControlPrev'
  BY DEF TypeOK, ControlGs, ControlNxt, ControlPrev, KernelThreads,
         SwitchesToOther, HeldOnce, Dropping, CpuCurrent
<1>6. LockHolders'
  BY DEF TypeOK, ControlGs, ControlPrev, LockHolders
<1>7. SwitchesToOther'
  BY DEF TypeOK, ControlGs, SwitchesToOther, HeldOnce, CpuCurrent
<1>8. NoUseAfterFree'
  BY DEF TypeOK, ControlGs, ControlNxt, ControlPrev, KernelThreads, HeldOnce,
         CpuCurrent, QueuedIsRunnable, NoUseAfterFree, Membership, Refs,
         Queued, Dropping
<1>9. Membership'
  BY DEF TypeOK, ControlGs, ControlNxt, ControlPrev, LockHolders, HeldOnce,
         QueuedIsRunnable, NoUseAfterFree, Membership, Refs, Queued, Dropping
<1>10. LiveThreads'
  BY DEF TypeOK, ControlPrev, LiveThreads, LockHolders
<1>11. TimerArmed'
  BY DEF TypeOK, TimerArmed
<1>12. EmptyIsDestroyed'
  <2>1. \A d \in CPU : pc[d] \in {"pdestroy", "pfree"} =>
                          pc'[d] \in {"pdestroy", "pfree"} /\ prev'[d] = prev[d]
    BY DEF TypeOK
  <2> QED
    BY <2>1, EmptyStable
<1> HIDE DEF sched_entry
<1> QED
  BY <1>1, <1>2, <1>3, <1>4, <1>5, <1>6, <1>7, <1>8, <1>9, <1>10, <1>11, <1>12

(* Marking the current thread DESTROY keeps IInv: it runs, so it is not in *)
(* the queue.                                                              *)
LEMMA x86_64_syscall_exitStep ==
  ASSUME IInv, NEW c \in CPU, x86_64_syscall_exit(c)
  PROVE  IInv'
<1> USE Constants DEF IInv, Goto, cpuVars, regVars, timVars, queVars, thrVars, proVars,
             x86_64_syscall_exit
<1>1. QueuedOnce' /\ HeldOnce' /\ CpuCurrent' /\ Registers'
  BY Frame
<1>2. TypeOK'
  BY DEF TypeOK, ControlGs, ControlNxt, ControlPrev, Points
<1>3. ControlGs'
  BY DEF TypeOK, ControlGs, ControlNxt, ControlPrev
<1>4. ControlNxt'
  BY DEF TypeOK, ControlGs, ControlNxt
<1>5. ControlPrev'
  BY DEF TypeOK, ControlGs, ControlNxt, ControlPrev, KernelThreads,
         SwitchesToOther, HeldOnce, Dropping, CpuCurrent
<1>6. KernelThreads'
  BY DEF TypeOK, ControlGs, ControlPrev, KernelThreads
<1>7. LockHolders'
  BY DEF TypeOK, ControlGs, ControlPrev, LockHolders
<1>8. SwitchesToOther'
  BY DEF TypeOK, ControlGs, SwitchesToOther, HeldOnce, CpuCurrent
<1>9. QueuedIsRunnable'
  BY DEF TypeOK, ControlNxt, ControlPrev, HeldOnce, QueuedIsRunnable,
         Membership, NoUseAfterFree, Queued, Refs, Dropping
<1>10. NoUseAfterFree'
  BY DEF TypeOK, ControlGs, ControlNxt, ControlPrev, KernelThreads, HeldOnce,
         CpuCurrent, QueuedIsRunnable, NoUseAfterFree, Membership, Refs,
         Queued, Dropping
<1>11. Membership'
  BY DEF TypeOK, ControlGs, ControlNxt, ControlPrev, LockHolders, HeldOnce,
         QueuedIsRunnable, NoUseAfterFree, Membership, Refs, Queued, Dropping
<1>12. LiveThreads'
  BY DEF TypeOK, ControlPrev, LiveThreads, LockHolders
<1>13. TimerArmed'
  BY DEF TypeOK, TimerArmed
<1>14. EmptyIsDestroyed'
  <2>1. \A d \in CPU : pc[d] \in {"pdestroy", "pfree"} =>
                          pc'[d] \in {"pdestroy", "pfree"} /\ prev'[d] = prev[d]
    BY DEF TypeOK
  <2> QED
    BY <2>1, EmptyStable
<1> HIDE DEF x86_64_syscall_exit
<1> QED
  BY <1>1, <1>2, <1>3, <1>4, <1>5, <1>6, <1>7, <1>8, <1>9, <1>10, <1>11, <1>12,
     <1>13, <1>14

(* Entering a system call keeps IInv: only a user thread makes one.        *)
LEMMA SyscallEnterStep ==
  ASSUME IInv, NEW c \in CPU, SyscallEnter(c)
  PROVE  IInv'
<1> USE Constants DEF IInv, Goto, cpuVars, regVars, timVars, queVars, thrVars, proVars,
             SyscallEnter
<1>1. KernelThreads' /\ QueuedOnce' /\ HeldOnce' /\ CpuCurrent'
      /\ QueuedIsRunnable' /\ Registers'
  BY Frame
<1>2. TypeOK'
  BY DEF TypeOK, ControlGs, ControlNxt, ControlPrev, Points
<1>3. ControlGs'
  BY DEF TypeOK, ControlGs, ControlNxt, ControlPrev
<1>4. ControlNxt'
  BY DEF TypeOK, ControlGs, ControlNxt
<1>5. ControlPrev'
  BY DEF TypeOK, ControlGs, ControlNxt, ControlPrev, KernelThreads,
         SwitchesToOther, HeldOnce, Dropping, CpuCurrent
<1>6. LockHolders'
  BY DEF TypeOK, ControlGs, ControlPrev, LockHolders
<1>7. SwitchesToOther'
  BY DEF TypeOK, ControlGs, SwitchesToOther, HeldOnce, CpuCurrent
<1>8. NoUseAfterFree'
  BY DEF TypeOK, ControlGs, ControlNxt, ControlPrev, KernelThreads, HeldOnce,
         CpuCurrent, QueuedIsRunnable, NoUseAfterFree, Membership, Refs,
         Queued, Dropping
<1>9. Membership'
  BY DEF TypeOK, ControlGs, ControlNxt, ControlPrev, LockHolders, HeldOnce,
         QueuedIsRunnable, NoUseAfterFree, Membership, Refs, Queued, Dropping
<1>10. LiveThreads'
  BY DEF TypeOK, ControlPrev, LiveThreads, LockHolders
<1>11. TimerArmed'
  BY DEF TypeOK, TimerArmed
<1>12. EmptyIsDestroyed'
  <2>1. \A d \in CPU : pc[d] \in {"pdestroy", "pfree"} =>
                          pc'[d] \in {"pdestroy", "pfree"} /\ prev'[d] = prev[d]
    BY DEF TypeOK
  <2> QED
    BY <2>1, EmptyStable
<1> HIDE DEF SyscallEnter
<1> QED
  BY <1>1, <1>2, <1>3, <1>4, <1>5, <1>6, <1>7, <1>8, <1>9, <1>10, <1>11, <1>12

(* Taking the resource table's lock keeps IInv: it was free, so no other   *)
(* CPU is between its acquire and release.                                 *)
LEMMA SyscallAcquireStep ==
  ASSUME IInv, NEW c \in CPU, SyscallAcquire(c)
  PROVE  IInv'
<1> USE Constants DEF IInv, Goto, cpuVars, regVars, timVars, queVars, thrVars, proVars,
             SyscallAcquire, Free
<1>1. KernelThreads' /\ QueuedOnce' /\ HeldOnce' /\ CpuCurrent'
      /\ QueuedIsRunnable' /\ Registers'
  BY Frame
<1>2. TypeOK'
  BY DEF TypeOK, ControlGs, ControlNxt, ControlPrev, Points
<1>3. ControlGs'
  BY DEF TypeOK, ControlGs, ControlNxt, ControlPrev
<1>4. ControlNxt'
  BY DEF TypeOK, ControlGs, ControlNxt
<1>5. ControlPrev'
  BY DEF TypeOK, ControlGs, ControlNxt, ControlPrev, KernelThreads,
         SwitchesToOther, HeldOnce, Dropping, CpuCurrent
<1>6. LockHolders'
  BY DEF TypeOK, ControlGs, ControlPrev, LockHolders
<1>7. SwitchesToOther'
  BY DEF TypeOK, ControlGs, SwitchesToOther, HeldOnce, CpuCurrent
<1>8. NoUseAfterFree'
  BY DEF TypeOK, ControlGs, ControlNxt, ControlPrev, KernelThreads, HeldOnce,
         CpuCurrent, QueuedIsRunnable, NoUseAfterFree, Membership, Refs,
         Queued, Dropping
<1>9. Membership'
  BY DEF TypeOK, ControlGs, ControlNxt, ControlPrev, LockHolders, HeldOnce,
         QueuedIsRunnable, NoUseAfterFree, Membership, Refs, Queued, Dropping
<1>10. LiveThreads'
  BY DEF TypeOK, ControlPrev, LiveThreads, LockHolders
<1>11. TimerArmed'
  BY DEF TypeOK, TimerArmed
<1>12. EmptyIsDestroyed'
  <2>1. \A d \in CPU : pc[d] \in {"pdestroy", "pfree"} =>
                          pc'[d] \in {"pdestroy", "pfree"} /\ prev'[d] = prev[d]
    BY DEF TypeOK
  <2> QED
    BY <2>1, EmptyStable
<1> HIDE DEF SyscallAcquire, Free
<1> QED
  BY <1>1, <1>2, <1>3, <1>4, <1>5, <1>6, <1>7, <1>8, <1>9, <1>10, <1>11, <1>12

(* Releasing the resource table's lock keeps IInv.                         *)
LEMMA SyscallReturnStep ==
  ASSUME IInv, NEW c \in CPU, SyscallReturn(c)
  PROVE  IInv'
<1> USE Constants DEF IInv, Goto, cpuVars, regVars, timVars, queVars, thrVars, proVars,
             SyscallReturn
<1>1. KernelThreads' /\ QueuedOnce' /\ HeldOnce' /\ CpuCurrent'
      /\ QueuedIsRunnable' /\ Registers'
  BY Frame
<1>2. TypeOK'
  BY DEF TypeOK, ControlGs, ControlNxt, ControlPrev, Points
<1>3. ControlGs'
  BY DEF TypeOK, ControlGs, ControlNxt, ControlPrev
<1>4. ControlNxt'
  BY DEF TypeOK, ControlGs, ControlNxt
<1>5. ControlPrev'
  BY DEF TypeOK, ControlGs, ControlNxt, ControlPrev, KernelThreads,
         SwitchesToOther, HeldOnce, Dropping, CpuCurrent
<1>6. LockHolders'
  BY DEF TypeOK, ControlGs, ControlPrev, LockHolders
<1>7. SwitchesToOther'
  BY DEF TypeOK, ControlGs, SwitchesToOther, HeldOnce, CpuCurrent
<1>8. NoUseAfterFree'
  BY DEF TypeOK, ControlGs, ControlNxt, ControlPrev, KernelThreads, HeldOnce,
         CpuCurrent, QueuedIsRunnable, NoUseAfterFree, Membership, Refs,
         Queued, Dropping
<1>9. Membership'
  BY DEF TypeOK, ControlGs, ControlNxt, ControlPrev, LockHolders, HeldOnce,
         QueuedIsRunnable, NoUseAfterFree, Membership, Refs, Queued, Dropping
<1>10. LiveThreads'
  BY DEF TypeOK, ControlPrev, LiveThreads, LockHolders
<1>11. TimerArmed'
  BY DEF TypeOK, TimerArmed
<1>12. EmptyIsDestroyed'
  <2>1. \A d \in CPU : pc[d] \in {"pdestroy", "pfree"} =>
                          pc'[d] \in {"pdestroy", "pfree"} /\ prev'[d] = prev[d]
    BY DEF TypeOK
  <2> QED
    BY <2>1, EmptyStable
<1> HIDE DEF SyscallReturn
<1> QED
  BY <1>1, <1>2, <1>3, <1>4, <1>5, <1>6, <1>7, <1>8, <1>9, <1>10, <1>11, <1>12

(* Taking the run queue lock to dequeue keeps IInv.                        *)
LEMMA NextAcquireStep ==
  ASSUME IInv, NEW c \in CPU, NextAcquire(c)
  PROVE  IInv'
<1> USE Constants DEF IInv, Goto, cpuVars, regVars, timVars, queVars, thrVars, proVars,
             NextAcquire, Free
<1>1. KernelThreads' /\ QueuedOnce' /\ HeldOnce' /\ CpuCurrent'
      /\ QueuedIsRunnable' /\ Registers'
  BY Frame
<1>2. TypeOK'
  BY DEF TypeOK, ControlGs, ControlNxt, ControlPrev, Points
<1>3. ControlGs'
  BY DEF TypeOK, ControlGs, ControlNxt, ControlPrev
<1>4. ControlNxt'
  BY DEF TypeOK, ControlGs, ControlNxt
<1>5. ControlPrev'
  BY DEF TypeOK, ControlGs, ControlNxt, ControlPrev, KernelThreads,
         SwitchesToOther, HeldOnce, Dropping, CpuCurrent
<1>6. LockHolders'
  BY DEF TypeOK, ControlGs, ControlPrev, LockHolders
<1>7. SwitchesToOther'
  BY DEF TypeOK, ControlGs, SwitchesToOther, HeldOnce, CpuCurrent
<1>8. NoUseAfterFree'
  BY DEF TypeOK, ControlGs, ControlNxt, ControlPrev, KernelThreads, HeldOnce,
         CpuCurrent, QueuedIsRunnable, NoUseAfterFree, Membership, Refs,
         Queued, Dropping
<1>9. Membership'
  BY DEF TypeOK, ControlGs, ControlNxt, ControlPrev, LockHolders, HeldOnce,
         QueuedIsRunnable, NoUseAfterFree, Membership, Refs, Queued, Dropping
<1>10. LiveThreads'
  BY DEF TypeOK, ControlPrev, LiveThreads, LockHolders
<1>11. TimerArmed'
  BY DEF TypeOK, TimerArmed
<1>12. EmptyIsDestroyed'
  <2>1. \A d \in CPU : pc[d] \in {"pdestroy", "pfree"} =>
                          pc'[d] \in {"pdestroy", "pfree"} /\ prev'[d] = prev[d]
    BY DEF TypeOK
  <2> QED
    BY <2>1, EmptyStable
<1> HIDE DEF NextAcquire, Free
<1> QED
  BY <1>1, <1>2, <1>3, <1>4, <1>5, <1>6, <1>7, <1>8, <1>9, <1>10, <1>11, <1>12

(* Dequeuing keeps IInv: the head passes from the queue to nxt, and        *)
(* QueuedOnce keeps it out of the rest of the queue.                       *)
LEMMA sched_thread_nextStep ==
  ASSUME IInv, NEW c \in CPU, sched_thread_next(c)
  PROVE  IInv'
<1> USE Constants DEF IInv, Goto, cpuVars, regVars, timVars, queVars, thrVars, proVars,
             sched_thread_next, list_delete
<1>1. KernelThreads' /\ CpuCurrent' /\ Registers'
  BY Frame
<1>2. TypeOK'
  <2>1. CASE queue = <<>>
    <3>1. pc' \in [CPU -> Points]
      BY <2>1, Moves DEF TypeOK, Points
    <3> QED
      BY <2>1, <3>1 DEF TypeOK
  <2>2. CASE queue # <<>>
    <3>1. /\ queue' \in Seq(UThread)
          /\ nxt' = [nxt EXCEPT ![c] = queue[1]]
          /\ 1 \in DOMAIN queue /\ queue[1] \in UThread
          /\ \A i \in DOMAIN queue' :
               i + 1 \in DOMAIN queue /\ i + 1 # 1 /\ i \in Nat /\ queue'[i] = queue[i + 1]
      <4>1. queue \in Seq(UThread) /\ queue' = Tail(queue) /\ nxt' = [nxt EXCEPT ![c] = Head(queue)]
        BY <2>2 DEF TypeOK
      <4> HIDE DEF sched_thread_next, IInv
      <4> QED
        BY <2>2, <4>1, TailFacts
    <3> HIDE DEF sched_thread_next, list_delete
    <3>2. pc' = [pc EXCEPT ![c] = "pick"] /\ UNCHANGED <<gs, stack, prev, regVars, timVars, stage, thrVars, proVars>>
           /\ g_sched_threads_lock' = None
      BY DEF sched_thread_next
    <3> QED
      BY <3>1, <3>2 DEF TypeOK, ControlGs, ControlNxt, ControlPrev, Points
  <2> QED
    BY <2>1, <2>2
<1>3. ControlGs'
  BY DEF TypeOK, ControlGs, ControlNxt, ControlPrev
<1>4. ControlNxt'
  BY DEF TypeOK, ControlGs, ControlNxt
<1>5. ControlPrev'
  BY DEF TypeOK, ControlGs, ControlNxt, ControlPrev, KernelThreads,
         SwitchesToOther, HeldOnce, Dropping, CpuCurrent
<1>6. LockHolders'
  BY DEF TypeOK, ControlGs, ControlPrev, LockHolders
<1>7. QueuedOnce'
  <2>1. CASE queue = <<>>
    BY <2>1 DEF TypeOK, ControlGs, ControlPrev, QueuedOnce, HeldOnce
  <2>2. CASE queue # <<>>
    <3>1. /\ queue' \in Seq(UThread)
          /\ nxt' = [nxt EXCEPT ![c] = queue[1]]
          /\ 1 \in DOMAIN queue /\ queue[1] \in UThread
          /\ \A i \in DOMAIN queue' :
               i + 1 \in DOMAIN queue /\ i + 1 # 1 /\ i \in Nat /\ queue'[i] = queue[i + 1]
      <4>1. queue \in Seq(UThread) /\ queue' = Tail(queue) /\ nxt' = [nxt EXCEPT ![c] = Head(queue)]
        BY <2>2 DEF TypeOK
      <4> HIDE DEF sched_thread_next, IInv
      <4> QED
        BY <2>2, <4>1, TailFacts
    <3> HIDE DEF sched_thread_next, list_delete
    <3>2. pc' = [pc EXCEPT ![c] = "pick"] /\ UNCHANGED <<gs, stack, prev, regVars, timVars, stage, thrVars, proVars>>
           /\ g_sched_threads_lock' = None
      BY DEF sched_thread_next
    <3> QED
      BY <3>1, <3>2 DEF TypeOK, ControlGs, ControlPrev, QueuedOnce, HeldOnce
  <2> QED
    BY <2>1, <2>2
<1>8. SwitchesToOther'
  <2>1. CASE queue = <<>>
    <3>1. nxt[c] = None /\ gs[c] # None
      BY DEF TypeOK, ControlNxt
    <3>2. UNCHANGED <<nxt, gs>> /\ pc' = [pc EXCEPT ![c] = "pick"]
      BY <2>1
    <3> HIDE DEF sched_thread_next
    <3> QED
      BY <3>1, <3>2 DEF TypeOK, SwitchesToOther
  <2>2. CASE queue # <<>>
    <3>1. 1 \in DOMAIN queue /\ Head(queue) = queue[1]
      BY <2>2, TailFacts DEF TypeOK
    <3> QED
      BY <2>2, <3>1 DEF TypeOK, SwitchesToOther, HeldOnce
  <2> QED
    BY <2>1, <2>2
<1>9. HeldOnce'
  <2>1. CASE queue = <<>>
    BY <2>1 DEF TypeOK, ControlGs, ControlNxt, ControlPrev, HeldOnce, CpuCurrent, QueuedOnce
  <2>2. CASE queue # <<>>
    <3>1. /\ queue' \in Seq(UThread)
          /\ nxt' = [nxt EXCEPT ![c] = queue[1]]
          /\ 1 \in DOMAIN queue /\ queue[1] \in UThread
          /\ \A i \in DOMAIN queue' :
               i + 1 \in DOMAIN queue /\ i + 1 # 1 /\ i \in Nat /\ queue'[i] = queue[i + 1]
      <4>1. queue \in Seq(UThread) /\ queue' = Tail(queue) /\ nxt' = [nxt EXCEPT ![c] = Head(queue)]
        BY <2>2 DEF TypeOK
      <4> HIDE DEF sched_thread_next, IInv
      <4> QED
        BY <2>2, <4>1, TailFacts
    <3> HIDE DEF sched_thread_next, list_delete
    <3>2. pc' = [pc EXCEPT ![c] = "pick"] /\ UNCHANGED <<gs, stack, prev, regVars, timVars, stage, thrVars, proVars>>
           /\ g_sched_threads_lock' = None
      BY DEF sched_thread_next
    <3> QED
      BY <3>1, <3>2 DEF TypeOK, ControlGs, ControlNxt, ControlPrev, HeldOnce, CpuCurrent, QueuedOnce
  <2> QED
    BY <2>1, <2>2
<1>10. QueuedIsRunnable'
  <2>1. CASE queue = <<>>
    BY <2>1 DEF TypeOK, QueuedIsRunnable, Queued
  <2>2. CASE queue # <<>>
    <3>1. /\ queue' \in Seq(UThread)
          /\ nxt' = [nxt EXCEPT ![c] = queue[1]]
          /\ 1 \in DOMAIN queue /\ queue[1] \in UThread
          /\ \A i \in DOMAIN queue' :
               i + 1 \in DOMAIN queue /\ i + 1 # 1 /\ i \in Nat /\ queue'[i] = queue[i + 1]
      <4>1. queue \in Seq(UThread) /\ queue' = Tail(queue) /\ nxt' = [nxt EXCEPT ![c] = Head(queue)]
        BY <2>2 DEF TypeOK
      <4> HIDE DEF sched_thread_next, IInv
      <4> QED
        BY <2>2, <4>1, TailFacts
    <3> HIDE DEF sched_thread_next, list_delete
    <3>2. pc' = [pc EXCEPT ![c] = "pick"] /\ UNCHANGED <<gs, stack, prev, regVars, timVars, stage, thrVars, proVars>>
           /\ g_sched_threads_lock' = None
      BY DEF sched_thread_next
    <3> QED
      BY <3>1, <3>2 DEF TypeOK, QueuedIsRunnable, Queued
  <2> QED
    BY <2>1, <2>2
<1>11. NoUseAfterFree'
  BY DEF TypeOK, ControlGs, ControlNxt, ControlPrev, KernelThreads, HeldOnce,
         CpuCurrent, QueuedIsRunnable, NoUseAfterFree, Membership, Refs,
         Queued, Dropping
<1>12. Membership'
  BY DEF TypeOK, ControlGs, ControlNxt, ControlPrev, LockHolders, HeldOnce,
         QueuedIsRunnable, NoUseAfterFree, Membership, Refs, Queued, Dropping
<1>13. LiveThreads'
  BY DEF TypeOK, ControlPrev, LiveThreads, LockHolders
<1>14. TimerArmed'
  BY DEF TypeOK, TimerArmed
<1>15. EmptyIsDestroyed'
  <2>1. \A d \in CPU : pc[d] \in {"pdestroy", "pfree"} =>
                          pc'[d] \in {"pdestroy", "pfree"} /\ prev'[d] = prev[d]
    BY DEF TypeOK
  <2> QED
    BY <2>1, EmptyStable
<1> HIDE DEF sched_thread_next, list_delete
<1> QED
  BY <1>1, <1>2, <1>3, <1>4, <1>5, <1>6, <1>7, <1>8, <1>9, <1>10, <1>11, <1>12,
     <1>13, <1>14, <1>15

(* Falling back to the idle thread keeps IInv: a CPU that does not run its *)
(* idle thread has it nowhere else.                                        *)
LEMMA PickNextStep ==
  ASSUME IInv, NEW c \in CPU, PickNext(c)
  PROVE  IInv'
<1> USE Constants DEF IInv, Goto, cpuVars, regVars, timVars, queVars, thrVars, proVars,
             PickNext
<1>1. KernelThreads' /\ QueuedOnce' /\ CpuCurrent' /\ QueuedIsRunnable'
      /\ Registers'
  BY Frame
<1>2. TypeOK'
  <2>1. cpu[gs[c]] = c
    BY DEF TypeOK, CpuCurrent
  <2>2. nxt' \in [CPU -> Thread \cup {None}]
    BY <2>1 DEF TypeOK
  <2>3. pc' \in [CPU -> Points]
    <3>1. \/ pc' = [pc EXCEPT ![c] = "arm"]
          \/ pc' = [pc EXCEPT ![c] = "switch"]
      OBVIOUS
    <3>2. "arm" \in Points /\ "switch" \in Points
      BY DEF Points
    <3> HIDE DEF PickNext
    <3> QED
      BY <3>1, <3>2, Moves DEF TypeOK
  <2> QED
    BY <2>2, <2>3 DEF TypeOK
<1>3. ControlGs'
  BY DEF TypeOK, ControlGs, ControlNxt, ControlPrev
<1>4. ControlNxt'
  <2>1. cpu[gs[c]] = c
    BY DEF TypeOK, CpuCurrent
  <2> QED
    BY <2>1 DEF TypeOK, ControlNxt
<1>5. ControlPrev'
  BY DEF TypeOK, ControlGs, ControlNxt, ControlPrev, KernelThreads,
         SwitchesToOther, HeldOnce, Dropping, CpuCurrent
<1>6. LockHolders'
  BY DEF TypeOK, ControlGs, ControlPrev, LockHolders
<1>7. SwitchesToOther'
  <2>1. cpu[gs[c]] = c
    BY DEF TypeOK, CpuCurrent
  <2> QED
    BY <2>1 DEF TypeOK, SwitchesToOther
<1>8. HeldOnce'
  <2>1. cpu[gs[c]] = c
    BY DEF TypeOK, CpuCurrent
  <2>2. \/ nxt' = nxt
        \/ /\ nxt' = [nxt EXCEPT ![c] = idle_thread[c]] /\ nxt[c] = None
           /\ gs[c] # idle_thread[c]
    BY <2>1 DEF TypeOK, ControlNxt
  <2>3. UNCHANGED <<gs, prev, queue>>
    OBVIOUS
  <2>4. \A d \in CPU : idle_thread[c] \in {gs[d], nxt[d], prev[d]} => d = c
    BY DEF ControlGs, ControlNxt, ControlPrev, Dropping, TypeOK, Points
  <2>5. \A i \in DOMAIN queue : queue[i] # idle_thread[c]
    BY DEF TypeOK
  <2> HIDE DEF PickNext
  <2> QED
    BY <2>2, <2>3, <2>4, <2>5 DEF TypeOK, HeldOnce
<1>9. NoUseAfterFree'
  BY DEF TypeOK, ControlGs, ControlNxt, ControlPrev, KernelThreads, HeldOnce,
         CpuCurrent, QueuedIsRunnable, NoUseAfterFree, Membership, Refs,
         Queued, Dropping
<1>10. Membership'
  <2>1. cpu[gs[c]] = c
    BY DEF TypeOK, CpuCurrent
  <2>2. \/ nxt' = nxt
        \/ /\ nxt' = [nxt EXCEPT ![c] = idle_thread[c]] /\ nxt[c] = None
           /\ gs[c] # idle_thread[c]
    BY <2>1 DEF TypeOK, ControlNxt
  <2>3. UNCHANGED <<gs, prev, queue>>
    OBVIOUS
  <2>4. pc[c] = "pick" /\ UNCHANGED <<threads, pmem>>
    OBVIOUS
  <2>5. \A d \in CPU : pc'[d] \in {"pdestroy", "pfree", "tfree"} <=> pc[d] \in {"pdestroy", "pfree", "tfree"}
    BY DEF TypeOK
  <2>6. \A d \in CPU : pc'[d] \in {"pdestroy", "pfree"} => pc[d] \in {"pdestroy", "pfree"}
    BY DEF TypeOK
  <2>7. \A d \in CPU, t \in UThread : t = nxt'[d] => t = nxt[d]
    BY <2>2 DEF TypeOK
  <2>8. \A d \in CPU : pc[d] \notin {"pdestroy", "pfree", "tfree"} <=> pc'[d] \notin {"pdestroy", "pfree", "tfree"}
    BY <2>5
  <2> HIDE DEF PickNext
  <2>9. \A d \in CPU : \A t \in UThread :
          (t \in {gs'[d], nxt'[d]} \/ (t = prev'[d] /\ pc'[d] \notin {"pdestroy", "pfree", "tfree"}))
          => t \in threads'[ProcOf[t]]
    BY <2>3, <2>4, <2>7, <2>8 DEF Membership
  <2>10. \A d \in CPU : pc'[d] \in {"pdestroy", "pfree"} =>
       threads'[ProcOf[prev'[d]]] = {} /\ pmem'[ProcOf[prev'[d]]] = "live"
    BY <2>3, <2>4, <2>6 DEF Membership
  <2>11. \A p \in Proc : \A t \in threads'[p] : ProcOf[t] = p /\ pmem'[p] = "live"
    BY <2>4 DEF Membership
  <2> QED
    BY <2>9, <2>10, <2>11 DEF Membership
<1>11. LiveThreads'
  BY DEF TypeOK, ControlPrev, LiveThreads, LockHolders
<1>12. TimerArmed'
  BY DEF TypeOK, TimerArmed
<1>13. EmptyIsDestroyed'
  <2>1. \A d \in CPU : pc[d] \in {"pdestroy", "pfree"} =>
                          pc'[d] \in {"pdestroy", "pfree"} /\ prev'[d] = prev[d]
    BY DEF TypeOK
  <2> QED
    BY <2>1, EmptyStable
<1> HIDE DEF PickNext
<1> QED
  BY <1>1, <1>2, <1>3, <1>4, <1>5, <1>6, <1>7, <1>8, <1>9, <1>10, <1>11, <1>12,
     <1>13

(* sched_switch keeps IInv: the CPU number passes from this to next before *)
(* this loses it, and each register is saved before it is loaded.          *)
LEMMA sched_switchStep ==
  ASSUME IInv, NEW c \in CPU, sched_switch(c)
  PROVE  IInv'
<1> USE Constants DEF IInv, Goto, cpuVars, regVars, timVars, queVars, thrVars, proVars,
             sched_switch, LoadAddressSpace, HandOverCpu
<1>1. KernelThreads' /\ QueuedOnce' /\ QueuedIsRunnable'
  BY Frame
<1>2. TypeOK'
  <2>1. pc' \in [CPU -> Points]
    <3>1. "ctx" \in Points
      BY DEF Points
    <3> QED
      BY <3>1, Moves DEF TypeOK
  <2>2. gs[c] \in Thread /\ nxt[c] \in Thread /\ cpu[gs[c]] \in CPU
    <3>1. pc[c] = "switch"
      OBVIOUS
    <3>2. nxt[c] \in Thread
      BY <3>1, Constants DEF ControlNxt
    <3> HIDE DEF sched_switch
    <3> QED
      BY <3>2 DEF TypeOK, CpuCurrent
  <2>3. /\ gs' \in [CPU -> Thread] /\ prev' \in [CPU -> Thread \cup {None}]
        /\ as' \in [CPU -> Proc \cup {None}] /\ rsp0' \in [CPU -> Thread]
    BY <2>2 DEF TypeOK
  <2>4. /\ regs' \in [CPU -> Thread] /\ ctx' \in [Thread -> Thread]
        /\ cpu' \in [Thread -> CPU \cup {None}]
    BY <2>2 DEF TypeOK
  <2> QED
    BY <2>1, <2>3, <2>4 DEF TypeOK
<1>3. ControlGs'
  BY DEF TypeOK, ControlGs, ControlNxt, ControlPrev
<1>4. ControlNxt'
  BY DEF TypeOK, ControlGs, ControlNxt
<1>5. ControlPrev'
  BY DEF TypeOK, ControlGs, ControlNxt, ControlPrev, KernelThreads,
         SwitchesToOther, HeldOnce, Dropping, CpuCurrent
<1>6. LockHolders'
  BY DEF TypeOK, ControlGs, ControlPrev, LockHolders
<1>7. SwitchesToOther'
  BY DEF TypeOK, ControlGs, SwitchesToOther, HeldOnce, CpuCurrent
<1>8. HeldOnce'
  BY DEF TypeOK, ControlGs, ControlNxt, ControlPrev, HeldOnce, CpuCurrent
<1>9. CpuCurrent'
  BY DEF TypeOK, ControlGs, ControlNxt, CpuCurrent, HeldOnce
<1>10. NoUseAfterFree'
  BY DEF TypeOK, ControlGs, ControlNxt, ControlPrev, KernelThreads, HeldOnce,
         CpuCurrent, QueuedIsRunnable, NoUseAfterFree, Membership, Refs,
         Queued, Dropping
<1>11. Membership'
  BY DEF TypeOK, ControlGs, ControlNxt, ControlPrev, LockHolders, HeldOnce,
         QueuedIsRunnable, NoUseAfterFree, Membership, Refs, Queued, Dropping
<1>12. LiveThreads'
  BY DEF TypeOK, ControlPrev, LiveThreads, LockHolders
<1>13. Registers'
  <2>1. cpu[gs[c]] = c /\ gs[c] \in Thread /\ nxt[c] \in Thread
    BY DEF TypeOK, CpuCurrent, ControlNxt
  <2>2. \A t \in Thread : ctx'[t] = t
    BY <2>1 DEF TypeOK, Registers
  <2>3. gs' = [gs EXCEPT ![c] = nxt[c]]
    OBVIOUS
  <2>4. \A d \in CPU : regs'[d] = gs'[d]
    BY <2>1 DEF TypeOK, Registers
  <2>5. \A d \in CPU : rsp0'[d] = gs'[d]
    BY <2>1 DEF TypeOK, Registers
  <2>6. \A d \in CPU : as'[d] = IF gs'[d] \in UThread THEN ProcOf[gs'[d]] ELSE None
    BY DEF TypeOK, Registers
  <2> QED
    BY <2>2, <2>4, <2>5, <2>6 DEF Registers
<1>14. TimerArmed'
  BY DEF TypeOK, TimerArmed
<1>15. EmptyIsDestroyed'
  BY DEF TypeOK, ControlPrev, LockHolders, Membership, EmptyIsDestroyed
<1> HIDE DEF sched_switch, LoadAddressSpace, HandOverCpu
<1> QED
  BY <1>1, <1>2, <1>3, <1>4, <1>5, <1>6, <1>7, <1>8, <1>9, <1>10, <1>11, <1>12,
     <1>13, <1>14, <1>15

(* The context switch keeps IInv: prev gets its complete frame, and RSP    *)
(* follows GS_BASE.                                                        *)
LEMMA x86_64_sched_context_switchStep ==
  ASSUME IInv, NEW c \in CPU, x86_64_sched_context_switch(c)
  PROVE  IInv'
<1> USE Constants DEF IInv, Goto, cpuVars, regVars, timVars, queVars, thrVars, proVars,
             x86_64_sched_context_switch
<1>1. KernelThreads' /\ QueuedOnce' /\ CpuCurrent' /\ Registers'
  BY Frame
<1>2. TypeOK'
  BY DEF TypeOK, ControlGs, ControlNxt, ControlPrev, Points
<1>3. ControlGs'
  BY DEF TypeOK, ControlGs, ControlNxt, ControlPrev
<1>4. ControlNxt'
  BY DEF TypeOK, ControlGs, ControlNxt
<1>5. ControlPrev'
  BY DEF TypeOK, ControlGs, ControlNxt, ControlPrev, KernelThreads,
         SwitchesToOther, HeldOnce, Dropping, CpuCurrent
<1>6. LockHolders'
  BY DEF TypeOK, ControlGs, ControlPrev, LockHolders
<1>7. SwitchesToOther'
  BY DEF TypeOK, ControlGs, SwitchesToOther, HeldOnce, CpuCurrent
<1>8. HeldOnce'
  BY DEF TypeOK, ControlGs, ControlNxt, ControlPrev, HeldOnce, CpuCurrent
<1>9. QueuedIsRunnable'
  BY DEF TypeOK, ControlNxt, ControlPrev, HeldOnce, QueuedIsRunnable,
         Membership, NoUseAfterFree, Queued, Refs, Dropping
<1>10. NoUseAfterFree'
  BY DEF TypeOK, ControlGs, ControlNxt, ControlPrev, KernelThreads, HeldOnce,
         CpuCurrent, QueuedIsRunnable, NoUseAfterFree, Membership, Refs,
         Queued, Dropping
<1>11. Membership'
  BY DEF TypeOK, ControlGs, ControlNxt, ControlPrev, LockHolders, HeldOnce,
         QueuedIsRunnable, NoUseAfterFree, Membership, Refs, Queued, Dropping
<1>12. LiveThreads'
  BY DEF TypeOK, ControlPrev, LiveThreads, LockHolders
<1>13. TimerArmed'
  BY DEF TypeOK, TimerArmed
<1>14. EmptyIsDestroyed'
  <2>1. \A d \in CPU : pc[d] \in {"pdestroy", "pfree"} =>
                          pc'[d] \in {"pdestroy", "pfree"} /\ prev'[d] = prev[d]
    BY DEF TypeOK
  <2> QED
    BY <2>1, EmptyStable
<1> HIDE DEF x86_64_sched_context_switch
<1> QED
  BY <1>1, <1>2, <1>3, <1>4, <1>5, <1>6, <1>7, <1>8, <1>9, <1>10, <1>11, <1>12,
     <1>13, <1>14

(* sched_thread_drop's tests keep IInv: only a READY user thread goes on   *)
(* to the queue, only a DESTROY thread to its end.                         *)
LEMMA sched_thread_dropStep ==
  ASSUME IInv, NEW c \in CPU, sched_thread_drop(c)
  PROVE  IInv'
<1> USE Constants DEF IInv, Goto, cpuVars, regVars, timVars, queVars, thrVars, proVars,
             sched_thread_drop, AfterDrop
<1>1. KernelThreads' /\ QueuedOnce' /\ CpuCurrent' /\ QueuedIsRunnable'
      /\ Registers'
  BY Frame
<1>2. TypeOK'
  BY DEF TypeOK, ControlGs, ControlNxt, ControlPrev, Points
<1>3. ControlGs'
  BY DEF TypeOK, ControlGs, ControlNxt, ControlPrev
<1>4. ControlNxt'
  BY DEF TypeOK, ControlGs, ControlNxt
<1>5. ControlPrev'
  BY DEF TypeOK, ControlGs, ControlNxt, ControlPrev, KernelThreads,
         SwitchesToOther, HeldOnce, Dropping, CpuCurrent
<1>6. LockHolders'
  BY DEF TypeOK, ControlGs, ControlPrev, LockHolders
<1>7. SwitchesToOther'
  BY DEF TypeOK, ControlGs, SwitchesToOther, HeldOnce, CpuCurrent
<1>8. HeldOnce'
  BY DEF TypeOK, ControlGs, ControlNxt, ControlPrev, HeldOnce, CpuCurrent
<1>9. NoUseAfterFree'
  BY DEF TypeOK, ControlGs, ControlNxt, ControlPrev, KernelThreads, HeldOnce,
         CpuCurrent, QueuedIsRunnable, NoUseAfterFree, Membership, Refs,
         Queued, Dropping
<1>10. Membership'
  BY DEF TypeOK, ControlGs, ControlNxt, ControlPrev, LockHolders, HeldOnce,
         QueuedIsRunnable, NoUseAfterFree, Membership, Refs, Queued, Dropping
<1>11. LiveThreads'
  <2>1. \A d \in CPU : pc[d] \in {"pdestroy", "pfree", "tfree"} => pc'[d] = pc[d] /\ prev'[d] = prev[d]
    BY DEF TypeOK
  <2> QED
    BY <2>1 DEF LiveThreads
<1>12. TimerArmed'
  BY DEF TypeOK, TimerArmed
<1>13. EmptyIsDestroyed'
  <2>1. \A d \in CPU : pc[d] \in {"pdestroy", "pfree"} =>
                          pc'[d] \in {"pdestroy", "pfree"} /\ prev'[d] = prev[d]
    BY DEF TypeOK
  <2> QED
    BY <2>1, EmptyStable
<1> HIDE DEF sched_thread_drop, AfterDrop
<1> QED
  BY <1>1, <1>2, <1>3, <1>4, <1>5, <1>6, <1>7, <1>8, <1>9, <1>10, <1>11, <1>12,
     <1>13

(* Taking the run queue lock to enqueue keeps IInv.                        *)
LEMMA ScheduleAcquireStep ==
  ASSUME IInv, NEW c \in CPU, ScheduleAcquire(c)
  PROVE  IInv'
<1> USE Constants DEF IInv, Goto, cpuVars, regVars, timVars, queVars, thrVars, proVars,
             ScheduleAcquire, Free
<1>1. KernelThreads' /\ QueuedOnce' /\ HeldOnce' /\ CpuCurrent'
      /\ QueuedIsRunnable' /\ Registers'
  BY Frame
<1>2. TypeOK'
  BY DEF TypeOK, ControlGs, ControlNxt, ControlPrev, Points
<1>3. ControlGs'
  BY DEF TypeOK, ControlGs, ControlNxt, ControlPrev
<1>4. ControlNxt'
  BY DEF TypeOK, ControlGs, ControlNxt
<1>5. ControlPrev'
  BY DEF TypeOK, ControlGs, ControlNxt, ControlPrev, KernelThreads,
         SwitchesToOther, HeldOnce, Dropping, CpuCurrent
<1>6. LockHolders'
  BY DEF TypeOK, ControlGs, ControlPrev, LockHolders
<1>7. SwitchesToOther'
  BY DEF TypeOK, ControlGs, SwitchesToOther, HeldOnce, CpuCurrent
<1>8. NoUseAfterFree'
  BY DEF TypeOK, ControlGs, ControlNxt, ControlPrev, KernelThreads, HeldOnce,
         CpuCurrent, QueuedIsRunnable, NoUseAfterFree, Membership, Refs,
         Queued, Dropping
<1>9. Membership'
  BY DEF TypeOK, ControlGs, ControlNxt, ControlPrev, LockHolders, HeldOnce,
         QueuedIsRunnable, NoUseAfterFree, Membership, Refs, Queued, Dropping
<1>10. LiveThreads'
  BY DEF TypeOK, ControlPrev, LiveThreads, LockHolders
<1>11. TimerArmed'
  BY DEF TypeOK, TimerArmed
<1>12. EmptyIsDestroyed'
  <2>1. \A d \in CPU : pc[d] \in {"pdestroy", "pfree"} =>
                          pc'[d] \in {"pdestroy", "pfree"} /\ prev'[d] = prev[d]
    BY DEF TypeOK
  <2> QED
    BY <2>1, EmptyStable
<1> HIDE DEF ScheduleAcquire, Free
<1> QED
  BY <1>1, <1>2, <1>3, <1>4, <1>5, <1>6, <1>7, <1>8, <1>9, <1>10, <1>11, <1>12

(* Enqueuing keeps IInv: the thread passes from prev to the tail of the    *)
(* queue with its frame complete.                                          *)
LEMMA ScheduleLinkStep ==
  ASSUME IInv, NEW c \in CPU, ScheduleLink(c)
  PROVE  IInv'
<1> USE Constants DEF IInv, Goto, cpuVars, regVars, timVars, queVars, thrVars, proVars,
             ScheduleLink, sched_thread_schedule
<1>1. KernelThreads' /\ CpuCurrent' /\ Registers'
  BY Frame
<1>2. TypeOK'
  BY AppendFacts DEF TypeOK, ControlGs, ControlNxt, ControlPrev, Points
<1>3. ControlGs'
  BY DEF TypeOK, ControlGs, ControlNxt, ControlPrev
<1>4. ControlNxt'
  BY DEF TypeOK, ControlGs, ControlNxt
<1>5. ControlPrev'
  BY DEF TypeOK, ControlGs, ControlNxt, ControlPrev, KernelThreads,
         SwitchesToOther, HeldOnce, Dropping, CpuCurrent
<1>6. LockHolders'
  BY DEF TypeOK, ControlGs, ControlPrev, LockHolders
<1>7. QueuedOnce'
  BY AppendFacts DEF TypeOK, ControlGs, ControlPrev, QueuedOnce, HeldOnce
<1>8. SwitchesToOther'
  BY DEF TypeOK, ControlGs, SwitchesToOther, HeldOnce, CpuCurrent
<1>9. HeldOnce'
  <2>1. \A i \in DOMAIN queue' :
          queue'[i] = prev[c] \/ \E j \in DOMAIN queue : queue'[i] = queue[j]
    BY AppendFacts DEF TypeOK, ControlPrev
  <2>2. prev' = [prev EXCEPT ![c] = None] /\ prev[c] \in UThread
    BY DEF ControlPrev
  <2>3. prev[c] # gs[c] /\ nxt[c] = None
    BY DEF ControlPrev, ControlNxt, Dropping
  <2> HIDE DEF ScheduleLink, sched_thread_schedule
  <2>4. UNCHANGED <<gs, nxt>>
    BY DEF ScheduleLink
  <2> QED
    BY <2>1, <2>2, <2>3, <2>4 DEF TypeOK, HeldOnce
<1>10. QueuedIsRunnable'
  BY DEF TypeOK, ControlNxt, ControlPrev, HeldOnce, QueuedIsRunnable,
         Membership, NoUseAfterFree, Queued, Refs, Dropping
<1>11. NoUseAfterFree'
  BY DEF TypeOK, ControlGs, ControlNxt, ControlPrev, KernelThreads, HeldOnce,
         CpuCurrent, QueuedIsRunnable, NoUseAfterFree, Membership, Refs,
         Queued, Dropping
<1>12. Membership'
  BY DEF TypeOK, ControlGs, ControlNxt, ControlPrev, LockHolders, HeldOnce,
         QueuedIsRunnable, NoUseAfterFree, Membership, Refs, Queued, Dropping
<1>13. LiveThreads'
  BY DEF TypeOK, ControlPrev, LiveThreads, LockHolders
<1>14. TimerArmed'
  BY DEF TypeOK, TimerArmed
<1>15. EmptyIsDestroyed'
  <2>1. \A d \in CPU : pc[d] \in {"pdestroy", "pfree"} =>
                          pc'[d] \in {"pdestroy", "pfree"} /\ prev'[d] = prev[d]
    BY DEF TypeOK
  <2> QED
    BY <2>1, EmptyStable
<1> HIDE DEF ScheduleLink, sched_thread_schedule
<1> QED
  BY <1>1, <1>2, <1>3, <1>4, <1>5, <1>6, <1>7, <1>8, <1>9, <1>10, <1>11, <1>12,
     <1>13, <1>14, <1>15

(* Taking the process lock keeps IInv: the process lives, because the      *)
(* exiting thread is still linked in it.                                   *)
LEMMA DestroyAcquireStep ==
  ASSUME IInv, NEW c \in CPU, DestroyAcquire(c)
  PROVE  IInv'
<1> USE Constants DEF IInv, Goto, cpuVars, regVars, timVars, queVars, thrVars, proVars,
             DestroyAcquire, Free
<1>1. KernelThreads' /\ QueuedOnce' /\ HeldOnce' /\ CpuCurrent'
      /\ QueuedIsRunnable' /\ Registers'
  BY Frame
<1>2. TypeOK'
  <2>1. lock' \in [Proc -> CPU \cup {None}]
    <3>1. lock' = lock \/ lock' = [lock EXCEPT ![ProcOf[prev[c]]] = c]
      OBVIOUS
    <3> HIDE DEF DestroyAcquire
    <3> QED
      BY <3>1 DEF TypeOK
  <2>2. pc' \in [CPU -> Points]
    <3>1. pc' = [pc EXCEPT ![c] = "unlink"] \/ pc' = [pc EXCEPT ![c] = "tfree"]
      OBVIOUS
    <3> HIDE DEF DestroyAcquire
    <3> QED
      BY <3>1 DEF TypeOK, Points
  <2> QED
    BY <2>1, <2>2 DEF TypeOK
<1>3. ControlGs'
  BY DEF TypeOK, ControlGs, ControlNxt, ControlPrev
<1>4. ControlNxt'
  BY DEF TypeOK, ControlGs, ControlNxt
<1>5. ControlPrev'
  BY DEF TypeOK, ControlGs, ControlNxt, ControlPrev, KernelThreads,
         SwitchesToOther, HeldOnce, Dropping, CpuCurrent
<1>6. LockHolders'
  BY DEF TypeOK, ControlGs, ControlPrev, LockHolders
<1>7. SwitchesToOther'
  BY DEF TypeOK, ControlGs, SwitchesToOther, HeldOnce, CpuCurrent
<1>8. NoUseAfterFree'
  BY DEF TypeOK, ControlGs, ControlNxt, ControlPrev, KernelThreads, HeldOnce,
         CpuCurrent, QueuedIsRunnable, NoUseAfterFree, Membership, Refs,
         Queued, Dropping
<1>9. Membership'
  <2>1. pc[c] = "destroy" /\ pc'[c] \in {"unlink", "tfree"}
    BY DEF TypeOK
  <2>2. \A d \in CPU : d # c => pc'[d] = pc[d]
    BY DEF TypeOK
  <2>3. UNCHANGED <<gs, nxt, prev, threads, pmem>>
    OBVIOUS
  <2> HIDE DEF DestroyAcquire
  <2> QED
    BY <2>1, <2>2, <2>3 DEF Membership
<1>10. LiveThreads'
  BY DEF TypeOK, ControlPrev, LiveThreads, LockHolders
<1>11. TimerArmed'
  BY DEF TypeOK, TimerArmed
<1>12. EmptyIsDestroyed'
  <2>1. \A d \in CPU : pc[d] \in {"pdestroy", "pfree"} =>
                          pc'[d] \in {"pdestroy", "pfree"} /\ prev'[d] = prev[d]
    BY DEF TypeOK
  <2> QED
    BY <2>1, EmptyStable
<1> HIDE DEF DestroyAcquire, Free
<1> QED
  BY <1>1, <1>2, <1>3, <1>4, <1>5, <1>6, <1>7, <1>8, <1>9, <1>10, <1>11, <1>12

(* Unlinking the exiting thread keeps IInv: an emptied process is in the   *)
(* hands of this CPU, which keeps its lock.                                *)
LEMMA arch_sched_thread_destroyStep ==
  ASSUME IInv, NEW c \in CPU, arch_sched_thread_destroy(c)
  PROVE  IInv'
<1> USE Constants DEF IInv, Goto, cpuVars, regVars, timVars, queVars, thrVars, proVars,
             arch_sched_thread_destroy, LastThread
<1>1. KernelThreads' /\ QueuedOnce' /\ HeldOnce' /\ CpuCurrent' /\ Registers'
  BY Frame
<1>2. TypeOK'
  <2>1. lock' \in [Proc -> CPU \cup {None}]
    BY DEF TypeOK
  <2>2. pc' \in [CPU -> Points]
    <3>1. \/ pc' = [pc EXCEPT ![c] = "pdestroy"]
          \/ pc' = [pc EXCEPT ![c] = "tfree"]
      OBVIOUS
    <3>2. "pdestroy" \in Points /\ "tfree" \in Points
      BY DEF Points
    <3> HIDE DEF arch_sched_thread_destroy
    <3> QED
      BY <3>1, <3>2, Moves DEF TypeOK
  <2>3. threads' \in [Proc -> SUBSET UThread]
    BY DEF TypeOK
  <2> QED
    BY <2>1, <2>2, <2>3 DEF TypeOK
<1>3. ControlGs'
  BY DEF TypeOK, ControlGs, ControlNxt, ControlPrev
<1>4. ControlNxt'
  BY DEF TypeOK, ControlGs, ControlNxt
<1>5. ControlPrev'
  BY DEF TypeOK, ControlGs, ControlNxt, ControlPrev, KernelThreads,
         SwitchesToOther, HeldOnce, Dropping, CpuCurrent
<1>6. LockHolders'
  BY DEF TypeOK, ControlGs, ControlPrev, LockHolders
<1>7. SwitchesToOther'
  BY DEF TypeOK, ControlGs, SwitchesToOther, HeldOnce, CpuCurrent
<1>8. QueuedIsRunnable'
  BY DEF TypeOK, ControlNxt, ControlPrev, HeldOnce, QueuedIsRunnable,
         Membership, NoUseAfterFree, Queued, Refs, Dropping
<1>9. NoUseAfterFree'
  BY DEF TypeOK, ControlGs, ControlNxt, ControlPrev, KernelThreads, HeldOnce,
         CpuCurrent, QueuedIsRunnable, NoUseAfterFree, Membership, Refs,
         Queued, Dropping
<1>10. Membership'
  BY DEF TypeOK, ControlGs, ControlNxt, ControlPrev, LockHolders, HeldOnce,
         QueuedIsRunnable, NoUseAfterFree, Membership, Refs, Queued, Dropping
<1>11. LiveThreads'
  BY DEF TypeOK, ControlPrev, LiveThreads, LockHolders
<1>12. TimerArmed'
  BY DEF TypeOK, TimerArmed
<1>13. EmptyIsDestroyed'
  BY DEF TypeOK, ControlPrev, LockHolders, Membership, EmptyIsDestroyed
<1> HIDE DEF arch_sched_thread_destroy, LastThread
<1> QED
  BY <1>1, <1>2, <1>3, <1>4, <1>5, <1>6, <1>7, <1>8, <1>9, <1>10, <1>11, <1>12,
     <1>13

(* Taking the resource table's lock for good keeps IInv.                   *)
LEMMA ProcessDestroyAcquireStep ==
  ASSUME IInv, NEW c \in CPU, ProcessDestroyAcquire(c)
  PROVE  IInv'
<1> USE Constants DEF IInv, Goto, cpuVars, regVars, timVars, queVars, thrVars, proVars,
             ProcessDestroyAcquire, Free
<1>1. KernelThreads' /\ QueuedOnce' /\ HeldOnce' /\ CpuCurrent'
      /\ QueuedIsRunnable' /\ Registers'
  BY Frame
<1>2. TypeOK'
  BY DEF TypeOK, ControlGs, ControlNxt, ControlPrev, Points
<1>3. ControlGs'
  BY DEF TypeOK, ControlGs, ControlNxt, ControlPrev
<1>4. ControlNxt'
  BY DEF TypeOK, ControlGs, ControlNxt
<1>5. ControlPrev'
  BY DEF TypeOK, ControlGs, ControlNxt, ControlPrev, KernelThreads,
         SwitchesToOther, HeldOnce, Dropping, CpuCurrent
<1>6. LockHolders'
  BY DEF TypeOK, ControlGs, ControlPrev, LockHolders
<1>7. SwitchesToOther'
  BY DEF TypeOK, ControlGs, SwitchesToOther, HeldOnce, CpuCurrent
<1>8. NoUseAfterFree'
  BY DEF TypeOK, ControlGs, ControlNxt, ControlPrev, KernelThreads, HeldOnce,
         CpuCurrent, QueuedIsRunnable, NoUseAfterFree, Membership, Refs,
         Queued, Dropping
<1>9. Membership'
  BY DEF TypeOK, ControlGs, ControlNxt, ControlPrev, LockHolders, HeldOnce,
         QueuedIsRunnable, NoUseAfterFree, Membership, Refs, Queued, Dropping
<1>10. LiveThreads'
  BY DEF TypeOK, ControlPrev, LiveThreads, LockHolders
<1>11. TimerArmed'
  BY DEF TypeOK, TimerArmed
<1>12. EmptyIsDestroyed'
  <2>1. \A d \in CPU : pc[d] \in {"pdestroy", "pfree"} =>
                          pc'[d] \in {"pdestroy", "pfree"} /\ prev'[d] = prev[d]
    BY DEF TypeOK
  <2> QED
    BY <2>1, EmptyStable
<1> HIDE DEF ProcessDestroyAcquire, Free
<1> QED
  BY <1>1, <1>2, <1>3, <1>4, <1>5, <1>6, <1>7, <1>8, <1>9, <1>10, <1>11, <1>12

(* Freeing the process keeps IInv: it has no thread left that is queued,   *)
(* running or exiting elsewhere.                                           *)
LEMMA sched_process_destroyStep ==
  ASSUME IInv, NEW c \in CPU, sched_process_destroy(c)
  PROVE  IInv'
<1> USE Constants DEF IInv, Goto, cpuVars, regVars, timVars, queVars, thrVars, proVars,
             sched_process_destroy
<1>1. KernelThreads' /\ QueuedOnce' /\ HeldOnce' /\ CpuCurrent' /\ Registers'
  BY Frame
<1>2. TypeOK'
  BY DEF TypeOK, ControlGs, ControlNxt, ControlPrev, Points
<1>3. ControlGs'
  BY DEF TypeOK, ControlGs, ControlNxt, ControlPrev
<1>4. ControlNxt'
  BY DEF TypeOK, ControlGs, ControlNxt
<1>5. ControlPrev'
  BY DEF TypeOK, ControlGs, ControlNxt, ControlPrev, KernelThreads,
         SwitchesToOther, HeldOnce, Dropping, CpuCurrent
<1>6. LockHolders'
  BY DEF TypeOK, ControlGs, ControlPrev, LockHolders
<1>7. SwitchesToOther'
  BY DEF TypeOK, ControlGs, SwitchesToOther, HeldOnce, CpuCurrent
<1>8. QueuedIsRunnable'
  BY DEF TypeOK, ControlNxt, ControlPrev, HeldOnce, QueuedIsRunnable,
         Membership, NoUseAfterFree, Queued, Refs, Dropping
<1>9. NoUseAfterFree'
  <2>1. pc[c] = "pfree" /\ pc' = [pc EXCEPT ![c] = "tfree"]
        /\ pmem' = [pmem EXCEPT ![ProcOf[prev[c]]] = "freed"]
        /\ UNCHANGED <<gs, nxt, prev, mem, threads>>
    OBVIOUS
  <2>2. prev[c] \in UThread /\ threads[ProcOf[prev[c]]] = {} /\ lock[ProcOf[prev[c]]] = c
        /\ rlock[ProcOf[prev[c]]] = c
    BY <2>1 DEF ControlPrev, Membership, LockHolders
  <2> HIDE DEF sched_process_destroy
  <2>3. ASSUME NEW d \in CPU, NEW t \in UThread,
               t \in {gs[d], nxt[d]} \/ (t = prev[d] /\ pc'[d] # "tfree")
        PROVE  ProcOf[t] # ProcOf[prev[c]]
    <3>1. CASE t \in {gs[d], nxt[d]} \/ pc[d] \notin {"pdestroy", "pfree", "tfree"}
      BY <2>1, <2>2, <2>3, <3>1 DEF Membership, TypeOK
    <3>2. CASE t = prev[d] /\ pc[d] \in {"pdestroy", "pfree"} /\ d # c
      BY <2>2, <3>2 DEF LockHolders
    <3> QED
      BY <2>1, <2>3, <3>1, <3>2 DEF TypeOK
  <2> QED
    BY <2>1, <2>3 DEF TypeOK, NoUseAfterFree, Refs
<1>10. Membership'
  BY DEF TypeOK, ControlGs, ControlNxt, ControlPrev, LockHolders, HeldOnce,
         QueuedIsRunnable, NoUseAfterFree, Membership, Refs, Queued, Dropping
<1>11. LiveThreads'
  BY DEF TypeOK, ControlPrev, LiveThreads, LockHolders
<1>12. TimerArmed'
  BY DEF TypeOK, TimerArmed
<1>13. EmptyIsDestroyed'
  <2> SUFFICES ASSUME NEW p \in Proc, pmem'[p] = "live", threads'[p] = {}
               PROVE  \E d \in CPU : pc'[d] \in {"pdestroy", "pfree"} /\ ProcOf[prev'[d]] = p
    BY DEF EmptyIsDestroyed
  <2>1. pmem[p] = "live" /\ threads[p] = {} /\ p # ProcOf[prev[c]]
    BY DEF TypeOK, ControlPrev
  <2>2. PICK d \in CPU : pc[d] \in {"pdestroy", "pfree"} /\ ProcOf[prev[d]] = p
    BY <2>1 DEF EmptyIsDestroyed
  <2> QED
    BY <2>1, <2>2 DEF TypeOK
<1> HIDE DEF sched_process_destroy
<1> QED
  BY <1>1, <1>2, <1>3, <1>4, <1>5, <1>6, <1>7, <1>8, <1>9, <1>10, <1>11, <1>12,
     <1>13

(* Freeing the thread keeps IInv: the last pointer to it, prev, goes with  *)
(* it.                                                                     *)
LEMMA ThreadFreeStep ==
  ASSUME IInv, NEW c \in CPU, ThreadFree(c)
  PROVE  IInv'
<1> USE Constants DEF IInv, Goto, cpuVars, regVars, timVars, queVars, thrVars, proVars,
             ThreadFree
<1>1. QueuedOnce' /\ CpuCurrent' /\ Registers'
  BY Frame
<1>2. TypeOK'
  BY DEF TypeOK, ControlGs, ControlNxt, ControlPrev, Points
<1>3. ControlGs'
  BY DEF TypeOK, ControlGs, ControlNxt, ControlPrev
<1>4. ControlNxt'
  BY DEF TypeOK, ControlGs, ControlNxt
<1>5. ControlPrev'
  BY DEF TypeOK, ControlGs, ControlNxt, ControlPrev, KernelThreads,
         SwitchesToOther, HeldOnce, Dropping, CpuCurrent
<1>6. KernelThreads'
  BY DEF TypeOK, ControlGs, ControlPrev, KernelThreads
<1>7. LockHolders'
  BY DEF TypeOK, ControlGs, ControlPrev, LockHolders
<1>8. SwitchesToOther'
  BY DEF TypeOK, ControlGs, SwitchesToOther, HeldOnce, CpuCurrent
<1>9. HeldOnce'
  BY DEF TypeOK, ControlGs, ControlNxt, ControlPrev, HeldOnce, CpuCurrent
<1>10. QueuedIsRunnable'
  BY DEF TypeOK, ControlNxt, ControlPrev, HeldOnce, QueuedIsRunnable,
         Membership, NoUseAfterFree, Queued, Refs, Dropping
<1>11. NoUseAfterFree'
  BY DEF TypeOK, ControlGs, ControlNxt, ControlPrev, KernelThreads, HeldOnce,
         CpuCurrent, QueuedIsRunnable, NoUseAfterFree, Membership, Refs,
         Queued, Dropping
<1>12. Membership'
  BY DEF TypeOK, ControlGs, ControlNxt, ControlPrev, LockHolders, HeldOnce,
         QueuedIsRunnable, NoUseAfterFree, Membership, Refs, Queued, Dropping
<1>13. LiveThreads'
  BY DEF TypeOK, ControlPrev, LiveThreads, LockHolders
<1>14. TimerArmed'
  BY DEF TypeOK, TimerArmed
<1>15. EmptyIsDestroyed'
  <2>1. \A d \in CPU : pc[d] \in {"pdestroy", "pfree"} =>
                          pc'[d] \in {"pdestroy", "pfree"} /\ prev'[d] = prev[d]
    BY DEF TypeOK
  <2> QED
    BY <2>1, EmptyStable
<1> HIDE DEF ThreadFree
<1> QED
  BY <1>1, <1>2, <1>3, <1>4, <1>5, <1>6, <1>7, <1>8, <1>9, <1>10, <1>11, <1>12,
     <1>13, <1>14, <1>15

(* Arming the timer and returning to the thread keeps IInv.                *)
LEMMA TimerArmStep ==
  ASSUME IInv, NEW c \in CPU, TimerArm(c)
  PROVE  IInv'
<1> USE Constants DEF IInv, Goto, cpuVars, regVars, timVars, queVars, thrVars, proVars,
             TimerArm
<1>1. KernelThreads' /\ QueuedOnce' /\ HeldOnce' /\ CpuCurrent'
      /\ QueuedIsRunnable' /\ Registers'
  BY Frame
<1>2. TypeOK'
  BY DEF TypeOK, ControlGs, ControlNxt, ControlPrev, Points
<1>3. ControlGs'
  BY DEF TypeOK, ControlGs, ControlNxt, ControlPrev
<1>4. ControlNxt'
  BY DEF TypeOK, ControlGs, ControlNxt
<1>5. ControlPrev'
  BY DEF TypeOK, ControlGs, ControlNxt, ControlPrev, KernelThreads,
         SwitchesToOther, HeldOnce, Dropping, CpuCurrent
<1>6. LockHolders'
  BY DEF TypeOK, ControlGs, ControlPrev, LockHolders
<1>7. SwitchesToOther'
  BY DEF TypeOK, ControlGs, SwitchesToOther, HeldOnce, CpuCurrent
<1>8. NoUseAfterFree'
  BY DEF TypeOK, ControlGs, ControlNxt, ControlPrev, KernelThreads, HeldOnce,
         CpuCurrent, QueuedIsRunnable, NoUseAfterFree, Membership, Refs,
         Queued, Dropping
<1>9. Membership'
  BY DEF TypeOK, ControlGs, ControlNxt, ControlPrev, LockHolders, HeldOnce,
         QueuedIsRunnable, NoUseAfterFree, Membership, Refs, Queued, Dropping
<1>10. LiveThreads'
  BY DEF TypeOK, ControlPrev, LiveThreads, LockHolders
<1>11. TimerArmed'
  BY DEF TypeOK, TimerArmed
<1>12. EmptyIsDestroyed'
  <2>1. \A d \in CPU : pc[d] \in {"pdestroy", "pfree"} =>
                          pc'[d] \in {"pdestroy", "pfree"} /\ prev'[d] = prev[d]
    BY DEF TypeOK
  <2> QED
    BY <2>1, EmptyStable
<1> HIDE DEF TimerArm
<1> QED
  BY <1>1, <1>2, <1>3, <1>4, <1>5, <1>6, <1>7, <1>8, <1>9, <1>10, <1>11, <1>12

(* IInv holds when the CPUs are about to start: each stands on its own     *)
(* dummy thread and nothing is queued.                                     *)
LEMMA InitIInv == Init => IInv
<1> SUFFICES ASSUME Init PROVE IInv
  OBVIOUS
<1> USE Constants DEF Init
<1>1. TypeOK
  <2>1. cpu \in [Thread -> CPU \cup {None}]
    OBVIOUS
  <2>2. pc \in [CPU -> Points]
    BY DEF Points
  <2>3. queue \in Seq(UThread)
    OBVIOUS
  <2> QED
    BY <2>1, <2>2, <2>3 DEF TypeOK
<1>2. ControlGs /\ ControlNxt /\ TimerArmed
  BY DEF ControlGs, ControlNxt, TimerArmed
<1>3. ControlPrev
  BY DEF ControlPrev, Dropping
<1>4. KernelThreads
  BY DEF KernelThreads
<1>5. LockHolders
  BY DEF LockHolders
<1>6. QueuedOnce /\ SwitchesToOther
  BY DEF QueuedOnce, SwitchesToOther
<1>7. HeldOnce
  BY DEF HeldOnce
<1>8. CpuCurrent
  <2> SUFFICES ASSUME NEW c \in CPU, NEW t \in Thread
               PROVE  cpu[t] = c <=> t = dummy_thread[c]
    BY DEF CpuCurrent
  <2>1. CASE \E d \in CPU : t = dummy_thread[d]
    <3>1. cpu[t] = CHOOSE d \in CPU : t = dummy_thread[d]
      BY <2>1
    <3>2. cpu[t] \in CPU /\ t = dummy_thread[cpu[t]]
      BY <2>1, <3>1
    <3> QED
      BY <3>2
  <2>2. CASE ~ \E d \in CPU : t = dummy_thread[d]
    BY <2>2
  <2> QED
    BY <2>1, <2>2
<1>9. QueuedIsRunnable
  BY DEF QueuedIsRunnable, Queued
<1>10. NoUseAfterFree /\ Membership /\ LiveThreads
  BY DEF NoUseAfterFree, Refs, Membership, LiveThreads
<1>11. Registers /\ EmptyIsDestroyed
  BY DEF Registers, EmptyIsDestroyed
<1> QED
  BY <1>1, <1>2, <1>3, <1>4, <1>5, <1>6, <1>7, <1>8, <1>9, <1>10, <1>11 DEF IInv

(* IInv depends on the variables of the specification alone.               *)
LEMMA StutterStep ==
  ASSUME IInv, UNCHANGED vars
  PROVE  IInv'
<1> USE DEF IInv, vars, cpuVars, regVars, timVars, queVars, thrVars, proVars
<1>1. KernelThreads' /\ QueuedOnce' /\ HeldOnce' /\ CpuCurrent' /\ QueuedIsRunnable' /\ Registers'
  BY Frame
<1>2. TypeOK' /\ ControlGs' /\ ControlNxt' /\ ControlPrev'
  BY DEF TypeOK, ControlGs, ControlNxt, ControlPrev
<1>3. LockHolders' /\ SwitchesToOther' /\ TimerArmed'
  BY DEF LockHolders, SwitchesToOther, TimerArmed
<1>4. NoUseAfterFree'
  BY DEF NoUseAfterFree, Refs
<1>5. Membership' /\ LiveThreads' /\ EmptyIsDestroyed'
  BY DEF Membership, LiveThreads, EmptyIsDestroyed
<1> QED
  BY <1>1, <1>2, <1>3, <1>4, <1>5

(* IInv is inductive.                                                      *)
THEOREM Inductive == Spec => []IInv
<1>1. IInv /\ [Next]_vars => IInv'
  <2> SUFFICES ASSUME IInv, [Next]_vars PROVE IInv'
    OBVIOUS
  <2>1. CASE UNCHANGED vars
    BY <2>1, StutterStep
  <2>2. CASE \E t \in UThread : Spawn(t)
    BY <2>2, SpawnStep
  <2>3. ASSUME NEW c \in CPU, LocalStep(c) PROVE IInv'
    BY <2>3, x86_64_sched_init_cpuStep, sched_entryStep, SyscallReturnStep,
       sched_thread_nextStep, PickNextStep, sched_switchStep,
       x86_64_sched_context_switchStep, sched_thread_dropStep, ScheduleLinkStep,
       arch_sched_thread_destroyStep, sched_process_destroyStep,
       ThreadFreeStep, TimerArmStep DEF LocalStep
  <2>4. ASSUME NEW c \in CPU, AcquireStep(c) PROVE IInv'
    BY <2>4, SyscallAcquireStep, NextAcquireStep, ScheduleAcquireStep,
       DestroyAcquireStep, ProcessDestroyAcquireStep DEF AcquireStep
  <2>5. ASSUME NEW c \in CPU, TimerExpire(c) \/ x86_64_syscall_exit(c) \/ SyscallEnter(c)
        PROVE IInv'
    BY <2>5, TimerExpireStep, x86_64_syscall_exitStep, SyscallEnterStep
  <2> QED
    BY <2>1, <2>2, <2>3, <2>4, <2>5 DEF Next
<1> QED
  BY <1>1, InitIInv, PTL DEF Spec

-----------------------------------------------------------------------------

(* The pointers, locks and lists of the scheduler keep their types: no     *)
(* null, idle or foreign thread enters the run queue.                      *)
THEOREM TypeCorrect == Spec => []TypeOK
<1>1. IInv => TypeOK
  BY DEF IInv
<1> QED
  BY <1>1, Inductive, PTL

(* The three kinds of spinlock exclude each other's critical sections.     *)
THEOREM LocksHeld == Spec => []LockHolders
<1>1. IInv => LockHolders
  BY DEF IInv
<1> QED
  BY <1>1, Inductive, PTL

(* No thread is queued twice, on two CPUs, or queued while a CPU still     *)
(* points at it or runs on its stack.                                      *)
THEOREM ThreadsExclusive == Spec => []ThreadExclusive
<1>1. IInv => ThreadExclusive
  <2> SUFFICES ASSUME IInv PROVE ThreadExclusive
    OBVIOUS
  <2> USE Constants DEF IInv
  <2>1. \A c \in CPU : stack[c] \in {gs[c], prev[c]} /\ stack[c] \in Thread
    BY DEF ControlGs, TypeOK
  <2>2. \A c \in CPU : Queued \cap (Refs(c) \cup {stack[c]}) = {}
    <3> SUFFICES ASSUME NEW c \in CPU, NEW t \in Queued, t \in Refs(c) \cup {stack[c]}
                 PROVE  FALSE
      OBVIOUS
    <3>1. PICK i \in DOMAIN queue : t = queue[i]
      BY DEF Queued
    <3>2. t \in {gs[c], nxt[c], prev[c]}
      BY <2>1 DEF Refs
    <3> QED
      BY <3>1, <3>2 DEF HeldOnce
  <2>3. \A c, d \in CPU : c # d =>
          (Refs(c) \cup {stack[c]}) \cap (Refs(d) \cup {stack[d]}) = {}
    BY <2>1 DEF Refs, HeldOnce
  <2> QED
    BY <2>2, <2>3 DEF ThreadExclusive
<1> QED
  BY <1>1, Inductive, PTL

(* Whatever leaves the run queue can be switched to: it was queued after   *)
(* its context was saved, and neither it nor its process has been freed.   *)
THEOREM QueuedRunnable == Spec => []QueuedIsRunnable
<1>1. IInv => QueuedIsRunnable
  BY DEF IInv
<1> QED
  BY <1>1, Inductive, PTL

(* cpu_current() answers with the CPU that asks.                           *)
THEOREM CurrentCpu == Spec => []CpuCurrent
<1>1. IInv => CpuCurrent
  BY DEF IInv
<1> QED
  BY <1>1, Inductive, PTL

(* A thread that runs has its own stack, registers and address space.      *)
THEOREM OwnsCpu == Spec => []ThreadOwnsCpu
<1>1. IInv => ThreadOwnsCpu
  BY DEF IInv, ThreadOwnsCpu, Registers, ControlGs
<1> QED
  BY <1>1, Inductive, PTL

(* Exit frees threads and processes only when no CPU will follow a pointer *)
(* to them again.                                                          *)
THEOREM NoDangling == Spec => []NoUseAfterFree
<1>1. IInv => NoUseAfterFree
  BY DEF IInv
<1> QED
  BY <1>1, Inductive, PTL

(* Every path back to a thread leaves the CPU's timer counting or its      *)
(* interrupt pending.                                                      *)
THEOREM AlwaysArmed == Spec => []TimerArmed
<1>1. IInv => TimerArmed
  BY DEF IInv
<1> QED
  BY <1>1, Inductive, PTL

(* A process is freed after its last thread left and not before.           *)
THEOREM ProcessesLive == Spec => []ProcessLifetime
<1>1. IInv => ProcessLifetime
  <2> SUFFICES ASSUME IInv PROVE ProcessLifetime
    OBVIOUS
  <2> USE Constants DEF IInv
  <2>1. FreedWithThreads
    <3> SUFFICES ASSUME NEW t \in UThread, pmem[ProcOf[t]] = "freed", mem[t] = "live"
                 PROVE  \E c \in CPU : prev[c] = t /\ pc[c] = "tfree"
      BY DEF FreedWithThreads
    <3>1. t \notin threads[ProcOf[t]]
      BY DEF Membership
    <3>2. PICK c \in CPU : prev[c] = t /\ pc[c] \in {"pdestroy", "pfree", "tfree"}
      BY <3>1 DEF LiveThreads
    <3>3. pc[c] \notin {"pdestroy", "pfree"}
      BY <3>2 DEF Membership
    <3> QED
      BY <3>2, <3>3
  <2> QED
    BY <2>1 DEF ProcessLifetime
<1> QED
  BY <1>1, Inductive, PTL

-----------------------------------------------------------------------------
(* The steps of the kernel as the abstract scheduler sees them.            *)

(* Nothing happens to it while the user threads in each CPU's hands, the   *)
(* queue and what is freed stay the same.                                  *)
LEMMA Invisible ==
  ASSUME UNCHANGED queue, Holds' = Holds, Ended' = Ended
  PROVE  UNCHANGED Abs!absVars
  BY DEF Abs!absVars

(* What one CPU holds changes by what its own code does.                   *)
LEMMA OneHolds ==
  ASSUME NEW c \in CPU, NEW S, Refs(c)' \cap UThread = S,
         \A d \in CPU \ {c} : UNCHANGED <<gs[d], nxt[d], prev[d]>>
  PROVE  Holds' = [Holds EXCEPT ![c] = S]
<1>1. \A d \in CPU \ {c} : Refs(d)' = Refs(d)
  BY DEF Refs
<1> QED
  BY <1>1 DEF Holds

(* A thread is created: it is nobody's yet.                                *)
LEMMA SpawnAbs ==
  ASSUME IInv, NEW t \in UThread, Spawn(t)
  PROVE  Abs!Admit(t)
<1> USE Constants DEF IInv
<1>1. /\ mem[t] = "none" /\ mem' = [mem EXCEPT ![t] = "live"]
      /\ queue' = Append(queue, t) /\ UNCHANGED <<gs, nxt, prev>>
  BY DEF Spawn, arch_sched_thread_create_user, create_thread, sched_thread_schedule, cpuVars
<1>2. Ended' = Ended /\ t \notin Ended
  BY <1>1 DEF Ended, TypeOK
<1>3. Holds' = Holds
  BY <1>1 DEF Holds, Refs
<1>4. \A c \in CPU : t \notin Holds[c]
  BY <1>1 DEF Holds, NoUseAfterFree
<1>5. t \notin {queue[i] : i \in DOMAIN queue}
  BY <1>1 DEF QueuedIsRunnable, Queued
<1> QED
  BY <1>1, <1>2, <1>3, <1>4, <1>5 DEF Abs!Admit

(* The head of the queue passes into the hands of the CPU that asks.       *)
LEMMA sched_thread_nextAbs ==
  ASSUME IInv, NEW c \in CPU, sched_thread_next(c)
  PROVE  Abs!Take(c) \/ UNCHANGED Abs!absVars
<1> USE Constants DEF IInv
<1>1. pc[c] = "dequeue" /\ UNCHANGED <<gs, prev, mem>>
  BY DEF sched_thread_next, Goto, thrVars
<1>2. nxt[c] = None /\ prev[c] = None
  BY <1>1 DEF ControlNxt, ControlPrev, Dropping
<1>3. Ended' = Ended
  BY <1>1 DEF Ended
<1>4. CASE queue = <<>>
  BY <1>1, <1>3, <1>4, Invisible DEF sched_thread_next, Holds, Refs
<1>5. CASE queue # <<>>
  <2>1. /\ nxt' = [nxt EXCEPT ![c] = Head(queue)] /\ queue' = Tail(queue)
        /\ Head(queue) \in UThread
    BY <1>5, TailFacts DEF sched_thread_next, list_delete, TypeOK
  <2>2. nxt'[c] = Head(queue) /\ \A d \in CPU \ {c} : nxt'[d] = nxt[d]
    BY <2>1 DEF TypeOK
  <2>3. Refs(c)' \cap UThread = (Refs(c) \cap UThread) \cup {Head(queue)}
    BY <1>1, <1>2, <2>1, <2>2 DEF Refs
  <2>4. Holds' = [Holds EXCEPT ![c] = (Refs(c) \cap UThread) \cup {Head(queue)}]
    BY <1>1, <2>2, <2>3, OneHolds
  <2>5. Holds[c] = Refs(c) \cap UThread
    BY DEF Holds
  <2>6. \A s, t \in Holds[c] : s = t
    BY <1>2, <2>5 DEF Refs
  <2> QED
    BY <1>3, <1>5, <2>1, <2>4, <2>5, <2>6 DEF Abs!Take
<1> QED
  BY <1>4, <1>5

(* The thread that was left joins the end of the queue.                    *)
LEMMA ScheduleLinkAbs ==
  ASSUME IInv, NEW c \in CPU, ScheduleLink(c)
  PROVE  \E t \in UThread : Abs!Yield(c, t)
<1> USE Constants DEF IInv
<1>1. /\ pc[c] = "link" /\ UNCHANGED <<gs, nxt, mem>> /\ prev' = [prev EXCEPT ![c] = None]
      /\ queue' = Append(queue, prev[c])
  BY DEF ScheduleLink, Goto, thrVars, sched_thread_schedule
<1>2. prev[c] \in UThread /\ prev[c] # gs[c] /\ nxt[c] = None
  BY <1>1 DEF ControlPrev, ControlNxt, Dropping
<1>3. prev'[c] = None /\ \A d \in CPU \ {c} : prev'[d] = prev[d]
  BY <1>1 DEF TypeOK
<1>4. Refs(c)' \cap UThread = (Refs(c) \cap UThread) \ {prev[c]}
  BY <1>1, <1>2, <1>3 DEF Refs
<1>5. Holds' = [Holds EXCEPT ![c] = (Refs(c) \cap UThread) \ {prev[c]}]
  BY <1>1, <1>3, <1>4, OneHolds
<1>6. Holds[c] = Refs(c) \cap UThread /\ prev[c] \in Holds[c]
  BY <1>2 DEF Holds, Refs
<1>7. Ended' = Ended
  BY <1>1 DEF Ended
<1>8. Abs!Yield(c, prev[c])
  BY <1>1, <1>5, <1>6, <1>7 DEF Abs!Yield
<1> QED
  BY <1>2, <1>8

(* A user thread ends when it is freed; a dummy thread is nothing to it.   *)
LEMMA ThreadFreeAbs ==
  ASSUME IInv, NEW c \in CPU, ThreadFree(c)
  PROVE  (\E t \in UThread : Abs!End(c, t)) \/ UNCHANGED Abs!absVars
<1> USE Constants DEF IInv
<1>1. /\ pc[c] = "tfree" /\ UNCHANGED <<gs, nxt, queue>> /\ prev' = [prev EXCEPT ![c] = None]
      /\ mem' = [mem EXCEPT ![prev[c]] = "freed"]
  BY DEF ThreadFree, Goto, queVars
<1>2. prev[c] \in UThread \cup {dummy_thread[c]} /\ prev[c] # gs[c] /\ nxt[c] = None
  BY <1>1 DEF ControlPrev, ControlNxt, Dropping
<1>3. prev'[c] = None /\ \A d \in CPU \ {c} : prev'[d] = prev[d]
  BY <1>1 DEF TypeOK
<1>4. Refs(c)' \cap UThread = (Refs(c) \cap UThread) \ {prev[c]}
  BY <1>1, <1>2, <1>3 DEF Refs
<1>5. Holds' = [Holds EXCEPT ![c] = (Refs(c) \cap UThread) \ {prev[c]}]
  BY <1>1, <1>3, <1>4, OneHolds
<1>6. Holds[c] = Refs(c) \cap UThread
  BY DEF Holds
<1>7. CASE prev[c] \in UThread
  <2>1. Ended' = Ended \cup {prev[c]}
    BY <1>1, <1>7 DEF Ended, TypeOK
  <2>2. prev[c] \in Holds[c]
    BY <1>6, <1>7 DEF Refs
  <2> QED
    BY <1>1, <1>5, <1>6, <1>7, <2>1, <2>2 DEF Abs!End
<1>8. CASE prev[c] = dummy_thread[c]
  <2>1. Ended' = Ended
    BY <1>1, <1>8 DEF Ended, TypeOK
  <2>2. Holds' = Holds
    <3>1. (Refs(c) \cap UThread) \ {prev[c]} = Holds[c]
      BY <1>6, <1>8
    <3> QED
      BY <1>5, <3>1 DEF Holds
  <2> QED
    BY <1>1, <2>1, <2>2, Invisible
<1> QED
  BY <1>2, <1>7, <1>8

(* A context switch only passes threads from one pointer to another.       *)
LEMMA SwitchAbs ==
  ASSUME IInv, NEW c \in CPU,
         \/ x86_64_sched_init_cpu(c) \/ PickNext(c) \/ sched_switch(c)
         \/ x86_64_sched_context_switch(c) \/ sched_thread_drop(c)
  PROVE  UNCHANGED Abs!absVars
<1> USE Constants DEF IInv
<1>1. UNCHANGED <<queue, mem>>
  BY DEF x86_64_sched_init_cpu, PickNext, sched_switch, x86_64_sched_context_switch,
         sched_thread_drop, queVars, thrVars
<1>2. cpu[gs[c]] = c
  BY DEF CpuCurrent, TypeOK
<1>3. /\ \A d \in CPU \ {c} : UNCHANGED <<gs[d], nxt[d], prev[d]>>
      /\ Refs(c)' \cap UThread = Refs(c) \cap UThread
  <2>1. CASE x86_64_sched_init_cpu(c)
    <3>1. nxt[c] = None /\ nxt' = [nxt EXCEPT ![c] = idle_thread[c]] /\ UNCHANGED <<gs, prev>>
      BY <2>1 DEF x86_64_sched_init_cpu, Goto, ControlNxt
    <3> QED
      BY <3>1 DEF Refs, TypeOK
  <2>2. CASE PickNext(c)
    <3>1. /\ UNCHANGED <<gs, prev>>
          /\ nxt' = nxt \/ (nxt[c] = None /\ nxt' = [nxt EXCEPT ![c] = idle_thread[c]])
      BY <1>2, <2>2 DEF PickNext, Goto, TypeOK
    <3> QED
      BY <3>1 DEF Refs, TypeOK
  <2>3. CASE sched_switch(c)
    <3>1. /\ prev[c] = None /\ gs' = [gs EXCEPT ![c] = nxt[c]]
          /\ prev' = [prev EXCEPT ![c] = gs[c]] /\ UNCHANGED nxt
      BY <2>3 DEF sched_switch, Goto, ControlPrev, Dropping
    <3> QED
      BY <3>1 DEF Refs, TypeOK
  <2>4. CASE x86_64_sched_context_switch(c)
    <3>1. gs[c] = nxt[c] /\ nxt' = [nxt EXCEPT ![c] = None] /\ UNCHANGED <<gs, prev>>
      BY <2>4 DEF x86_64_sched_context_switch, Goto, ControlNxt
    <3> QED
      BY <3>1 DEF Refs, TypeOK
  <2>5. CASE sched_thread_drop(c)
    <3>1. /\ UNCHANGED <<gs, nxt>>
          /\ prev' = prev \/ (prev[c] = idle_thread[c] /\ prev' = [prev EXCEPT ![c] = None])
      BY <1>2, <2>5 DEF sched_thread_drop, AfterDrop
    <3> QED
      BY <3>1 DEF Refs, TypeOK
  <2> QED
    BY <2>1, <2>2, <2>3, <2>4, <2>5
<1>4. Holds' = Holds
  <2>1. Holds' = [Holds EXCEPT ![c] = Refs(c) \cap UThread]
    BY <1>3, OneHolds
  <2> QED
    BY <2>1 DEF Holds
<1> QED
  BY <1>1, <1>4, Invisible DEF Ended

(* Steps that touch neither pointers nor queue nor threads' memory.        *)
LEMMA OtherAbs ==
  ASSUME UNCHANGED <<queue, gs, nxt, prev, mem>>
  PROVE  UNCHANGED Abs!absVars
<1>1. Holds' = Holds /\ Ended' = Ended
  BY DEF Holds, Ended, Refs
<1> QED
  BY <1>1, Invisible

(* Every step is a step of the dispatcher or invisible to it.              *)
LEMMA StepAbs ==
  ASSUME IInv, [Next]_vars
  PROVE  [Abs!AbsNext]_(Abs!absVars)
<1> USE DEF cpuVars, queVars, thrVars, proVars
<1>1. CASE UNCHANGED vars
  BY <1>1, OtherAbs DEF vars
<1>2. ASSUME NEW t \in UThread, Spawn(t)
      PROVE  [Abs!AbsNext]_(Abs!absVars)
  BY <1>2, SpawnAbs DEF Abs!AbsNext
<1>3. ASSUME NEW c \in CPU, LocalStep(c)
      PROVE  [Abs!AbsNext]_(Abs!absVars)
  <2>1. CASE sched_thread_next(c)
    BY <2>1, sched_thread_nextAbs DEF Abs!AbsNext
  <2>2. CASE ScheduleLink(c)
    BY <2>2, ScheduleLinkAbs DEF Abs!AbsNext
  <2>3. CASE ThreadFree(c)
    BY <2>3, ThreadFreeAbs DEF Abs!AbsNext
  <2>4. CASE \/ x86_64_sched_init_cpu(c) \/ PickNext(c) \/ sched_switch(c)
             \/ x86_64_sched_context_switch(c) \/ sched_thread_drop(c)
    BY <2>4, SwitchAbs
  <2>5. CASE \/ sched_entry(c) \/ SyscallReturn(c) \/ arch_sched_thread_destroy(c)
             \/ sched_process_destroy(c) \/ TimerArm(c)
    BY <2>5, OtherAbs DEF sched_entry, SyscallReturn, arch_sched_thread_destroy,
                          sched_process_destroy, TimerArm
  <2> QED
    BY <1>3, <2>1, <2>2, <2>3, <2>4, <2>5 DEF LocalStep
<1>4. ASSUME NEW c \in CPU,
             AcquireStep(c) \/ TimerExpire(c) \/ x86_64_syscall_exit(c) \/ SyscallEnter(c)
      PROVE  [Abs!AbsNext]_(Abs!absVars)
  BY <1>4, OtherAbs DEF AcquireStep, SyscallAcquire, NextAcquire, ScheduleAcquire, DestroyAcquire,
                        ProcessDestroyAcquire, TimerExpire, x86_64_syscall_exit, SyscallEnter
<1> QED
  BY <1>1, <1>2, <1>3, <1>4 DEF Next

(* The scheduler implements the first-come-first-served dispatcher: the    *)
(* run queue, the switches and the reclamation of threads are invisible    *)
(* but for a thread joining the line, being taken, yielding and ending     *)
(* (sched.c:57-90, arch/x86_64/sched.c:92-190).                            *)
THEOREM ImplementsAbs == Spec => Abs!AbsSpec
<1>1. Init => Abs!AbsInit
  <2> SUFFICES ASSUME Init PROVE Abs!AbsInit
    OBVIOUS
  <2>1. queue = <<>>
    BY DEF Init
  <2>2. Holds = [c \in CPU |-> {}]
    BY Constants DEF Init, Holds, Refs
  <2>3. Ended = {}
    BY Constants DEF Init, Ended
  <2> QED
    BY <2>1, <2>2, <2>3 DEF Abs!AbsInit
<1> QED
  BY <1>1, StepAbs, Inductive, PTL DEF Spec, Abs!AbsSpec
=============================================================================
