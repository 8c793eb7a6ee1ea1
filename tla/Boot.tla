--------------------------------- MODULE Boot ---------------------------------
(***************************************************************************)
(* Processor start: the end of init and init_ap (arch/x86_64/init.c), and  *)
(* x86_64_sched_init_cpu up to the first thread.  The boot loader has      *)
(* parked every other processor on a word of its own.                      *)
(***************************************************************************)
EXTENDS Naturals, Sequences

CONSTANTS
  CPU,            \* the processors
  BSP,            \* the one that runs init
  cpus,           \* boot_info->cpus, in order
  init_failed,    \* those the boot loader could not start
  None            \* nothing: an empty slot, an absent entry

ASSUME BootAssumption ==
  /\ BSP \in CPU \ init_failed /\ None \notin CPU
  /\ cpus \in Seq(CPU)
  /\ \A m, n \in DOMAIN cpus : cpus[m] = cpus[n] => m = n
  /\ \A c \in CPU : \E n \in DOMAIN cpus : cpus[n] = c

VARIABLES
  pc,             \* where each processor is
  stage,          \* init_stage, from MEMORY on
  count,          \* g_x86_64_cpu_count
  slots,          \* g_x86_64_cpus: who filled each slot
  k,              \* init's loop over boot_info->cpus
  previous_count  \* its local of that name

bootVars == <<stage, count, slots, k, previous_count>>

Goto(c, from, to) == pc[c] = from /\ pc' = [pc EXCEPT ![c] = to]

BootInit ==
  /\ pc = [c \in CPU |-> IF c = BSP THEN "init" ELSE "parked"]
  /\ stage = "MEMORY" /\ count = 0 /\ k = 1 /\ previous_count = 0
  /\ slots = [n \in 1 .. Len(cpus) |-> None]

-----------------------------------------------------------------------------
(* init: a processor that failed is skipped, the BSP fills its own slot,   *)
(* any other is woken, and nothing goes on until the count has grown.      *)

Next_cpu(n) == pc[BSP] = "init" /\ k = n /\ n <= Len(cpus)

SkipFailed ==
  /\ Next_cpu(k) /\ cpus[k] \in init_failed
  /\ k' = k + 1
  /\ UNCHANGED <<pc, stage, count, slots, previous_count>>

AddBsp ==
  /\ Next_cpu(k) /\ cpus[k] = BSP
  /\ slots' = [slots EXCEPT ![count + 1] = BSP]
  /\ count' = count + 1
  /\ k' = k + 1
  /\ UNCHANGED <<pc, stage, previous_count>>

WakeAp ==
  /\ Next_cpu(k) /\ cpus[k] \notin init_failed \cup {BSP}
  /\ pc' = [pc EXCEPT ![BSP] = "spin", ![cpus[k]] = "woken"]
  /\ previous_count' = count
  /\ UNCHANGED <<stage, count, slots, k>>

(* The last one is still starting when the loop lets go of it.             *)
Counted_NoSpin == TRUE
Counted == previous_count < count

ApCounted ==
  /\ Goto(BSP, "spin", "init")
  /\ Counted
  /\ k' = k + 1
  /\ UNCHANGED <<stage, count, slots, previous_count>>

(* The clock is set up between SMP and TIME, interrupts go on before       *)
(* PRE_SCHED, and x86_64_sched_init_cpu releases the others.               *)
StageSet ==
  /\ pc[BSP] = "init" /\ k > Len(cpus)
  /\ \/ stage = "MEMORY" /\ stage' = "SMP" /\ pc' = pc
     \/ stage = "SMP" /\ stage' = "TIME" /\ pc' = pc
     \/ stage = "TIME" /\ stage' = "PRE_SCHED" /\ pc' = pc
     \/ stage = "PRE_SCHED" /\ stage' = "SCHED" /\ Goto(BSP, "init", "switching")
  /\ UNCHANGED <<count, slots, k, previous_count>>

-----------------------------------------------------------------------------
(* init_ap: calibrate against the one PIT, fill the slot behind the last   *)
(* one counted, count, enable interrupts, wait for SCHED.                  *)

FillSlot(c) ==
  /\ Goto(c, "woken", "filled")
  /\ slots' = [slots EXCEPT ![count + 1] = c]
  /\ UNCHANGED <<stage, count, k, previous_count>>

Count(c) ==
  /\ Goto(c, "filled", "ready")
  /\ count' = count + 1
  /\ UNCHANGED <<stage, slots, k, previous_count>>

MayStart_Bug == stage = "PRE_SCHED"
MayStart == stage = "SCHED"

Released(c) ==
  /\ Goto(c, "ready", "switching")
  /\ MayStart
  /\ UNCHANGED bootVars

(* sched_switch to the idle thread: from here on GS names a thread.        *)
FirstSwitch(c) ==
  /\ Goto(c, "switching", "run")
  /\ UNCHANGED bootVars

BootStep(c) == FillSlot(c) \/ Count(c) \/ Released(c) \/ FirstSwitch(c)

BootNext ==
  \/ SkipFailed \/ AddBsp \/ WakeAp \/ ApCounted \/ StageSet
  \/ \E c \in CPU : BootStep(c)

-----------------------------------------------------------------------------
Starting == {c \in CPU : pc[c] \in {"woken", "filled"}}

(* Every slot that is counted belongs to one processor that has filled it, *)
(* no processor has two, and only one at a time uses the shared PIT and    *)
(* the slot behind the count (init.c:142, 456).                            *)
SlotPerCpu ==
  /\ \A n \in 1 .. count : slots[n] # None
  /\ \A m, n \in 1 .. count : slots[m] = slots[n] => m = n
  /\ \A c, d \in Starting : c = d
  /\ stage # "MEMORY" => {slots[n] : n \in 1 .. count} = CPU \ init_failed
=============================================================================
