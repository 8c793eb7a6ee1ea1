---------------------------- MODULE ShootdownProofs ----------------------------
(***************************************************************************)
(* Every processor has its slot, the tables grant what was asked, and      *)
(* nothing stale is remembered without a shootdown that is on its way or   *)
(* was missed: for any number of processors, spaces and calls.             *)
(***************************************************************************)
EXTENDS Shootdown, TLAPS

Booting == {"init", "spin", "parked", "woken", "filled"}
Up == Where \ Booting

(* c has filled a slot that is counted.                                    *)
InSlot(c) == \E n \in 1 .. count : slots[n] = c

(* The BSP is in init until it has started the scheduler, no other ever.   *)
Roles ==
  /\ pc[BSP] \notin {"parked", "woken", "filled"}
  /\ \A c \in CPU \ {BSP} : pc[c] \notin {"init", "spin"}
  /\ stage # "SCHED" => pc[BSP] \in {"init", "spin"}
  /\ stage # "MEMORY" => pc[BSP] # "spin" /\ k = Len(cpus) + 1

(* The one processor init waits for, and how far it is.                    *)
Waking ==
  pc[BSP] = "spin" =>
    /\ k \in 1 .. Len(cpus) /\ cpus[k] \notin init_failed \cup {BSP}
    /\ previous_count < k
    /\ \/ pc[cpus[k]] = "woken" /\ count = previous_count
       \/ pc[cpus[k]] = "filled" /\ count = previous_count /\ slots[count + 1] = cpus[k]
       \/ pc[cpus[k]] \in Up /\ count = previous_count + 1

(* The loop has brought up those behind it and touched none ahead of it.   *)
Loop ==
  /\ pc[BSP] = "init" => count < k
  /\ \A c \in Starting : pc[BSP] = "spin" /\ c = cpus[k]
  /\ \A c \in CPU \cap init_failed : pc[c] = "parked"
  /\ \A n \in 1 .. Len(cpus) :
       /\ n < k /\ cpus[n] \notin init_failed \cup {BSP} => pc[cpus[n]] \in Up
       /\ n > k \/ (n = k /\ pc[BSP] # "spin") => cpus[n] = BSP \/ pc[cpus[n]] = "parked"

(* The slots that are counted are those of the processors that are up.     *)
Slots ==
  /\ \A n \in 1 .. count : slots[n] # None
  /\ \A m, n \in 1 .. count : slots[m] = slots[n] => m = n
  /\ \A c \in CPU \ {BSP} : InSlot(c) <=> pc[c] \in Up
  /\ InSlot(BSP) <=> \E n \in 1 .. k - 1 : cpus[n] = BSP

BootInv == Roles /\ Waking /\ Loop /\ Slots

(* The processor whose lock d holds: d alone, asking about its own space.  *)
Shooting(d) == pc[d] \in {"send", "wait"}
Held ==
  /\ \A d \in CPU : Shooting(d) => i[d] <= count /\ lock[slots[i[d]]]
  /\ \A d, e \in CPU : Shooting(d) /\ Shooting(e) /\ slots[i[d]] = slots[i[e]] => d = e
  /\ \A d \in CPU : pc[d] = "wait" => target[slots[i[d]]] = op[d].as

(* A processor remembers of the spaces it can reach, and has a slot.       *)
Remembered ==
  \A c \in CPU, a \in AS : tlb[c][a] # None => a \in {cr3[c], Kernel} /\ InSlot(c)

(* The shootdown of d for a will still reach c: not yet sent, or sent and  *)
(* neither answered nor about to be.                                       *)
WillReach(d, c, a) ==
  /\ op[d].as = a
  /\ \/ pc[d] \in {"shoot", "send"} /\ \E n \in i[d] .. count : slots[n] = c
     \/ pc[d] = "wait" /\ \E n \in i[d] + 1 .. count : slots[n] = c
     \/ pc[d] = "wait" /\ slots[i[d]] = c /\ check[c] /\ pc[c] # "answer"

Stale(c, a) == tlb[c][a] \notin {None, Granted(a)}
StaleWillBeReached ==
  \A c \in CPU, a \in AS :
    Stale(c, a) => c \in missed \/ \E d \in CPU : WillReach(d, c, a)

ShootInv == Held /\ Remembered /\ StaleWillBeReached

IInv == TypeOK /\ BootInv /\ RightsGranted /\ ShootInv

-----------------------------------------------------------------------------
(* What the assumption on the boot loader's list says.                     *)
LEMMA CpusFacts ==
  /\ Len(cpus) \in Nat /\ DOMAIN cpus = 1 .. Len(cpus)
  /\ \A n \in 1 .. Len(cpus) : cpus[n] \in CPU
  /\ \A m, n \in 1 .. Len(cpus) : cpus[m] = cpus[n] => m = n
  /\ \A c \in CPU : \E n \in 1 .. Len(cpus) : cpus[n] = c
  /\ BSP \in CPU /\ BSP \notin init_failed /\ None \notin CPU
<1>1. cpus \in Seq(CPU)
  BY BootAssumption
<1>2. Len(cpus) \in Nat /\ DOMAIN cpus = 1 .. Len(cpus) /\ \A n \in 1 .. Len(cpus) : cpus[n] \in CPU
  BY <1>1
<1> QED
  BY <1>2, BootAssumption

(* What the initial states have.                                           *)
LEMMA InitIInv == Init => IInv
<1> SUFFICES ASSUME Init PROVE IInv
  OBVIOUS
<1> USE CpusFacts
<1>1. TypeOK
  BY SpaceAssumption DEF Init, BootInit, TypeOK, Where, NoOp, AS
<1>2. BootInv
  <2>1. \A c \in CPU : pc[c] = IF c = BSP THEN "init" ELSE "parked"
    BY DEF Init, BootInit
  <2>2. stage = "MEMORY" /\ count = 0 /\ k = 1
    BY DEF Init, BootInit
  <2>3. Roles /\ Waking
    BY <2>1, <2>2 DEF Roles, Waking
  <2>4. Loop
    BY <2>1, <2>2 DEF Loop, Starting
  <2>5. Slots
    BY <2>1, <2>2 DEF Slots, InSlot, Up, Booting
  <2> QED
    BY <2>3, <2>4, <2>5 DEF BootInv
<1>3. RightsGranted
  BY DEF Init, RightsGranted
<1>4. ShootInv
  <2>1. \A c \in CPU : pc[c] \in {"init", "parked"}
    BY DEF Init, BootInit
  <2>2. \A c \in CPU, a \in AS : tlb[c][a] = None
    BY DEF Init
  <2> QED
    BY <2>1, <2>2 DEF ShootInv, Held, Remembered, StaleWillBeReached, Shooting, Stale
<1> QED
  BY <1>1, <1>2, <1>3, <1>4 DEF IInv

-----------------------------------------------------------------------------
(* The boot of the processors.                                             *)

(* The loop of init: one processor after the other.                        *)
LEMMA SkipFailedStep == ASSUME TypeOK, BootInv, SkipFailed PROVE BootInv'
<1> USE CpusFacts DEF TypeOK, SkipFailed, Next_cpu
<1>1. Roles' /\ Waking'
  BY DEF BootInv, Roles, Waking
<1>2. Loop'
  BY DEF BootInv, Roles, Loop, Starting
<1>3. Slots'
  <2>1. \A c \in CPU : InSlot(c)' <=> InSlot(c)
    BY DEF InSlot
  <2>2. (\E n \in 1 .. k' - 1 : cpus[n] = BSP) <=> \E n \in 1 .. k - 1 : cpus[n] = BSP
    OBVIOUS
  <2> QED
    BY <2>1, <2>2 DEF BootInv, Slots
<1> QED
  BY <1>1, <1>2, <1>3 DEF BootInv

(* The BSP fills the slot behind the last counted one.                     *)
LEMMA AddBspStep == ASSUME TypeOK, BootInv, AddBsp PROVE BootInv' /\ count' \in 0 .. Len(cpus)
<1> USE CpusFacts DEF TypeOK, AddBsp, Next_cpu
<1>1. count < k /\ k <= Len(cpus) /\ stage = "MEMORY"
  BY DEF BootInv, Roles, Loop
<1>2. Roles' /\ Waking'
  BY <1>1 DEF BootInv, Roles, Waking
<1>3. Loop'
  BY <1>1 DEF BootInv, Roles, Loop, Starting
<1>4. Slots'
  <2>1. ~InSlot(BSP)
    BY DEF BootInv, Slots
  <2>2. \A n \in 1 .. count : slots'[n] = slots[n]
    BY <1>1
  <2>3. slots'[count + 1] = BSP
    BY <1>1
  <2>4. \A c \in CPU : InSlot(c)' <=> InSlot(c) \/ c = BSP
    BY <2>2, <2>3 DEF InSlot
  <2>5. \A n \in 1 .. count' : slots'[n] # None
    BY <2>2, <2>3 DEF BootInv, Slots
  <2>6. \A m, n \in 1 .. count' : slots'[m] = slots'[n] => m = n
    BY <2>1, <2>2, <2>3 DEF BootInv, Slots, InSlot
  <2>7. \E n \in 1 .. k' - 1 : cpus[n] = BSP
    OBVIOUS
  <2> QED
    BY <2>4, <2>5, <2>6, <2>7 DEF BootInv, Slots
<1> QED
  BY <1>1, <1>2, <1>3, <1>4 DEF BootInv

(* No processor is starting when the next one is woken.                    *)
LEMMA WakeApStep == ASSUME TypeOK, BootInv, WakeAp PROVE BootInv'
<1> USE CpusFacts DEF TypeOK, WakeAp, Next_cpu
<1>1. count < k /\ k <= Len(cpus) /\ stage = "MEMORY" /\ pc[cpus[k]] = "parked"
  BY DEF BootInv, Roles, Loop
<1>2. Roles'
  BY <1>1 DEF BootInv, Roles
<1>3. Waking'
  BY <1>1 DEF Waking
<1>4. Loop'
  BY <1>1 DEF BootInv, Roles, Loop, Starting, Up, Booting
<1>5. Slots'
  <2>1. \A c \in CPU : InSlot(c)' <=> InSlot(c)
    BY DEF InSlot
  <2>2. \A c \in CPU \ {BSP} : pc'[c] \in Up <=> pc[c] \in Up
    BY <1>1 DEF Up, Booting
  <2> QED
    BY <2>1, <2>2 DEF BootInv, Slots
<1> QED
  BY <1>2, <1>3, <1>4, <1>5 DEF BootInv

(* The one that was woken is up when its slot is counted.                  *)
LEMMA ApCountedStep == ASSUME TypeOK, BootInv, ApCounted PROVE BootInv'
<1> USE CpusFacts DEF TypeOK, ApCounted, Goto
<1>1. /\ k \in 1 .. Len(cpus) /\ cpus[k] \notin init_failed \cup {BSP} /\ previous_count < k
      /\ pc[cpus[k]] \in Up /\ count = previous_count + 1
  BY DEF BootInv, Waking, Counted
<1>2. stage = "MEMORY"
  BY DEF BootInv, Roles
<1>3. Roles' /\ Waking'
  BY <1>1, <1>2 DEF BootInv, Roles, Waking
<1>4. Loop'
  BY <1>1 DEF BootInv, Loop, Starting, Up, Booting
<1>5. Slots'
  <2>1. \A c \in CPU : InSlot(c)' <=> InSlot(c)
    BY DEF InSlot
  <2>2. (\E n \in 1 .. k' - 1 : cpus[n] = BSP) <=> \E n \in 1 .. k - 1 : cpus[n] = BSP
    BY <1>1
  <2> QED
    BY <2>1, <2>2 DEF BootInv, Slots
<1> QED
  BY <1>3, <1>4, <1>5 DEF BootInv

(* The stages after MEMORY come when the loop is through.                  *)
LEMMA StageSetStep == ASSUME TypeOK, BootInv, StageSet PROVE BootInv'
<1> USE CpusFacts DEF StageSet, Goto
<1>0. k \in 1 .. Len(cpus) + 1 /\ pc \in [CPU -> Where]
  BY DEF TypeOK
<1>1. k = Len(cpus) + 1 /\ pc[BSP] = "init"
  <2>1. k > Len(cpus) /\ pc[BSP] = "init"
    OBVIOUS
  <2> QED
    BY <1>0, <2>1
<1>2. /\ \A c \in CPU \ {BSP} : pc'[c] = pc[c]
      /\ pc'[BSP] = "init" \/ (pc'[BSP] = "switching" /\ stage' = "SCHED")
  BY <1>0
<1>3. Roles' /\ Waking'
  BY <1>1, <1>2 DEF BootInv, Roles, Waking
<1>4. Loop'
  BY <1>1, <1>2 DEF BootInv, Loop, Starting
<1>5. Slots'
  <2>1. \A c \in CPU : InSlot(c)' <=> InSlot(c)
    BY DEF InSlot
  <2> QED
    BY <1>2, <2>1 DEF BootInv, Slots
<1> QED
  BY <1>3, <1>4, <1>5 DEF BootInv

(* The slot behind the count and the count are written by the one          *)
(* processor that init waits for.                                          *)
LEMMA FillSlotStep ==
  ASSUME TypeOK, BootInv, NEW c \in CPU, FillSlot(c)
  PROVE  BootInv'
<1> USE CpusFacts DEF TypeOK, FillSlot, Goto
<1>1. pc[BSP] = "spin" /\ c = cpus[k] /\ c # BSP
  BY DEF BootInv, Loop, Starting, Roles
<1>2. k \in 1 .. Len(cpus) /\ c \notin init_failed /\ previous_count < k /\ count = previous_count
  BY <1>1 DEF BootInv, Waking, Up, Booting
<1>3. Roles'
  BY <1>1 DEF BootInv, Roles
<1>4. Waking'
  BY <1>1, <1>2 DEF Waking
<1>5. Loop'
  BY <1>1 DEF BootInv, Loop, Starting, Up, Booting
<1>6. Slots'
  <2>1. \A n \in 1 .. count : slots'[n] = slots[n]
    BY <1>2
  <2>2. \A d \in CPU : InSlot(d)' <=> InSlot(d)
    BY <2>1 DEF InSlot
  <2>3. \A d \in CPU \ {BSP} : pc'[d] \in Up <=> pc[d] \in Up
    BY DEF Up, Booting
  <2> QED
    BY <2>1, <2>2, <2>3 DEF BootInv, Slots
<1> QED
  BY <1>3, <1>4, <1>5, <1>6 DEF BootInv

(* The slot that becomes counted is that of the one who counts.            *)
LEMMA CountStep ==
  ASSUME TypeOK, BootInv, NEW c \in CPU, Count(c)
  PROVE  BootInv' /\ count' \in 0 .. Len(cpus)
<1> USE CpusFacts DEF TypeOK, Count, Goto
<1>1. pc[BSP] = "spin" /\ c = cpus[k] /\ c # BSP
  BY DEF BootInv, Loop, Starting, Roles
<1>2. /\ k \in 1 .. Len(cpus) /\ c \notin init_failed /\ previous_count < k
      /\ count = previous_count /\ slots[count + 1] = c
  BY <1>1 DEF BootInv, Waking, Up, Booting
<1>3. pc'[c] \in Up /\ pc[c] \notin Up /\ \A d \in CPU \ {c} : pc'[d] = pc[d]
  BY DEF Up, Booting, Where
<1>4. Roles'
  BY <1>1 DEF BootInv, Roles
<1>5. Waking'
  BY <1>1, <1>2, <1>3 DEF Waking
<1>6. Loop'
  BY <1>1, <1>3 DEF BootInv, Loop, Starting, Up, Booting
<1>7. Slots'
  <2>1. ~InSlot(c)
    BY <1>1, <1>3 DEF BootInv, Slots
  <2>0. count \in Nat /\ count' = count + 1 /\ slots' = slots /\ slots[count + 1] = c /\ k' = k
    BY <1>2
  <2>. HIDE DEF Count, TypeOK
  <2>2. \A d \in CPU : InSlot(d)' <=> InSlot(d) \/ d = c
    BY <2>0 DEF InSlot
  <2>3. \A n \in 1 .. count' : slots'[n] # None
    BY <2>0 DEF BootInv, Slots
  <2>4. \A m, n \in 1 .. count' : slots'[m] = slots'[n] => m = n
    <3>1. \A m, n \in 1 .. count : slots[m] = slots[n] => m = n
      BY DEF BootInv, Slots
    <3>2. \A n \in 1 .. count : slots[n] # c
      BY <2>1 DEF InSlot
    <3>3. \A n \in 1 .. count' : n \in 1 .. count \/ n = count + 1
      BY <2>0
    <3> QED
      BY ONLY <2>0, <3>1, <3>2, <3>3
  <2> QED
    BY <1>1, <1>3, <2>0, <2>2, <2>3, <2>4 DEF BootInv, Slots
<1> QED
  BY <1>2, <1>4, <1>5, <1>6, <1>7 DEF BootInv

(* Nothing that a processor does later changes any of this.                *)
LEMMA UpStep ==
  ASSUME TypeOK, BootInv, UNCHANGED bootVars, NEW c \in CPU, NEW x \in Up,
         pc[c] \in Up, pc' = [pc EXCEPT ![c] = x]
  PROVE  BootInv'
<1> USE CpusFacts DEF TypeOK, bootVars
<1>1. \A d \in CPU : (pc'[d] \in Up <=> pc[d] \in Up) /\ (pc[d] \notin Up => pc'[d] = pc[d])
  OBVIOUS
<1>2. \A d \in CPU : pc'[d] \in Booting => pc'[d] = pc[d]
  BY DEF Up
<1>3. Roles' /\ Waking'
  BY <1>1, <1>2 DEF BootInv, Roles, Waking, Up, Booting
<1>4. Loop'
  BY <1>1, <1>2 DEF BootInv, Loop, Starting, Up, Booting
<1>5. Slots'
  <2>1. \A d \in CPU : InSlot(d)' <=> InSlot(d)
    BY DEF InSlot
  <2> QED
    BY <1>1, <2>1 DEF BootInv, Slots
<1> QED
  BY <1>3, <1>4, <1>5 DEF BootInv

(* Steps that do not touch the boot.                                       *)
LEMMA BootSame == ASSUME TypeOK, BootInv, UNCHANGED <<pc, bootVars>> PROVE BootInv'
  BY DEF BootInv, Roles, Waking, Loop, Slots, InSlot, Starting, bootVars

(* A shootdown's part of the processors and slots, which booting leaves    *)
(* alone.                                                                  *)
Busy == {"shoot", "send", "wait", "flush", "answer"}
SameBusy ==
  /\ count' \in Nat /\ count <= count' /\ \A n \in 1 .. count : slots'[n] = slots[n]
  /\ \A c \in CPU : pc'[c] = pc[c] \/ (pc[c] \notin Busy /\ pc'[c] \notin Busy)

BootTypeOK ==
  /\ pc \in [CPU -> Where]
  /\ stage \in {"MEMORY", "SMP", "TIME", "PRE_SCHED", "SCHED"}
  /\ count \in 0 .. Len(cpus) /\ slots \in [1 .. Len(cpus) -> CPU \cup {None}]
  /\ k \in 1 .. Len(cpus) + 1 /\ previous_count \in 0 .. Len(cpus)

(* Each step of the boot, and what it leaves of a shootdown.               *)
LEMMA BootNextStep ==
  ASSUME TypeOK, BootInv, BootNext
  PROVE  BootInv' /\ BootTypeOK' /\ SameBusy
<1> USE CpusFacts
<1>0. BootTypeOK
  BY DEF TypeOK, BootTypeOK
<1>1. CASE SkipFailed
  BY <1>0, <1>1, SkipFailedStep DEF SkipFailed, Next_cpu, BootTypeOK, SameBusy
<1>2. CASE AddBsp
  <2>1. count < k
    BY <1>2 DEF AddBsp, Next_cpu, BootInv, Loop
  <2> QED
    BY <1>0, <1>2, <2>1, AddBspStep DEF AddBsp, Next_cpu, BootTypeOK, SameBusy
<1>3. CASE WakeAp
  <2>1. pc[BSP] = "init" /\ pc[cpus[k]] = "parked" /\ cpus[k] \in CPU
    BY <1>0, <1>3 DEF WakeAp, Next_cpu, BootInv, Loop, BootTypeOK
  <2>2. pc' = [pc EXCEPT ![BSP] = "spin", ![cpus[k]] = "woken"]
    BY <1>3 DEF WakeAp
  <2>3. \A c \in CPU : pc'[c] = pc[c] \/ (pc[c] \notin Busy /\ pc'[c] \notin Busy)
    BY <1>0, <2>1, <2>2 DEF BootTypeOK, Busy
  <2>4. UNCHANGED <<stage, count, slots, k>> /\ previous_count' = count
    BY <1>3 DEF WakeAp
  <2>5. SameBusy
    BY <1>0, <2>3, <2>4 DEF BootTypeOK, SameBusy
  <2>6. BootTypeOK'
    BY <1>0, <2>2, <2>4 DEF BootTypeOK, Where
  <2> QED
    BY <1>3, <2>5, <2>6, WakeApStep
<1>4. CASE ApCounted
  <2>1. k \in 1 .. Len(cpus)
    BY <1>4 DEF ApCounted, Goto, BootInv, Waking
  <2> QED
    BY <1>0, <1>4, <2>1, ApCountedStep DEF ApCounted, Goto, BootTypeOK, SameBusy, Busy, Where
<1>5. CASE StageSet
  <2>1. pc[BSP] = "init" /\ (pc' = pc \/ pc' = [pc EXCEPT ![BSP] = "switching"])
    BY <1>5 DEF StageSet, Goto
  <2>2. stage' \in {"SMP", "TIME", "PRE_SCHED", "SCHED"} /\ UNCHANGED <<count, slots, k, previous_count>>
    BY <1>5 DEF StageSet
  <2> QED
    BY <1>0, <1>5, <2>1, <2>2, StageSetStep DEF BootTypeOK, SameBusy, Busy, Where
<1>6. ASSUME NEW c \in CPU, FillSlot(c)
      PROVE  BootInv' /\ BootTypeOK' /\ SameBusy
  <2>1. pc[c] = "woken" /\ pc' = [pc EXCEPT ![c] = "filled"] /\ slots' = [slots EXCEPT ![count + 1] = c]
    BY <1>6 DEF FillSlot, Goto
  <2>2. UNCHANGED <<stage, count, k, previous_count>>
    BY <1>6 DEF FillSlot
  <2>3. SameBusy
    BY <1>0, <2>1, <2>2 DEF BootTypeOK, SameBusy, Busy
  <2>4. BootTypeOK'
    BY <1>0, <2>1, <2>2 DEF BootTypeOK, Where
  <2> QED
    BY <1>6, <2>3, <2>4, FillSlotStep
<1>7. ASSUME NEW c \in CPU, Count(c)
      PROVE  BootInv' /\ BootTypeOK' /\ SameBusy
  <2>1. pc[c] = "filled" /\ pc' = [pc EXCEPT ![c] = "ready"] /\ count' = count + 1
    BY <1>7 DEF Count, Goto
  <2>2. UNCHANGED <<stage, slots, k, previous_count>>
    BY <1>7 DEF Count
  <2>3. BootInv' /\ count' \in 0 .. Len(cpus)
    BY <1>7, CountStep
  <2>4. SameBusy
    BY <1>0, <2>1, <2>2 DEF BootTypeOK, SameBusy, Busy
  <2>5. BootTypeOK'
    BY <1>0, <2>1, <2>2, <2>3 DEF BootTypeOK, Where
  <2> QED
    BY <2>3, <2>4, <2>5
<1>8. ASSUME NEW c \in CPU, Released(c)
      PROVE  BootInv' /\ BootTypeOK' /\ SameBusy
  <2>1. BootInv'
    BY <1>8, UpStep DEF Released, Goto, Up, Booting, Where
  <2> QED
    BY <1>0, <1>8, <2>1 DEF Released, Goto, bootVars, BootTypeOK, SameBusy, Busy, Where
<1>9. ASSUME NEW c \in CPU, FirstSwitch(c)
      PROVE  BootInv' /\ BootTypeOK' /\ SameBusy
  <2>1. BootInv'
    BY <1>9, UpStep DEF FirstSwitch, Goto, Up, Booting, Where
  <2> QED
    BY <1>0, <1>9, <2>1 DEF FirstSwitch, Goto, bootVars, BootTypeOK, SameBusy, Busy, Where
<1> QED
  BY <1>1, <1>2, <1>3, <1>4, <1>5, <1>6, <1>7, <1>8, <1>9 DEF BootNext, BootStep

(* Booting goes on beside processors that run already.                     *)
LEMMA StartStep == ASSUME IInv, Start PROVE IInv'
<1>1. BootInv' /\ BootTypeOK' /\ SameBusy /\ UNCHANGED <<callVars, tlbVars, loopVars>>
  BY BootNextStep DEF IInv, Start
<1>2. TypeOK'
  BY <1>1 DEF IInv, TypeOK, BootTypeOK, callVars, tlbVars, loopVars
<1>3. RightsGranted' /\ \A a \in AS : Granted(a)' = Granted(a)
  BY <1>1 DEF IInv, RightsGranted, Granted, callVars
<1>4. Held'
  BY <1>1 DEF IInv, ShootInv, Held, Shooting, SameBusy, Busy, TypeOK, callVars, loopVars
<1>5. Remembered'
  <2>1. ASSUME NEW c \in CPU, InSlot(c) PROVE InSlot(c)'
    <3>1. count \in Nat /\ count' \in Nat /\ count <= count'
      BY <1>1, CpusFacts DEF IInv, TypeOK, SameBusy
    <3>2. PICK n \in 1 .. count : slots[n] = c
      BY <2>1 DEF InSlot
    <3>3. n \in 1 .. count' /\ slots'[n] = c
      BY <1>1, <3>1, <3>2 DEF SameBusy
    <3> QED
      BY <3>3 DEF InSlot
  <2> QED
    BY <1>1, <2>1 DEF IInv, ShootInv, Remembered, tlbVars
<1>6. ASSUME NEW d \in CPU, NEW c \in CPU, NEW a \in AS, WillReach(d, c, a)
      PROVE  WillReach(d, c, a)'
  <2>1. i[d] \in Nat /\ count \in Nat /\ count' \in Nat /\ count <= count' /\ UNCHANGED <<i, op, check>>
    BY <1>1 DEF IInv, TypeOK, SameBusy, callVars, loopVars
  <2>2. pc[d] \in Busy => pc'[d] = pc[d]
    BY <1>1 DEF SameBusy
  <2>3. pc[c] # "answer" => pc'[c] # "answer"
    BY <1>1 DEF SameBusy, Busy
  <2>4. \A n \in i[d] .. count : slots'[n] = slots[n] /\ n \in i[d] .. count'
    BY <1>1, <2>1 DEF IInv, TypeOK, SameBusy
  <2>5. \A n \in i[d] + 1 .. count : slots'[n] = slots[n] /\ n \in i[d] + 1 .. count'
    BY <1>1, <2>1 DEF IInv, TypeOK, SameBusy
  <2>6. pc[d] = "wait" => slots'[i[d]] = slots[i[d]]
    BY <1>1, <2>1 DEF IInv, ShootInv, Held, Shooting, TypeOK, SameBusy
  <2> QED
    BY <1>6, <2>1, <2>2, <2>3, <2>4, <2>5, <2>6 DEF WillReach, Busy
<1>7. StaleWillBeReached'
  BY <1>1, <1>3, <1>6 DEF IInv, ShootInv, StaleWillBeReached, Stale, tlbVars
<1> QED
  BY <1>1, <1>2, <1>3, <1>4, <1>5, <1>7 DEF IInv, ShootInv

-----------------------------------------------------------------------------
(* What a processor does once it is up.                                    *)

(* Few of the variables are written by a step; the parts of the invariant  *)
(* that are about the others carry over.                                   *)
LEMMA UpFrame ==
  ASSUME IInv, UNCHANGED bootVars, NEW c \in CPU, pc[c] \in Up, NEW x \in Up,
         pc' = [pc EXCEPT ![c] = x]
  PROVE  BootInv' /\ BootTypeOK'
<1>1. BootInv'
  BY UpStep DEF IInv
<1>2. BootTypeOK'
  BY DEF IInv, TypeOK, BootTypeOK, bootVars, Up, Where
<1> QED
  BY <1>1, <1>2

(* An access or a change of space moves nothing but what c remembers.      *)
LEMMA AccessStep ==
  ASSUME IInv, NEW c \in CPU, NEW a \in AS, Access(c, a)
  PROVE  IInv'
<1> USE DEF Access
<1>1. Granted(a) \in SUBSET UNION Rights /\ UNCHANGED <<dir, leaf>>
  BY DEF IInv, TypeOK, Granted, callVars
<1>2. TypeOK'
  BY <1>1 DEF IInv, TypeOK, bootVars, callVars, loopVars
<1>3. BootInv'
  BY BootSame DEF IInv
<1>4. RightsGranted' /\ \A b \in AS : Granted(b)' = Granted(b)
  BY <1>1 DEF IInv, RightsGranted, Granted
<1>5. Held'
  BY DEF IInv, ShootInv, Held, Shooting, bootVars, callVars, loopVars
<1>6. InSlot(c)
  <2>1. pc[c] = "run" /\ c \in CPU
    OBVIOUS
  <2>2. c # BSP => InSlot(c)
    BY <2>1 DEF IInv, BootInv, Slots, Up, Booting, Where
  <2>3. c = BSP => InSlot(c)
    <3>1. c = BSP => k = Len(cpus) + 1
      BY <2>1 DEF IInv, BootInv, Roles
    <3>2. \E n \in 1 .. Len(cpus) : cpus[n] = BSP
      BY CpusFacts
    <3> QED
      BY <3>1, <3>2, CpusFacts DEF IInv, BootInv, Slots
  <2> QED
    BY <2>2, <2>3
<1>7. Remembered'
  BY <1>6 DEF IInv, TypeOK, ShootInv, Remembered, InSlot, bootVars
<1>8. StaleWillBeReached'
  <2>1. \A d \in CPU, b \in AS : Stale(d, b)' => Stale(d, b)
    BY <1>4 DEF IInv, TypeOK, Stale
  <2>2. \A e \in CPU, d \in CPU, b \in AS : WillReach(e, d, b)' <=> WillReach(e, d, b)
    BY DEF WillReach, bootVars, callVars, loopVars
  <2> QED
    BY <2>1, <2>2 DEF IInv, ShootInv, StaleWillBeReached
<1> QED
  BY <1>2, <1>3, <1>4, <1>5, <1>7, <1>8 DEF IInv, ShootInv

(* A change of space forgets everything.                                   *)
LEMMA LoadStep ==
  ASSUME IInv, NEW c \in CPU, NEW a \in AS, arch_vmm_load_address_space(c, a)
  PROVE  IInv'
<1> USE DEF arch_vmm_load_address_space, Flush
<1>2. TypeOK'
  BY DEF IInv, TypeOK, bootVars, callVars, loopVars
<1>3. BootInv'
  BY BootSame DEF IInv
<1>4. RightsGranted' /\ \A b \in AS : Granted(b)' = Granted(b)
  BY DEF IInv, RightsGranted, Granted, callVars
<1>5. Held'
  BY DEF IInv, ShootInv, Held, Shooting, bootVars, callVars, loopVars
<1>7. Remembered'
  BY DEF IInv, TypeOK, ShootInv, Remembered, InSlot, bootVars
<1>8. StaleWillBeReached'
  <2>1. \A d \in CPU, b \in AS : Stale(d, b)' => Stale(d, b) /\ d # c
    BY <1>4 DEF IInv, TypeOK, Stale
  <2>2. \A e \in CPU, d \in CPU, b \in AS : WillReach(e, d, b)' <=> WillReach(e, d, b)
    BY DEF WillReach, bootVars, callVars, loopVars
  <2> QED
    BY <2>1, <2>2 DEF IInv, ShootInv, StaleWillBeReached
<1> QED
  BY <1>2, <1>3, <1>4, <1>5, <1>7, <1>8 DEF IInv, ShootInv

(* A system call or a page fault begins with interrupts off.               *)
LEMMA CallStep ==
  ASSUME IInv, NEW c \in CPU, NEW o \in Calls, Call(c, o)
  PROVE  IInv'
<1> USE DEF Call, Goto
<1>1. BootInv' /\ BootTypeOK'
  BY UpFrame DEF Up, Booting, Where
<1>2. TypeOK'
  BY <1>1, SpaceAssumption DEF IInv, TypeOK, BootTypeOK, tlbVars, loopVars
<1>3. RightsGranted' /\ \A b \in AS : Granted(b)' = Granted(b)
  BY DEF IInv, RightsGranted, Granted
<1>4. \A d \in CPU : pc'[d] \in Busy => pc'[d] = pc[d] /\ op'[d] = op[d]
  BY DEF Busy, IInv, TypeOK
<1>5. Held'
  BY <1>4 DEF IInv, ShootInv, Held, Shooting, Busy, bootVars, loopVars
<1>6. Remembered'
  BY DEF IInv, ShootInv, Remembered, InSlot, bootVars, tlbVars
<1>7. StaleWillBeReached'
  <2>1. \A d \in CPU, b \in AS : Stale(d, b)' => Stale(d, b)
    BY <1>3 DEF Stale, tlbVars
  <2>2. \A e \in CPU : pc[e] \in Busy => pc'[e] = pc[e] /\ op'[e] = op[e]
    BY DEF Busy, IInv, TypeOK
  <2>3. \A e \in CPU, d \in CPU, b \in AS : WillReach(e, d, b) => WillReach(e, d, b)'
    BY <1>4, <2>2 DEF WillReach, Busy, bootVars, loopVars
  <2> QED
    BY <2>1, <2>3 DEF IInv, ShootInv, StaleWillBeReached, tlbVars
<1> QED
  BY <1>1, <1>2, <1>3, <1>5, <1>6, <1>7 DEF IInv, ShootInv

(* The tables of one space change, and a shootdown that will reach every   *)
(* slot begins.                                                            *)
LEMMA ChangeStep ==
  ASSUME IInv, NEW c \in CPU, Change(c)
  PROVE  IInv'
<1> USE DEF Change, Goto
<1>1. BootInv' /\ BootTypeOK'
  BY UpFrame DEF Up, Booting, Where
<1>0. op[c] \in Calls \cup {NoOp} /\ op[c].as \in AS
  BY DEF IInv, TypeOK, Calls, NoOp, AS
<1>2. PICK a \in AS : a = op[c].as
  BY <1>0
<1>3. /\ dir' \in [AS -> (SUBSET UNION Rights) \cup {None}]
      /\ leaf' \in [AS -> Rights \cup {None}] /\ cr3_lock' \in [AS -> BOOLEAN]
      /\ RightsGranted'
      /\ \A b \in AS \ {a} : Granted(b)' = Granted(b)
  <2>1. CASE arch_vmm_ptm_map(c, a)
    <3>1. op[c].rights \in Rights
      BY <1>0, <2>1 DEF arch_vmm_ptm_map, Calls, NoOp
    <3>2. op[c].rights \in SUBSET UNION Rights /\ op[c].rights # None
      BY <3>1, SpaceAssumption
    <3>3. dir[a] \in (SUBSET UNION Rights) \cup {None}
      BY <1>2 DEF IInv, TypeOK
    <3>4. /\ Widened(dir[a], op[c].rights) \in SUBSET UNION Rights
          /\ op[c].rights \subseteq Widened(dir[a], op[c].rights)
      BY <3>2, <3>3 DEF Widened
    <3>5. Widened(dir[a], op[c].rights) # None
      BY <3>4, SpaceAssumption
    <3>6. /\ dir' = [dir EXCEPT ![a] = Widened(dir[a], op[c].rights)]
          /\ leaf' = [leaf EXCEPT ![a] = op[c].rights]
          /\ cr3_lock' = [cr3_lock EXCEPT ![a] = TRUE]
      BY <2>1 DEF arch_vmm_ptm_map
    <3>7. /\ dir' \in [AS -> (SUBSET UNION Rights) \cup {None}]
          /\ leaf' \in [AS -> Rights \cup {None}] /\ cr3_lock' \in [AS -> BOOLEAN]
      BY <1>2, <3>1, <3>4, <3>6 DEF IInv, TypeOK
    <3>8. \A b \in AS \ {a} : Granted(b)' = Granted(b) /\ dir'[b] = dir[b] /\ leaf'[b] = leaf[b]
      BY <1>2, <3>6 DEF IInv, TypeOK, Granted
    <3>9. Granted(a)' = leaf'[a]
      <4>1. dir'[a] = Widened(dir[a], op[c].rights) /\ leaf'[a] = op[c].rights
        BY <1>2, <3>6 DEF IInv, TypeOK
      <4>2. Widened(dir[a], op[c].rights) \cap op[c].rights = op[c].rights
        BY <3>4
      <4> QED
        BY ONLY <3>2, <3>5, <4>1, <4>2 DEF Granted
    <3>10. RightsGranted'
      <4> SUFFICES ASSUME NEW b \in AS, leaf'[b] # None PROVE Granted(b)' = leaf'[b]
        BY DEF RightsGranted
      <4>1. CASE b = a
        BY <3>9, <4>1
      <4>2. CASE b # a
        BY <3>8, <4>2 DEF IInv, RightsGranted
      <4> QED
        BY <4>1, <4>2
    <3> QED
      BY <3>7, <3>8, <3>10
  <2>2. CASE arch_vmm_ptm_unmap(c, a)
    BY <1>2, <2>2 DEF arch_vmm_ptm_unmap, IInv, TypeOK, RightsGranted, Granted
  <2> QED
    BY <1>2, <2>1, <2>2
<1>4. TypeOK'
  BY <1>1, <1>3, CpusFacts DEF IInv, TypeOK, BootTypeOK, tlbVars
<1>5. /\ UNCHANGED <<op, tlb, cr3, missed, target, check, lock, bootVars>>
      /\ \A d \in CPU \ {c} : pc'[d] = pc[d] /\ i'[d] = i[d]
      /\ pc[c] = "lock" /\ pc'[c] = "shoot" /\ i'[c] = 1
  BY DEF IInv, TypeOK, tlbVars
<1>6. Held'
  BY <1>5 DEF IInv, ShootInv, Held, Shooting, bootVars
<1>7. Remembered'
  BY <1>5 DEF IInv, ShootInv, Remembered, InSlot, bootVars
<1>8. StaleWillBeReached'
  <2> SUFFICES ASSUME NEW d \in CPU, NEW b \in AS, Stale(d, b)'
               PROVE  d \in missed \/ \E e \in CPU : WillReach(e, d, b)'
    BY <1>5 DEF StaleWillBeReached
  <2>1. CASE b = a
    <3>1. \E n \in 1 .. count : slots[n] = d
      BY <1>5 DEF Stale, IInv, ShootInv, Remembered, InSlot
    <3>2. WillReach(c, d, b)'
      BY <1>2, <1>5, <2>1, <3>1 DEF WillReach, bootVars
    <3> QED
      BY <3>2
  <2>2. CASE b # a
    <3>1. Stale(d, b)
      BY <1>3, <1>5, <2>2 DEF Stale
    <3>2. \A e \in CPU : WillReach(e, d, b) => WillReach(e, d, b)'
      BY <1>5 DEF WillReach, bootVars
    <3> QED
      BY <3>1, <3>2 DEF IInv, ShootInv, StaleWillBeReached
  <2> QED
    BY <2>1, <2>2
<1> QED
  BY <1>1, <1>3, <1>4, <1>6, <1>7, <1>8 DEF IInv, ShootInv

(* A loop that has passed every slot reaches none any more.                *)
LEMMA ReturnStep ==
  ASSUME IInv, NEW c \in CPU, Return(c)
  PROVE  IInv'
<1> USE DEF Return, Goto
<1>1. BootInv' /\ BootTypeOK'
  BY UpFrame DEF Up, Booting, Where
<1>2. TypeOK'
  BY <1>1 DEF IInv, TypeOK, BootTypeOK, tlbVars, loopVars
<1>3. RightsGranted' /\ \A b \in AS : Granted(b)' = Granted(b)
  BY DEF IInv, RightsGranted, Granted
<1>4. /\ UNCHANGED <<i, tlb, cr3, missed, target, check, lock, bootVars>>
      /\ \A d \in CPU \ {c} : pc'[d] = pc[d] /\ op'[d] = op[d]
      /\ pc[c] = "shoot" /\ pc'[c] = "run"
      /\ i[c] \in Nat /\ count \in Nat /\ i[c] > count
  BY CpusFacts DEF IInv, TypeOK, tlbVars, loopVars
<1>5. Held'
  BY <1>4 DEF IInv, ShootInv, Held, Shooting, bootVars
<1>6. Remembered'
  BY <1>4 DEF IInv, ShootInv, Remembered, InSlot, bootVars
<1>7. StaleWillBeReached'
  <2>1. \A e \in CPU, d \in CPU, b \in AS : WillReach(e, d, b) => WillReach(e, d, b)'
    BY <1>4 DEF WillReach, bootVars
  <2> QED
    BY <1>3, <1>4, <2>1 DEF IInv, ShootInv, StaleWillBeReached, Stale
<1> QED
  BY <1>1, <1>2, <1>3, <1>5, <1>6, <1>7 DEF IInv, ShootInv

-----------------------------------------------------------------------------
(* tlb_shootdown and its handler: the tables stay as they are.             *)

LEMMA SameTables ==
  ASSUME IInv, UNCHANGED <<dir, leaf>>
  PROVE  RightsGranted' /\ \A a \in AS : Granted(a)' = Granted(a)
  BY DEF IInv, RightsGranted, Granted

(* The types that make the steps below go through.                         *)
LEMMA LoopFacts ==
  ASSUME IInv
  PROVE  /\ count \in Nat /\ count <= Len(cpus) /\ Len(cpus) \in Nat
         /\ slots \in [1 .. Len(cpus) -> CPU \cup {None}]
         /\ \A d \in CPU : i[d] \in Nat \ {0}
         /\ \A m, n \in 1 .. count : slots[m] = slots[n] => m = n
         /\ pc \in [CPU -> Where] /\ i \in [CPU -> 1 .. Len(cpus) + 1]
  BY CpusFacts DEF IInv, TypeOK, BootInv, Slots

(* What a processor forgets is not stale.                                  *)
LEMMA FlushFacts ==
  ASSUME IInv, NEW c \in CPU, Flush(c), UNCHANGED <<dir, leaf, cr3, bootVars>>
  PROVE  /\ tlb' \in [CPU -> [AS -> (SUBSET UNION Rights) \cup {None}]] /\ missed' \subseteq CPU
         /\ \A d \in CPU, a \in AS : Stale(d, a)' => Stale(d, a) /\ d # c
         /\ \A d \in CPU \ {c} : d \in missed' <=> d \in missed
         /\ Remembered'
<1>1. /\ tlb' \in [CPU -> [AS -> (SUBSET UNION Rights) \cup {None}]] /\ missed' \subseteq CPU
      /\ \A d \in CPU \ {c} : d \in missed' <=> d \in missed
  BY DEF IInv, TypeOK, Flush
<1>2. \A d \in CPU, a \in AS : tlb'[d][a] # None => d # c /\ tlb'[d][a] = tlb[d][a]
  BY DEF IInv, TypeOK, Flush
<1>3. \A a \in AS : Granted(a)' = Granted(a)
  BY SameTables
<1>4. \A d \in CPU, a \in AS : Stale(d, a)' => Stale(d, a) /\ d # c
  BY <1>2, <1>3 DEF Stale
<1>5. Remembered'
  BY <1>2 DEF IInv, ShootInv, Remembered, InSlot, bootVars
<1> QED
  BY <1>1, <1>4, <1>5

(* Stale translations of the space whose tables c changed are its own: the *)
(* space is loaded, or it is the kernel's.                                 *)
LEMMA MineIfStale ==
  ASSUME IInv, NEW c \in CPU, NEW a \in AS, Stale(c, a)
  PROVE  Mine(c, a)
  BY DEF IInv, ShootInv, Remembered, Stale, Mine

(* The initiator forgets first, if what it remembers is of that space.     *)
LEMMA FlushSelfStep ==
  ASSUME IInv, NEW c \in CPU, FlushSelf(c)
  PROVE  IInv'
<1>1. /\ UNCHANGED <<pc, bootVars, callVars, cr3, lock, check, target, ipi>>
      /\ pc[c] = "shoot" /\ i[c] <= count /\ slots[i[c]] = c
      /\ i' = [i EXCEPT ![c] = @ + 1]
      /\ \A d \in CPU : i'[d] = IF d = c THEN i[c] + 1 ELSE i[d]
  BY LoopFacts DEF FlushSelf
<1>2. i' \in [CPU -> 1 .. Len(cpus) + 1]
  BY <1>1, LoopFacts
<1>3. /\ tlb' \in [CPU -> [AS -> (SUBSET UNION Rights) \cup {None}]] /\ missed' \subseteq CPU
      /\ Remembered'
      /\ \A d \in CPU, a \in AS : Stale(d, a)' => Stale(d, a) /\ (d = c => a # op[c].as)
      /\ \A d \in CPU, a \in AS : Stale(d, a)' /\ d \in missed => d \in missed'
  <2>1. CASE Mine(c, op[c].as)
    BY <1>1, <2>1, FlushFacts DEF FlushSelf, callVars
  <2>2. CASE ~Mine(c, op[c].as)
    <3>1. UNCHANGED <<tlb, missed>>
      BY <2>2 DEF FlushSelf
    <3>2. \A d \in CPU, a \in AS : Stale(d, a)' <=> Stale(d, a)
      BY <1>1, <3>1, SameTables DEF Stale, callVars
    <3>3. Remembered'
      BY <1>1, <3>1 DEF IInv, ShootInv, Remembered, InSlot, bootVars
    <3> QED
      BY <2>2, <3>1, <3>2, <3>3, MineIfStale DEF IInv, TypeOK
  <2> QED
    BY <2>1, <2>2
<1>4. TypeOK'
  BY <1>1, <1>2, <1>3 DEF IInv, TypeOK, bootVars, callVars
<1>5. BootInv' /\ RightsGranted'
  BY <1>1, BootSame, SameTables DEF IInv, callVars
<1>6. Held'
  BY <1>1 DEF IInv, ShootInv, Held, Shooting, bootVars, callVars
<1>7. ASSUME NEW e \in CPU, NEW d \in CPU, NEW a \in AS, WillReach(e, d, a), d = c => a # op[c].as
      PROVE  WillReach(e, d, a)'
  <2>1. CASE e # c
    BY <1>1, <1>7, <2>1 DEF WillReach, bootVars, callVars
  <2>2. CASE e = c
    <3>1. d # c /\ op[c].as = a
      BY <1>7, <2>2 DEF WillReach
    <3>2. PICK n \in i[c] .. count : slots[n] = d
      BY <1>1, <1>7, <2>2 DEF WillReach
    <3>3. n \in i'[c] .. count
      BY <1>1, <3>1, <3>2, LoopFacts
    <3> QED
      BY <1>1, <2>2, <3>1, <3>2, <3>3 DEF WillReach, bootVars, callVars
  <2> QED
    BY <2>1, <2>2
<1>8. StaleWillBeReached'
  BY <1>3, <1>7 DEF IInv, ShootInv, StaleWillBeReached
<1> QED
  BY <1>3, <1>4, <1>5, <1>6, <1>8 DEF IInv, ShootInv

(* The lock of a processor keeps all others from asking it.                *)
LEMMA AcquireStep ==
  ASSUME IInv, NEW c \in CPU, NEW t \in CPU, Acquire(c, t)
  PROVE  IInv'
<1>1. /\ UNCHANGED <<bootVars, callVars, tlbVars, i, target, ipi>>
      /\ pc[c] = "shoot" /\ pc' = [pc EXCEPT ![c] = "send"]
      /\ i[c] <= count /\ slots[i[c]] = t /\ t # c /\ ~lock[t]
      /\ lock' = [lock EXCEPT ![t] = TRUE] /\ check' = [check EXCEPT ![t] = TRUE]
  BY DEF Acquire, Goto
<1>2. BootInv' /\ BootTypeOK'
  BY <1>1, UpFrame DEF Up, Booting, Where
<1>3. RightsGranted' /\ \A a \in AS : Granted(a)' = Granted(a)
  BY <1>1, SameTables DEF callVars
<1>4. TypeOK'
  BY <1>1, <1>2 DEF IInv, TypeOK, BootTypeOK, callVars, tlbVars
<1>5. /\ \A d \in CPU : lock'[d] = (lock[d] \/ d = t) /\ check'[d] = (check[d] \/ d = t)
      /\ \A d \in CPU \ {c} : pc'[d] = pc[d]
      /\ pc'[c] = "send"
  BY <1>1 DEF IInv, TypeOK
<1>6. Held'
  <2>1. \A d \in CPU \ {c} : Shooting(d) => slots[i[d]] # t
    BY <1>1 DEF IInv, ShootInv, Held
  <2>2. \A d \in CPU : Shooting(d) => i[d] <= count /\ lock[slots[i[d]]] /\ slots[i[d]] \in CPU
    BY LoopFacts DEF IInv, BootInv, Slots, ShootInv, Held
  <2>3. UNCHANGED <<slots, count, i, op, target>>
    BY <1>1 DEF bootVars, callVars
  <2>4. \A d \in CPU : Shooting(d)' <=> Shooting(d) \/ d = c
    BY <1>5 DEF Shooting
  <2>5. ASSUME NEW d \in CPU, Shooting(d)'
        PROVE  i[d] <= count /\ lock'[slots[i[d]]]
    <3>1. CASE d = c
      BY <1>1, <1>5, <3>1
    <3>2. CASE Shooting(d)
      BY <1>5, <2>2, <3>2
    <3> QED
      BY <2>4, <2>5, <3>1, <3>2
  <2>6. ASSUME NEW d \in CPU, NEW e \in CPU,
               Shooting(d)', Shooting(e)', slots[i[d]] = slots[i[e]]
        PROVE  d = e
    <3>1. \A x \in {d, e} : x = c \/ Shooting(x)
      BY <2>4, <2>6
    <3>2. CASE Shooting(d) /\ Shooting(e)
      BY <2>6, <3>2 DEF IInv, ShootInv, Held
    <3>3. CASE d = c \/ e = c
      BY <1>1, <2>1, <2>6, <3>1, <3>3
    <3> QED
      BY <3>1, <3>2, <3>3
  <2>7. \A d \in CPU : pc'[d] = "wait" => target[slots[i[d]]] = op[d].as
    BY <1>5 DEF IInv, ShootInv, Held
  <2> QED
    BY <2>3, <2>5, <2>6, <2>7 DEF Held
<1>7. Remembered'
  BY <1>1 DEF IInv, ShootInv, Remembered, InSlot, bootVars, tlbVars
<1>8. \A e \in CPU, d \in CPU, a \in AS : WillReach(e, d, a) => WillReach(e, d, a)'
  BY <1>1, <1>5 DEF WillReach, bootVars, callVars
<1>9. StaleWillBeReached'
  BY <1>1, <1>3, <1>8 DEF IInv, ShootInv, StaleWillBeReached, Stale, tlbVars
<1> QED
  BY <1>2, <1>3, <1>4, <1>6, <1>7, <1>9 DEF IInv, ShootInv

(* A request that is not crossed will be answered; one that is, is missed. *)
LEMMA SendStep ==
  ASSUME IInv, NEW c \in CPU, NEW t \in CPU, Send(c, t)
  PROVE  IInv'
<1>1. /\ UNCHANGED <<bootVars, callVars, cr3, tlb, i, lock, check>>
      /\ pc[c] = "send" /\ pc' = [pc EXCEPT ![c] = "wait"] /\ slots[i[c]] = t
      /\ target' = [target EXCEPT ![t] = op[c].as] /\ ipi' = [ipi EXCEPT ![t] = TRUE]
      /\ missed' = IF Crossed(t) THEN missed \cup {t} ELSE missed
  BY DEF Send, Goto
<1>2. BootInv' /\ BootTypeOK'
  BY <1>1, UpFrame DEF Up, Booting, Where
<1>3. RightsGranted' /\ \A a \in AS : Granted(a)' = Granted(a)
  BY <1>1, SameTables DEF callVars
<1>4. TypeOK'
  <2>1. op[c].as \in AS
    BY DEF IInv, TypeOK, Calls, NoOp, AS
  <2> QED
    BY <1>1, <1>2, <2>1 DEF IInv, TypeOK, BootTypeOK, callVars
<1>5. /\ \A d \in CPU \ {c} : pc'[d] = pc[d]
      /\ pc'[c] = "wait" /\ target'[t] = op[c].as
      /\ \A d \in CPU \ {t} : target'[d] = target[d]
  BY <1>1 DEF IInv, TypeOK
<1>6. Held'
  <2>1. \A d \in CPU \ {c} : Shooting(d) => slots[i[d]] # t
    BY <1>1 DEF IInv, ShootInv, Held, Shooting
  <2>2. \A d \in CPU : Shooting(d) => i[d] <= count /\ lock[slots[i[d]]] /\ slots[i[d]] \in CPU
    BY LoopFacts DEF IInv, BootInv, Slots, ShootInv, Held
  <2>3. UNCHANGED <<slots, count, i, op, lock>>
    BY <1>1 DEF bootVars, callVars
  <2>4. \A d \in CPU : Shooting(d)' <=> Shooting(d)
    BY <1>1, <1>5 DEF Shooting
  <2>5. \A d \in CPU : pc'[d] = "wait" => target'[slots[i[d]]] = op[d].as
    BY <1>1, <1>5, <2>1, <2>2 DEF IInv, ShootInv, Held, Shooting
  <2> QED
    BY <2>3, <2>4, <2>5 DEF IInv, ShootInv, Held
<1>7. Remembered'
  BY <1>1 DEF IInv, ShootInv, Remembered, InSlot, bootVars
<1>8. ASSUME NEW e \in CPU, NEW d \in CPU, NEW a \in AS, WillReach(e, d, a)
      PROVE  d \in missed' \/ WillReach(e, d, a)'
  <2>1. CASE e # c
    BY <1>1, <1>5, <1>8, <2>1 DEF WillReach, bootVars, callVars
  <2>2. CASE e = c
    <3>1. PICK n \in i[c] .. count : slots[n] = d /\ op[c].as = a
      BY <1>1, <1>8, <2>2 DEF WillReach
    <3>2. CASE n = i[c]
      <4>1. d = t /\ op'[c].as = a
        BY <1>1, <3>1, <3>2 DEF callVars
      <4>2. ~Crossed(t) => check'[t] /\ pc'[t] # "answer"
        BY <1>1, <1>5 DEF Crossed
      <4> QED
        BY <1>1, <1>5, <2>2, <4>1, <4>2 DEF WillReach, bootVars
    <3>3. CASE n # i[c]
      <4>1. n \in i'[c] + 1 .. count' /\ slots'[n] = d /\ op'[c].as = a
        BY <1>1, <3>1, <3>3, LoopFacts DEF bootVars, callVars
      <4> QED
        BY <1>5, <2>2, <4>1 DEF WillReach
    <3> QED
      BY <3>2, <3>3
  <2> QED
    BY <2>1, <2>2
<1>9. StaleWillBeReached'
  BY <1>1, <1>3, <1>8 DEF IInv, ShootInv, StaleWillBeReached, Stale
<1> QED
  BY <1>2, <1>3, <1>4, <1>6, <1>7, <1>9 DEF IInv, ShootInv

(* Another interrupt asks for what was asked already.                      *)
LEMMA ResendStep ==
  ASSUME IInv, NEW c \in CPU, NEW t \in CPU, Resend(c, t)
  PROVE  IInv'
<1>1. UNCHANGED <<pc, bootVars, callVars, tlbVars, i, lock, check, target>> /\ ipi' = [ipi EXCEPT ![t] = TRUE]
  BY DEF Resend
<1>2. TypeOK' /\ BootInv'
  BY <1>1, BootSame DEF IInv, TypeOK, bootVars, callVars, tlbVars
<1>3. RightsGranted' /\ \A a \in AS : Granted(a)' = Granted(a)
  BY <1>1, SameTables DEF callVars
<1>4. ShootInv'
  BY <1>1, <1>3 DEF IInv, ShootInv, Held, Shooting, Remembered, InSlot, StaleWillBeReached, Stale,
                    WillReach, bootVars, callVars, tlbVars
<1> QED
  BY <1>2, <1>3, <1>4 DEF IInv

(* The wait ends: answered, or given up and missed.                        *)
LEMMA PassStep ==
  ASSUME IInv, NEW c \in CPU, NEW t \in CPU, Served(c, t) \/ GiveUp(c, t)
  PROVE  IInv'
<1>1. /\ UNCHANGED <<bootVars, callVars, cr3, tlb, target, ipi>>
      /\ pc[c] = "wait" /\ pc' = [pc EXCEPT ![c] = "shoot"] /\ slots[i[c]] = t
      /\ check' = [check EXCEPT ![t] = FALSE] /\ lock' = [lock EXCEPT ![t] = FALSE]
      /\ i' = [i EXCEPT ![c] = @ + 1]
      /\ (~check[t] /\ missed' = missed) \/ missed' = missed \cup {t}
  BY DEF Served, GiveUp, Answered, Pass, Goto
<1>2. BootInv' /\ BootTypeOK'
  BY <1>1, UpFrame DEF Up, Booting, Where
<1>3. RightsGranted' /\ \A a \in AS : Granted(a)' = Granted(a)
  BY <1>1, SameTables DEF callVars
<1>4. i[c] <= count
  BY <1>1 DEF IInv, ShootInv, Held, Shooting
<1>5. TypeOK'
  <2>1. i' \in [CPU -> 1 .. Len(cpus) + 1]
    BY <1>1, <1>4, LoopFacts
  <2> QED
    BY <1>1, <1>2, <2>1 DEF IInv, TypeOK, BootTypeOK, callVars
<1>6. /\ \A d \in CPU \ {c} : pc'[d] = pc[d] /\ i'[d] = i[d]
      /\ pc'[c] = "shoot" /\ i'[c] = i[c] + 1
      /\ \A d \in CPU \ {t} : check'[d] = check[d] /\ lock'[d] = lock[d]
  BY <1>1 DEF IInv, TypeOK
<1>7. \A d \in CPU \ {c} : Shooting(d) => slots[i[d]] # t
  BY <1>1 DEF IInv, ShootInv, Held, Shooting
<1>8. Held'
  <2>2. \A d \in CPU : Shooting(d) => i[d] <= count /\ lock[slots[i[d]]] /\ slots[i[d]] \in CPU
    BY LoopFacts DEF IInv, BootInv, Slots, ShootInv, Held
  <2>3. UNCHANGED <<slots, count, op, target>>
    BY <1>1 DEF bootVars, callVars
  <2>4. \A d \in CPU : Shooting(d)' => Shooting(d) /\ d # c /\ i'[d] = i[d] /\ pc'[d] = pc[d]
    BY <1>6 DEF Shooting
  <2>5. \A d \in CPU : Shooting(d)' => i'[d] <= count /\ lock'[slots[i'[d]]]
    BY <1>6, <1>7, <2>2, <2>4
  <2>6. \A d, e \in CPU : Shooting(d)' /\ Shooting(e)' /\ slots[i'[d]] = slots[i'[e]] => d = e
    BY <2>4 DEF IInv, ShootInv, Held
  <2>7. \A d \in CPU : pc'[d] = "wait" => target[slots[i'[d]]] = op[d].as
    BY <1>6 DEF IInv, ShootInv, Held
  <2> QED
    BY <2>3, <2>5, <2>6, <2>7 DEF Held
<1>9. Remembered'
  BY <1>1 DEF IInv, ShootInv, Remembered, InSlot, bootVars
<1>10. ASSUME NEW e \in CPU, NEW d \in CPU, NEW a \in AS, WillReach(e, d, a)
       PROVE  d \in missed' \/ WillReach(e, d, a)'
  <2>1. CASE e # c
    <3>1. pc[e] = "wait" => slots[i[e]] # t
      BY <1>7, <2>1 DEF Shooting
    <3>2. pc'[e] = pc[e] /\ i'[e] = i[e] /\ UNCHANGED <<op, slots, count>>
      BY <1>1, <1>6, <2>1 DEF bootVars, callVars
    <3>3. pc[e] = "wait" /\ slots[i[e]] = d => check'[d] = check[d]
      BY <1>6, <3>1
    <3>4. pc[d] # "answer" => pc'[d] # "answer"
      BY <1>6
    <3> QED
      BY <1>10, <3>2, <3>3, <3>4 DEF WillReach
  <2>2. CASE e = c
    <3>1. op[c].as = a /\ ((\E n \in i[c] + 1 .. count : slots[n] = d) \/ (d = t /\ check[d]))
      BY <1>1, <1>10, <2>2 DEF WillReach
    <3>2. CASE d = t /\ check[d]
      BY <1>1, <3>2
    <3>3. CASE \E n \in i[c] + 1 .. count : slots[n] = d
      BY <1>1, <1>6, <2>2, <3>1, <3>3 DEF WillReach, bootVars, callVars
    <3> QED
      BY <3>1, <3>2, <3>3
  <2> QED
    BY <2>1, <2>2
<1>11. StaleWillBeReached'
  BY <1>1, <1>3, <1>10 DEF IInv, ShootInv, StaleWillBeReached, Stale
<1> QED
  BY <1>2, <1>3, <1>5, <1>8, <1>9, <1>11 DEF IInv, ShootInv

(* A handler that only moves on: the steps below differ in what else they  *)
(* change.                                                                 *)
LEMMA HandlerFrame ==
  ASSUME IInv, UNCHANGED <<bootVars, callVars, cr3, i, lock, target>>,
         NEW c \in CPU, NEW x \in {"run", "flush", "answer", "lost"},
         pc[c] \in {"ready", "switching", "run", "flush", "answer"}, pc' = [pc EXCEPT ![c] = x]
  PROVE  /\ BootInv' /\ BootTypeOK' /\ RightsGranted' /\ Held'
         /\ \A a \in AS : Granted(a)' = Granted(a)
         /\ \A d \in CPU \ {c} : pc'[d] = pc[d]
         /\ pc'[c] = x
<1>1. BootInv' /\ BootTypeOK'
  BY UpFrame DEF Up, Booting, Where
<1>2. RightsGranted' /\ \A a \in AS : Granted(a)' = Granted(a)
  BY SameTables DEF callVars
<1>3. pc'[c] = x /\ \A d \in CPU \ {c} : pc'[d] = pc[d]
  BY DEF IInv, TypeOK
<1>4. Held'
  BY <1>3 DEF IInv, ShootInv, Held, Shooting, bootVars, callVars
<1> QED
  BY <1>1, <1>2, <1>3, <1>4

(* The interrupt is taken.                                                 *)
LEMMA HandlerEnterStep ==
  ASSUME IInv, NEW c \in CPU, HandlerEnter(c)
  PROVE  IInv'
<1>1. /\ UNCHANGED <<bootVars, callVars, tlbVars, i, lock, check, target>>
      /\ ipi' = [ipi EXCEPT ![c] = FALSE]
  BY DEF HandlerEnter
<1>2. PICK x \in {"run", "flush", "lost"} :
        pc' = [pc EXCEPT ![c] = x] /\ pc[c] \in {"ready", "switching", "run"}
  <2>1. CASE pc[c] \in {"ready", "switching"} /\ pc' = [pc EXCEPT ![c] = "lost"]
    BY <2>1
  <2>2. CASE Goto(c, "run", "flush")
    BY <2>2 DEF Goto
  <2>3. CASE pc[c] = "run" /\ pc' = pc
    <3>1. pc' = [pc EXCEPT ![c] = "run"]
      BY <2>3 DEF IInv, TypeOK
    <3> QED
      BY <2>3, <3>1
  <2> QED
    BY <2>1, <2>2, <2>3 DEF HandlerEnter
<1>3. /\ BootInv' /\ BootTypeOK' /\ RightsGranted' /\ Held'
      /\ \A a \in AS : Granted(a)' = Granted(a)
      /\ pc'[c] = x /\ \A d \in CPU \ {c} : pc'[d] = pc[d]
  BY <1>1, <1>2, HandlerFrame DEF tlbVars
<1>4. TypeOK'
  BY <1>1, <1>3 DEF IInv, TypeOK, BootTypeOK, callVars, tlbVars
<1>5. Remembered'
  BY <1>1 DEF IInv, ShootInv, Remembered, InSlot, bootVars, tlbVars
<1>6. \A e \in CPU, d \in CPU, a \in AS : WillReach(e, d, a) => WillReach(e, d, a)'
  BY <1>1, <1>2, <1>3 DEF WillReach, bootVars, callVars
<1>7. StaleWillBeReached'
  BY <1>1, <1>3, <1>6 DEF IInv, ShootInv, StaleWillBeReached, Stale, tlbVars
<1> QED
  BY <1>3, <1>4, <1>5, <1>7 DEF IInv, ShootInv

(* The handler forgets what the processor that holds the lock asked about. *)
LEMMA HandlerFlushStep ==
  ASSUME IInv, NEW c \in CPU, HandlerFlush(c)
  PROVE  IInv'
<1>1. /\ UNCHANGED <<bootVars, callVars, loopVars, cr3>>
      /\ pc[c] = "flush" /\ pc' = [pc EXCEPT ![c] = "answer"]
  BY DEF HandlerFlush, Goto
<1>2. /\ BootInv' /\ BootTypeOK' /\ RightsGranted' /\ Held'
      /\ \A a \in AS : Granted(a)' = Granted(a)
      /\ pc'[c] = "answer" /\ \A d \in CPU \ {c} : pc'[d] = pc[d]
  BY <1>1, HandlerFrame DEF loopVars
<1>3. /\ tlb' \in [CPU -> [AS -> (SUBSET UNION Rights) \cup {None}]] /\ missed' \subseteq CPU
      /\ Remembered'
      /\ \A d \in CPU, a \in AS : Stale(d, a)' => Stale(d, a) /\ (d = c => a # target[c])
      /\ \A d \in CPU, a \in AS : Stale(d, a)' /\ d \in missed => d \in missed'
  <2>1. CASE Mine(c, target[c])
    BY <1>1, <2>1, FlushFacts DEF HandlerFlush, callVars
  <2>2. CASE ~Mine(c, target[c])
    <3>1. UNCHANGED <<tlb, missed>>
      BY <2>2 DEF HandlerFlush
    <3>2. \A d \in CPU, a \in AS : Stale(d, a)' <=> Stale(d, a)
      BY <1>2, <3>1 DEF Stale
    <3>3. Remembered'
      BY <1>1, <3>1 DEF IInv, ShootInv, Remembered, InSlot, bootVars
    <3> QED
      BY <2>2, <3>1, <3>2, <3>3, MineIfStale DEF IInv, TypeOK
  <2> QED
    BY <2>1, <2>2
<1>4. TypeOK'
  BY <1>1, <1>2, <1>3 DEF IInv, TypeOK, BootTypeOK, callVars, loopVars
<1>5. ASSUME NEW e \in CPU, NEW d \in CPU, NEW a \in AS, WillReach(e, d, a), d = c => a # target[c]
      PROVE  WillReach(e, d, a)'
  <2>1. e # c
    BY <1>1, <1>5 DEF WillReach
  <2>2. pc[e] = "wait" /\ slots[i[e]] = d => target[d] = a
    BY <1>5 DEF IInv, ShootInv, Held, WillReach
  <2>3. pc'[e] = pc[e] /\ UNCHANGED <<op, i, slots, count, check>>
    BY <1>1, <1>2, <2>1 DEF bootVars, callVars, loopVars
  <2>4. CASE d # c
    BY <1>2, <1>5, <2>3, <2>4 DEF WillReach
  <2>5. CASE d = c
    BY <1>5, <2>2, <2>3, <2>5 DEF WillReach
  <2> QED
    BY <2>4, <2>5
<1>6. StaleWillBeReached'
  BY <1>3, <1>5 DEF IInv, ShootInv, StaleWillBeReached
<1> QED
  BY <1>2, <1>3, <1>4, <1>6 DEF IInv, ShootInv

(* A handler that answers has forgotten before.                            *)
LEMMA HandlerAnswerStep ==
  ASSUME IInv, NEW c \in CPU, HandlerAnswer(c)
  PROVE  IInv'
<1>1. /\ UNCHANGED <<bootVars, callVars, tlbVars, i, lock, target, ipi>>
      /\ pc[c] = "answer" /\ pc' = [pc EXCEPT ![c] = "run"]
      /\ check' = [check EXCEPT ![c] = FALSE]
  BY DEF HandlerAnswer, Goto
<1>2. /\ BootInv' /\ BootTypeOK' /\ RightsGranted' /\ Held'
      /\ \A a \in AS : Granted(a)' = Granted(a)
      /\ pc'[c] = "run" /\ \A d \in CPU \ {c} : pc'[d] = pc[d]
  BY <1>1, HandlerFrame DEF tlbVars
<1>3. TypeOK'
  BY <1>1, <1>2 DEF IInv, TypeOK, BootTypeOK, callVars, tlbVars
<1>4. Remembered'
  BY <1>1 DEF IInv, ShootInv, Remembered, InSlot, bootVars, tlbVars
<1>5. \A d \in CPU \ {c} : check'[d] = check[d]
  BY <1>1 DEF IInv, TypeOK
<1>6. \A e \in CPU, d \in CPU, a \in AS : WillReach(e, d, a) => WillReach(e, d, a)'
  BY <1>1, <1>2, <1>5 DEF WillReach, bootVars, callVars
<1>7. StaleWillBeReached'
  BY <1>1, <1>2, <1>6 DEF IInv, ShootInv, StaleWillBeReached, Stale, tlbVars
<1> QED
  BY <1>2, <1>3, <1>4, <1>7 DEF IInv, ShootInv

-----------------------------------------------------------------------------
(* Every step keeps the strengthened invariant.                            *)
LEMMA Inductive == IInv /\ [Next]_vars => IInv'
<1> SUFFICES ASSUME IInv, [Next]_vars PROVE IInv'
  OBVIOUS
<1>1. CASE UNCHANGED vars
  <2>1. TypeOK' /\ RightsGranted'
    BY <1>1 DEF IInv, TypeOK, RightsGranted, Granted, vars, bootVars, callVars, tlbVars, loopVars
  <2>2. BootInv'
    BY <1>1, BootSame DEF IInv, vars
  <2>3. ShootInv'
    BY <1>1 DEF IInv, ShootInv, Held, Shooting, Remembered, InSlot, StaleWillBeReached, Stale, Granted,
                WillReach, vars, bootVars, callVars, tlbVars, loopVars
  <2> QED
    BY <2>1, <2>2, <2>3 DEF IInv
<1>2. CASE Start
  BY <1>2, StartStep
<1>3. ASSUME NEW c \in CPU, Progress(c)
      PROVE  IInv'
  BY <1>3, ChangeStep, ReturnStep, FlushSelfStep, HandlerFlushStep, HandlerAnswerStep,
     AcquireStep, SendStep, PassStep DEF Progress
<1>4. ASSUME NEW c \in CPU, NEW o \in Calls, Call(c, o)
      PROVE  IInv'
  BY <1>4, CallStep
<1>5. ASSUME NEW c \in CPU, NEW a \in AS, Access(c, a) \/ arch_vmm_load_address_space(c, a)
      PROVE  IInv'
  BY <1>5, AccessStep, LoadStep
<1>6. ASSUME NEW c \in CPU, NEW t \in CPU, Resend(c, t)
      PROVE  IInv'
  BY <1>6, ResendStep
<1>7. ASSUME NEW c \in CPU, HandlerEnter(c)
      PROVE  IInv'
  BY <1>7, HandlerEnterStep
<1> QED
  BY <1>1, <1>2, <1>3, <1>4, <1>5, <1>6, <1>7 DEF Next

(* The invariant that all properties below follow from: who is up, who     *)
(* shoots at whom, and that nothing stale is forgotten (vmm.c:107-149,     *)
(* init.c:107-157).                                                        *)
THEOREM Invariance == Spec => []IInv
<1> QED
  BY InitIInv, Inductive, PTL DEF Spec

(* The tables of every space stay well formed and grant what was asked:    *)
(* arch_vmm_ptm_map widens the directories (vmm.c:195-217).                *)
THEOREM TablesAlwaysSound == Spec => []TablesSound
<1>1. IInv => TablesSound
  BY DEF IInv, TablesSound
<1> QED
  BY <1>1, Invariance, PTL

(* Booting gives every processor that can be started a slot of its own     *)
(* (init.c:142, 456).                                                      *)
THEOREM OneSlotEach == Spec => []SlotPerCpu
<1>1. ASSUME IInv PROVE SlotPerCpu
  <2>1. \A n \in 1 .. count : slots[n] # None
    BY <1>1 DEF IInv, BootInv, Slots
  <2>2. \A m, n \in 1 .. count : slots[m] = slots[n] => m = n
    BY <1>1 DEF IInv, BootInv, Slots
  <2>3. \A c, d \in Starting : c = d
    BY <1>1 DEF IInv, BootInv, Loop
  <2>4. ASSUME stage # "MEMORY" PROVE {slots[n] : n \in 1 .. count} = CPU \ init_failed
    <3>1. k = Len(cpus) + 1 /\ Len(cpus) \in Nat /\ pc[BSP] # "spin"
      BY <1>1, <2>4, CpusFacts DEF IInv, BootInv, Roles
    <3>2. \A c \in CPU : InSlot(c) <=> c \notin init_failed
      <4>1. InSlot(BSP)
        BY <1>1, <3>1, CpusFacts DEF IInv, BootInv, Slots
      <4>2. \A c \in CPU \ {BSP} : c \notin init_failed => pc[c] \in Up
        BY <1>1, <3>1, CpusFacts DEF IInv, BootInv, Loop
      <4>3. \A c \in CPU : c \in init_failed => pc[c] \notin Up
        BY <1>1 DEF IInv, BootInv, Loop, Up, Booting
      <4> QED
        BY <1>1, <4>1, <4>2, <4>3, CpusFacts DEF IInv, BootInv, Slots
    <3>3. \A n \in 1 .. count : slots[n] \in CPU
      BY <1>1, <2>1, LoopFacts
    <3> QED
      BY <3>2, <3>3 DEF InSlot
  <2> QED
    BY <2>1, <2>2, <2>3, <2>4 DEF SlotPerCpu
<1> QED
  BY <1>1, Invariance, PTL

(* No processor translates through an entry that is gone unless a          *)
(* shootdown is on its way to it or went by it (vmm.c:112-149).            *)
THEOREM NothingElseIsStale == Spec => []StaleOnlyAfterMiss
<1>1. ASSUME IInv PROVE StaleOnlyAfterMiss
  <2>1. \A d \in CPU, c \in CPU, a \in AS : WillReach(d, c, a) => Pending(d, c, a)
    <3> SUFFICES ASSUME NEW d \in CPU, NEW c \in CPU, NEW a \in AS, WillReach(d, c, a)
                 PROVE  Pending(d, c, a)
      OBVIOUS
    <3>1. CASE pc[d] \in {"shoot", "send"}
      BY <3>1 DEF WillReach, Pending
    <3>2. CASE pc[d] = "wait"
      <4>1. i[d] \in i[d] .. count /\ \A n \in i[d] + 1 .. count : n \in i[d] .. count
        BY <1>1, <3>2, LoopFacts DEF IInv, ShootInv, Held, Shooting
      <4> QED
        BY <3>2, <4>1 DEF WillReach, Pending
    <3> QED
      BY <3>1, <3>2 DEF WillReach
  <2> QED
    BY <1>1, <2>1 DEF IInv, ShootInv, StaleWillBeReached, Stale, StaleOnlyAfterMiss
<1> QED
  BY <1>1, Invariance, PTL
=============================================================================
