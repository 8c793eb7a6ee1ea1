-------------------------------- MODULE Clock --------------------------------
(***************************************************************************)
(* Interrupts as a processor takes them (arch/x86_64/interrupt.c, lapic.c) *)
(* and the two that keep the system going: the PIT's, which advances the   *)
(* clocks and fires timers on the BSP (sys/time.c), and each LAPIC's,      *)
(* which calls the scheduler.  System calls read the clocks without the    *)
(* lock (syscall_time.c), on any processor.                                *)
(***************************************************************************)
EXTENDS Integers, Sequences

CONSTANTS
  CPU, BSP,
  NANOSECONDS_IN_SECOND, PIT_TIMER_FREQ,
  Timers,         \* timers that kernel code creates, each once
  Lengths,        \* how long they are to run
  TICKS,          \* bound: periods of the PIT
  boot_timestamp, \* the time the boot loader gives
  None

Times == [seconds : Nat, nanoseconds : 0 .. NANOSECONDS_IN_SECOND - 1]
Zero == [seconds |-> 0, nanoseconds |-> 0]

Handlers ==
  {"exception", "tlb_shootdown_handler", "kb_interrupt_handler", "sched_entry", "pit_time_handler"}

(* A tick is shorter than a second, and timers run for some time.          *)
ASSUME ClockAssumption ==
  /\ BSP \in CPU
  /\ NANOSECONDS_IN_SECOND \in Nat /\ PIT_TIMER_FREQ \in Nat \ {0}
  /\ NANOSECONDS_IN_SECOND \div PIT_TIMER_FREQ \in 0 .. NANOSECONDS_IN_SECOND - 1
  /\ TICKS \in Nat
  /\ boot_timestamp \in Times /\ Lengths \subseteq Times \ {Zero}
  /\ None \notin CPU \cup Handlers \cup [deadline : Times, at : Seq(Nat)]

VARIABLES
  irr, isr,       \* each LAPIC's requested and in-service vectors
  pc,             \* what each processor is doing
  elapsed,        \* periods of the PIT gone by
  counted,        \* history: interrupts of the PIT handled
  clock,          \* g_time_monotonic and g_time_realtime
  stores,         \* what time_advance has still to write to them
  g_lock,         \* who holds the lock of the clocks and timers
  g_timers,       \* the list; nothing depends on its order
  fired,          \* history: when each timer was created and called
  rd              \* each processor's system call on a clock

lapicVars == <<irr, isr, elapsed>>
timeVars == <<counted, clock, stores>>
timerVars == <<g_timers, fired>>
vars == <<lapicVars, pc, timeVars, g_lock, timerVars, rd>>

-----------------------------------------------------------------------------
(* Vectors: a class of 16 for every priority.  The exceptions have the     *)
(* first 32, so that the scheduler's request gets a vector of class 2.     *)

Priority == [EXCEPTION |-> 0, SCHED |-> 1, NORMAL |-> 5, HID |-> 12, TIMER |-> 13, IPC |-> 14]
IDT_SIZE == 256

x86_64_interrupt_init == [v \in 0 .. IDT_SIZE - 1 |-> IF v < 32 THEN "exception" ELSE None]

x86_64_interrupt_request(entries, r) ==
  LET free == {v \in DOMAIN entries : v >= 16 * Priority[r.priority] /\ entries[v] = None}
  IN  IF free = {} THEN entries
      ELSE [entries EXCEPT ![CHOOSE v \in free : \A w \in free : v <= w] = r.handler]

Requests == <<
  [priority |-> "IPC", handler |-> "tlb_shootdown_handler"],
  [priority |-> "HID", handler |-> "kb_interrupt_handler"],
  [priority |-> "SCHED", handler |-> "sched_entry"],
  [priority |-> "TIMER", handler |-> "pit_time_handler"]>>

g_entries ==
  LET ipc == x86_64_interrupt_request(x86_64_interrupt_init, Requests[1])
      hid == x86_64_interrupt_request(ipc, Requests[2])
      sched == x86_64_interrupt_request(hid, Requests[3])
  IN  x86_64_interrupt_request(sched, Requests[4])

Vector(handler) == CHOOSE v \in DOMAIN g_entries : g_entries[v] = handler
PIT == Vector("pit_time_handler")
SCHED == Vector("sched_entry")
Vectors == {PIT, SCHED}

Class(v) == v \div 16

-----------------------------------------------------------------------------
(* Time                                                                    *)

Resolution == [seconds |-> 0, nanoseconds |-> NANOSECONDS_IN_SECOND \div PIT_TIMER_FREQ]

time_add_Bug(a, b) ==
  LET n == a.nanoseconds + b.nanoseconds
  IN  [seconds |-> a.seconds + b.seconds + (IF n > NANOSECONDS_IN_SECOND THEN 1 ELSE 0),
       nanoseconds |-> n % NANOSECONDS_IN_SECOND]
time_add(a, b) ==
  LET n == a.nanoseconds + b.nanoseconds
  IN  IF n >= NANOSECONDS_IN_SECOND
      THEN [seconds |-> a.seconds + b.seconds + 1, nanoseconds |-> n - NANOSECONDS_IN_SECOND]
      ELSE [seconds |-> a.seconds + b.seconds, nanoseconds |-> n]

Due_Bug(deadline, now) ==
  deadline.seconds <= now.seconds /\ deadline.nanoseconds <= now.nanoseconds
Due(deadline, now) ==
  /\ deadline.seconds <= now.seconds
  /\ deadline.seconds = now.seconds => deadline.nanoseconds <= now.nanoseconds

Clocks == {"monotonic", "realtime"}
Fields == {"seconds", "nanoseconds"}

NoRead == [clock |-> None, value |-> Zero, left |-> {}, since |-> 0]

Init ==
  /\ irr = [c \in CPU |-> {}] /\ isr = [c \in CPU |-> {}]
  /\ pc = [c \in CPU |-> "user"]
  /\ elapsed = 0 /\ counted = 0
  /\ clock = [n \in Clocks |-> IF n = "realtime" THEN boot_timestamp ELSE Zero]
  /\ stores = {}
  /\ g_lock = None /\ g_timers = {}
  /\ fired = [t \in Timers |-> None]
  /\ rd = [c \in CPU |-> NoRead]

Goto(c, from, to) == pc[c] = from /\ pc' = [pc EXCEPT ![c] = to]

-----------------------------------------------------------------------------
(* The devices.  An edge that finds its vector requested already is lost.  *)

PitPeriod ==
  /\ elapsed < TICKS
  /\ elapsed' = elapsed + 1
  /\ irr' = [irr EXCEPT ![BSP] = @ \cup {PIT}]
  /\ UNCHANGED <<isr, pc, timeVars, g_lock, timerVars, rd>>

LapicTimer(c) ==
  /\ SCHED \notin irr[c]
  /\ irr' = [irr EXCEPT ![c] = @ \cup {SCHED}]
  /\ UNCHANGED <<isr, elapsed, pc, timeVars, g_lock, timerVars, rd>>

(* The highest class requested, if none as high is in service.             *)
Deliverable(c) ==
  {v \in irr[c] : /\ \A w \in irr[c] : Class(w) <= Class(v)
                  /\ \A w \in isr[c] : Class(w) < Class(v)}

(* isr_stub.  Interrupts are on in user mode only: handlers do not nest,   *)
(* and a system call is not interrupted.                                   *)
Deliver(c, v) ==
  /\ v \in Deliverable(c)
  /\ Goto(c, "user", g_entries[v])
  /\ irr' = [irr EXCEPT ![c] = @ \ {v}]
  /\ isr' = [isr EXCEPT ![c] = @ \cup {v}]
  /\ UNCHANGED <<elapsed, timeVars, g_lock, timerVars, rd>>

(* A user's next instruction, taken when no interrupt is.                  *)
Instruction(c, to) == Goto(c, "user", to) /\ Deliverable(c) = {}

(* x86_64_interrupt_handler ends the interrupt before it calls the         *)
(* handler: the scheduler's goes on in another thread.                     *)
lapic_eoi_Bug(s, v) == s
lapic_eoi(s, v) == s \ {v}

sched_entry(c) ==
  /\ Goto(c, "sched_entry", "user")
  /\ isr' = [isr EXCEPT ![c] = lapic_eoi(@, SCHED)]
  /\ UNCHANGED <<irr, elapsed, timeVars, g_lock, timerVars, rd>>

Acquire(c) == g_lock = None /\ g_lock' = c
Release(c) == g_lock = c /\ g_lock' = None

-----------------------------------------------------------------------------
(* time_advance, called by pit_time_handler.  Each clock is stored in two  *)
(* halves, and nothing orders the four stores.                             *)

pit_time_handler(c) ==
  /\ Goto(c, "pit_time_handler", "advance")
  /\ isr' = [isr EXCEPT ![c] = lapic_eoi(@, PIT)]
  /\ Acquire(c)
  /\ stores' = {[clock |-> n, field |-> f, value |-> time_add(clock[n], Resolution)[f]] :
                n \in Clocks, f \in Fields}
  /\ counted' = counted + 1
  /\ UNCHANGED <<irr, elapsed, clock, timerVars, rd>>

Store(c) ==
  /\ pc[c] = "advance"
  /\ \E s \in stores :
       /\ clock' = [clock EXCEPT ![s.clock][s.field] = s.value]
       /\ stores' = stores \ {s}
  /\ UNCHANGED <<lapicVars, pc, counted, g_lock, timerVars, rd>>

(* Every timer that is due leaves the list and is called, lock held.       *)
FireTimers(c) ==
  /\ Goto(c, "advance", "user")
  /\ stores = {}
  /\ LET due == {t \in g_timers : Due(fired[t].deadline, clock["monotonic"])}
     IN  /\ g_timers' = g_timers \ due
         /\ fired' = [t \in Timers |->
              IF t \in due THEN [fired[t] EXCEPT !.at = Append(@, counted)] ELSE fired[t]]
  /\ Release(c)
  /\ UNCHANGED <<lapicVars, timeVars, rd>>

(* timer_create, by kernel code anywhere that has interrupts off.          *)
timer_create(c, t, length) ==
  /\ fired[t] = None
  /\ Acquire(c)
  /\ Instruction(c, "create")
  /\ LET deadline == time_add(clock["monotonic"], length)
     IN  fired' = [fired EXCEPT ![t] = [deadline |-> deadline, at |-> <<>>]]
  /\ g_timers' = g_timers \cup {t}
  /\ UNCHANGED <<lapicVars, timeVars, rd>>

TimerCreated(c) ==
  /\ Goto(c, "create", "user")
  /\ Release(c)
  /\ UNCHANGED <<lapicVars, timeVars, timerVars, rd>>

-----------------------------------------------------------------------------
(* syscall_time_clock                                                      *)

syscall_time_clock(c, n) ==
  /\ Instruction(c, "read")
  /\ rd' = [rd EXCEPT ![c] = [clock |-> n, value |-> Zero, left |-> Fields, since |-> counted]]
  /\ UNCHANGED <<lapicVars, timeVars, g_lock, timerVars>>

(* The copy of the clock: two loads, in either order, without the lock.    *)
Load(c) ==
  /\ pc[c] = "read"
  /\ \E f \in rd[c].left :
       rd' = [rd EXCEPT ![c].value[f] = clock[rd[c].clock][f], ![c].left = @ \ {f}]
  /\ UNCHANGED <<lapicVars, pc, timeVars, g_lock, timerVars>>

ReadReturn(c) ==
  /\ Goto(c, "read", "user") /\ rd[c].left = {}
  /\ rd' = [rd EXCEPT ![c] = NoRead]
  /\ UNCHANGED <<lapicVars, timeVars, g_lock, timerVars>>

-----------------------------------------------------------------------------
(* What a processor does without being asked to.                           *)
Step(c) ==
  \/ sched_entry(c) \/ pit_time_handler(c) \/ Store(c) \/ FireTimers(c)
  \/ TimerCreated(c) \/ Load(c) \/ ReadReturn(c)
  \/ \E v \in Vectors : Deliver(c, v)

Next ==
  \/ PitPeriod
  \/ \E c \in CPU :
       \/ LapicTimer(c) \/ Step(c)
       \/ \E n \in Clocks : syscall_time_clock(c, n)
       \/ \E t \in Timers, l \in Lengths : timer_create(c, t, l)

Spec == Init /\ [][Next]_vars
FairSpec == Spec /\ \A c \in CPU : WF_vars(Step(c))

-----------------------------------------------------------------------------
TypeOK ==
  /\ irr \in [CPU -> SUBSET Vectors] /\ isr \in [CPU -> SUBSET Vectors]
  /\ pc \in [CPU -> {"user", "sched_entry", "pit_time_handler", "advance", "create", "read"}]
  /\ elapsed \in 0 .. TICKS /\ counted \in 0 .. TICKS
  /\ clock \in [Clocks -> Times]
  /\ stores \subseteq [clock : Clocks, field : Fields, value : Nat]
  /\ g_lock \in CPU \cup {None}
  /\ g_timers \subseteq Timers
  /\ fired \in [Timers -> {None} \cup [deadline : Times, at : Seq(Nat)]]
  /\ rd \in [CPU -> [clock : Clocks \cup {None}, value : Times, left : SUBSET Fields, since : Nat]]

InNanoseconds(t) == t.seconds * NANOSECONDS_IN_SECOND + t.nanoseconds
CountedTime(n) == n * Resolution.nanoseconds

(* Between two advances both clocks show the interrupts counted, carries   *)
(* and all, and stay apart by the time of boot (time.c:14-15).             *)
ClocksAgree ==
  stores = {} /\ g_lock = None =>
    \A n \in Clocks :
      InNanoseconds(clock[n]) =
        CountedTime(counted) + IF n = "realtime" THEN InNanoseconds(boot_timestamp) ELSE 0

(* A clock read while it is being advanced may come in halves of two       *)
(* times, yet it is less than a second off what it was some time during    *)
(* the call, and on the BSP it is exact (syscall_time.c:26).               *)
ReadWithinASecond ==
  \A c \in CPU : pc[c] = "read" /\ rd[c].left = {} =>
    LET boot == IF rd[c].clock = "realtime" THEN InNanoseconds(boot_timestamp) ELSE 0
        read == InNanoseconds(rd[c].value) - boot
        off == IF c = BSP THEN 0 ELSE NANOSECONDS_IN_SECOND - 1
    IN  /\ read >= CountedTime(rd[c].since) - off - (IF c = BSP THEN 0 ELSE Resolution.nanoseconds)
        /\ read <= CountedTime(counted) + off

(* A timer is called once, by the first advance that reaches its deadline, *)
(* even from another processor's list (time.c:17-23).                      *)
TimersOnTime ==
  \A t \in Timers : fired[t] # None =>
    LET deadline == InNanoseconds(fired[t].deadline)
    IN  IF fired[t].at = <<>>
        THEN g_lock = None => deadline > CountedTime(counted)
        ELSE /\ Len(fired[t].at) = 1
             /\ CountedTime(fired[t].at[1]) >= deadline
             /\ CountedTime(fired[t].at[1] - 1) < deadline

(* Neither the scheduler's interrupts nor readers nor those who create     *)
(* timers keep a tick from being counted (interrupt.c:80, time.c:12).      *)
TickCounted == PIT \in irr[BSP] ~> pc[BSP] = "advance"

(* The clocks as kept and as read (time.c:11-23, syscall_time.c:16-41).    *)
ClocksSound == TypeOK /\ ClocksAgree /\ ReadWithinASecond
=============================================================================
