----------------------------- MODULE ClockProofs -----------------------------
(***************************************************************************)
(* Clocks and timers for every frequency of the PIT, every length of a     *)
(* second, and any number of processors and timers.  Each clock is between *)
(* two values while time_advance stores it: the invariant says which       *)
(* halves may be read when.                                                *)
(***************************************************************************)
EXTENDS Clock, TLAPS

BootTime(n) == IF n = "realtime" THEN InNanoseconds(boot_timestamp) ELSE 0

(* What clock n shows after m ticks, in nanoseconds.                       *)
After(n, m) == CountedTime(m) + BootTime(n)

(* The processor in the critical section, and on whose behalf.             *)
Locks ==
  /\ \A c \in CPU : pc[c] \in {"advance", "create"} <=> g_lock = c
  /\ \A c \in CPU : pc[c] \in {"pit_time_handler", "advance"} => c = BSP
  /\ \A c \in CPU : PIT \in irr[c] => c = BSP
  /\ stores # {} => pc[BSP] = "advance"
  /\ counted + (IF PIT \in irr[BSP] THEN 1 ELSE 0)
             + (IF pc[BSP] = "pit_time_handler" THEN 1 ELSE 0) <= elapsed

(* A store of one half of a clock that is still to be made.                *)
Waits(n, f) == {s \in stores : s.clock = n /\ s.field = f}

(* v is what clock n will show when all stores have been made.             *)
Becomes(n, v) ==
  /\ InNanoseconds(v) = After(n, counted)
  /\ \A f \in Fields : IF Waits(n, f) = {} THEN clock[n][f] = v[f]
                                           ELSE \A s \in Waits(n, f) : s.value = v[f]

(* The seconds a reader that began at tick m may find.                     *)
SecondsSince(n, m, s) ==
  /\ s * NANOSECONDS_IN_SECOND <= After(n, counted)
  /\ s * NANOSECONDS_IN_SECOND >= After(n, m - 1) - (NANOSECONDS_IN_SECOND - 1)

Halves ==
  \A n \in Clocks :
    /\ \E v \in Times : Becomes(n, v)
    /\ SecondsSince(n, counted, clock[n].seconds)

Readers ==
  \A c \in CPU : pc[c] = "read" =>
    /\ rd[c].clock \in Clocks
    /\ rd[c].since <= counted
    /\ "seconds" \notin rd[c].left =>
         SecondsSince(rd[c].clock, rd[c].since, rd[c].value.seconds)
    /\ c = BSP =>
         /\ rd[c].since = counted
         /\ \A f \in Fields \ rd[c].left : rd[c].value[f] = clock[rd[c].clock][f]

(* The last tick whose timers have all been called.                        *)
Handled == IF pc[BSP] = "advance" THEN counted - 1 ELSE counted

TimersHeld ==
  \A t \in Timers :
    /\ fired[t] = None => t \notin g_timers
    /\ fired[t] # None =>
         LET deadline == InNanoseconds(fired[t].deadline)
         IN  \/ /\ t \in g_timers /\ fired[t].at = <<>>
                /\ deadline > CountedTime(Handled)
             \/ /\ t \notin g_timers
                /\ \E m \in 0 .. counted :
                     /\ fired[t].at = <<m>>
                     /\ CountedTime(m) >= deadline /\ CountedTime(m - 1) < deadline

IInv == TypeOK /\ Locks /\ Halves /\ Readers /\ TimersHeld

-----------------------------------------------------------------------------
(* The vectors: what the four requests leave behind                        *)

(* A request gets the first vector of its class that nobody has.           *)
LEMMA Request ==
  ASSUME NEW e, NEW r, NEW v \in 0 .. IDT_SIZE - 1,
         e \in [0 .. IDT_SIZE - 1 -> Handlers \cup {None}],
         Priority[r.priority] \in Nat,
         v >= 16 * Priority[r.priority], e[v] = None,
         \A w \in 0 .. IDT_SIZE - 1 : w >= 16 * Priority[r.priority] /\ e[w] = None => v <= w
  PROVE  x86_64_interrupt_request(e, r) = [e EXCEPT ![v] = r.handler]
<1> DEFINE free == {w \in DOMAIN e : w >= 16 * Priority[r.priority] /\ e[w] = None}
<1>1. v \in free /\ \A w \in free : v <= w
  OBVIOUS
<1>2. \A x \in free : (\A w \in free : x <= w) => x = v
  BY <1>1 DEF IDT_SIZE
<1>3. (CHOOSE x \in free : \A w \in free : x <= w) = v
  BY <1>1, <1>2
<1> QED
  BY <1>1, <1>3 DEF x86_64_interrupt_request

(* Where the PIT's and the scheduler's requests end up.                    *)
LEMMA Entries ==
  /\ g_entries \in [0 .. IDT_SIZE - 1 -> Handlers \cup {None}]
  /\ g_entries[208] = "pit_time_handler" /\ g_entries[32] = "sched_entry"
  /\ \A v \in 0 .. IDT_SIZE - 1 :
       /\ g_entries[v] = "pit_time_handler" => v = 208
       /\ g_entries[v] = "sched_entry" => v = 32
<1> DEFINE e0 == x86_64_interrupt_init
           e1 == x86_64_interrupt_request(e0, Requests[1])
           e2 == x86_64_interrupt_request(e1, Requests[2])
           e3 == x86_64_interrupt_request(e2, Requests[3])
           Table == [0 .. IDT_SIZE - 1 -> Handlers \cup {None}]
<1>1. None \notin Handlers
  BY ClockAssumption
<1>2. e0 \in Table /\ \A v \in 0 .. IDT_SIZE - 1 : e0[v] = IF v < 32 THEN "exception" ELSE None
  BY DEF x86_64_interrupt_init, Handlers
<1>3. e1 = [e0 EXCEPT ![224] = "tlb_shootdown_handler"]
  <2> DEFINE r == Requests[1]
  <2>1. r.handler = "tlb_shootdown_handler" /\ Priority[r.priority] = 14
    BY DEF Requests, Priority
  <2> HIDE DEF e0
  <2>2. /\ 224 \in 0 .. IDT_SIZE - 1 /\ e0 \in Table /\ e0[224] = None
        /\ \A w \in 0 .. IDT_SIZE - 1 : w >= 16 * 14 /\ e0[w] = None => 224 <= w
    BY <1>1, <1>2 DEF IDT_SIZE, Handlers
  <2>3. /\ 224 >= 16 * Priority[r.priority] /\ Priority[r.priority] \in Nat
        /\ \A w \in 0 .. IDT_SIZE - 1 : w >= 16 * Priority[r.priority] /\ e0[w] = None => 224 <= w
    BY <2>1, <2>2
  <2>4. x86_64_interrupt_request(e0, r) = [e0 EXCEPT ![224] = r.handler]
    BY <2>2, <2>3, Request
  <2> QED
    BY <2>1, <2>4
<1>4. e1 \in Table
  BY <1>2, <1>3 DEF Handlers
<1>5. e2 = [e1 EXCEPT ![192] = "kb_interrupt_handler"]
  <2> DEFINE r == Requests[2]
  <2>1. r.handler = "kb_interrupt_handler" /\ Priority[r.priority] = 12
    BY DEF Requests, Priority
  <2> HIDE DEF e0, e1
  <2>2. /\ 192 \in 0 .. IDT_SIZE - 1 /\ e1 \in Table /\ e1[192] = None
        /\ \A w \in 0 .. IDT_SIZE - 1 : w >= 16 * 12 /\ e1[w] = None => 192 <= w
    BY <1>1, <1>2, <1>3, <1>4 DEF IDT_SIZE, Handlers
  <2>3. /\ 192 >= 16 * Priority[r.priority] /\ Priority[r.priority] \in Nat
        /\ \A w \in 0 .. IDT_SIZE - 1 : w >= 16 * Priority[r.priority] /\ e1[w] = None => 192 <= w
    BY <2>1, <2>2
  <2>4. x86_64_interrupt_request(e1, r) = [e1 EXCEPT ![192] = r.handler]
    BY <2>2, <2>3, Request
  <2> QED
    BY <2>1, <2>4
<1>6. e2 \in Table
  BY <1>4, <1>5 DEF Handlers
<1>7. e3 = [e2 EXCEPT ![32] = "sched_entry"]
  <2> DEFINE r == Requests[3]
  <2>1. r.handler = "sched_entry" /\ Priority[r.priority] = 1
    BY DEF Requests, Priority
  <2> HIDE DEF e0, e1, e2
  <2>2. /\ 32 \in 0 .. IDT_SIZE - 1 /\ e2 \in Table /\ e2[32] = None
        /\ \A w \in 0 .. IDT_SIZE - 1 : w >= 16 * 1 /\ e2[w] = None => 32 <= w
    BY <1>1, <1>2, <1>3, <1>4, <1>5, <1>6 DEF IDT_SIZE, Handlers
  <2>3. /\ 32 >= 16 * Priority[r.priority] /\ Priority[r.priority] \in Nat
        /\ \A w \in 0 .. IDT_SIZE - 1 : w >= 16 * Priority[r.priority] /\ e2[w] = None => 32 <= w
    BY <2>1, <2>2
  <2>4. x86_64_interrupt_request(e2, r) = [e2 EXCEPT ![32] = r.handler]
    BY <2>2, <2>3, Request
  <2> QED
    BY <2>1, <2>4
<1>8. /\ e3 \in Table
      /\ \A v \in 0 .. IDT_SIZE - 1 :
           e3[v] = IF v < 32 THEN "exception" ELSE IF v = 32 THEN "sched_entry"
                   ELSE IF v = 192 THEN "kb_interrupt_handler"
                   ELSE IF v = 224 THEN "tlb_shootdown_handler" ELSE None
  <2> HIDE DEF e0, e1, e2, e3
  <2>1. \A v \in 0 .. IDT_SIZE - 1 :
          e1[v] = IF v = 224 THEN "tlb_shootdown_handler" ELSE e0[v]
    BY <1>2, <1>3
  <2>2. \A v \in 0 .. IDT_SIZE - 1 :
          e2[v] = IF v = 192 THEN "kb_interrupt_handler" ELSE e1[v]
    BY <1>4, <1>5
  <2>3. \A v \in 0 .. IDT_SIZE - 1 : e3[v] = IF v = 32 THEN "sched_entry" ELSE e2[v]
    BY <1>6, <1>7
  <2>4. e3 \in Table
    BY <1>6, <1>7 DEF Handlers
  <2>5. ASSUME NEW v \in 0 .. IDT_SIZE - 1
        PROVE  e3[v] = IF v < 32 THEN "exception" ELSE IF v = 32 THEN "sched_entry"
                       ELSE IF v = 192 THEN "kb_interrupt_handler"
                       ELSE IF v = 224 THEN "tlb_shootdown_handler" ELSE None
    <3>1. v \in Nat /\ e0[v] = IF v < 32 THEN "exception" ELSE None
      BY <1>2 DEF IDT_SIZE
    <3> QED
      BY <2>1, <2>2, <2>3, <3>1
  <2> QED
    BY <2>4, <2>5
<1>9. g_entries = x86_64_interrupt_request(e3, Requests[4])
  BY DEF g_entries
<1>10. g_entries = [e3 EXCEPT ![208] = "pit_time_handler"]
  <2> DEFINE r == Requests[4]
  <2>1. r.handler = "pit_time_handler" /\ Priority[r.priority] = 13
    BY DEF Requests, Priority
  <2> HIDE DEF e0, e1, e2, e3
  <2>2. /\ 208 \in 0 .. IDT_SIZE - 1 /\ e3 \in Table /\ e3[208] = None
        /\ \A w \in 0 .. IDT_SIZE - 1 : w >= 16 * 13 /\ e3[w] = None => 208 <= w
    <3>1. e3 \in Table /\ e3[208] = None
      BY <1>8 DEF IDT_SIZE
    <3>2. \A w \in 0 .. IDT_SIZE - 1 : w >= 16 * 13 => 208 <= w
      BY DEF IDT_SIZE
    <3> QED
      BY <3>1, <3>2 DEF IDT_SIZE
  <2>3. /\ 208 >= 16 * Priority[r.priority] /\ Priority[r.priority] \in Nat
        /\ \A w \in 0 .. IDT_SIZE - 1 : w >= 16 * Priority[r.priority] /\ e3[w] = None => 208 <= w
    BY <2>1, <2>2
  <2>4. x86_64_interrupt_request(e3, r) = [e3 EXCEPT ![208] = r.handler]
    BY <2>2, <2>3, Request
  <2> QED
    BY <2>1, <2>4, <1>9
<1> HIDE DEF e0, e1, e2, e3
<1>11. g_entries \in Table
  BY <1>8, <1>10 DEF Handlers
<1>12. \A v \in 0 .. IDT_SIZE - 1 :
         g_entries[v] = IF v = 208 THEN "pit_time_handler" ELSE e3[v]
  BY <1>8, <1>10
<1>13. g_entries[208] = "pit_time_handler" /\ g_entries[32] = "sched_entry"
  BY <1>8, <1>12 DEF IDT_SIZE
<1>14. ASSUME NEW v \in 0 .. IDT_SIZE - 1
       PROVE  /\ g_entries[v] = "pit_time_handler" => v = 208
              /\ g_entries[v] = "sched_entry" => v = 32
  <2>1. None # "pit_time_handler" /\ None # "sched_entry"
    BY <1>1 DEF Handlers
  <2> QED
    BY <1>8, <1>12, <2>1
<1> QED
  BY <1>11, <1>13, <1>14

(* The PIT's vector leads to its handler, the scheduler's to its own.      *)
LEMMA TwoVectors ==
  /\ g_entries[PIT] = "pit_time_handler" /\ g_entries[SCHED] = "sched_entry"
  /\ PIT # SCHED
<1>1. DOMAIN g_entries = 0 .. IDT_SIZE - 1
  BY Entries
<1>2. PIT = 208
  BY Entries, <1>1 DEF PIT, Vector, IDT_SIZE
<1>3. SCHED = 32
  BY Entries, <1>1 DEF SCHED, Vector, IDT_SIZE
<1> QED
  BY <1>2, <1>3, Entries

-----------------------------------------------------------------------------
(* Time                                                                    *)

(* The constants are times, and not negative.                              *)
LEMMA Constants ==
  /\ NANOSECONDS_IN_SECOND \in Nat \ {0}
  /\ Resolution \in Times /\ Zero \in Times /\ boot_timestamp \in Times
  /\ InNanoseconds(Resolution) = Resolution.nanoseconds /\ Resolution.nanoseconds \in Nat
  /\ \A n : BootTime(n) \in Nat
<1>1. NANOSECONDS_IN_SECOND \in Nat \ {0}
  BY ClockAssumption
<1>2. Resolution \in Times /\ Resolution.seconds = 0
  BY ClockAssumption DEF Resolution, Times
<1>3. boot_timestamp \in Times /\ boot_timestamp.seconds * NANOSECONDS_IN_SECOND \in Nat
  BY <1>1, ClockAssumption DEF Times
<1> QED
  BY <1>1, <1>2, <1>3 DEF Zero, Times, InNanoseconds, BootTime

(* Adding normalized times, carry or not, adds what they stand for.        *)
LEMMA Sum ==
  ASSUME NEW a \in Times, NEW b \in Times
  PROVE  /\ time_add(a, b) \in Times
         /\ InNanoseconds(time_add(a, b)) = InNanoseconds(a) + InNanoseconds(b)
<1> DEFINE NS == NANOSECONDS_IN_SECOND
<1>1. /\ NS \in Nat \ {0} /\ a.seconds \in Nat /\ b.seconds \in Nat
      /\ a.nanoseconds \in 0 .. NS - 1 /\ b.nanoseconds \in 0 .. NS - 1
  BY Constants DEF Times
<1>2. (a.seconds + b.seconds) * NS = a.seconds * NS + b.seconds * NS
  BY <1>1
<1>3. (a.seconds + b.seconds + 1) * NS = a.seconds * NS + b.seconds * NS + NS
  BY <1>1
<1>4. CASE a.nanoseconds + b.nanoseconds >= NS
  BY <1>1, <1>3, <1>4 DEF time_add, Times, InNanoseconds
<1>5. CASE ~(a.nanoseconds + b.nanoseconds >= NS)
  BY <1>1, <1>2, <1>5 DEF time_add, Times, InNanoseconds
<1> QED
  BY <1>4, <1>5

(* Ticks count a time.                                                     *)
LEMMA Counted ==
  ASSUME NEW m \in Int
  PROVE  CountedTime(m) \in Int
  BY Constants DEF CountedTime

(* Each tick adds the resolution to each clock.                            *)
LEMMA Tick ==
  ASSUME NEW m \in Int, NEW n
  PROVE  /\ After(n, m) \in Int
         /\ After(n, m + 1) = After(n, m) + Resolution.nanoseconds
<1>1. (m + 1) * Resolution.nanoseconds = m * Resolution.nanoseconds + Resolution.nanoseconds
  BY Constants
<1> QED
  BY <1>1, Constants DEF CountedTime, After

(* A time in nanoseconds, and its parts.                                   *)
LEMMA Normal ==
  ASSUME NEW t \in Times
  PROVE  /\ InNanoseconds(t) \in Nat /\ t.seconds * NANOSECONDS_IN_SECOND \in Nat
         /\ InNanoseconds(t) = t.seconds * NANOSECONDS_IN_SECOND + t.nanoseconds
         /\ t.nanoseconds \in 0 .. NANOSECONDS_IN_SECOND - 1
         /\ t.seconds \in Nat
  BY Constants DEF Times, InNanoseconds

(* The comparison of time_advance, field by field, is that of times.       *)
LEMMA Compared ==
  ASSUME NEW a \in Times, NEW b \in Times
  PROVE  Due(a, b) <=> InNanoseconds(a) <= InNanoseconds(b)
<1> DEFINE NS == NANOSECONDS_IN_SECOND
<1>1. /\ NS \in Nat \ {0} /\ a.seconds \in Nat /\ b.seconds \in Nat
      /\ a.nanoseconds \in 0 .. NS - 1 /\ b.nanoseconds \in 0 .. NS - 1
  BY Constants DEF Times
<1>2. ASSUME NEW x \in Nat, NEW y \in Nat, x < y
      PROVE  x * NS + NS <= y * NS
  <2>1. (x + 1) * NS <= y * NS
    BY <1>1, <1>2
  <2> QED
    BY <1>1, <2>1
<1>3. CASE a.seconds < b.seconds
  <2>1. a.seconds * NS + NS <= b.seconds * NS
    BY <1>1, <1>2, <1>3
  <2>2. a.seconds * NS \in Int /\ b.seconds * NS \in Int
    BY <1>1
  <2> QED
    BY <1>1, <1>3, <2>1, <2>2 DEF Due, InNanoseconds
<1>4. CASE a.seconds = b.seconds
  <2>1. a.seconds * NS = b.seconds * NS /\ b.seconds * NS \in Int
    BY <1>1, <1>4
  <2> QED
    BY <1>1, <1>4, <2>1 DEF Due, InNanoseconds
<1>5. CASE a.seconds > b.seconds
  <2>1. b.seconds * NS + NS <= a.seconds * NS
    BY <1>1, <1>2, <1>5
  <2>2. a.seconds * NS \in Int /\ b.seconds * NS \in Int
    BY <1>1
  <2> QED
    BY <1>1, <1>5, <2>1, <2>2 DEF Due, InNanoseconds
<1>6. a.seconds < b.seconds \/ a.seconds = b.seconds \/ a.seconds > b.seconds
  BY <1>1
<1> QED
  BY <1>3, <1>4, <1>5, <1>6

-----------------------------------------------------------------------------
(* Initially                                                               *)

(* The clocks begin at zero and at the time of boot.                       *)
LEMMA InitIInv == Init => IInv
<1> SUFFICES ASSUME Init PROVE IInv
  OBVIOUS
<1>1. TypeOK
  BY Constants, ClockAssumption DEF Init, TypeOK, NoRead, Clocks, Fields, Vectors
<1>2. Locks
  BY ClockAssumption DEF Init, Locks
<1>3. Halves
  <2> SUFFICES ASSUME NEW n \in Clocks
               PROVE  /\ \E v \in Times : Becomes(n, v)
                      /\ SecondsSince(n, counted, clock[n].seconds)
    BY DEF Halves
  <2>1. clock[n] \in Times /\ counted = 0 /\ stores = {}
    BY Constants DEF Init
  <2>2. InNanoseconds(clock[n]) = After(n, 0)
    <3>1. InNanoseconds(Zero) = 0 /\ CountedTime(0) = 0
      BY Constants DEF Zero, InNanoseconds, CountedTime
    <3> QED
      BY <3>1, Constants DEF Init, After, BootTime
  <2>3. Becomes(n, clock[n])
    BY <2>1, <2>2 DEF Becomes, Waits
  <2>4. SecondsSince(n, 0, clock[n].seconds)
    <3>1. After(n, 0) = After(n, 0 - 1) + Resolution.nanoseconds /\ After(n, 0 - 1) \in Int
      BY Tick
    <3> QED
      BY <2>1, <2>2, <3>1, Normal, Constants DEF SecondsSince
  <2> QED
    BY <2>1, <2>3, <2>4
<1>4. Readers
  BY DEF Init, Readers
<1>5. TimersHeld
  BY DEF Init, TimersHeld
<1> QED
  BY <1>1, <1>2, <1>3, <1>4, <1>5 DEF IInv

-----------------------------------------------------------------------------
(* Each action keeps the invariant                                         *)

(* What an action leaves alone it keeps.                                   *)
LEMMA HalvesKept ==
  ASSUME Halves, UNCHANGED <<counted, clock, stores>>
  PROVE  Halves'
  BY DEF Halves, Becomes, Waits, SecondsSince

(* A reader is disturbed by an advance or by its own loads only.           *)
LEMMA ReadersKept ==
  ASSUME Readers, UNCHANGED <<counted, clock, rd>>,
         \A c \in CPU : pc'[c] = "read" => pc[c] = "read"
  PROVE  Readers'
  BY DEF Readers, SecondsSince

(* Timers change when one is created and when some are called.             *)
LEMMA TimersKept ==
  ASSUME TimersHeld, UNCHANGED <<counted, fired, g_timers>>, pc'[BSP] = "advance" <=> pc[BSP] = "advance"
  PROVE  TimersHeld'
  BY DEF TimersHeld, Handled

(* A period adds a request on the BSP, or is lost to one already there.    *)
LEMMA PitPeriodStep ==
  ASSUME IInv, PitPeriod
  PROVE  IInv'
<1> USE DEF PitPeriod, timeVars, timerVars
<1>1. TypeOK'
  BY ClockAssumption DEF IInv, TypeOK, Vectors
<1>2. Locks'
  BY ClockAssumption DEF IInv, Locks, TypeOK
<1> QED
  BY <1>1, <1>2, HalvesKept, ReadersKept, TimersKept DEF IInv

(* The scheduler's requests are not the PIT's.                             *)
LEMMA LapicTimerStep ==
  ASSUME IInv, NEW c \in CPU, LapicTimer(c)
  PROVE  IInv'
<1> USE DEF LapicTimer, timeVars, timerVars
<1>1. TypeOK'
  BY DEF IInv, TypeOK, Vectors
<1>2. Locks'
  BY TwoVectors, ClockAssumption DEF IInv, Locks, TypeOK
<1> QED
  BY <1>1, <1>2, HalvesKept, ReadersKept, TimersKept DEF IInv

(* An interrupt enters the handler of its vector.                          *)
LEMMA DeliverStep ==
  ASSUME IInv, NEW c \in CPU, NEW v \in Vectors, Deliver(c, v)
  PROVE  IInv'
<1> USE DEF Deliver, Goto, timeVars, timerVars
<1>1. v \in irr[c] /\ g_entries[v] \in {"pit_time_handler", "sched_entry"}
  BY TwoVectors DEF Vectors, Deliverable
<1>2. TypeOK'
  BY <1>1 DEF IInv, TypeOK
<1>3. Locks'
  <2>1. g_entries[v] = "pit_time_handler" <=> v = PIT
    BY TwoVectors DEF Vectors
  <2> QED
    BY <1>1, <2>1, ClockAssumption DEF IInv, Locks, TypeOK
<1>4. \A d \in CPU : pc'[d] = "read" => pc[d] = "read"
  BY <1>1 DEF IInv, TypeOK
<1>5. pc'[BSP] = "advance" <=> pc[BSP] = "advance"
  BY <1>1, ClockAssumption DEF IInv, TypeOK
<1> QED
  BY <1>2, <1>3, <1>4, <1>5, HalvesKept, ReadersKept, TimersKept DEF IInv

(* The scheduler's handler touches no clock.                               *)
LEMMA sched_entryStep ==
  ASSUME IInv, NEW c \in CPU, sched_entry(c)
  PROVE  IInv'
<1> USE DEF sched_entry, lapic_eoi, Goto, timeVars, timerVars
<1>1. TypeOK'
  BY DEF IInv, TypeOK
<1>2. Locks'
  BY ClockAssumption DEF IInv, Locks, TypeOK
<1>3. \A d \in CPU : pc'[d] = "read" => pc[d] = "read"
  BY DEF IInv, TypeOK
<1>4. pc'[BSP] = "advance" <=> pc[BSP] = "advance"
  BY ClockAssumption DEF IInv, TypeOK
<1> QED
  BY <1>1, <1>2, <1>3, <1>4, HalvesKept, ReadersKept, TimersKept DEF IInv

(* The processor that has created a timer gives the lock back.             *)
LEMMA TimerCreatedStep ==
  ASSUME IInv, NEW c \in CPU, TimerCreated(c)
  PROVE  IInv'
<1> USE DEF TimerCreated, Release, Goto, timeVars, timerVars, lapicVars
<1>1. TypeOK'
  BY DEF IInv, TypeOK
<1>2. Locks'
  BY ClockAssumption DEF IInv, Locks, TypeOK
<1>3. \A d \in CPU : pc'[d] = "read" => pc[d] = "read"
  BY DEF IInv, TypeOK
<1>4. pc'[BSP] = "advance" <=> pc[BSP] = "advance"
  BY ClockAssumption DEF IInv, TypeOK
<1> QED
  BY <1>1, <1>2, <1>3, <1>4, HalvesKept, ReadersKept, TimersKept DEF IInv

(* A call that has read both halves returns.                               *)
LEMMA ReadReturnStep ==
  ASSUME IInv, NEW c \in CPU, ReadReturn(c)
  PROVE  IInv'
<1> USE DEF ReadReturn, Goto, timeVars, timerVars, lapicVars
<1>1. TypeOK'
  BY Constants DEF IInv, TypeOK, NoRead
<1>2. Locks'
  BY ClockAssumption DEF IInv, Locks, TypeOK
<1>3. pc'[BSP] = "advance" <=> pc[BSP] = "advance"
  BY ClockAssumption DEF IInv, TypeOK
<1>4. Readers'
  BY DEF IInv, TypeOK, Readers, SecondsSince
<1> QED
  BY <1>1, <1>2, <1>3, <1>4, HalvesKept, TimersKept DEF IInv

(* With no store to be made the clocks show the ticks counted.             *)
LEMMA Exact ==
  ASSUME IInv, stores = {}, NEW n \in Clocks
  PROVE  clock[n] \in Times /\ InNanoseconds(clock[n]) = After(n, counted)
<1>1. clock[n] \in Times
  BY DEF IInv, TypeOK
<1>2. PICK v \in Times : Becomes(n, v)
  BY DEF IInv, Halves
<1>3. clock[n].seconds = v.seconds /\ clock[n].nanoseconds = v.nanoseconds
  BY <1>2 DEF Becomes, Waits, Fields
<1> QED
  BY <1>1, <1>2, <1>3 DEF Becomes, InNanoseconds

(* Only the processor that holds the lock stores, and only in advance.     *)
LEMMA Unlocked ==
  ASSUME IInv, g_lock = None
  PROVE  stores = {} /\ pc[BSP] # "advance"
  BY ClockAssumption DEF IInv, Locks

(* More ticks are more time.                                               *)
LEMMA Monotone ==
  ASSUME NEW a \in Int, NEW b \in Int, a <= b, NEW n
  PROVE  CountedTime(a) <= CountedTime(b) /\ After(n, a) <= After(n, b)
<1> DEFINE R == Resolution.nanoseconds
<1>1. (b - a) * R >= 0 /\ (b - a) * R = b * R - a * R /\ a * R \in Int /\ b * R \in Int
  BY Constants
<1> QED
  BY <1>1, Constants DEF CountedTime, After

(* From here on the clocks are between two ticks.                          *)
LEMMA pit_time_handlerStep ==
  ASSUME IInv, NEW c \in CPU, pit_time_handler(c)
  PROVE  IInv'
<1> USE DEF pit_time_handler, lapic_eoi, Goto, Acquire, timerVars
<1> DEFINE v(n) == time_add(clock[n], Resolution)
<1>1. c = BSP /\ stores = {} /\ counted + 1 <= elapsed /\ counted \in Nat
  BY Unlocked DEF IInv, Locks, TypeOK
<1>2. \A n \in Clocks : v(n) \in Times /\ InNanoseconds(v(n)) = After(n, counted + 1)
  <2> TAKE n \in Clocks
  <2>1. clock[n] \in Times /\ InNanoseconds(clock[n]) = After(n, counted)
    BY <1>1, Exact
  <2> QED
    BY <1>1, <2>1, Sum, Constants, Tick
<1>3. TypeOK'
  <2>1. \A n \in Clocks, f \in Fields : v(n)[f] \in Nat
    BY <1>2, Normal DEF Fields, Times
  <2>2. stores' \subseteq [clock : Clocks, field : Fields, value : Nat]
    BY <2>1
  <2> QED
    BY <1>1, <2>2, ClockAssumption DEF IInv, TypeOK
<1>4. Locks'
  BY <1>1, ClockAssumption DEF IInv, Locks, TypeOK
<1>5. Halves'
  <2> SUFFICES ASSUME NEW n \in Clocks
               PROVE  Becomes(n, v(n))' /\ SecondsSince(n, counted, clock[n].seconds)'
    <3>1. clock' = clock
      OBVIOUS
    <3> QED
      BY <1>2, <3>1 DEF Halves
  <2>1. Becomes(n, v(n))'
    <3>1. v(n)' = v(n)
      OBVIOUS
    <3>2. ASSUME NEW f \in Fields
          PROVE  Waits(n, f)' # {} /\ \A s \in Waits(n, f)' : s.value = v(n)[f]
      <4>1. [clock |-> n, field |-> f, value |-> v(n)[f]] \in Waits(n, f)'
        BY DEF Waits
      <4> QED
        BY <4>1 DEF Waits
    <3> QED
      BY <1>1, <1>2, <3>1, <3>2 DEF Becomes
  <2>2. SecondsSince(n, counted, clock[n].seconds)'
    <3>1. clock[n] \in Times /\ InNanoseconds(clock[n]) = After(n, counted)
      BY <1>1, Exact
    <3>2. After(n, counted + 1) = After(n, counted) + Resolution.nanoseconds /\ After(n, counted) \in Int
      BY <1>1, Tick
    <3>3. clock' = clock /\ counted' = counted + 1 /\ counted' - 1 = counted
      BY <1>1
    <3> QED
      BY <3>1, <3>2, <3>3, Normal, Constants DEF SecondsSince
  <2> QED
    BY <2>1, <2>2
<1>6. Readers'
  <2> SUFFICES ASSUME NEW d \in CPU, pc'[d] = "read"
               PROVE  /\ rd[d].clock \in Clocks /\ rd[d].since <= counted + 1 /\ d # BSP
                      /\ "seconds" \notin rd[d].left =>
                           SecondsSince(rd[d].clock, rd[d].since, rd[d].value.seconds)'
    BY <1>1 DEF Readers
  <2>1. pc[d] = "read" /\ d # BSP
    BY <1>1 DEF IInv, TypeOK
  <2>2. /\ rd[d].clock \in Clocks /\ rd[d].since <= counted /\ rd[d].since \in Nat
        /\ "seconds" \notin rd[d].left => SecondsSince(rd[d].clock, rd[d].since, rd[d].value.seconds)
    BY <2>1 DEF IInv, Readers, TypeOK
  <2>3. After(rd[d].clock, counted + 1) = After(rd[d].clock, counted) + Resolution.nanoseconds
    BY <1>1, Tick
  <2>4. rd[d].value \in Times
    BY DEF IInv, TypeOK
  <2>5. "seconds" \notin rd[d].left => SecondsSince(rd[d].clock, rd[d].since, rd[d].value.seconds)'
    BY <1>1, <2>2, <2>3, <2>4, Normal, Tick, Constants DEF SecondsSince
  <2> QED
    BY <1>1, <2>1, <2>2, <2>5
<1>7. TimersHeld'
  <2>1. Handled = counted /\ Handled' = counted
    BY <1>1, ClockAssumption DEF Handled, IInv, TypeOK
  <2>2. 0 .. counted \subseteq 0 .. counted'
    BY <1>1
  <2> QED
    BY <1>1, <2>1, <2>2 DEF IInv, TimersHeld
<1> QED
  BY <1>3, <1>4, <1>5, <1>6, <1>7 DEF IInv

(* One half of one clock is stored.                                        *)
LEMMA StoreStep ==
  ASSUME IInv, NEW c \in CPU, Store(c)
  PROVE  IInv'
<1> USE DEF Store, lapicVars, timerVars
<1>1. PICK s \in stores : /\ clock' = [clock EXCEPT ![s.clock][s.field] = s.value]
                          /\ stores' = stores \ {s}
  OBVIOUS
<1>2. c = BSP /\ counted \in Nat /\ s.clock \in Clocks /\ s.field \in Fields
  BY DEF IInv, Locks, TypeOK
<1>3. PICK w \in Times : Becomes(s.clock, w) /\ s.value = w[s.field]
  BY <1>2 DEF IInv, Halves, Becomes, Waits
<1>4. clock[s.clock] \in Times /\ clock'[s.clock] = [clock[s.clock] EXCEPT ![s.field] = s.value]
  BY <1>1, <1>2 DEF IInv, TypeOK
<1>5. \/ /\ s.field = "seconds" /\ clock'[s.clock].seconds = w.seconds
         /\ clock'[s.clock].nanoseconds = clock[s.clock].nanoseconds
      \/ /\ s.field = "nanoseconds" /\ clock'[s.clock].nanoseconds = w.nanoseconds
         /\ clock'[s.clock].seconds = clock[s.clock].seconds
  BY <1>2, <1>3, <1>4 DEF Fields, Times
<1>6. clock'[s.clock] \in Times
  BY <1>2, <1>3, <1>4, <1>5 DEF Fields, Times
<1>7. \A n \in Clocks : n # s.clock => clock'[n] = clock[n]
  BY <1>1, <1>2 DEF IInv, TypeOK
<1>8. TypeOK'
  BY <1>1, <1>2, <1>6, <1>7 DEF IInv, TypeOK
<1>9. Locks'
  BY <1>1 DEF IInv, Locks
<1>10. Halves'
  <2> SUFFICES ASSUME NEW n \in Clocks
               PROVE  /\ \E v \in Times : Becomes(n, v)'
                      /\ SecondsSince(n, counted, clock[n].seconds)'
    BY DEF Halves
  <2>1. PICK v \in Times : Becomes(n, v)
    BY DEF IInv, Halves
  <2>2. \A f \in Fields : Waits(n, f)' = Waits(n, f) \ {s}
    BY <1>1 DEF Waits
  <2>3. ASSUME NEW f \in Fields
        PROVE  IF Waits(n, f)' = {} THEN clock'[n][f] = v[f]
                                    ELSE \A r \in Waits(n, f)' : r.value = v[f]
    <3>1. CASE s \in Waits(n, f)
      <4>1. s.clock = n /\ s.field = f /\ s.value = v[f]
        BY <2>1, <3>1 DEF Becomes, Waits
      <4>2. clock'[n][f] = v[f]
        BY <1>4, <4>1 DEF Fields, Times
      <4> QED
        BY <2>1, <2>2, <3>1, <4>2 DEF Becomes
    <3>2. CASE s \notin Waits(n, f)
      <4>1. ~(s.clock = n /\ s.field = f)
        BY <3>2 DEF Waits
      <4>2. clock'[n][f] = clock[n][f]
        BY <1>4, <1>5, <1>7, <4>1 DEF Fields, Times
      <4> QED
        BY <2>1, <2>2, <3>2, <4>2 DEF Becomes
    <3> QED
      BY <3>1, <3>2
  <2>4. Becomes(n, v)'
    BY <2>1, <2>3 DEF Becomes
  <2>5. SecondsSince(n, counted, clock[n].seconds)'
    <3>1. CASE clock'[n].seconds = clock[n].seconds
      BY <3>1 DEF IInv, Halves, SecondsSince
    <3>2. CASE n = s.clock /\ clock'[n].seconds = w.seconds
      <4> DEFINE m == counted - 1
      <4>0. m \in Int /\ m + 1 = counted
        BY <1>2
      <4>1. /\ After(n, counted) = After(n, m) + Resolution.nanoseconds
            /\ After(n, counted) \in Int /\ After(n, m) \in Int
        BY <1>2, <4>0, Tick
      <4>2. InNanoseconds(w) = After(n, counted)
        BY <1>3, <3>2 DEF Becomes
      <4> QED
        BY <3>2, <4>1, <4>2, Normal, Constants DEF SecondsSince
    <3> QED
      BY <1>5, <1>7, <3>1, <3>2
  <2> QED
    BY <2>4, <2>5
<1>11. Readers'
  BY <1>2 DEF IInv, Readers, SecondsSince
<1> QED
  BY <1>8, <1>9, <1>10, <1>11, TimersKept DEF IInv

(* Every timer that is due is called and leaves the list.                  *)
LEMMA FireTimersStep ==
  ASSUME IInv, NEW c \in CPU, FireTimers(c)
  PROVE  IInv'
<1> USE DEF Goto, Release, lapicVars, timeVars
<1> DEFINE due == {t \in g_timers : Due(fired[t].deadline, clock["monotonic"])}
<1>1. /\ c = BSP /\ stores = {} /\ counted \in Nat /\ pc[BSP] = "advance" /\ pc'[BSP] = "user"
      /\ g_timers' = g_timers \ due /\ counted' = counted
      /\ fired' = [t \in Timers |->
           IF t \in due THEN [fired[t] EXCEPT !.at = Append(@, counted)] ELSE fired[t]]
  BY DEF FireTimers, IInv, Locks, TypeOK
<1>2. ASSUME NEW t \in due
      PROVE  /\ t \in Timers /\ fired[t] \in [deadline : Times, at : Seq(Nat)]
             /\ fired[t].at = <<>>
             /\ InNanoseconds(fired[t].deadline) > CountedTime(counted - 1)
             /\ InNanoseconds(fired[t].deadline) <= CountedTime(counted)
  <2>1. /\ t \in g_timers /\ t \in Timers /\ fired[t] # None
        /\ fired[t] \in [deadline : Times, at : Seq(Nat)]
    BY DEF IInv, TypeOK, TimersHeld
  <2>2. clock["monotonic"] \in Times /\ InNanoseconds(clock["monotonic"]) = CountedTime(counted)
    <3>1. /\ clock["monotonic"] \in Times
          /\ InNanoseconds(clock["monotonic"]) = After("monotonic", counted)
      BY <1>1, Exact DEF Clocks
    <3>2. BootTime("monotonic") = 0 /\ CountedTime(counted) \in Int
      BY <1>1, Counted DEF BootTime
    <3> QED
      BY <3>1, <3>2 DEF After
  <2>3. fired[t].deadline \in Times
    BY <2>1
  <2>4. InNanoseconds(fired[t].deadline) <= CountedTime(counted)
    BY <2>2, <2>3, Compared
  <2> QED
    BY <1>1, <2>1, <2>4 DEF IInv, TimersHeld, Handled
<1>3. ASSUME NEW t \in due
      PROVE  fired'[t] = [deadline |-> fired[t].deadline, at |-> <<counted>>]
  BY <1>1, <1>2
<1>4. TypeOK'
  <2>1. \A t \in Timers : fired'[t] \in {None} \cup [deadline : Times, at : Seq(Nat)]
    <3> TAKE t \in Timers
    <3>1. CASE t \in due
      BY <1>1, <1>2, <1>3, <3>1
    <3>2. CASE t \notin due
      BY <1>1, <3>2 DEF IInv, TypeOK
    <3> QED
      BY <3>1, <3>2
  <2>2. fired' \in [Timers -> {None} \cup [deadline : Times, at : Seq(Nat)]]
    BY <1>1, <2>1
  <2> QED
    BY <1>1, <2>2 DEF FireTimers, IInv, TypeOK
<1>5. Locks'
  BY <1>1, ClockAssumption DEF FireTimers, IInv, Locks, TypeOK
<1>6. \A d \in CPU : pc'[d] = "read" => pc[d] = "read"
  BY DEF FireTimers, IInv, TypeOK
<1>7. TimersHeld'
  <2>1. Handled = counted - 1 /\ Handled' = counted
    BY <1>1 DEF Handled
  <2> SUFFICES ASSUME NEW t \in Timers
               PROVE  /\ fired'[t] = None => t \notin g_timers'
                      /\ fired'[t] # None =>
                           LET deadline == InNanoseconds(fired'[t].deadline)
                           IN  \/ /\ t \in g_timers' /\ fired'[t].at = <<>>
                                  /\ deadline > CountedTime(counted)
                               \/ /\ t \notin g_timers'
                                  /\ \E m \in 0 .. counted :
                                       /\ fired'[t].at = <<m>>
                                       /\ CountedTime(m) >= deadline /\ CountedTime(m - 1) < deadline
    BY <1>1, <2>1 DEF TimersHeld
  <2>2. CASE t \in due
    <3>0. fired[t].deadline \in Times
      BY <1>2, <2>2
    <3>1. InNanoseconds(fired[t].deadline) \in Int /\ CountedTime(counted) \in Int
      BY <1>1, <3>0, Normal, Counted
    <3>2. counted \in 0 .. counted
      BY <1>1
    <3> QED
      BY <1>1, <1>2, <1>3, <2>2, <3>1, <3>2
  <2>3. CASE t \in g_timers /\ t \notin due
    <3>1. fired'[t] = fired[t] /\ t \in g_timers'
      BY <1>1, <2>3
    <3>2. fired[t] # None /\ fired[t].at = <<>> /\ fired[t].deadline \in Times
      BY <2>3 DEF IInv, TimersHeld, TypeOK
    <3>3. /\ clock["monotonic"] \in Times
          /\ InNanoseconds(clock["monotonic"]) = After("monotonic", counted)
      BY <1>1, Exact DEF Clocks
    <3>4. BootTime("monotonic") = 0 /\ CountedTime(counted) \in Int
      BY <1>1, Counted DEF BootTime
    <3>5. ~Due(fired[t].deadline, clock["monotonic"])
      BY <2>3
    <3>6. InNanoseconds(fired[t].deadline) > CountedTime(counted)
      BY <3>2, <3>3, <3>4, <3>5, Compared, Normal DEF After
    <3> QED
      BY <3>1, <3>2, <3>6
  <2>4. CASE t \notin g_timers
    <3>1. fired'[t] = fired[t] /\ t \notin g_timers'
      BY <1>1, <2>4
    <3> QED
      BY <2>4, <3>1 DEF IInv, TimersHeld
  <2> QED
    BY <2>2, <2>3, <2>4
<1>8. UNCHANGED <<counted, clock, stores, rd>>
  BY DEF FireTimers
<1> QED
  BY <1>4, <1>5, <1>6, <1>7, <1>8, HalvesKept, ReadersKept DEF IInv

(* A new timer is due later than the last tick counted.                    *)
LEMMA timer_createStep ==
  ASSUME IInv, NEW c \in CPU, NEW t \in Timers, NEW l \in Lengths, timer_create(c, t, l)
  PROVE  IInv'
<1> USE DEF Acquire, Instruction, Goto, lapicVars, timeVars
<1> DEFINE deadline == time_add(clock["monotonic"], l)
<1>1. /\ stores = {} /\ counted \in Nat /\ pc[BSP] # "advance" /\ pc'[BSP] # "advance"
      /\ g_timers' = g_timers \cup {t} /\ counted' = counted
      /\ fired' = [fired EXCEPT ![t] = [deadline |-> deadline, at |-> <<>>]]
      /\ UNCHANGED <<clock, stores, rd, irr, isr, elapsed>>
  BY Unlocked, ClockAssumption DEF timer_create, IInv, TypeOK
<1>2. /\ deadline \in Times /\ InNanoseconds(deadline) \in Nat
      /\ InNanoseconds(deadline) > CountedTime(counted)
  <2>1. /\ clock["monotonic"] \in Times
        /\ InNanoseconds(clock["monotonic"]) = After("monotonic", counted)
    BY <1>1, Exact DEF Clocks
  <2>2. BootTime("monotonic") = 0 /\ CountedTime(counted) \in Int
    BY <1>1, Counted DEF BootTime
  <2>3. l \in Times /\ InNanoseconds(l) > 0
    <3>1. l \in Times /\ ~(l.seconds = 0 /\ l.nanoseconds = 0)
      BY ClockAssumption DEF Times, Zero
    <3>2. l.seconds > 0 => l.seconds * NANOSECONDS_IN_SECOND > 0
      BY <3>1, Normal, Constants
    <3> QED
      BY <3>1, <3>2, Normal
  <2> QED
    BY <2>1, <2>2, <2>3, Sum, Normal DEF After
<1>3. TypeOK'
  BY <1>1, <1>2 DEF timer_create, IInv, TypeOK
<1>4. Locks'
  BY <1>1, ClockAssumption DEF timer_create, IInv, Locks, TypeOK
<1>5. \A d \in CPU : pc'[d] = "read" => pc[d] = "read"
  BY DEF timer_create, IInv, TypeOK
<1>6. TimersHeld'
  <2>1. Handled = counted /\ Handled' = counted
    BY <1>1 DEF Handled
  <2>2. fired'[t].at = <<>> /\ fired'[t].deadline = deadline /\ fired'[t] # None
    <3>1. fired'[t] = [deadline |-> deadline, at |-> <<>>]
      BY <1>1 DEF IInv, TypeOK
    <3>2. fired'[t] \in [deadline : Times, at : Seq(Nat)]
      BY <1>2, <3>1
    <3>3. None \notin [deadline : Times, at : Seq(Nat)]
      BY ClockAssumption
    <3>4. fired'[t] # None
      BY <3>2, <3>3
    <3> QED
      BY <3>1, <3>4
  <2>3. \A u \in Timers : u # t => fired'[u] = fired[u] /\ (u \in g_timers' <=> u \in g_timers)
    BY <1>1 DEF IInv, TypeOK
  <2> QED
    BY <1>1, <1>2, <2>1, <2>2, <2>3 DEF IInv, TimersHeld
<1> QED
  BY <1>1, <1>3, <1>4, <1>5, <1>6, HalvesKept, ReadersKept DEF IInv

(* A reader has loaded nothing yet.                                        *)
LEMMA syscall_time_clockStep ==
  ASSUME IInv, NEW c \in CPU, NEW n \in Clocks, syscall_time_clock(c, n)
  PROVE  IInv'
<1> USE DEF syscall_time_clock, Instruction, Goto, lapicVars, timeVars, timerVars
<1>1. TypeOK'
  BY Constants DEF IInv, TypeOK
<1>2. Locks'
  BY ClockAssumption DEF IInv, Locks, TypeOK
<1>3. pc'[BSP] = "advance" <=> pc[BSP] = "advance"
  BY ClockAssumption DEF IInv, TypeOK
<1>4. Readers'
  <2>1. rd'[c] = [clock |-> n, value |-> Zero, left |-> Fields, since |-> counted] /\ counted \in Nat
    BY DEF IInv, TypeOK
  <2>2. \A d \in CPU : d # c => rd'[d] = rd[d] /\ pc'[d] = pc[d]
    BY DEF IInv, TypeOK
  <2> QED
    BY <2>1, <2>2 DEF IInv, Readers, SecondsSince, Fields
<1> QED
  BY <1>1, <1>2, <1>3, <1>4, HalvesKept, TimersKept DEF IInv

(* A half that is loaded was shown at some tick since the call began.      *)
LEMMA LoadStep ==
  ASSUME IInv, NEW c \in CPU, Load(c)
  PROVE  IInv'
<1> USE DEF lapicVars, timeVars, timerVars
<1> DEFINE n == rd[c].clock
<1>1. PICK f \in rd[c].left :
        rd' = [rd EXCEPT ![c].value[f] = clock[n][f], ![c].left = @ \ {f}]
  BY DEF Load
<1>2. /\ pc[c] = "read" /\ n \in Clocks /\ f \in Fields /\ clock[n] \in Times
      /\ rd[c].since \in Nat /\ rd[c].since <= counted /\ counted \in Nat
  BY DEF Load, IInv, TypeOK, Readers
<1>3. /\ rd'[c].clock = n /\ rd'[c].since = rd[c].since /\ rd'[c].left = rd[c].left \ {f}
      /\ rd'[c].value = [rd[c].value EXCEPT ![f] = clock[n][f]]
      /\ \A d \in CPU : d # c => rd'[d] = rd[d]
  BY <1>1 DEF IInv, TypeOK
<1>4. \/ /\ f = "seconds" /\ rd'[c].value.seconds = clock[n].seconds
         /\ rd'[c].value.nanoseconds = rd[c].value.nanoseconds
      \/ /\ f = "nanoseconds" /\ rd'[c].value.nanoseconds = clock[n].nanoseconds
         /\ rd'[c].value.seconds = rd[c].value.seconds
  BY <1>2, <1>3 DEF IInv, TypeOK, Times, Fields
<1>5. TypeOK'
  BY <1>1, <1>2 DEF Load, IInv, TypeOK, Times, Fields
<1>6. Locks'
  BY DEF Load, IInv, Locks
<1>7. Readers'
  <2> SUFFICES ASSUME NEW d \in CPU, pc[d] = "read"
               PROVE  /\ rd'[d].clock \in Clocks
                      /\ rd'[d].since <= counted
                      /\ "seconds" \notin rd'[d].left =>
                           SecondsSince(rd'[d].clock, rd'[d].since, rd'[d].value.seconds)
                      /\ d = BSP =>
                           /\ rd'[d].since = counted
                           /\ \A g \in Fields \ rd'[d].left : rd'[d].value[g] = clock[rd'[d].clock][g]
    BY DEF Load, Readers, SecondsSince
  <2>1. CASE d # c
    BY <1>3, <2>1 DEF IInv, Readers
  <2>2. CASE d = c
    <3>1. f = "seconds" => SecondsSince(n, rd[c].since, clock[n].seconds)
      <4>1. After(n, rd[c].since - 1) <= After(n, counted - 1)
        BY <1>2, Monotone
      <4>2. clock[n].seconds * NANOSECONDS_IN_SECOND \in Int
        BY <1>2, Normal
      <4>3. /\ After(n, rd[c].since - 1) \in Int /\ After(n, counted - 1) \in Int
            /\ After(n, counted) \in Int
        BY <1>2, Tick
      <4> QED
        BY <1>2, <4>1, <4>2, <4>3, Constants DEF IInv, Halves, SecondsSince
    <3>2. "seconds" \notin rd'[c].left => SecondsSince(n, rd[c].since, rd'[c].value.seconds)
      BY <1>2, <1>3, <1>4, <3>1 DEF IInv, Readers
    <3>3. \A g \in Fields : g # f => rd'[c].value[g] = rd[c].value[g]
      BY <1>2, <1>4 DEF Fields
    <3>4. rd'[c].value[f] = clock[n][f]
      BY <1>2, <1>4 DEF Fields
    <3>5. ASSUME c = BSP
          PROVE  /\ rd[c].since = counted
                 /\ \A g \in Fields \ rd'[c].left : rd'[c].value[g] = clock[n][g]
      <4>1. /\ rd[c].since = counted
            /\ \A g \in Fields \ rd[c].left : rd[c].value[g] = clock[n][g]
        BY <1>2, <3>5 DEF IInv, Readers
      <4> QED
        BY <1>3, <3>3, <3>4, <4>1
    <3> QED
      BY <1>2, <1>3, <2>2, <3>2, <3>5
  <2> QED
    BY <2>1, <2>2
<1>8. UNCHANGED <<counted, clock, stores, pc, fired, g_timers>>
  BY DEF Load
<1> QED
  BY <1>5, <1>6, <1>7, <1>8, HalvesKept, TimersKept DEF IInv

(* Every step keeps the invariant.                                         *)
LEMMA StepIInv ==
  ASSUME IInv, [Next]_vars
  PROVE  IInv'
<1>1. CASE UNCHANGED vars
  <2>1. TypeOK' /\ Locks'
    BY <1>1 DEF vars, lapicVars, timeVars, timerVars, IInv, TypeOK, Locks
  <2>2. UNCHANGED <<counted, clock, stores, pc, rd, fired, g_timers>>
    BY <1>1 DEF vars, timeVars, timerVars
  <2> QED
    BY <2>1, <2>2, HalvesKept, ReadersKept, TimersKept DEF IInv
<1>2. CASE PitPeriod
  BY <1>2, PitPeriodStep
<1>3. ASSUME NEW c \in CPU, Step(c)
      PROVE  IInv'
  BY <1>3, sched_entryStep, pit_time_handlerStep, StoreStep, FireTimersStep, TimerCreatedStep,
     LoadStep, ReadReturnStep, DeliverStep DEF Step
<1>4. ASSUME NEW c \in CPU,
             \/ LapicTimer(c)
             \/ \E n \in Clocks : syscall_time_clock(c, n)
             \/ \E t \in Timers, l \in Lengths : timer_create(c, t, l)
      PROVE  IInv'
  BY <1>4, LapicTimerStep, syscall_time_clockStep, timer_createStep
<1> QED
  BY <1>1, <1>2, <1>3, <1>4 DEF Next

(* The invariant holds of every behaviour: between which values each half  *)
(* of each clock lies while time_advance stores it (time.c:11-26).         *)
THEOREM Invariance == Spec => []IInv
  BY InitIInv, StepIInv, PTL DEF Spec

-----------------------------------------------------------------------------
(* What follows from it                                                    *)

(* Halves of two ticks make a time less than a second off.                 *)
LEMMA ReadsWithin ==
  ASSUME IInv
  PROVE  ReadWithinASecond
<1> SUFFICES ASSUME NEW c \in CPU, pc[c] = "read", rd[c].left = {}
             PROVE  LET read == InNanoseconds(rd[c].value) - BootTime(rd[c].clock)
                        off == IF c = BSP THEN 0 ELSE NANOSECONDS_IN_SECOND - 1
                    IN  /\ read >= CountedTime(rd[c].since) - off
                                     - (IF c = BSP THEN 0 ELSE Resolution.nanoseconds)
                        /\ read <= CountedTime(counted) + off
  BY DEF ReadWithinASecond, BootTime
<1> DEFINE n == rd[c].clock
           since == rd[c].since
<1>1. /\ n \in Clocks /\ since \in Nat /\ counted \in Nat /\ rd[c].value \in Times
      /\ SecondsSince(n, since, rd[c].value.seconds)
      /\ c = BSP => since = counted
                    /\ \A f \in Fields : rd[c].value[f] = clock[n][f]
  BY DEF IInv, Readers, TypeOK, Fields
<1>2. CountedTime(since) \in Int /\ CountedTime(counted) \in Int /\ BootTime(n) \in Nat
  BY <1>1, Counted, Constants
<1>3. CASE c = BSP
  <2>1. stores = {}
    BY <1>3 DEF IInv, Locks
  <2>2. InNanoseconds(clock[n]) = After(n, counted)
    BY <1>1, <2>1, Exact
  <2>3. InNanoseconds(rd[c].value) = InNanoseconds(clock[n])
    BY <1>1, <1>3 DEF InNanoseconds, Fields
  <2> QED
    BY <1>1, <1>2, <1>3, <2>2, <2>3 DEF After
<1>4. CASE c # BSP
  <2> DEFINE m == since - 1
  <2>1. m \in Int /\ m + 1 = since
    BY <1>1
  <2>2. After(n, since) = After(n, m) + Resolution.nanoseconds /\ After(n, m) \in Int
    BY <2>1, Tick
  <2>3. /\ rd[c].value.seconds * NANOSECONDS_IN_SECOND <= After(n, counted)
        /\ rd[c].value.seconds * NANOSECONDS_IN_SECOND >= After(n, m) - (NANOSECONDS_IN_SECOND - 1)
    BY <1>1 DEF SecondsSince
  <2>4. After(n, since) = CountedTime(since) + BootTime(n) /\ After(n, counted) = CountedTime(counted) + BootTime(n)
    BY DEF After
  <2> HIDE DEF m
  <2> QED
    BY <1>1, <1>2, <1>4, <2>2, <2>3, <2>4, Normal, Constants
<1> QED
  BY <1>3, <1>4

(* Both clocks show the ticks counted, and whoever reads one, on whatever  *)
(* processor and in whatever halves, is less than a second off             *)
(* (time.c:11-26, syscall_time.c:16-41).                                   *)
THEOREM ClocksAlwaysSound == Spec => []ClocksSound
<1>1. ASSUME IInv PROVE ClocksAgree
  <2> SUFFICES ASSUME stores = {}, NEW n \in Clocks
               PROVE  InNanoseconds(clock[n]) = CountedTime(counted) + BootTime(n)
    BY DEF ClocksAgree, BootTime
  <2> QED
    BY <1>1, Exact DEF After
<1>2. IInv => ClocksSound
  BY <1>1, ReadsWithin DEF IInv, ClocksSound
<1> QED
  BY <1>2, Invariance, PTL

(* A timer is called once, by the first tick that reaches its deadline,    *)
(* whatever processor created it and between whatever ticks (time.c:17-23).*)
THEOREM TimersAlwaysOnTime == Spec => []TimersOnTime
<1>1. ASSUME IInv PROVE TimersOnTime
  <2> SUFFICES ASSUME NEW t \in Timers, fired[t] # None
               PROVE  LET deadline == InNanoseconds(fired[t].deadline)
                      IN  IF fired[t].at = <<>>
                          THEN g_lock = None => deadline > CountedTime(counted)
                          ELSE /\ Len(fired[t].at) = 1
                               /\ CountedTime(fired[t].at[1]) >= deadline
                               /\ CountedTime(fired[t].at[1] - 1) < deadline
    BY DEF TimersOnTime
  <2>1. g_lock = None => Handled = counted
    BY <1>1, Unlocked DEF Handled
  <2>2. CASE t \in g_timers
    BY <1>1, <2>1, <2>2 DEF IInv, TimersHeld
  <2>3. CASE t \notin g_timers
    <3>1. PICK m \in 0 .. counted :
            /\ fired[t].at = <<m>>
            /\ CountedTime(m) >= InNanoseconds(fired[t].deadline)
            /\ CountedTime(m - 1) < InNanoseconds(fired[t].deadline)
      BY <1>1, <2>3 DEF IInv, TimersHeld
    <3> QED
      BY <3>1
  <2> QED
    BY <2>2, <2>3
<1> QED
  BY <1>1, Invariance, PTL
=============================================================================
