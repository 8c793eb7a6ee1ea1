---------------------------------- MODULE Vmm ----------------------------------
(***************************************************************************)
(* The address space of the one user process: memory/vmm.c, driven by the  *)
(* program loader and by the memory, framebuffer and buffer system calls.  *)
(*                                                                         *)
(* A process has one thread and its address space is reached only through  *)
(* it, so each call is one step.  Addresses are bytes; segments are kept   *)
(* as a set: they are disjoint (SegmentsApart), so the order in which the  *)
(* list is walked does not matter (SearchesExact).                         *)
(***************************************************************************)
EXTENDS Integers, FiniteSets

CONSTANTS
  PAGE,           \* ARCH_PAGE_SIZE
  START, END,     \* USERSPACE_START, USERSPACE_END
  RECORDS,        \* ARCH_PAGE_SIZE / sizeof(vmm_segment_t)
  Lengths,        \* lengths the program asks for, bound
  Headers,        \* PT_LOAD headers the program files may have, bound
  STACK,          \* USER_STACK_SIZE
  Framebuffer,    \* g_framebuffer: [phys, size]
  Garbage,        \* values of an uninitialised cache field, bound
  None            \* an absent page table entry

ASSUME VmmAssumption ==
  /\ PAGE \in Nat \ {0} /\ START \in Nat \ {0} /\ END \in Nat /\ RECORDS \in Nat
  /\ RECORDS > 2 /\ START % PAGE = 0
  /\ Lengths \subseteq Nat \ {0} /\ Garbage \subseteq Nat
  /\ STACK \in Nat \ {0}
  /\ Framebuffer \in [phys : Nat, size : Nat \ {0}]
  /\ Headers \subseteq [vaddr : Nat, filesz : Nat, memsz : Nat, prot : {"RW", "RX"}]
  /\ None \notin [type : {"ANON", "DIRECT"}, prot : {"RW", "RX"}]
  /\ None \notin [type : {"ANON", "DIRECT"}, prot : {"RW", "RX"}, cache : Nat, frame : Int]

VARIABLES
  segs,           \* address_space->segments
  pt,             \* the page table: page -> entry or None
  pool,           \* length of g_segments_free
  kpages,         \* kernel pages given to segment records
  todo,           \* the PT_LOAD headers still to be loaded
  loaded,         \* x86_64_init has handed the program to the scheduler
  halted          \* the kernel panicked

vars == <<segs, pt, pool, kpages, todo, loaded, halted>>

(* vmm.h: flag bits and cache values are numbers of different types, and C *)
(* takes the one for the other.                                            *)
VMM_FLAG_NONE == 0
VMM_FLAG_FIXED == 2
VMM_FLAG_NO_DEMAND == 4
VMM_FLAG_ANON_ZERO == 1024
VMM_CACHE_STANDARD == 0
VMM_CACHE_WRITE_COMBINE == 1
Has(flags, bit) == (flags \div bit) % 2 = 1

Page == START \div PAGE .. END \div PAGE
Floor(a) == (a \div PAGE) * PAGE
Ceil(a) == Floor(a + PAGE - 1)
(* The pages of the n bytes from a on.                                     *)
PagesOf(a, n) == {p \in Page : n > 0 /\ p * PAGE < a + n /\ a < (p + 1) * PAGE}

IsSegment(s) ==
  /\ DOMAIN s = {"base", "length", "type", "prot", "cache", "phys"}
  /\ s.base \in Nat /\ s.length \in Nat /\ s.phys \in Nat /\ s.cache \in Nat
  /\ s.type \in {"ANON", "DIRECT"} /\ s.prot \in {"RW", "RX"}

EndOf(s) == s.base + s.length
ADDRESS_IN_BOUNDS(a) == a >= START /\ a < END
SEGMENT_IN_BOUNDS(a, n) == ADDRESS_IN_BOUNDS(a) /\ END - a >= n
SEGMENT_INTERSECTS(a, n, s) == a < EndOf(s) /\ s.base < a + n
Covers(s, a) == s.base <= a /\ a < EndOf(s)

-----------------------------------------------------------------------------
(* The search functions.                                                   *)

(* The walk stops at the first place, among where it starts and the ends   *)
(* of segments, at which n bytes are free; 0 if that is out of bounds.     *)
find_space_Bug(a0, n) == IF SEGMENT_IN_BOUNDS(a0, n) THEN a0 ELSE START
find_space(a0, n) ==
  LET a == IF SEGMENT_IN_BOUNDS(a0, n) THEN a0 ELSE START
      stops == {a} \cup {EndOf(s) : s \in {x \in segs : EndOf(x) >= a}}
      free == {x \in stops : \A s \in segs : ~SEGMENT_INTERSECTS(x, n, s)}
      first == CHOOSE x \in free : \A y \in free : x <= y
  IN IF SEGMENT_IN_BOUNDS(first, n) THEN first ELSE 0

addr_to_segment(a) == {s \in segs : ADDRESS_IN_BOUNDS(a) /\ Covers(s, a)}

memory_exists_Bug(sg, a, n) ==
  /\ ADDRESS_IN_BOUNDS(a) /\ ADDRESS_IN_BOUNDS(a + n)
  /\ n # 0 => \A x \in {a, (a + n) - 1} : \E s \in sg : Covers(s, x)
memory_exists(sg, a, n) ==
  /\ ADDRESS_IN_BOUNDS(a) /\ ADDRESS_IN_BOUNDS(a + n)
  /\ \A x \in a .. (a + n) - 1 : \E s \in sg : Covers(s, x)

(* The two loops as they are written.  Which segment of those that make    *)
(* the walk start over comes first depends on the order of the list, which *)
(* nothing keeps: so these are all the results there may be.               *)
find_space_loop(a0, n) ==
  LET Walk[a \in Nat] ==
        LET hits == {s \in segs : SEGMENT_INTERSECTS(a, n, s)} IN
        IF ~SEGMENT_IN_BOUNDS(a, n) THEN {0}
        ELSE IF hits = {} THEN {a} ELSE UNION {Walk[EndOf(s)] : s \in hits}
  IN Walk[IF SEGMENT_IN_BOUNDS(a0, n) THEN a0 ELSE START]

(* The range, an address and a length, is shortened from below or from     *)
(* above by a segment that can.                                            *)
Shortened(s, a, n) ==
  IF Covers(s, a) THEN <<EndOf(s), IF EndOf(s) >= a + n THEN 0 ELSE (a + n) - EndOf(s)>>
  ELSE <<a, s.base - a>>
memory_exists_loop(sg, a0, n0) ==
  LET Rest[r \in Nat \X Nat] ==
        LET a == r[1]
            n == r[2]
            hits == {s \in sg : \/ Covers(s, a)
                                \/ s.base > a /\ s.base < a + n /\ EndOf(s) >= a + n}
        IN IF n = 0 THEN {TRUE}
           ELSE IF hits = {} THEN {FALSE} ELSE UNION {Rest[Shortened(s, a, n)] : s \in hits}
  IN IF ADDRESS_IN_BOUNDS(a0) /\ ADDRESS_IN_BOUNDS(a0 + n0) THEN Rest[<<a0, n0>>] ELSE {FALSE}

-----------------------------------------------------------------------------
(* The page table and the pool of segment records.                         *)

(* segment_map of one page: an anonymous page gets a frame unlike the one  *)
(* it replaces, if any; a direct page the frame at its offset.             *)
Entry(s, p) ==
  [type |-> s.type, prot |-> s.prot, cache |-> s.cache,
   frame |-> IF s.type = "DIRECT" THEN s.phys + (p * PAGE - s.base)
             ELSE IF pt[p] # None THEN 1 - pt[p].frame ELSE 0]

(* vmm_fault is called for the pages arch_vmm_ptm_physical does not find   *)
(* (and by the hardware for those that are not present).                   *)
Absent_Bug(S) == S
Absent(S) == {p \in S : pt[p] = None}

(* The page table once every page of S has been used, with segments sg.    *)
Used(sg, S) ==
  [p \in Page |->
     IF p \in Absent(S) THEN Entry(CHOOSE s \in sg : Covers(s, p * PAGE), p) ELSE pt[p]]

(* segment_unmap of the bytes [lo, hi).                                    *)
Cleared(lo, hi) == [p \in Page |-> IF p \in PagesOf(lo, hi - lo) THEN None ELSE pt[p]]

(* segments_alloc on a pool of n records: an empty pool gets a page, whose *)
(* first record describes the page itself.                                 *)
Refill(n) == IF n = 0 THEN RECORDS - 1 ELSE n
Pages(n) == IF n = 0 THEN 1 ELSE 0

(* segments_free of the record map_common could not use.                   *)
GiveBack_Bug(n) == n
GiveBack(n) == n + 1

-----------------------------------------------------------------------------
Init ==
  /\ segs = {}
  /\ pt = [p \in Page |-> None]
  /\ pool = 0
  /\ kpages = 0
  /\ todo \in SUBSET Headers
  /\ loaded = FALSE
  /\ halted = FALSE

Panic ==
  /\ halted' = TRUE
  /\ UNCHANGED <<segs, pt, pool, kpages, todo, loaded>>

(* map_common: where the mapping goes, 0 for NULL ...                      *)
map_common(hint, n, flags) ==
  LET address == find_space(Ceil(hint), n)
      fixed == Has(flags, VMM_FLAG_FIXED)
  IN IF n = 0 \/ n % PAGE # 0 \/ (fixed /\ hint # address) THEN 0 ELSE address

(* ... what it does when there is a place, its caller then using pages S   *)
(* of the new address space ...                                            *)
AddSegment(s, flags, S) ==
  LET eager == IF Has(flags, VMM_FLAG_NO_DEMAND) THEN PagesOf(s.base, s.length) ELSE {} IN
  /\ kpages' = kpages + Pages(pool)
  /\ pool' = Refill(pool) - 1
  /\ segs' = segs \cup {s}
  /\ pt' = Used(segs \cup {s}, eager \cup S)

(* ... and what is left of it when there is none.                          *)
NoSpace ==
  /\ kpages' = kpages + Pages(pool)
  /\ pool' = GiveBack(Refill(pool) - 1)
  /\ UNCHANGED <<segs, pt>>

Segment(base, n, prot, cache, type, phys) ==
  [base |-> base, length |-> n, type |-> type, prot |-> prot, cache |-> cache, phys |-> phys]

-----------------------------------------------------------------------------
(* Loading the program, before it runs.                                    *)

(* elf_load, one PT_LOAD header: the fourth and fifth arguments of its     *)
(* vmm_map_anon call are the flags and the cache, in this order.           *)
elf_load(h) ==
  LET lo == Floor(h.vaddr)
      n == Ceil(h.memsz + (h.vaddr - lo))
      cache == VMM_FLAG_FIXED + VMM_FLAG_ANON_ZERO
      flags == VMM_CACHE_STANDARD
      base == map_common(lo, n, flags)
      s == Segment(base, n, h.prot, cache, "ANON", 0)
      copied == h.filesz = 0 \/ memory_exists(segs \cup {s}, h.vaddr, h.filesz)
  IN
  /\ h \in todo /\ ~halted
  /\ IF h.filesz > h.memsz \/ base = 0 \/ ~copied THEN Panic
     ELSE /\ AddSegment(s, flags, PagesOf(h.vaddr, h.filesz))
          /\ todo' = todo \ {h}
          /\ UNCHANGED <<loaded, halted>>

(* arch_sched_stack_setup: a stack and, in its last page, the arguments.   *)
arch_sched_stack_setup ==
  LET base == map_common(0, STACK, VMM_CACHE_STANDARD)
      s == Segment(base, STACK, "RW", VMM_FLAG_NONE, "ANON", 0)
  IN
  /\ todo = {} /\ ~loaded /\ ~halted
  /\ IF base = 0 THEN Panic
     ELSE /\ AddSegment(s, VMM_CACHE_STANDARD, PagesOf(base + STACK - PAGE, PAGE))
          /\ loaded' = TRUE
          /\ UNCHANGED <<todo, halted>>

-----------------------------------------------------------------------------
(* What the program does.                                                  *)

(* The new memory is cleared through the program's own addresses, which    *)
(* faults every page in; NULL is not a place to clear.                     *)
syscall_mem_anon_allocate(n) ==
  LET base == map_common(0, n, VMM_CACHE_STANDARD)
      s == Segment(base, n, "RW", VMM_FLAG_NONE, "ANON", 0)
  IN
  /\ loaded /\ ~halted
  /\ n % PAGE = 0
  /\ IF base = 0 THEN Panic
     ELSE /\ AddSegment(s, VMM_CACHE_STANDARD, PagesOf(base, n))
          /\ UNCHANGED <<todo, loaded, halted>>

(* term_close, then the framebuffer at an address of the kernel's choice;  *)
(* its geometry goes where the program says, here to one byte, if it can.  *)
syscall_elib_framebuffer(out) ==
  LET n == Ceil(Framebuffer.size)
      flags == VMM_CACHE_WRITE_COMBINE
      base == map_common(0, n, flags)
      s == Segment(base, n, "RW", VMM_FLAG_NONE, "DIRECT", Framebuffer.phys)
      copied == IF memory_exists(segs \cup {s}, out, 1) THEN PagesOf(out, 1) ELSE {}
  IN
  /\ loaded /\ ~halted
  /\ IF base = 0 THEN NoSpace ELSE AddSegment(s, flags, copied)
  /\ UNCHANGED <<todo, loaded, halted>>

(* vmm_unmap: what lies in [lo, hi) goes, what lies before keeps the old   *)
(* record, what lies after gets a new one: its cache field is not set.     *)
Before(s, lo) == IF s.base < lo THEN {[s EXCEPT !.length = lo - s.base]} ELSE {}
After(s, hi, cache) ==
  IF EndOf(s) > hi
  THEN {[s EXCEPT !.base = hi, !.length = EndOf(s) - hi, !.cache = cache]} ELSE {}

(* No split goes beyond the range, however much of the segment is left.    *)
SplitEnd_Bug(lo, n) ==
  LET ends == {lo + n} \cup {EndOf(s) : s \in {x \in segs : SEGMENT_INTERSECTS(lo, n, x)}}
  IN CHOOSE e \in ends : \A f \in ends : f <= e
SplitEnd(lo, n) == lo + n

(* Records: the last piece's is taken after those of the segments before   *)
(* the last are given back, and before its own is.                         *)
syscall_mem_anon_free(lo, n) ==
  LET hi == SplitEnd(lo, n)
      hit == {s \in segs : SEGMENT_INTERSECTS(lo, n, s)}
      last == {s \in hit : EndOf(s) > hi}
      back == {s \in hit : s.base >= lo}
      early == pool + Cardinality(back \ last)
  IN
  /\ loaded /\ ~halted
  /\ lo # 0 /\ lo % PAGE = 0 /\ n % PAGE = 0
  /\ IF ~SEGMENT_IN_BOUNDS(lo, n) THEN Panic
     ELSE /\ \E cache \in IF last = {} THEN {0} ELSE Garbage :
               segs' = (segs \ hit) \cup UNION {Before(s, lo) \cup After(s, hi, cache) : s \in hit}
          /\ pt' = Cleared(lo, hi)
          /\ IF last = {} THEN pool' = early /\ UNCHANGED kpages
             ELSE /\ pool' = (Refill(early) - 1) + Cardinality(back \cap last)
                  /\ kpages' = kpages + Pages(early)
          /\ UNCHANGED <<todo, loaded, halted>>

(* The page fault handler: the program used a page that is not present.    *)
(* (A fault on a page that is present is the program's error: a panic.)    *)
x86_64_vmm_page_fault_handler(p) ==
  /\ loaded /\ ~halted
  /\ pt[p] = None
  /\ IF addr_to_segment(p * PAGE) = {} THEN Panic
     ELSE pt' = Used(segs, {p}) /\ UNCHANGED <<segs, pool, kpages, todo, loaded, halted>>

(* vmm_copy_to and vmm_copy_from, for syscall_buffer_out and _in: nothing  *)
(* or everything.                                                          *)
vmm_copy(a, n) ==
  /\ loaded /\ ~halted
  /\ UNCHANGED <<segs, pool, kpages, todo, loaded, halted>>
  /\ memory_exists(segs, a, n)
  /\ pt' = Used(segs, PagesOf(a, n))

Next ==
  \/ \E h \in Headers : elf_load(h)
  \/ arch_sched_stack_setup
  \/ \E n \in Lengths : syscall_mem_anon_allocate(n)
  \/ \E p \in Page : syscall_elib_framebuffer(p * PAGE)
  \/ \E lo \in START .. END, n \in Lengths : syscall_mem_anon_free(lo, n)
  \/ \E p \in Page : x86_64_vmm_page_fault_handler(p)
  \/ \E a \in START .. END, n \in Lengths : vmm_copy(a, n)

Spec == Init /\ [][Next]_vars

-----------------------------------------------------------------------------
(* Properties                                                              *)

TypeOK ==
  /\ \A s \in segs : IsSegment(s)
  /\ IsFiniteSet(segs)
  /\ DOMAIN pt = Page
  /\ pool \in Nat /\ kpages \in Nat
  /\ todo \subseteq Headers /\ loaded \in BOOLEAN /\ halted \in BOOLEAN

(* However mappings and unmappings follow each other, segments are whole   *)
(* pages inside the address space and do not overlap.                      *)
SegmentsApart ==
  /\ \A s \in segs : /\ SEGMENT_IN_BOUNDS(s.base, s.length)
                      /\ s.length > 0 /\ s.base % PAGE = 0 /\ s.length % PAGE = 0
  /\ \A s, t \in segs : s # t => ~SEGMENT_INTERSECTS(s.base, s.length, t)

(* No translation outlives its segment, and each grants what its segment   *)
(* does: unmapping clears every page it takes away.                        *)
EntriesCovered ==
  \A p \in Page : pt[p] # None =>
    \E s \in segs : Covers(s, p * PAGE) /\ pt[p].type = s.type /\ pt[p].prot = s.prot

(* Segment records are neither lost nor given back twice, on the error     *)
(* path either: each is in a list of segments or in the free list, or      *)
(* describes the page it lies in.                                          *)
RecordsAccounted == pool + Cardinality(segs) + kpages = kpages * RECORDS

(* What the program has stored in a page stays there until it unmaps it:   *)
(* no fault and no copy replaces the frame under a present page.           *)
FramesStay ==
  [][\A p \in Page : pt[p] # None => pt'[p] \in {pt[p], None}]_vars

Backed(p) == {s \in segs : Covers(s, p * PAGE)}

(* The address space seen from outside: type and protection of every page. *)
Coarse == INSTANCE AddressSpace WITH
  Nothing <- None,
  backing <- [p \in Page |-> IF Backed(p) = {} THEN None
                             ELSE LET s == CHOOSE s \in Backed(p) : TRUE
                                  IN [type |-> s.type, prot |-> s.prot]],
  resident <- {p \in Page : pt[p] # None}

Faulted(S) == {p \in Page : pt'[p] # None} = {p \in Page : pt[p] # None} \cup S

(* n bytes from the page a on are mapped, and pages S of them used.        *)
Maps(a, n, S) ==
  /\ a % PAGE = 0 /\ SEGMENT_IN_BOUNDS(a, n)
  /\ Faulted(S)
  /\ Coarse!Map(PagesOf(a, n))

(* What each call does to the address space, with its own arguments, where *)
(* it does not panic; the kernel chooses the place of a mapping only.      *)
CallsMatch ==
  /\ \A h \in Headers : elf_load(h) /\ ~halted' =>
       \E a \in START .. END :
         Maps(a, Ceil(h.memsz + (h.vaddr - Floor(h.vaddr))), PagesOf(h.vaddr, h.filesz))
  /\ arch_sched_stack_setup /\ ~halted' =>
       \E a \in START .. END : Maps(a, STACK, PagesOf(a + STACK - PAGE, PAGE))
  /\ \A n \in Lengths : syscall_mem_anon_allocate(n) /\ ~halted' =>
       \E a \in START .. END : Maps(a, n, PagesOf(a, n))
  /\ \A q \in Page : syscall_elib_framebuffer(q * PAGE) =>
       \/ UNCHANGED Coarse!absVars
       \/ \E a \in START .. END : \E S \in {{}, {q}} : Maps(a, Ceil(Framebuffer.size), S)
  /\ \A lo \in START .. END, n \in Lengths : syscall_mem_anon_free(lo, n) /\ ~halted' =>
       Coarse!Unmap(PagesOf(lo, n))
  /\ \A p \in Page : x86_64_vmm_page_fault_handler(p) /\ ~halted' =>
       Faulted({p}) /\ Coarse!Touch
  /\ \A a \in START .. END, n \in Lengths : vmm_copy(a, n) =>
       Faulted(PagesOf(a, n)) /\ Coarse!Touch

(* Mapping, unmapping, faulting and copying change the pages they are      *)
(* asked to change and no other (memory/vmm.c): the page behind a range    *)
(* being unmapped stays mapped, though it is of the same segment.          *)
ImplementsAddressSpace == Coarse!AbsSpec /\ [][CallsMatch]_vars

(* vmm_map_anon puts a mapping at the first free place from the hint on,   *)
(* whatever the order of the segment list.                                 *)
FirstFit ==
  \A hint \in 0 .. END, n \in Lengths :
    find_space_loop(Ceil(hint), n) = {find_space(Ceil(hint), n)}

(* memory_exists says yes exactly when every byte of the range is mapped:  *)
(* vmm_copy_to never stops half way.                                       *)
RangeCheckExact ==
  \A a \in START - 1 .. END : \A n \in 0 .. END - a :
    memory_exists_loop(segs, a, n) = IF memory_exists(segs, a, n) THEN {TRUE} ELSE {FALSE}

(* Both searches of the list (memory/vmm.c) find what its segments say, in *)
(* any order.                                                              *)
SearchesExact == FirstFit /\ RangeCheckExact

(* Segments and page tables describe one address space (memory/vmm.c).     *)
SpaceSound == TypeOK /\ SegmentsApart /\ EntriesCovered
================================================================================
