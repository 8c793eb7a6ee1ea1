---------------------------------- MODULE Pmm ----------------------------------
(***************************************************************************)
(* The physical memory allocator of memory/pmm.c: binary buddies in        *)
(* regions of a zone.  The free lists are changed under the lock of the    *)
(* zone; the flags of a page and the free count are not.  The kernel calls *)
(* pmm_alloc from every CPU and pmm_free, so far, from none (vmm.c:73      *)
(* leaves it for later): Spec lets every CPU call both at any time,        *)
(* QuietSpec those that free only while no other CPU is in the allocator.  *)
(***************************************************************************)
EXTENDS Integers, FiniteSets, FiniteSetsExt

CONSTANTS
  Cpu,
  PMM_MAX_ORDER,
  PAGE,           \* ARCH_PAGE_SIZE
  REGION,         \* sizeof(pmm_region_t)
  RECORD,         \* sizeof(pmm_page_t)
  Zone,           \* the zones: name -> [start, end], in pages
  Standard,       \* PMM_ZONE_NORMAL, the zone every caller asks for
  Memory,         \* the usable memory map: a set of [base, size], in pages
  Orders,         \* the orders callers ask for, bound
  None

ASSUME PmmAssumption ==
  /\ None \notin [page : Nat, order : Nat]
  /\ PMM_MAX_ORDER \in Nat /\ Orders \subseteq 0 .. PMM_MAX_ORDER
  /\ REGION \in Nat \ {0} /\ RECORD \in Nat /\ PAGE \in Nat /\ REGION + RECORD <= PAGE
  /\ \A z \in DOMAIN Zone :
       Zone[z].start \in Nat /\ Zone[z].end \in Nat /\ Zone[z].start < Zone[z].end
  /\ Standard \in DOMAIN Zone

(* The usable entries of the boot loader's memory map are not empty and do *)
(* not overlap.                                                            *)
ASSUME MemoryAssumption ==
  /\ \A m \in Memory : m.base \in Nat /\ m.size \in Nat \ {0}
  /\ \A m, n \in Memory :
       m # n => m.base + m.size <= n.base \/ n.base + n.size <= m.base

VARIABLES
  lists,          \* the free lists of the zone, by order: sets of pages
  order, free,    \* fields of the page records
  free_count,     \* of the zone
  lock,           \* of the zone: its holder, or None
  pc,             \* what each CPU does
  page,           \* the block each CPU works on
  tmp,            \* the free count a CPU has read
  held            \* the blocks callers own: [page, order]

vars == <<lists, order, free, free_count, lock, pc, page, tmp, held>>

CeilDiv(a, b) == (a + b - 1) \div b

Shifted[o \in Nat] == IF o = 0 THEN 1 ELSE 2 * Shifted[o - 1]
order_to_pagecount(o) == Shifted[o]

(* The least order that holds n pages.                                     *)
pagecount_to_order(n) ==
  CHOOSE o \in 0 .. n : /\ order_to_pagecount(o) >= n
                        /\ o = 0 \/ order_to_pagecount(o - 1) < n

-----------------------------------------------------------------------------
(* pmm_region_add, for each entry of the memory map, at boot.              *)

(* The part of a memory map entry inside a zone.                           *)
Clip(m, z) ==
  LET base == IF m.base < z.start THEN z.start ELSE m.base
      end == IF m.base + m.size > z.end THEN z.end ELSE m.base + m.size
  IN [base |-> base, page_count |-> end - base]
Regions ==
  {Clip(m, Zone[Standard]) : m \in
     {m \in Memory : m.base + m.size > Zone[Standard].start /\ m.base < Zone[Standard].end}}

(* The first pages of a region hold its own records.                       *)
used_pages(r) == CeilDiv(REGION + RECORD * r.page_count, PAGE)
data_base(r) == r.base + used_pages(r)
region_end(r) == r.base + r.page_count
DataOf(r) == data_base(r) .. region_end(r) - 1

Page == UNION {r.base .. region_end(r) - 1 : r \in Regions}
RegionOf(p) == CHOOSE r \in Regions : r.base <= p /\ p < region_end(r)

(* The order of the next block when n pages are left.                      *)
FirstOrder(n) ==
  LET o == pagecount_to_order(n)
      fit == IF order_to_pagecount(o) = n THEN o ELSE o - 1
  IN IF fit > PMM_MAX_ORDER THEN PMM_MAX_ORDER ELSE fit

(* The blocks n pages are cut into, each as <<pages left, order>>.         *)
Cuts(pages) ==
  LET cuts[n \in 0 .. pages] ==
        IF n = 0 THEN {}
        ELSE {<<n, FirstOrder(n)>>} \cup cuts[n - order_to_pagecount(FirstOrder(n))]
  IN  cuts[pages]

InitialBlocks ==
  UNION {{[page |-> region_end(r) - c[1], order |-> c[2]] :
            c \in Cuts(r.page_count - used_pages(r))} : r \in Regions}

Init ==
  /\ lists = [o \in 0 .. PMM_MAX_ORDER |-> {b.page : b \in {x \in InitialBlocks : x.order = o}}]
  /\ order = [p \in Page |-> IF \E b \in InitialBlocks : b.page = p
                             THEN (CHOOSE b \in InitialBlocks : b.page = p).order ELSE 0]
  /\ free = [p \in Page |-> \E r \in Regions : p \in DataOf(r)]
  /\ free_count = Cardinality(UNION {DataOf(r) : r \in Regions})
  /\ lock = None
  /\ pc = [c \in Cpu |-> "idle"]
  /\ page = [c \in Cpu |-> None]
  /\ tmp = [c \in Cpu |-> 0]
  /\ held = {}

Goto(c, label) == pc' = [pc EXCEPT ![c] = label]

-----------------------------------------------------------------------------
(* pmm_alloc.                                                              *)

(* A block of order avl is halved down to order o; the second halves, by   *)
(* their orders, become free blocks.                                       *)
Halves(p, avl, o) == [j \in o .. avl - 1 |-> p + order_to_pagecount(j)]

(* The critical section.  Without a block the assertion stops this CPU,    *)
(* which keeps the lock.                                                   *)
pmm_alloc(c, o) ==
  LET orders == {a \in o .. PMM_MAX_ORDER : lists[a] # {}} IN
  /\ pc[c] = "idle" /\ lock = None
  /\ IF orders = {}
     THEN /\ lock' = c
          /\ Goto(c, "halted")
          /\ UNCHANGED <<lists, order, page>>
     ELSE LET avl == Min(orders) IN
          \E p \in lists[avl] :
            LET h == Halves(p, avl, o) IN
            /\ lists' = [a \in DOMAIN lists |->
                           (lists[a] \ (IF a = avl THEN {p} ELSE {}))
                           \cup (IF a \in DOMAIN h THEN {h[a]} ELSE {})]
            /\ order' = [q \in Page |-> IF \E a \in DOMAIN h : h[a] = q
                                        THEN CHOOSE a \in DOMAIN h : h[a] = q ELSE order[q]]
            /\ page' = [page EXCEPT ![c] = [page |-> p, order |-> o]]
            /\ Goto(c, "mark")
            /\ UNCHANGED lock
  /\ UNCHANGED <<free, free_count, tmp, held>>

(* After the lock is released: the flags ...                               *)
AllocMark(c) ==
  /\ pc[c] = "mark"
  /\ order' = [order EXCEPT ![page[c].page] = page[c].order]
  /\ free' = [free EXCEPT ![page[c].page] = FALSE]
  /\ Goto(c, "load")
  /\ UNCHANGED <<lists, free_count, lock, page, tmp, held>>

(* ... and the count, read and written.                                    *)
AllocLoad(c) ==
  /\ pc[c] = "load"
  /\ tmp' = [tmp EXCEPT ![c] = free_count]
  /\ Goto(c, "store")
  /\ UNCHANGED <<lists, order, free, free_count, lock, page, held>>

Left_Bug(c) == tmp[c] - order_to_pagecount(page[c].order + 1)
Left(c) == tmp[c] - order_to_pagecount(page[c].order)
AllocStore(c) ==
  /\ pc[c] = "store"
  /\ free_count' = Left(c)
  /\ held' = held \cup {page[c]}
  /\ page' = [page EXCEPT ![c] = None]
  /\ tmp' = [tmp EXCEPT ![c] = 0]
  /\ Goto(c, "idle")
  /\ UNCHANGED <<lists, order, free, lock>>

-----------------------------------------------------------------------------
(* pmm_free.                                                               *)

(* Before the lock is taken: the flag and the count.                       *)
pmm_free(c, b) ==
  /\ pc[c] = "idle" /\ b \in held
  /\ free' = [free EXCEPT ![b.page] = TRUE]
  /\ held' = held \ {b}
  /\ page' = [page EXCEPT ![c] = b]
  /\ Goto(c, "free_load")
  /\ UNCHANGED <<lists, order, free_count, lock, tmp>>

FreeLoad(c) ==
  /\ pc[c] = "free_load"
  /\ tmp' = [tmp EXCEPT ![c] = free_count]
  /\ Goto(c, "free_store")
  /\ UNCHANGED <<lists, order, free, free_count, lock, page, held>>

FreeStore(c) ==
  /\ pc[c] = "free_store"
  /\ free_count' = tmp[c] + order_to_pagecount(order[page[c].page])
  /\ tmp' = [tmp EXCEPT ![c] = 0]
  /\ Goto(c, "acquire")
  /\ UNCHANGED <<lists, order, free, lock, page, held>>

FreeAcquire(c) ==
  /\ pc[c] = "acquire" /\ lock = None
  /\ lock' = c
  /\ Goto(c, "merge")
  /\ UNCHANGED <<lists, order, free, free_count, page, tmp, held>>

(* The block that together with the one at p makes one of the next order.  *)
BuddyOf_Bug(p) == p + order_to_pagecount(order[p])
BuddyOf(p) ==
  LET base == data_base(RegionOf(p))
      size == order_to_pagecount(order[p])
  IN IF ((p - base) \div size) % 2 = 0 THEN p + size ELSE p - size

(* What the buddy's own flags say.                                         *)
MayMerge_Bug(p) ==
  /\ order[p] < PMM_MAX_ORDER
  /\ BuddyOf(p) < region_end(RegionOf(p))
  /\ free[BuddyOf(p)]
MayMerge(p) ==
  /\ order[p] < PMM_MAX_ORDER
  /\ BuddyOf(p) < region_end(RegionOf(p))
  /\ free[BuddyOf(p)] /\ order[BuddyOf(p)] = order[p]

(* One turn of the loop.                                                   *)
FreeMerge(c) ==
  LET p == page[c].page
      buddy == BuddyOf(p)
  IN
  /\ pc[c] = "merge" /\ MayMerge(p)
  /\ lists' = [lists EXCEPT ![order[buddy]] = @ \ {buddy}]
  /\ order' = [order EXCEPT ![buddy] = @ + 1, ![p] = @ + 1]
  /\ page' = [page EXCEPT ![c].page = IF buddy < p THEN buddy ELSE p,
                          ![c].order = order[p] + 1]
  /\ UNCHANGED <<free, free_count, lock, pc, tmp, held>>

FreeAppend(c) ==
  LET p == page[c].page IN
  /\ pc[c] = "merge" /\ ~MayMerge(p)
  /\ lists' = [lists EXCEPT ![order[p]] = @ \cup {p}]
  /\ page' = [page EXCEPT ![c] = None]
  /\ lock' = None
  /\ Goto(c, "idle")
  /\ UNCHANGED <<order, free, free_count, tmp, held>>

-----------------------------------------------------------------------------
Next ==
  \E c \in Cpu :
    \/ \E o \in Orders : pmm_alloc(c, o)
    \/ AllocMark(c) \/ AllocLoad(c) \/ AllocStore(c)
    \/ \E b \in held : pmm_free(c, b)
    \/ FreeLoad(c) \/ FreeStore(c) \/ FreeAcquire(c) \/ FreeMerge(c) \/ FreeAppend(c)

Spec == Init /\ [][Next]_vars

(* A CPU frees only while the others are not in the allocator; they may    *)
(* all allocate at once.  The kernel as it is, which frees nothing, is     *)
(* part of this.                                                           *)
FreesAlone ==
  \A c, d \in Cpu :
    c # d /\ pc[c] \in {"free_load", "free_store", "acquire", "merge"}
      => pc[d] \in {"idle", "halted"}
QuietSpec == Init /\ [][Next /\ FreesAlone']_vars

-----------------------------------------------------------------------------
(* Properties                                                              *)

IsBlock(b) == b.page \in Page /\ b.order \in 0 .. PMM_MAX_ORDER

TypeOK ==
  /\ DOMAIN lists = 0 .. PMM_MAX_ORDER /\ \A o \in DOMAIN lists : lists[o] \subseteq Page
  /\ order \in [Page -> 0 .. PMM_MAX_ORDER]
  /\ free \in [Page -> BOOLEAN]
  /\ free_count \in Nat
  /\ lock \in Cpu \cup {None}
  /\ \A c \in Cpu : page[c] = None \/ IsBlock(page[c])
  /\ \A b \in held : IsBlock(b)

Listed == UNION {{[page |-> p, order |-> o] : p \in lists[o]} : o \in DOMAIN lists}
InFlight == {page[c] : c \in {x \in Cpu : page[x] # None}}
PagesOf(b) == b.page .. b.page + order_to_pagecount(b.order) - 1

(* Free blocks, blocks callers own and blocks a CPU is working on never    *)
(* share a page, and together are all the memory there is: the stale flags *)
(* inside larger blocks never make pmm_free merge what is not free.        *)
PagesTile ==
  LET Blocks == Listed \cup InFlight \cup held IN
  /\ UNION {PagesOf(b) : b \in Blocks} = UNION {DataOf(r) : r \in Regions}
  /\ \A a, b \in Blocks : a # b => PagesOf(a) \cap PagesOf(b) = {}
  /\ Listed \cap InFlight = {} /\ Listed \cap held = {} /\ InFlight \cap held = {}

(* A free block of less than the largest order never lies beside its free  *)
(* buddy: memory given back can be had again in large blocks.              *)
BuddiesMerged ==
  \A b \in Listed :
    b.order < PMM_MAX_ORDER =>
      LET buddy == [b EXCEPT !.page = BuddyOf(b.page)] IN buddy \notin Listed

(* The count is taken down in two steps, outside the lock, so two CPUs that *)
(* allocate at once can lose an update (pmm.c:112).  What is left of it is *)
(* a bound: at every step, the blocks in the lists have no more pages than *)
(* the count says.                                                         *)
CountNeverLow == Cardinality(UNION {PagesOf(b) : b \in Listed}) <= free_count

(* pmm.h:34: the list element of a page is used by the allocator while the *)
(* page is unallocated, and reserved for its owner once it is.             *)
ReservedForOwner == \A a \in Listed, b \in held : PagesOf(a) \cap PagesOf(b) = {}

(* The blocks are of the orders there are and tile the memory (pmm.c).     *)
BlocksSound == TypeOK /\ PagesTile
================================================================================
