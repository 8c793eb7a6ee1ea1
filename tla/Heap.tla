--------------------------------- MODULE Heap ---------------------------------
(***************************************************************************)
(* The kernel heap of memory/heap.c.  Allocation and freeing hold g_lock   *)
(* from beginning to end, so each call is one step, whichever CPU makes it.*)
(***************************************************************************)
EXTENDS Integers, Sequences, FiniteSets

CONSTANTS
  BASE,           \* where vmm_map_anon put the heap
  SIZE,           \* its size
  HEADER,         \* sizeof(heap_entry_t)
  MIN_ENTRY_SIZE,
  Requests        \* the sizes and alignments callers ask for, bound

ASSUME HeapAssumption ==
  /\ BASE \in Nat /\ HEADER \in Nat \ {0} /\ MIN_ENTRY_SIZE \in Nat \ {0}
  /\ SIZE \in Nat /\ SIZE > HEADER
  /\ Requests \subseteq [size : Nat \ {0}, alignment : Nat \ {0}]

VARIABLES
  entries,        \* g_entries: the list of entries, their headers as records
  live,           \* what callers hold: [address, size, alignment] of each block
  refused         \* the size of the request that ended in a panic, or 0

vars == <<entries, live, refused>>

(* prot is the checksum's complement: the sum it was last computed from.   *)
Entry == [at : Nat, size : Nat, free : BOOLEAN, prot : Nat]
Block == [address : Nat, size : Nat, alignment : Nat]

update_prot(e) == [e EXCEPT !.prot = e.at + e.size]
get_prot(e) == e.prot - (e.at + e.size)
Unsealed(at, size, free) == [at |-> at, size |-> size, free |-> free, prot |-> 0]

Data(e) == e.at + HEADER
EndOf(e) == e.at + HEADER + e.size

(* The list with its elements i to j replaced.                             *)
Splice(i, j, new) == SubSeq(entries, 1, i - 1) \o new \o SubSeq(entries, j + 1, Len(entries))

-----------------------------------------------------------------------------
(* Allocation.                                                             *)

(* How much of e may be left in front of a block: nothing, or an entry.    *)
Offsets_Bug(e, alignment) == {o \in 0 .. e.size : (e.at + o) % alignment = 0}
Offsets(e, alignment) ==
  {o \in 0 .. e.size : (Data(e) + o) % alignment = 0 /\ (o = 0 \/ o >= HEADER + MIN_ENTRY_SIZE)}
Fits(e, r) == \E o \in Offsets(e, r.alignment) : e.size >= o + r.size
Offset(e, alignment) ==
  CHOOSE o \in Offsets(e, alignment) : \A p \in Offsets(e, alignment) : o <= p

(* What is in front of the block becomes an entry; the block's is new.     *)
Front(e, o) ==
  IF o = 0 THEN <<>> ELSE <<update_prot([e EXCEPT !.size = o - HEADER])>>
Body(e, o) ==
  IF o = 0 THEN e ELSE update_prot(Unsealed(e.at + o, e.size - o, TRUE))

(* What is behind it becomes one too if there is room for a header and     *)
(* more than the least data.                                               *)
HasOverflow(room, n) == room - n > HEADER + MIN_ENTRY_SIZE
Cut(b, n) ==
  LET used == [b EXCEPT !.free = FALSE] IN
  IF HasOverflow(b.size, n)
  THEN <<update_prot([used EXCEPT !.size = n]),
         update_prot(Unsealed(Data(b) + n, b.size - n - HEADER, TRUE))>>
  ELSE <<used>>

(* The first free entry in which the block fits.  The checksum of every    *)
(* free entry looked at is asserted: a bad one stops the kernel.           *)
heap_alloc_align(r) ==
  LET fits == {i \in DOMAIN entries : entries[i].free /\ Fits(entries[i], r)}
      seen == {i \in DOMAIN entries : entries[i].free /\ \A j \in fits : i <= j}
  IN
  /\ refused = 0
  /\ \A i \in seen : get_prot(entries[i]) = 0
  /\ IF fits = {}
     THEN refused' = r.size /\ UNCHANGED <<entries, live>>
     ELSE \E i \in fits \cap seen :
            LET e == entries[i]
                o == Offset(e, r.alignment)
            IN /\ entries' = Splice(i, i, Front(e, o) \o Cut(Body(e, o), r.size))
               /\ live' = live \cup {[address |-> Data(e) + o, size |-> r.size,
                                      alignment |-> r.alignment]}
               /\ UNCHANGED refused

-----------------------------------------------------------------------------
(* Freeing.                                                                *)

MergesNext_Bug(i) == i < Len(entries)
MergesNext(i) == i < Len(entries) /\ entries[i + 1].free
MergesPrevious_Bug(i) == FALSE
MergesPrevious(i) == i > 1 /\ entries[i - 1].free

(* b takes over the header and the data of the entry behind it.            *)
Joined_Bug(e, next) == update_prot([e EXCEPT !.size = e.size + next.size])
Joined(e, next) == update_prot([e EXCEPT !.size = e.size + HEADER + next.size])

heap_free(b) ==
  /\ refused = 0
  /\ \E i \in DOMAIN entries :
       LET first == IF MergesPrevious(i) THEN i - 1 ELSE i
           last == IF MergesNext(i) THEN i + 1 ELSE i
           own == [entries[i] EXCEPT !.free = TRUE]
           grown == IF last > i THEN Joined(own, entries[last]) ELSE own
           all == IF first < i THEN Joined(entries[first], grown) ELSE grown
       IN /\ Data(entries[i]) = b.address
          /\ get_prot(entries[i]) = 0
          /\ entries' = Splice(first, last, <<all>>)
  /\ live' = live \ {b}
  /\ UNCHANGED refused

-----------------------------------------------------------------------------
(* heap_initialize: one free entry.                                        *)
Init ==
  /\ entries = <<update_prot(Unsealed(BASE, SIZE - HEADER, TRUE))>>
  /\ live = {}
  /\ refused = 0

Next ==
  \/ \E r \in Requests : heap_alloc_align(r)
  \/ \E b \in live : heap_free(b)

Spec == Init /\ [][Next]_vars

-----------------------------------------------------------------------------
(* Properties                                                              *)

(* No size or address computed by unsigned subtraction wraps.              *)
TypeOK ==
  /\ entries \in Seq(Entry)
  /\ live \subseteq Block
  /\ refused \in Nat

(* The entries follow each other in the list as in memory, from the first  *)
(* byte of the heap to the last, without gap or overlap: splitting,        *)
(* aligning and merging lose and invent no byte.                           *)
EntriesTile ==
  /\ Len(entries) > 0
  /\ entries[1].at = BASE
  /\ EndOf(entries[Len(entries)]) = BASE + SIZE
  /\ \A i \in 1 .. Len(entries) - 1 : entries[i + 1].at = EndOf(entries[i])

(* The checksum assertions of heap.c never fail while callers keep to      *)
(* their blocks: whoever changes a size seals the header again.            *)
SealsValid == \A i \in DOMAIN entries : get_prot(entries[i]) = 0

(* heap_free merges with both neighbours, so free entries never touch and  *)
(* an empty heap is one entry again.                                       *)
FreeMerged ==
  /\ \A i \in 1 .. Len(entries) - 1 : ~(entries[i].free /\ entries[i + 1].free)
  /\ live = {} => Len(entries) = 1

(* Every block a caller holds has an entry of its own that is not free, is *)
(* aligned as asked and at least as large as asked.                        *)
BlocksServed ==
  /\ \A b \in live :
       /\ b.address % b.alignment = 0
       /\ \E i \in DOMAIN entries :
            /\ Data(entries[i]) = b.address /\ entries[i].size >= b.size
            /\ ~entries[i].free
  /\ \A b, c \in live : b.address = c.address => b = c
  /\ Cardinality(live) = Cardinality({i \in DOMAIN entries : ~entries[i].free})

(* A caller's block neither moves, shrinks nor grows by what others        *)
(* allocate and free around it.                                            *)
BlocksStay ==
  [][\A b \in live \cap live' : \A i \in DOMAIN entries :
       Data(entries[i]) = b.address =>
         \E j \in DOMAIN entries' : entries'[j] = entries[i]]_vars

(* heap_alloc panics only if no stretch of memory between the blocks in    *)
(* use could hold a header and the bytes asked for.                        *)
RefusedOnlyWhenFull ==
  refused > 0 /\ (\A r \in Requests : r.size = refused => r.alignment = 1) =>
    \A x \in BASE .. (BASE + SIZE) - (HEADER + refused) :
      \E i \in DOMAIN entries :
        /\ ~entries[i].free
        /\ entries[i].at < x + HEADER + refused /\ x < EndOf(entries[i])

(* The list is the memory: complete, sealed, and merged as far as it goes  *)
(* (heap.c:71-155).                                                        *)
HeapSound == TypeOK /\ EntriesTile /\ SealsValid /\ FreeMerged
================================================================================
