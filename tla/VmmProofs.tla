------------------------------- MODULE VmmProofs -------------------------------
(***************************************************************************)
(* Segments, page table and records of the user address space stay sound,  *)
(* and the address space does what AddressSpace promises, for every page   *)
(* size, every program file and every sequence of calls.                   *)
(***************************************************************************)
EXTENDS Vmm, Integers, FiniteSetTheorems, TLAPS

(* Whole pages inside the address space.                                   *)
Whole(base, n) ==
  /\ SEGMENT_IN_BOUNDS(base, n) /\ n > 0
  /\ base % PAGE = 0 /\ n % PAGE = 0

(* A set of segments as a list of vmm.c may hold it.                       *)
Sound(sg) ==
  /\ \A s \in sg : IsSegment(s) /\ Whole(s.base, s.length)
  /\ \A s, t \in sg : s # t => ~SEGMENT_INTERSECTS(s.base, s.length, t)

(* The page starts in one of the segments.                                 *)
InSome(sg, p) == \E s \in sg : Covers(s, p * PAGE)

IInv == TypeOK /\ SegmentsApart /\ EntriesCovered /\ RecordsAccounted

-----------------------------------------------------------------------------
(* Numbers                                                                 *)

(* What division and remainder are.                                        *)
LEMMA DivMod ==
  ASSUME NEW a \in Nat
  PROVE  /\ a \div PAGE \in Nat /\ a % PAGE \in 0 .. PAGE - 1
         /\ a = PAGE * (a \div PAGE) + (a % PAGE)
<1>1. a \div PAGE \in Nat
  BY VmmAssumption
<1>2. a % PAGE \in 0 .. PAGE - 1
  BY VmmAssumption
<1>3. a = PAGE * (a \div PAGE) + (a % PAGE)
  BY VmmAssumption
<1> QED
  BY <1>1, <1>2, <1>3

(* Pages begin at multiples of their size, and in the same order.          *)
LEMMA PageStarts ==
  /\ \A p \in Int : p * PAGE \in Int /\ (p * PAGE) % PAGE = 0 /\ (p * PAGE) \div PAGE = p
  /\ \A p, q \in Int : p < q <=> p * PAGE < q * PAGE
  /\ \A p \in Nat : p * PAGE \in Nat
  /\ \A p \in Int : (p + 1) * PAGE = p * PAGE + PAGE
<1>1. ASSUME NEW p \in Int
      PROVE  p * PAGE \in Int /\ (p * PAGE) % PAGE = 0
  BY VmmAssumption
<1>2. ASSUME NEW p \in Int
      PROVE  (p * PAGE) \div PAGE = p
  BY VmmAssumption
<1>3. ASSUME NEW p \in Int, NEW q \in Int
      PROVE  p < q <=> p * PAGE < q * PAGE
  BY VmmAssumption
<1>4. ASSUME NEW p \in Nat
      PROVE  p * PAGE \in Nat
  BY VmmAssumption
<1>5. ASSUME NEW p \in Int
      PROVE  (p + 1) * PAGE = p * PAGE + PAGE
  BY VmmAssumption
<1> QED
  BY <1>1, <1>2, <1>3, <1>4, <1>5

LEMMA Multiple ==
  ASSUME NEW a \in Nat, a % PAGE = 0
  PROVE  \E k \in Nat : a = k * PAGE
<1>1. /\ a \div PAGE \in Nat
      /\ a = PAGE * (a \div PAGE) + (a % PAGE)
  BY DivMod
<1>2. a = (a \div PAGE) * PAGE
  BY <1>1, VmmAssumption
<1> QED
  BY <1>1, <1>2

(* Multiples of the page size add and subtract.                            *)
LEMMA Multiples ==
  ASSUME NEW a \in Nat, NEW b \in Nat, a % PAGE = 0, b % PAGE = 0
  PROVE  (a + b) % PAGE = 0 /\ (a - b) % PAGE = 0
<1>1. PICK k \in Nat : a = k * PAGE
  BY Multiple
<1>2. PICK l \in Nat : b = l * PAGE
  BY Multiple
<1>3. a + b = (k + l) * PAGE /\ a - b = (k - l) * PAGE
  BY <1>1, <1>2, VmmAssumption
<1> QED
  BY <1>3, PageStarts

(* A multiple lies before a page's first byte, or behind its last.         *)
LEMMA PageEdge ==
  ASSUME NEW p \in Nat, NEW b \in Nat, b % PAGE = 0
  PROVE  /\ p * PAGE < b <=> (p + 1) * PAGE <= b
         /\ b < (p + 1) * PAGE <=> b <= p * PAGE
<1>1. PICK k \in Nat : b = k * PAGE
  BY Multiple
<1>2. \A q, r \in Int : q < r <=> q * PAGE < r * PAGE
  BY PageStarts
<1>3. \A q \in Nat : q * PAGE \in Nat
  BY PageStarts
<1>4. p * PAGE < b <=> p < k
  BY <1>1, <1>2
<1>5. (p + 1) * PAGE <= b <=> ~(k < p + 1)
  BY <1>1, <1>2, <1>3
<1>6. b < (p + 1) * PAGE <=> k < p + 1
  BY <1>1, <1>2
<1>7. b <= p * PAGE <=> ~(p < k)
  BY <1>1, <1>2, <1>3
<1> QED
  BY <1>4, <1>5, <1>6, <1>7

(* MATH_FLOOR and MATH_CEIL.                                               *)
LEMMA Rounding ==
  ASSUME NEW a \in Nat
  PROVE  /\ Floor(a) \in Nat /\ Floor(a) % PAGE = 0 /\ Floor(a) <= a
         /\ Ceil(a) \in Nat /\ Ceil(a) % PAGE = 0
<1>1. ASSUME NEW b \in Nat
      PROVE  Floor(b) \in Nat /\ Floor(b) % PAGE = 0
  BY DivMod, PageStarts DEF Floor
<1>2. Floor(a) <= a
  <2>1. /\ a \div PAGE \in Nat /\ a % PAGE \in Nat
        /\ a = PAGE * (a \div PAGE) + (a % PAGE)
    BY DivMod
  <2>2. (a \div PAGE) * PAGE = PAGE * (a \div PAGE) /\ PAGE * (a \div PAGE) \in Nat
    BY <2>1, VmmAssumption
  <2> QED
    BY <2>1, <2>2 DEF Floor
<1>3. a + PAGE - 1 \in Nat
  BY VmmAssumption
<1> QED
  BY <1>1, <1>2, <1>3 DEF Ceil

(* A set of numbers that is not empty has a least one, and a greatest one  *)
(* if it is bounded.                                                       *)
LEMMA Least ==
  ASSUME NEW T \in SUBSET Nat, T # {}
  PROVE  \E x \in T : \A y \in T : x <= y
<1> DEFINE R == {ss \in Nat \X Nat : ss[1] < ss[2]}
<1>1. OpToRel(<, Nat) = R
  BY DEF OpToRel
<1>2. \A x, y \in T : y < x => <<y, x>> \in R
  OBVIOUS
<1> HIDE DEF R
<1>3. IsWellFoundedOn(R, Nat)
  BY NatLessThanWellFounded, <1>1
<1>4. PICK x \in T : \A y \in T : <<y, x>> \notin R
  BY <1>3, WFMin
<1>5. \A y \in T : ~(y < x)
  BY <1>2, <1>4
<1> QED
  BY <1>5

LEMMA Greatest ==
  ASSUME NEW T \in SUBSET Nat, T # {}, NEW b \in Nat, \A y \in T : y <= b
  PROVE  \E x \in T : \A y \in T : y <= x
<1> DEFINE D == {b - y : y \in T}
<1>1. D \in SUBSET Nat /\ D # {}
  <2>1. \A y \in T : b - y \in Nat
    OBVIOUS
  <2> QED
    BY <2>1
<1>2. PICK d \in D : \A e \in D : d <= e
  BY <1>1, Least
<1>3. PICK x \in T : d = b - x
  BY <1>2
<1>4. \A y \in T : b - x <= b - y
  BY <1>2, <1>3
<1> QED
  BY <1>4

-----------------------------------------------------------------------------
(* Places                                                                  *)

LEMMA Bounds ==
  /\ PAGE \in Nat \ {0} /\ START \in Nat \ {0} /\ END \in Nat /\ START % PAGE = 0
  /\ Page \subseteq Nat
  /\ \A p \in Page : p * PAGE \in Nat /\ p * PAGE <= END /\ START <= p * PAGE
<1>1. /\ PAGE \in Nat \ {0} /\ START \in Nat \ {0} /\ END \in Nat /\ START % PAGE = 0
  BY VmmAssumption
<1>2. START \div PAGE \in Nat /\ END \div PAGE \in Nat
  BY <1>1, DivMod
<1>3. Page \subseteq Nat
  BY <1>2 DEF Page
<1>4. (START \div PAGE) * PAGE = START
  <2>1. PICK k \in Nat : START = k * PAGE
    BY <1>1, Multiple
  <2> QED
    BY <2>1, PageStarts
<1>5. (END \div PAGE) * PAGE <= END
  BY <1>1, Rounding DEF Floor
<1>6. ASSUME NEW p \in Page
      PROVE  p * PAGE \in Nat /\ p * PAGE <= END /\ START <= p * PAGE
  <2>1. p \in Nat /\ ~(END \div PAGE < p) /\ ~(p < START \div PAGE)
    BY <1>2 DEF Page
  <2>2. \A q \in Nat : q * PAGE \in Nat
    BY PageStarts
  <2>3. ~((END \div PAGE) * PAGE < p * PAGE) /\ ~(p * PAGE < (START \div PAGE) * PAGE)
    BY <1>2, <2>1, PageStarts
  <2> QED
    BY <1>1, <1>2, <1>4, <1>5, <2>1, <2>2, <2>3
<1> QED
  BY <1>1, <1>3, <1>6

(* The search ends: at the greatest stop nothing is in the way.  What it   *)
(* returns, if not null, is a place that is free.                          *)
LEMMA FindSpace ==
  ASSUME Sound(segs), NEW a0 \in Nat, a0 % PAGE = 0, NEW n \in Nat, n > 0
  PROVE  LET f == find_space(a0, n) IN
         f # 0 => /\ f \in Nat /\ f % PAGE = 0 /\ SEGMENT_IN_BOUNDS(f, n)
                  /\ \A s \in segs : ~SEGMENT_INTERSECTS(f, n, s)
<1> DEFINE a == IF SEGMENT_IN_BOUNDS(a0, n) THEN a0 ELSE START
           stops == {a} \cup {EndOf(s) : s \in {x \in segs : EndOf(x) >= a}}
           free == {x \in stops : \A s \in segs : ~SEGMENT_INTERSECTS(x, n, s)}
           first == CHOOSE x \in free : \A y \in free : x <= y
<1>1. a \in Nat /\ a % PAGE = 0 /\ a <= START + END
  BY Bounds DEF SEGMENT_IN_BOUNDS, ADDRESS_IN_BOUNDS
<1> HIDE DEF a
<1>2. \A s \in segs : /\ s.base \in Nat /\ s.length \in Nat /\ EndOf(s) \in Nat
                      /\ EndOf(s) <= END /\ EndOf(s) % PAGE = 0
  <2> SUFFICES ASSUME NEW s \in segs
               PROVE  /\ s.base \in Nat /\ s.length \in Nat /\ EndOf(s) \in Nat
                      /\ EndOf(s) <= END /\ EndOf(s) % PAGE = 0
    OBVIOUS
  <2>1. s.base \in Nat /\ s.length \in Nat /\ Whole(s.base, s.length)
    BY DEF Sound, IsSegment
  <2>2. s.base % PAGE = 0 /\ s.length % PAGE = 0 /\ s.base < END /\ END - s.base >= s.length
    BY <2>1 DEF Whole, SEGMENT_IN_BOUNDS, ADDRESS_IN_BOUNDS
  <2>3. (s.base + s.length) % PAGE = 0
    BY <2>1, <2>2, Multiples
  <2> QED
    BY <2>1, <2>2, <2>3, Bounds DEF EndOf
<1>3. stops \in SUBSET Nat /\ stops # {} /\ \A x \in stops : x <= START + END /\ x % PAGE = 0
  BY <1>1, <1>2, Bounds
<1>4. \E x \in stops : x \in free
  <2>1. PICK x \in stops : \A y \in stops : y <= x
    <3>1. START + END \in Nat
      BY Bounds
    <3> HIDE DEF stops
    <3> QED
      BY <1>3, <3>1, Greatest
  <2>2. ASSUME NEW s \in segs
        PROVE  ~SEGMENT_INTERSECTS(x, n, s)
    <3>1. EndOf(s) <= x
      BY <1>1, <1>2, <1>3, <2>1
    <3>2. ~(x < EndOf(s))
      BY <1>2, <1>3, <3>1
    <3> QED
      BY <3>2 DEF SEGMENT_INTERSECTS
  <2> QED
    BY <2>1, <2>2
<1>5. first \in free
  <2>1. free \in SUBSET Nat /\ free # {}
    BY <1>3, <1>4
  <2> QED
    BY <2>1, Least
<1>6. first \in Nat /\ first % PAGE = 0 /\ \A s \in segs : ~SEGMENT_INTERSECTS(first, n, s)
  BY <1>3, <1>5
<1>7. find_space(a0, n) = IF SEGMENT_IN_BOUNDS(first, n) THEN first ELSE 0
  BY DEF find_space, a
<1> HIDE DEF first
<1> QED
  BY <1>6, <1>7

(* What map_common finds is a place for a new segment.                     *)
LEMMA NewSegment ==
  ASSUME Sound(segs), NEW hint \in Nat, NEW n \in Nat, NEW flags,
         map_common(hint, n, flags) # 0,
         NEW prot \in {"RW", "RX"}, NEW cache \in Nat, NEW type \in {"ANON", "DIRECT"},
         NEW phys \in Nat
  PROVE  LET s == Segment(map_common(hint, n, flags), n, prot, cache, type, phys) IN
         /\ s \notin segs /\ Sound(segs \cup {s}) /\ IsSegment(s)
         /\ s.length = n /\ s.prot = prot /\ s.type = type
         /\ \A t \in segs : EndOf(t) <= s.base \/ EndOf(s) <= t.base
<1> DEFINE base == map_common(hint, n, flags)
           s == Segment(base, n, prot, cache, type, phys)
<1>1. base = find_space(Ceil(hint), n) /\ n # 0 /\ n % PAGE = 0
  BY DEF map_common
<1>2. /\ base \in Nat /\ base % PAGE = 0 /\ SEGMENT_IN_BOUNDS(base, n)
      /\ \A t \in segs : ~SEGMENT_INTERSECTS(base, n, t)
  BY <1>1, Rounding, FindSpace
<1> HIDE DEF base
<1>3. IsSegment(s) /\ s.base = base /\ s.length = n /\ s.prot = prot /\ s.type = type
  BY <1>2 DEF IsSegment, Segment
<1>4. Whole(s.base, s.length)
  BY <1>1, <1>2, <1>3 DEF Whole
<1>5. \A t \in segs : t.base \in Nat /\ t.length \in Nat /\ t.length > 0
  BY DEF Sound, IsSegment, Whole
<1>6. \A t \in segs : EndOf(t) <= s.base \/ EndOf(s) <= t.base
  BY <1>2, <1>3, <1>5 DEF SEGMENT_INTERSECTS, EndOf
<1>7. s \notin segs
  BY <1>1, <1>2, <1>3, <1>5, <1>6 DEF EndOf
<1>8. \A t \in segs : /\ ~SEGMENT_INTERSECTS(s.base, s.length, t)
                      /\ ~SEGMENT_INTERSECTS(t.base, t.length, s)
  BY <1>2, <1>3, <1>5, <1>6 DEF SEGMENT_INTERSECTS, EndOf
<1> HIDE DEF s
<1>9. Sound(segs \cup {s})
  BY <1>3, <1>4, <1>8 DEF Sound
<1> QED
  BY <1>3, <1>6, <1>7, <1>9 DEF s, base

-----------------------------------------------------------------------------
(* Pages                                                                   *)

(* A segment covers whole pages or nothing of them.                        *)
LEMMA CoversPages ==
  ASSUME NEW s, IsSegment(s), Whole(s.base, s.length), NEW p \in Page
  PROVE  /\ Covers(s, p * PAGE) <=> s.base <= p * PAGE /\ (p + 1) * PAGE <= EndOf(s)
         /\ \A x \in Nat : p * PAGE <= x /\ x < (p + 1) * PAGE =>
              (Covers(s, x) <=> Covers(s, p * PAGE))
         /\ p \in PagesOf(s.base, s.length) <=> Covers(s, p * PAGE)
<1>1. /\ s.base \in Nat /\ s.length \in Nat /\ s.length > 0 /\ EndOf(s) \in Nat
      /\ s.base % PAGE = 0 /\ s.length % PAGE = 0
  BY DEF IsSegment, Whole, EndOf
<1>2. EndOf(s) % PAGE = 0
  BY <1>1, Multiples DEF EndOf
<1>3. p \in Nat /\ p * PAGE \in Nat /\ (p + 1) * PAGE = p * PAGE + PAGE /\ PAGE \in Nat \ {0}
  BY Bounds, PageStarts
<1>4. /\ p * PAGE < EndOf(s) <=> (p + 1) * PAGE <= EndOf(s)
      /\ s.base < (p + 1) * PAGE <=> s.base <= p * PAGE
  BY <1>1, <1>2, <1>3, PageEdge
<1>5. Covers(s, p * PAGE) <=> s.base <= p * PAGE /\ (p + 1) * PAGE <= EndOf(s)
  BY <1>4 DEF Covers
<1>6. ASSUME NEW x \in Nat, p * PAGE <= x, x < (p + 1) * PAGE
      PROVE  Covers(s, x) <=> Covers(s, p * PAGE)
  BY <1>1, <1>3, <1>4, <1>6 DEF Covers
<1>7. p \in PagesOf(s.base, s.length) <=> Covers(s, p * PAGE)
  BY <1>1, <1>4 DEF PagesOf, Covers, EndOf
<1> QED
  BY <1>5, <1>6, <1>7

(* Where memory exists, every page that is touched is in a segment.        *)
LEMMA ExistingPages ==
  ASSUME NEW sg, Sound(sg), NEW a \in Nat, NEW n \in Nat, memory_exists(sg, a, n),
         NEW p \in PagesOf(a, n)
  PROVE  InSome(sg, p)
<1>1. /\ p \in Page /\ p \in Nat /\ n > 0 /\ p * PAGE \in Nat /\ p * PAGE < a + n
      /\ a < (p + 1) * PAGE
      /\ (p + 1) * PAGE = p * PAGE + PAGE /\ PAGE \in Nat \ {0}
  BY Bounds, PageStarts DEF PagesOf
<1> DEFINE x == IF a <= p * PAGE THEN p * PAGE ELSE a
<1>2. x \in a .. (a + n) - 1 /\ p * PAGE <= x /\ x < (p + 1) * PAGE /\ x \in Nat
  BY <1>1
<1> HIDE DEF x
<1>3. PICK s \in sg : Covers(s, x)
  BY <1>2 DEF memory_exists
<1>4. Covers(s, p * PAGE)
  BY <1>1, <1>2, <1>3, CoversPages DEF Sound
<1> QED
  BY <1>4 DEF InSome

(* A page table in which pages of segments have been used.                 *)
LEMMA UsedPages ==
  ASSUME NEW sg, NEW S \in SUBSET Page, DOMAIN pt = Page, \A p \in S : InSome(sg, p)
  PROVE  LET new == Used(sg, S) IN
         /\ DOMAIN new = Page
         /\ \A p \in Page :
              /\ pt[p] # None => new[p] = pt[p]
              /\ pt[p] = None /\ p \notin S => new[p] = None
              /\ pt[p] = None /\ p \in S =>
                   \E s \in sg : Covers(s, p * PAGE) /\ new[p].type = s.type
                                                     /\ new[p].prot = s.prot
<1> DEFINE new == Used(sg, S)
<1>1. DOMAIN new = Page
  BY DEF Used
<1>2. ASSUME NEW p \in Page
      PROVE  /\ pt[p] # None => new[p] = pt[p]
             /\ pt[p] = None /\ p \notin S => new[p] = None
             /\ pt[p] = None /\ p \in S =>
                  \E s \in sg : Covers(s, p * PAGE) /\ new[p].type = s.type
                                                    /\ new[p].prot = s.prot
  <2>1. CASE pt[p] = None /\ p \in S
    <3> DEFINE s == CHOOSE s \in sg : Covers(s, p * PAGE)
    <3>1. s \in sg /\ Covers(s, p * PAGE)
      BY <2>1 DEF InSome
    <3>2. new[p] = Entry(s, p)
      BY <2>1 DEF Used, Absent
    <3>3. Entry(s, p).type = s.type /\ Entry(s, p).prot = s.prot
      BY DEF Entry
    <3> HIDE DEF s
    <3> QED
      BY <2>1, <3>1, <3>2, <3>3
  <2>2. CASE ~(pt[p] = None /\ p \in S)
    BY <2>2 DEF Used, Absent
  <2> QED
    BY <2>1, <2>2
<1> QED
  BY <1>1, <1>2

-----------------------------------------------------------------------------
(* The steps                                                               *)

LEMMA Soundness ==
  TypeOK /\ SegmentsApart <=>
    /\ Sound(segs) /\ IsFiniteSet(segs) /\ DOMAIN pt = Page
    /\ pool \in Nat /\ kpages \in Nat
    /\ todo \subseteq Headers /\ loaded \in BOOLEAN /\ halted \in BOOLEAN
  BY DEF TypeOK, SegmentsApart, Sound, Whole

(* One more page of records is RECORDS more to account for.                *)
LEMMA OneMorePage ==
  ASSUME NEW k \in Nat
  PROVE  /\ k * RECORDS \in Nat
         /\ (k + 1) * RECORDS = k * RECORDS + RECORDS
  BY VmmAssumption

(* A segment is added, and pages of segments are used.                     *)
LEMMA AddStep ==
  ASSUME IInv, NEW s, s \notin segs, Sound(segs \cup {s}), NEW flags,
         NEW S \in SUBSET Page, \A p \in S : InSome(segs \cup {s}, p),
         AddSegment(s, flags, S),
         todo' \subseteq Headers, loaded' \in BOOLEAN, halted' \in BOOLEAN
  PROVE  IInv'
<1> DEFINE sg == segs \cup {s}
           eager == IF Has(flags, VMM_FLAG_NO_DEMAND) THEN PagesOf(s.base, s.length) ELSE {}
<1>1. /\ kpages' = kpages + Pages(pool) /\ pool' = Refill(pool) - 1
      /\ segs' = sg /\ pt' = Used(sg, eager \cup S)
  BY DEF AddSegment
<1>2. /\ Sound(segs) /\ IsFiniteSet(segs) /\ DOMAIN pt = Page /\ pool \in Nat /\ kpages \in Nat
      /\ EntriesCovered /\ RecordsAccounted
  BY Soundness DEF IInv
<1>3. \A p \in eager : p \in Page /\ InSome(sg, p)
  <2>1. IsSegment(s) /\ Whole(s.base, s.length)
    BY DEF Sound
  <2>2. \A p \in PagesOf(s.base, s.length) : p \in Page /\ Covers(s, p * PAGE)
    BY <2>1, CoversPages DEF PagesOf
  <2> QED
    BY <2>2 DEF InSome
<1> HIDE DEF eager
<1>4. /\ DOMAIN pt' = Page
      /\ \A p \in Page :
           /\ pt[p] # None => pt'[p] = pt[p]
           /\ pt[p] = None /\ p \notin eager \cup S => pt'[p] = None
           /\ pt[p] = None /\ p \in eager \cup S =>
                \E t \in sg : Covers(t, p * PAGE) /\ pt'[p].type = t.type
                                                  /\ pt'[p].prot = t.prot
  <2>1. eager \cup S \in SUBSET Page /\ \A p \in eager \cup S : InSome(sg, p)
    BY <1>3
  <2> HIDE DEF sg
  <2> QED
    BY <1>1, <1>2, <2>1, UsedPages
<1>5. EntriesCovered'
  <2> SUFFICES ASSUME NEW p \in Page, pt'[p] # None
               PROVE  \E t \in sg : /\ Covers(t, p * PAGE) /\ pt'[p].type = t.type
                                    /\ pt'[p].prot = t.prot
    BY <1>1 DEF EntriesCovered
  <2>1. CASE pt[p] # None
    BY <1>2, <1>4, <2>1 DEF EntriesCovered
  <2>2. CASE pt[p] = None
    BY <1>4, <2>2
  <2> QED
    BY <2>1, <2>2
<1>6. IsFiniteSet(segs') /\ Cardinality(segs') = Cardinality(segs) + 1 /\ Cardinality(segs) \in Nat
  BY <1>1, <1>2, FS_AddElement, FS_CardinalityType
<1>7. pool' \in Nat /\ kpages' \in Nat /\ RecordsAccounted'
  <2>1. CASE pool = 0
    <3>1. kpages' = kpages + 1 /\ pool' = RECORDS - 1 - 1
      BY <1>1, <2>1 DEF Refill, Pages
    <3>2. kpages' * RECORDS = kpages * RECORDS + RECORDS /\ kpages * RECORDS \in Nat
      BY <1>2, <3>1, OneMorePage
    <3>3. RECORDS \in Nat /\ RECORDS > 2
      BY VmmAssumption
    <3>4. pool + Cardinality(segs) + kpages = kpages * RECORDS
      BY <1>2 DEF RecordsAccounted
    <3>5. pool' + Cardinality(segs') + kpages' = kpages' * RECORDS
      BY <1>2, <1>6, <2>1, <3>1, <3>2, <3>3, <3>4
    <3> QED
      BY <1>2, <3>1, <3>3, <3>5 DEF RecordsAccounted
  <2>2. CASE pool # 0
    BY <1>1, <1>2, <1>6, <2>2, OneMorePage DEF Refill, Pages, RecordsAccounted
  <2> QED
    BY <2>1, <2>2
<1>8. TypeOK' /\ SegmentsApart'
  BY <1>1, <1>4, <1>6, <1>7, Soundness DEF TypeOK, SegmentsApart, Sound, Whole
<1> QED
  BY <1>5, <1>7, <1>8 DEF IInv

(* Pages of segments are used; nothing else changes.                       *)
LEMMA UseStep ==
  ASSUME IInv, NEW S \in SUBSET Page, \A p \in S : InSome(segs, p),
         pt' = Used(segs, S), UNCHANGED <<segs, pool, kpages>>,
         todo' \subseteq Headers, loaded' \in BOOLEAN, halted' \in BOOLEAN
  PROVE  IInv'
<1>1. /\ Sound(segs) /\ DOMAIN pt = Page /\ EntriesCovered /\ RecordsAccounted
  BY Soundness DEF IInv
<1>2. /\ DOMAIN pt' = Page
      /\ \A p \in Page :
           /\ pt[p] # None => pt'[p] = pt[p]
           /\ pt[p] = None /\ p \notin S => pt'[p] = None
           /\ pt[p] = None /\ p \in S =>
                \E t \in segs : Covers(t, p * PAGE) /\ pt'[p].type = t.type
                                                    /\ pt'[p].prot = t.prot
  BY <1>1, UsedPages
<1>3. EntriesCovered'
  <2> SUFFICES ASSUME NEW p \in Page, pt'[p] # None
               PROVE  \E t \in segs : /\ Covers(t, p * PAGE) /\ pt'[p].type = t.type
                                      /\ pt'[p].prot = t.prot
    BY DEF EntriesCovered
  <2>1. CASE pt[p] # None
    BY <1>1, <1>2, <2>1 DEF EntriesCovered
  <2>2. CASE pt[p] = None
    BY <1>2, <2>2
  <2> QED
    BY <2>1, <2>2
<1>4. TypeOK' /\ SegmentsApart' /\ RecordsAccounted'
  BY <1>1, <1>2 DEF IInv, TypeOK, SegmentsApart, RecordsAccounted
<1> QED
  BY <1>3, <1>4 DEF IInv

(* A record that could not be used goes back.                              *)
LEMMA NoSpaceStep ==
  ASSUME IInv, NoSpace, todo' \subseteq Headers, loaded' \in BOOLEAN, halted' \in BOOLEAN
  PROVE  IInv'
<1>1. /\ pool \in Nat /\ kpages \in Nat /\ Cardinality(segs) \in Nat
      /\ RecordsAccounted
  BY FS_CardinalityType DEF IInv, TypeOK
<1>2. /\ kpages' = kpages + Pages(pool) /\ pool' = (Refill(pool) - 1) + 1
      /\ UNCHANGED <<segs, pt>>
  BY DEF NoSpace, GiveBack
<1>3. pool' \in Nat /\ kpages' \in Nat /\ RecordsAccounted'
  <2>1. CASE pool = 0
    <3>1. kpages' = kpages + 1 /\ pool' = (RECORDS - 1 - 1) + 1 /\ segs' = segs
      BY <1>2, <2>1 DEF Refill, Pages
    <3>2. kpages' * RECORDS = kpages * RECORDS + RECORDS /\ kpages * RECORDS \in Nat
      BY <1>1, <3>1, OneMorePage
    <3>3. RECORDS \in Nat /\ RECORDS > 2
      BY VmmAssumption
    <3>4. pool + Cardinality(segs) + kpages = kpages * RECORDS
      BY <1>1 DEF RecordsAccounted
    <3>5. pool' + Cardinality(segs') + kpages' = kpages' * RECORDS
      BY <1>1, <2>1, <3>1, <3>2, <3>3, <3>4
    <3> QED
      BY <1>1, <3>1, <3>3, <3>5 DEF RecordsAccounted
  <2>2. CASE pool # 0
    BY <1>1, <1>2, <2>2, OneMorePage DEF Refill, Pages, RecordsAccounted
  <2> QED
    BY <2>1, <2>2
<1>4. TypeOK' /\ SegmentsApart' /\ EntriesCovered'
  BY <1>2, <1>3 DEF IInv, TypeOK, SegmentsApart, EntriesCovered
<1> QED
  BY <1>3, <1>4 DEF IInv

-----------------------------------------------------------------------------
(* Unmapping                                                               *)

(* What vmm_unmap does to the list, given the cache of the last piece.     *)
Hit(lo, n) == {s \in segs : SEGMENT_INTERSECTS(lo, n, s)}
Pieces(s, lo, hi, cache) == Before(s, lo) \cup After(s, hi, cache)
Unmapped(lo, n, cache) ==
  (segs \ Hit(lo, n)) \cup UNION {Pieces(s, lo, lo + n, cache) : s \in Hit(lo, n)}

(* t is what is left of s, or a part of it, outside [lo, hi).              *)
PartOf(t, s, lo, hi) ==
  /\ IsSegment(t) /\ Whole(t.base, t.length)
  /\ t.type = s.type /\ t.prot = s.prot
  /\ s.base <= t.base /\ EndOf(t) <= EndOf(s)
  /\ EndOf(t) <= lo \/ hi <= t.base

(* A segment that is cut leaves its beginning, its end, or both.           *)
LEMMA Cuts ==
  ASSUME NEW s, IsSegment(s), Whole(s.base, s.length), NEW lo \in Nat, NEW hi \in Nat,
         lo < hi, lo % PAGE = 0, hi % PAGE = 0, s.base < hi, lo < EndOf(s), NEW cache \in Nat
  PROVE  /\ \A t \in Before(s, lo) : PartOf(t, s, lo, hi) /\ t.base = s.base /\ EndOf(t) = lo
                                    /\ s.base < lo
         /\ \A t \in After(s, hi, cache) : PartOf(t, s, lo, hi) /\ t.base = hi /\ EndOf(t) = EndOf(s)
                                         /\ hi < EndOf(s)
<1>1. /\ s.base \in Nat /\ s.length \in Nat /\ EndOf(s) \in Nat
      /\ s.base % PAGE = 0 /\ s.length % PAGE = 0 /\ EndOf(s) % PAGE = 0
      /\ EndOf(s) = s.base + s.length
      /\ START <= s.base /\ s.base < END /\ s.length <= END - s.base
      /\ START \in Nat /\ END \in Nat
      /\ DOMAIN s = {"base", "length", "type", "prot", "cache", "phys"}
  BY Multiples, Bounds DEF IsSegment, Whole, EndOf, SEGMENT_IN_BOUNDS, ADDRESS_IN_BOUNDS
<1>2. ASSUME NEW t \in Before(s, lo)
      PROVE  /\ PartOf(t, s, lo, hi) /\ t.base = s.base /\ EndOf(t) = lo
             /\ s.base < lo
  <2>1. s.base < lo /\ t = [s EXCEPT !.length = lo - s.base]
    BY DEF Before
  <2>2. /\ t.base = s.base /\ t.length = lo - s.base /\ t.type = s.type /\ t.prot = s.prot
        /\ t.cache = s.cache /\ t.phys = s.phys /\ DOMAIN t = DOMAIN s
    BY <1>1, <2>1
  <2>3. t.length \in Nat /\ t.length > 0 /\ t.length % PAGE = 0 /\ EndOf(t) = lo
    BY <1>1, <2>1, <2>2, Multiples DEF EndOf
  <2>4. IsSegment(t)
    BY <1>1, <2>2, <2>3 DEF IsSegment
  <2>5. Whole(t.base, t.length)
    BY <1>1, <2>2, <2>3 DEF Whole, SEGMENT_IN_BOUNDS, ADDRESS_IN_BOUNDS
  <2> QED
    BY <1>1, <2>1, <2>2, <2>3, <2>4, <2>5 DEF PartOf
<1>3. ASSUME NEW t \in After(s, hi, cache)
      PROVE  /\ PartOf(t, s, lo, hi) /\ t.base = hi /\ EndOf(t) = EndOf(s)
             /\ hi < EndOf(s)
  <2>1. hi < EndOf(s) /\ t = [s EXCEPT !.base = hi, !.length = EndOf(s) - hi, !.cache = cache]
    BY <1>1 DEF After
  <2>2. /\ t.base = hi /\ t.length = EndOf(s) - hi /\ t.type = s.type /\ t.prot = s.prot
        /\ t.cache = cache /\ t.phys = s.phys /\ DOMAIN t = DOMAIN s
    BY <1>1, <2>1
  <2>3. t.length \in Nat /\ t.length > 0 /\ t.length % PAGE = 0 /\ EndOf(t) = EndOf(s)
    <3>1. (EndOf(s) - hi) % PAGE = 0
      BY <1>1, Multiples
    <3>2. EndOf(t) = t.base + t.length
      BY DEF EndOf
    <3> QED
      BY <1>1, <2>1, <2>2, <3>1, <3>2
  <2>4. IsSegment(t)
    BY <1>1, <2>2, <2>3 DEF IsSegment
  <2>5. Whole(t.base, t.length)
    BY <1>1, <2>1, <2>2, <2>3 DEF Whole, SEGMENT_IN_BOUNDS, ADDRESS_IN_BOUNDS
  <2> QED
    BY <1>1, <2>1, <2>2, <2>3, <2>4, <2>5 DEF PartOf
<1> QED
  BY <1>2, <1>3

(* What an unmapping of [lo, lo + n) is asked of.                          *)
Freeable(lo, n) ==
  /\ lo \in Nat /\ n \in Nat /\ n > 0
  /\ lo % PAGE = 0 /\ n % PAGE = 0

(* What it leaves are parts of what there was, outside the range; of one   *)
(* segment it leaves a beginning and an end.                               *)
LEMMA LeftOver ==
  ASSUME Sound(segs), NEW lo, NEW n, Freeable(lo, n), NEW cache \in Nat
  PROVE  /\ \A s \in segs \ Hit(lo, n) : PartOf(s, s, lo, lo + n)
         /\ \A s \in Hit(lo, n) :
              /\ \A t \in Before(s, lo) :
                   PartOf(t, s, lo, lo + n) /\ t.base = s.base /\ EndOf(t) = lo /\ s.base < lo
              /\ \A t \in After(s, lo + n, cache) :
                   /\ PartOf(t, s, lo, lo + n) /\ t.base = lo + n /\ EndOf(t) = EndOf(s)
                   /\ lo + n < EndOf(s)
<1>1. /\ lo \in Nat /\ lo + n \in Nat /\ lo < lo + n /\ lo % PAGE = 0 /\ (lo + n) % PAGE = 0
      /\ n \in Nat
  BY Multiples DEF Freeable
<1>2. \A s \in segs : /\ IsSegment(s) /\ Whole(s.base, s.length) /\ s.base \in Nat
                      /\ EndOf(s) \in Nat
  BY DEF Sound, IsSegment, EndOf
<1>3. ASSUME NEW s \in segs \ Hit(lo, n)
      PROVE  PartOf(s, s, lo, lo + n)
  BY <1>1, <1>2 DEF Hit, SEGMENT_INTERSECTS, PartOf
<1>4. ASSUME NEW s \in Hit(lo, n)
      PROVE  /\ \A t \in Before(s, lo) :
                  PartOf(t, s, lo, lo + n) /\ t.base = s.base /\ EndOf(t) = lo /\ s.base < lo
             /\ \A t \in After(s, lo + n, cache) :
                  /\ PartOf(t, s, lo, lo + n) /\ t.base = lo + n /\ EndOf(t) = EndOf(s)
                  /\ lo + n < EndOf(s)
  <2>1. s \in segs /\ s.base < lo + n /\ lo < EndOf(s)
    BY DEF Hit, SEGMENT_INTERSECTS
  <2> HIDE DEF Hit
  <2> QED
    BY <1>1, <1>2, <2>1, Cuts
<1> QED
  BY <1>3, <1>4

LEMMA UnmappedSound ==
  ASSUME Sound(segs), NEW lo, NEW n, Freeable(lo, n), NEW cache \in Nat
  PROVE  /\ Sound(Unmapped(lo, n, cache))
         /\ \A t \in Unmapped(lo, n, cache) : \E s \in segs : PartOf(t, s, lo, lo + n)
<1> DEFINE hi == lo + n
           of(t, s) == IF s \in Hit(lo, n) THEN t \in Pieces(s, lo, hi, cache) ELSE t = s
<1>1. \A t \in Unmapped(lo, n, cache) : \E s \in segs : of(t, s)
  BY DEF Unmapped, Hit
<1>2. \A s \in segs : \A t : of(t, s) => PartOf(t, s, lo, hi)
  BY LeftOver DEF Pieces
<1>3. ASSUME NEW s \in segs, NEW t, NEW u, of(t, s), of(u, s), t # u
      PROVE  ~SEGMENT_INTERSECTS(t.base, t.length, u)
  <2>1. CASE s \notin Hit(lo, n)
    BY <1>3, <2>1
  <2>2. CASE s \in Hit(lo, n)
    <3>1. /\ t \in Before(s, lo) \/ t \in After(s, hi, cache)
          /\ u \in Before(s, lo) \/ u \in After(s, hi, cache)
      BY <1>3, <2>2 DEF Pieces
    <3>2. ~(t \in Before(s, lo) /\ u \in Before(s, lo))
      BY <1>3 DEF Before
    <3>3. ~(t \in After(s, hi, cache) /\ u \in After(s, hi, cache))
      BY <1>3 DEF After
    <3>4. lo \in Nat /\ hi \in Nat /\ lo < hi
      BY DEF Freeable
    <3>5. CASE t \in Before(s, lo) /\ u \in After(s, hi, cache)
      <4>1. EndOf(t) = lo /\ u.base = hi
        BY <2>2, <3>5, LeftOver
      <4> QED
        BY <3>4, <4>1 DEF SEGMENT_INTERSECTS, EndOf
    <3>6. CASE t \in After(s, hi, cache) /\ u \in Before(s, lo)
      <4>1. EndOf(u) = lo /\ t.base = hi
        BY <2>2, <3>6, LeftOver
      <4> QED
        BY <3>4, <4>1 DEF SEGMENT_INTERSECTS
    <3> QED
      BY <3>1, <3>2, <3>3, <3>5, <3>6
  <2> QED
    BY <2>1, <2>2
<1>4. ASSUME NEW s \in segs, NEW r \in segs, s # r, NEW t, NEW u, of(t, s), of(u, r)
      PROVE  ~SEGMENT_INTERSECTS(t.base, t.length, u)
  <2>1. PartOf(t, s, lo, hi) /\ PartOf(u, r, lo, hi)
    BY <1>2, <1>4
  <2>2. ~SEGMENT_INTERSECTS(s.base, s.length, r) /\ ~SEGMENT_INTERSECTS(r.base, r.length, s)
    BY <1>4 DEF Sound
  <2>3. \A x \in {s, r, t, u} : x.base \in Nat /\ x.length \in Nat /\ x.length > 0
    BY <2>1 DEF PartOf, Sound, IsSegment, Whole
  <2>4. EndOf(s) <= r.base \/ EndOf(r) <= s.base
    BY <2>2, <2>3 DEF SEGMENT_INTERSECTS, EndOf
  <2>5. /\ s.base <= t.base /\ EndOf(t) <= EndOf(s)
        /\ r.base <= u.base /\ EndOf(u) <= EndOf(r)
    BY <2>1 DEF PartOf
  <2>6. EndOf(t) <= u.base \/ EndOf(u) <= t.base
    BY <2>3, <2>4, <2>5 DEF EndOf
  <2> QED
    BY <2>3, <2>6 DEF SEGMENT_INTERSECTS, EndOf
<1>5. \A t \in Unmapped(lo, n, cache) : \E s \in segs : of(t, s) /\ PartOf(t, s, lo, hi)
  BY <1>1, <1>2
<1> HIDE DEF of
<1>6. \A t \in Unmapped(lo, n, cache) : IsSegment(t) /\ Whole(t.base, t.length)
  BY <1>5 DEF PartOf
<1>7. ASSUME NEW t \in Unmapped(lo, n, cache), NEW u \in Unmapped(lo, n, cache), t # u
      PROVE  ~SEGMENT_INTERSECTS(t.base, t.length, u)
  BY <1>3, <1>4, <1>5, <1>7
<1> QED
  BY <1>5, <1>6, <1>7 DEF Sound

(* A segment outside the range stays as it is, and of one that is cut      *)
(* stays what lies outside.                                                *)
LEMMA StillCovered ==
  ASSUME Sound(segs), NEW lo, NEW n, Freeable(lo, n), NEW cache \in Nat,
         NEW s \in segs, NEW a \in Nat, Covers(s, a), a < lo \/ lo + n <= a
  PROVE  \E t \in Unmapped(lo, n, cache) : Covers(t, a) /\ t.type = s.type /\ t.prot = s.prot
<1>1. s.base \in Nat /\ EndOf(s) \in Nat /\ lo \in Nat /\ lo + n \in Nat
  BY DEF Sound, IsSegment, EndOf, Freeable
<1>2. CASE s \notin Hit(lo, n)
  BY <1>2 DEF Unmapped
<1>3. CASE s \in Hit(lo, n) /\ a < lo
  <2>1. PICK t : t \in Before(s, lo)
    <3>1. s.base < lo
      BY <1>1, <1>3 DEF Covers
    <3> QED
      BY <3>1 DEF Before
  <2>2. PartOf(t, s, lo, lo + n) /\ t.base = s.base /\ EndOf(t) = lo
    BY <1>3, <2>1, LeftOver
  <2>3. t \in Unmapped(lo, n, cache)
    BY <1>3, <2>1 DEF Unmapped, Pieces
  <2> QED
    BY <1>3, <2>2, <2>3 DEF Covers, PartOf
<1>4. CASE s \in Hit(lo, n) /\ lo + n <= a
  <2>1. PICK t : t \in After(s, lo + n, cache)
    <3>1. lo + n < EndOf(s)
      BY <1>1, <1>4 DEF Covers
    <3>2. EndOf(s) > lo + n
      BY <1>1, <3>1
    <3> QED
      BY <3>2 DEF After
  <2>2. PartOf(t, s, lo, lo + n) /\ t.base = lo + n /\ EndOf(t) = EndOf(s)
    BY <1>4, <2>1, LeftOver
  <2>3. t \in Unmapped(lo, n, cache)
    BY <1>4, <2>1 DEF Unmapped, Pieces
  <2> QED
    BY <1>4, <2>2, <2>3 DEF Covers, PartOf
<1> QED
  BY <1>2, <1>3, <1>4

(* The pages of the range are those that start in it.                      *)
LEMMA RangePages ==
  ASSUME NEW lo, NEW n, Freeable(lo, n), NEW p \in Page
  PROVE  p \in PagesOf(lo, n) <=> lo <= p * PAGE /\ p * PAGE < lo + n
<1>1. p \in Nat /\ p * PAGE \in Nat /\ lo \in Nat /\ n \in Nat /\ n > 0 /\ lo % PAGE = 0
  BY Bounds DEF Freeable
<1>2. lo < (p + 1) * PAGE <=> lo <= p * PAGE
  BY <1>1, PageEdge
<1> QED
  BY <1>1, <1>2 DEF PagesOf

(* Two sets with at most one member each, both empty or neither.           *)
LEMMA OneEach ==
  ASSUME NEW X, \A x, y \in X : x = y, NEW Y, \A x, y \in Y : x = y, X = {} <=> Y = {}
  PROVE  /\ IsFiniteSet(X) /\ IsFiniteSet(Y) /\ Cardinality(Y) = Cardinality(X)
         /\ Cardinality(X) = IF X = {} THEN 0 ELSE 1
<1>1. CASE X = {}
  BY <1>1, FS_EmptySet
<1>2. CASE X # {}
  <2>1. PICK x : X = {x}
    BY <1>2
  <2>2. PICK y : Y = {y}
    BY <1>2
  <2> QED
    BY <1>2, <2>1, <2>2, FS_Singleton
<1> QED
  BY <1>1, <1>2

(* The segments that go on behind the range, and those that begin in it.   *)
Last(lo, n) == {s \in Hit(lo, n) : EndOf(s) > lo + n}
Back(lo, n) == {s \in Hit(lo, n) : s.base >= lo}

(* The records of an unmapping: one is free for each segment that begins   *)
(* in the range, one is taken for the segment that goes on behind it.      *)
LEMMA LeftOverCount ==
  ASSUME Sound(segs), IsFiniteSet(segs), NEW lo, NEW n, Freeable(lo, n), NEW cache \in Nat
  PROVE  /\ IsFiniteSet(Unmapped(lo, n, cache)) /\ IsFiniteSet(Back(lo, n))
         /\ Cardinality(Last(lo, n)) = IF Last(lo, n) = {} THEN 0 ELSE 1
         /\ Cardinality(Unmapped(lo, n, cache)) =
              (Cardinality(segs) - Cardinality(Back(lo, n))) + Cardinality(Last(lo, n))
         /\ Cardinality(Back(lo, n) \ Last(lo, n)) =
              Cardinality(Back(lo, n)) - Cardinality(Back(lo, n) \cap Last(lo, n))
         /\ Cardinality(Back(lo, n) \cap Last(lo, n)) \in Nat /\ Cardinality(Back(lo, n)) \in Nat
         /\ Cardinality(Back(lo, n) \ Last(lo, n)) \in Nat /\ Cardinality(segs) \in Nat
<1> DEFINE hi == lo + n
           hit == Hit(lo, n)
           last == {s \in hit : EndOf(s) > hi}
           back == {s \in hit : s.base >= lo}
           front == {s \in hit : s.base < lo}
           ends == UNION {After(s, hi, cache) : s \in hit}
           heads == UNION {Before(s, lo) : s \in hit}
           rest == segs \ hit
<1>1. \A s \in segs : s.base \in Nat /\ s.length \in Nat /\ EndOf(s) \in Nat
  BY DEF Sound, IsSegment, EndOf
<1>2. lo \in Nat /\ n \in Nat /\ n > 0 /\ hi \in Nat /\ lo < hi
  BY DEF Freeable
<1>3. \A s \in hit : s \in segs /\ s.base < hi /\ lo < EndOf(s)
  BY DEF Hit, SEGMENT_INTERSECTS
<1>4. \A s, t \in segs : s # t => EndOf(s) <= t.base \/ EndOf(t) <= s.base
  <2> SUFFICES ASSUME NEW s \in segs, NEW t \in segs, s # t
               PROVE  EndOf(s) <= t.base \/ EndOf(t) <= s.base
    OBVIOUS
  <2>1. ~SEGMENT_INTERSECTS(s.base, s.length, t)
    BY DEF Sound
  <2> QED
    BY <1>1, <2>1 DEF SEGMENT_INTERSECTS, EndOf
<1>5. \A s, t \in front : s = t
  BY <1>1, <1>2, <1>3, <1>4
<1>6. \A s, t \in last : s = t
  BY <1>1, <1>2, <1>3, <1>4
<1>7. \A t : t \in heads <=> \E s \in front : t = [s EXCEPT !.length = lo - s.base]
  BY DEF Before
<1>8. \A t : t \in ends <=> \E s \in last :
               t = [s EXCEPT !.base = hi, !.length = EndOf(s) - hi, !.cache = cache]
  BY DEF After
<1>9. Unmapped(lo, n, cache) = (rest \cup heads) \cup ends
  BY DEF Unmapped, Pieces
<1>10. /\ \A t \in heads : EndOf(t) = lo /\ t.base < lo /\ \E s \in hit : s.base = t.base
       /\ \A t \in ends : t.base = hi /\ hi < EndOf(t) /\ \E s \in hit : EndOf(s) = EndOf(t)
  <2> HIDE DEF hit
  <2>1. ASSUME NEW s \in hit, NEW t \in Before(s, lo)
        PROVE  EndOf(t) = lo /\ t.base < lo /\ s.base = t.base
    BY <2>1, LeftOver DEF hit
  <2>2. ASSUME NEW s \in hit, NEW t \in After(s, hi, cache)
        PROVE  t.base = hi /\ hi < EndOf(t) /\ EndOf(s) = EndOf(t)
    BY <2>2, LeftOver DEF hit
  <2> QED
    BY <2>1, <2>2
<1> HIDE DEF heads, ends
<1>11. /\ IsFiniteSet(front) /\ IsFiniteSet(heads) /\ Cardinality(heads) = Cardinality(front)
  <2>1. \A s, t \in heads : s = t
    BY <1>5, <1>7
  <2>2. front = {} <=> heads = {}
    BY <1>7
  <2> HIDE DEF front
  <2> QED
    BY <1>5, <2>1, <2>2, OneEach
<1>12. /\ IsFiniteSet(last) /\ IsFiniteSet(ends) /\ Cardinality(ends) = Cardinality(last)
       /\ Cardinality(last) = IF last = {} THEN 0 ELSE 1
  <2>1. ASSUME NEW s \in ends, NEW t \in ends
        PROVE  s = t
    <3> HIDE DEF last
    <3>1. PICK x \in last : s = [x EXCEPT !.base = hi, !.length = EndOf(x) - hi, !.cache = cache]
      BY <1>8
    <3>2. PICK y \in last : t = [y EXCEPT !.base = hi, !.length = EndOf(y) - hi, !.cache = cache]
      BY <1>8
    <3>3. x = y
      BY <1>6
    <3> QED
      BY <3>1, <3>2, <3>3
  <2>2. last = {} <=> ends = {}
    BY <1>8
  <2> HIDE DEF last
  <2> QED
    BY <1>6, <2>1, <2>2, OneEach
<1>13. hit = front \cup back /\ front \cap back = {} /\ segs \cap hit = hit
  BY <1>1, <1>2, <1>3
<1>14. rest \cap heads = {}
  <2> SUFFICES ASSUME NEW t \in rest, t \in heads
               PROVE  FALSE
    OBVIOUS
  <2>1. PICK s \in hit : s.base = t.base
    BY <1>10
  <2>2. EndOf(t) = lo /\ t.base < lo
    BY <1>10
  <2>3. s \in segs /\ t \in segs /\ s # t /\ lo < EndOf(s)
    BY <1>3, <2>1
  <2> QED
    BY <1>1, <1>2, <1>4, <2>1, <2>2, <2>3
<1>15. (rest \cup heads) \cap ends = {}
  <2>1. ASSUME NEW t \in rest, t \in ends
        PROVE  FALSE
    <3>1. PICK s \in hit : EndOf(s) = EndOf(t)
      BY <1>10, <2>1
    <3>2. t.base = hi /\ hi < EndOf(t)
      BY <1>10, <2>1
    <3>3. s \in segs /\ t \in segs /\ s # t /\ s.base < hi
      BY <1>3, <3>1
    <3> QED
      BY <1>1, <1>2, <1>4, <3>1, <3>2, <3>3
  <2>2. ASSUME NEW t \in heads, t \in ends
        PROVE  FALSE
    BY <1>2, <1>10, <2>2
  <2> QED
    BY <2>1, <2>2
<1>16. IsFiniteSet(hit) /\ IsFiniteSet(back) /\ hit \in SUBSET segs /\ back \in SUBSET segs
  <2>1. hit \in SUBSET segs /\ back \in SUBSET segs
    BY <1>3
  <2> QED
    BY <2>1, FS_Subset
<1>17. IsFiniteSet(rest) /\ Cardinality(rest) = Cardinality(segs) - Cardinality(hit)
  BY <1>13, FS_Difference
<1>18. /\ IsFiniteSet(back \cap last) /\ IsFiniteSet(back \ last)
       /\ Cardinality(back \ last) = Cardinality(back) - Cardinality(back \cap last)
  <2> HIDE DEF back, last
  <2> QED
    BY <1>16, FS_Difference, FS_Intersection
<1> HIDE DEF hit, front, back, last, rest
<1>19. Cardinality(hit) = Cardinality(front) + Cardinality(back)
  <2>1. Cardinality(front \cup back) =
          Cardinality(front) + Cardinality(back) - Cardinality(front \cap back)
    BY <1>11, <1>16, FS_Union
  <2>2. Cardinality(front) \in Nat /\ Cardinality(back) \in Nat
    BY <1>11, <1>16, FS_CardinalityType
  <2>3. Cardinality(front \cap back) = 0
    BY <1>13, FS_EmptySet
  <2>4. Cardinality(hit) = Cardinality(front \cup back)
    BY <1>13
  <2> QED
    BY <2>1, <2>2, <2>3, <2>4
<1>20. /\ IsFiniteSet(rest \cup heads)
       /\ Cardinality(rest \cup heads) = Cardinality(rest) + Cardinality(heads)
  <2>1. /\ IsFiniteSet(rest \cup heads)
        /\ Cardinality(rest \cup heads) =
             Cardinality(rest) + Cardinality(heads) - Cardinality(rest \cap heads)
    BY <1>11, <1>17, FS_Union
  <2>2. Cardinality(rest) \in Nat /\ Cardinality(heads) \in Nat
    BY <1>11, <1>17, FS_CardinalityType
  <2>3. Cardinality(rest \cap heads) = 0
    BY <1>14, FS_EmptySet
  <2> QED
    BY <2>1, <2>2, <2>3
<1>21. /\ IsFiniteSet((rest \cup heads) \cup ends)
       /\ Cardinality((rest \cup heads) \cup ends) = Cardinality(rest \cup heads) + Cardinality(ends)
  <2> DEFINE both == rest \cup heads
  <2>1. /\ IsFiniteSet(both)
    BY <1>20
  <2> HIDE DEF both
  <2>2. /\ IsFiniteSet(both \cup ends)
        /\ Cardinality(both \cup ends) =
             Cardinality(both) + Cardinality(ends) - Cardinality(both \cap ends)
    BY <1>12, <2>1, FS_Union
  <2>3. Cardinality(both) \in Nat /\ Cardinality(ends) \in Nat
    BY <1>12, <2>1, FS_CardinalityType
  <2>4. Cardinality(both \cap ends) = 0
    BY <1>15, FS_EmptySet DEF both
  <2>5. IsFiniteSet(both \cup ends) /\ Cardinality(both \cup ends) = Cardinality(both) + Cardinality(ends)
    BY <2>2, <2>3, <2>4
  <2> QED
    BY <2>5 DEF both
<1>22. /\ Cardinality(segs) \in Nat /\ Cardinality(hit) \in Nat /\ Cardinality(front) \in Nat
       /\ Cardinality(back) \in Nat /\ Cardinality(last) \in Nat
       /\ Cardinality(back \cap last) \in Nat /\ Cardinality(back \ last) \in Nat
  BY <1>11, <1>12, <1>16, <1>18, FS_CardinalityType
<1>23. Cardinality(Unmapped(lo, n, cache)) =
         (Cardinality(segs) - Cardinality(back)) + Cardinality(last)
  BY <1>9, <1>11, <1>12, <1>17, <1>19, <1>20, <1>21, <1>22
<1>24. IsFiniteSet(Unmapped(lo, n, cache))
  BY <1>9, <1>21
<1> QED
  <2>1. last = Last(lo, n) /\ back = Back(lo, n)
    BY DEF last, back, hit, Last, Back
  <2> QED
    BY <1>12, <1>16, <1>18, <1>22, <1>23, <1>24, <2>1

-----------------------------------------------------------------------------
(* The kinds of steps                                                      *)

Adds ==
  \E s, flags : \E S \in SUBSET Page :
    /\ s \notin segs /\ Sound(segs \cup {s})
    /\ \A p \in S : InSome(segs \cup {s}, p)
    /\ AddSegment(s, flags, S)

(* Such a mapping at a known place: n bytes from a on, pages S used.       *)
Adding(a, n, S) ==
  \E s, flags :
    /\ s.base = a /\ s.length = n /\ ~Has(flags, VMM_FLAG_NO_DEMAND)
    /\ s \notin segs /\ Sound(segs \cup {s})
    /\ S \in SUBSET Page /\ \A p \in S : InSome(segs \cup {s}, p)
    /\ AddSegment(s, flags, S)

Using(S) ==
  /\ S \in SUBSET Page /\ \A p \in S : InSome(segs, p)
  /\ pt' = Used(segs, S)
  /\ UNCHANGED <<segs, pool, kpages>>

Uses ==
  \E S \in SUBSET Page :
    /\ \A p \in S : InSome(segs, p)
    /\ pt' = Used(segs, S)
    /\ UNCHANGED <<segs, pool, kpages>>

(* What unmapping [lo, lo + n) does to the records.                        *)
Returned(lo, n) ==
  LET last == Last(lo, n)
      back == Back(lo, n)
      early == pool + Cardinality(back \ last)
  IN IF last = {} THEN pool' = early /\ UNCHANGED kpages
     ELSE /\ pool' = (Refill(early) - 1) + Cardinality(back \cap last)
          /\ kpages' = kpages + Pages(early)

Freeing(lo, n) ==
  \E cache \in Nat :
    /\ Freeable(lo, n) /\ Whole(lo, n)
    /\ segs' = Unmapped(lo, n, cache)
    /\ pt' = Cleared(lo, lo + n)
    /\ Returned(lo, n)

Frees == \E lo, n : Freeing(lo, n)

Idle == UNCHANGED <<segs, pt>> /\ (NoSpace \/ UNCHANGED <<pool, kpages>>)

(* Pages inside a segment are the segment's.                               *)
LEMMA InsidePages ==
  ASSUME NEW s, IsSegment(s), Whole(s.base, s.length), NEW sg, s \in sg,
         NEW a \in Int, NEW n \in Nat, s.base <= a, a + n <= EndOf(s), NEW p \in PagesOf(a, n)
  PROVE  p \in Page /\ InSome(sg, p)
<1>1. p \in Page /\ n > 0 /\ p * PAGE < a + n /\ a < (p + 1) * PAGE
  BY DEF PagesOf
<1>2. p * PAGE \in Nat /\ (p + 1) * PAGE \in Nat
  BY <1>1, Bounds, PageStarts
<1>3. s.base \in Nat /\ s.length \in Nat /\ s.length > 0 /\ EndOf(s) = s.base + s.length
  BY DEF IsSegment, Whole, EndOf
<1>4. p \in PagesOf(s.base, s.length)
  BY <1>1, <1>2, <1>3 DEF PagesOf
<1> QED
  BY <1>1, <1>4, CoversPages DEF InSome

FlagsOK == todo' \subseteq Headers /\ loaded' \in BOOLEAN /\ halted' \in BOOLEAN
Stopped == halted' /\ Idle

(* No call asks for its pages at once (VMM_FLAG_NO_DEMAND).                *)
LEMMA OnDemand ==
  /\ ~Has(VMM_CACHE_STANDARD, VMM_FLAG_NO_DEMAND)
  /\ ~Has(VMM_CACHE_WRITE_COMBINE, VMM_FLAG_NO_DEMAND)
<1>1. 0 \div 4 = 0 /\ 1 \div 4 = 0 /\ 0 % 2 = 0
  OBVIOUS
<1> QED
  BY <1>1 DEF Has, VMM_CACHE_STANDARD, VMM_CACHE_WRITE_COMBINE, VMM_FLAG_NO_DEMAND

(* Every call is a step of one of the kinds, with its own arguments,       *)
(* unless it stops the kernel.                                             *)
LEMMA Calls ==
  ASSUME IInv
  PROVE  /\ \A h \in Headers : elf_load(h) =>
              /\ \/ Stopped
                 \/ \E a : Adding(a, Ceil(h.memsz + (h.vaddr - Floor(h.vaddr))), PagesOf(h.vaddr, h.filesz))
              /\ FlagsOK
         /\ arch_sched_stack_setup =>
              /\ Stopped \/ \E a : Adding(a, STACK, PagesOf(a + STACK - PAGE, PAGE))
              /\ FlagsOK
         /\ \A n \in Lengths : syscall_mem_anon_allocate(n) =>
              /\ Stopped \/ \E a : Adding(a, n, PagesOf(a, n))
              /\ FlagsOK
         /\ \A q \in Page : syscall_elib_framebuffer(q * PAGE) =>
              /\ \/ Idle
                 \/ \E a : \E S \in {{}, PagesOf(q * PAGE, 1)} : Adding(a, Ceil(Framebuffer.size), S)
              /\ FlagsOK
         /\ \A lo \in START .. END, n \in Lengths : syscall_mem_anon_free(lo, n) =>
              (Stopped \/ Freeing(lo, n)) /\ FlagsOK
         /\ \A q \in Page : x86_64_vmm_page_fault_handler(q) => (Stopped \/ Using({q})) /\ FlagsOK
         /\ \A a \in START .. END, n \in Lengths : vmm_copy(a, n) => Using(PagesOf(a, n)) /\ FlagsOK
<1>1. Sound(segs) /\ todo \subseteq Headers /\ loaded \in BOOLEAN /\ halted \in BOOLEAN
  BY Soundness DEF IInv
<1>2. Panic => Stopped /\ FlagsOK
  BY <1>1 DEF Panic, Idle, Stopped, FlagsOK
<1>3. ASSUME NEW h \in Headers, elf_load(h)
      PROVE  /\ \/ Stopped
                \/ \E a : Adding(a, Ceil(h.memsz + (h.vaddr - Floor(h.vaddr))), PagesOf(h.vaddr, h.filesz))
             /\ FlagsOK
  <2> DEFINE lo == Floor(h.vaddr)
             n == Ceil(h.memsz + (h.vaddr - lo))
             cache == VMM_FLAG_FIXED + VMM_FLAG_ANON_ZERO
             flags == VMM_CACHE_STANDARD
             base == map_common(lo, n, flags)
             s == Segment(base, n, h.prot, cache, "ANON", 0)
             copied == h.filesz = 0 \/ memory_exists(segs \cup {s}, h.vaddr, h.filesz)
             S == PagesOf(h.vaddr, h.filesz)
  <2>1. /\ h.vaddr \in Nat /\ h.filesz \in Nat /\ h.memsz \in Nat /\ h.prot \in {"RW", "RX"}
        /\ cache \in Nat
    BY VmmAssumption DEF VMM_FLAG_FIXED, VMM_FLAG_ANON_ZERO
  <2>2. lo \in Nat /\ n \in Nat
    <3>1. lo \in Nat /\ lo <= h.vaddr
      BY <2>1, Rounding
    <3>2. h.memsz + (h.vaddr - lo) \in Nat
      BY <2>1, <3>1
    <3> QED
      BY <3>1, <3>2, Rounding
  <2>3. \/ Panic
        \/ /\ base # 0 /\ copied /\ AddSegment(s, flags, S)
           /\ todo' = todo \ {h} /\ UNCHANGED <<loaded, halted>>
    BY <1>3 DEF elf_load
  <2>4. ASSUME base # 0, copied, AddSegment(s, flags, S), todo' = todo \ {h},
               UNCHANGED <<loaded, halted>>
        PROVE  (\E a : Adding(a, n, S)) /\ FlagsOK
    <3> HIDE DEF lo, n, cache, flags
    <3>1. s \notin segs /\ Sound(segs \cup {s})
      BY <1>1, <2>1, <2>2, <2>4, NewSegment
    <3>7. s.length = n
      BY DEF Segment
    <3> HIDE DEF s
    <3>2. ASSUME NEW p \in S
          PROVE  InSome(segs \cup {s}, p)
      <4>1. h.filesz # 0
        BY DEF PagesOf
      <4>2. memory_exists(segs \cup {s}, h.vaddr, h.filesz)
        BY <2>4, <4>1
      <4> QED
        BY <2>1, <3>1, <4>2, ExistingPages
    <3>3. S \in SUBSET Page
      BY DEF PagesOf
    <3>4. ~Has(flags, VMM_FLAG_NO_DEMAND)
      BY OnDemand DEF flags
    <3>5. Adding(s.base, n, S)
      BY <2>4, <3>1, <3>2, <3>3, <3>4, <3>7 DEF Adding
    <3>6. FlagsOK
      BY <1>1, <2>4 DEF FlagsOK
    <3> QED
      BY <3>5, <3>6
  <2> QED
    BY <1>2, <2>3, <2>4
<1>4. ASSUME arch_sched_stack_setup
      PROVE  /\ Stopped \/ \E a : Adding(a, STACK, PagesOf(a + STACK - PAGE, PAGE))
             /\ FlagsOK
  <2> DEFINE base == map_common(0, STACK, VMM_CACHE_STANDARD)
             s == Segment(base, STACK, "RW", VMM_FLAG_NONE, "ANON", 0)
             S == PagesOf(base + STACK - PAGE, PAGE)
  <2>1. \/ Panic
        \/ /\ base # 0 /\ AddSegment(s, VMM_CACHE_STANDARD, S)
           /\ loaded' = TRUE /\ UNCHANGED <<todo, halted>>
    BY <1>4 DEF arch_sched_stack_setup
  <2>2. ASSUME base # 0, AddSegment(s, VMM_CACHE_STANDARD, S),
               loaded' = TRUE, UNCHANGED <<todo, halted>>
        PROVE  Adding(base, STACK, S) /\ FlagsOK
    <3>1. STACK \in Nat \ {0} /\ PAGE \in Nat \ {0} /\ VMM_FLAG_NONE \in Nat /\ STACK % PAGE = 0
      BY <2>2, VmmAssumption DEF VMM_FLAG_NONE, map_common
    <3>2. STACK >= PAGE
      <4>1. PICK k \in Nat : STACK = k * PAGE
        BY <3>1, Multiple
      <4> QED
        BY <3>1, <4>1
    <3>3. /\ s \notin segs /\ Sound(segs \cup {s}) /\ IsSegment(s) /\ s.length = STACK
      BY <1>1, <2>2, <3>1, NewSegment
    <3>4. s.base = base
      BY DEF Segment
    <3> HIDE DEF s, base
    <3>5. base \in Nat /\ s \in segs \cup {s} /\ EndOf(s) = base + STACK /\ Whole(s.base, s.length)
      BY <3>3, <3>4 DEF IsSegment, EndOf, Sound
    <3>6. \A p \in S : p \in Page /\ InSome(segs \cup {s}, p)
      <4>1. /\ base + STACK - PAGE \in Int /\ s.base <= base + STACK - PAGE
            /\ (base + STACK - PAGE) + PAGE <= EndOf(s)
        BY <3>1, <3>2, <3>4, <3>5
      <4> QED
        BY <3>1, <3>3, <3>5, <4>1, InsidePages
    <3>7. Adding(base, STACK, S)
      BY <2>2, <3>3, <3>4, <3>6, OnDemand DEF Adding
    <3> QED
      BY <1>1, <2>2, <3>7 DEF FlagsOK
  <2> QED
    BY <1>2, <2>1, <2>2
<1>5. ASSUME NEW n \in Lengths, syscall_mem_anon_allocate(n)
      PROVE  (Stopped \/ \E a : Adding(a, n, PagesOf(a, n))) /\ FlagsOK
  <2> DEFINE base == map_common(0, n, VMM_CACHE_STANDARD)
             s == Segment(base, n, "RW", VMM_FLAG_NONE, "ANON", 0)
             S == PagesOf(base, n)
  <2>1. \/ Panic
        \/ /\ base # 0 /\ AddSegment(s, VMM_CACHE_STANDARD, S)
           /\ UNCHANGED <<todo, loaded, halted>>
    BY <1>5 DEF syscall_mem_anon_allocate
  <2>2. ASSUME base # 0, AddSegment(s, VMM_CACHE_STANDARD, S),
               UNCHANGED <<todo, loaded, halted>>
        PROVE  Adding(base, n, S) /\ FlagsOK
    <3>1. n \in Nat \ {0} /\ VMM_FLAG_NONE \in Nat
      BY VmmAssumption DEF VMM_FLAG_NONE
    <3>2. /\ s \notin segs /\ Sound(segs \cup {s}) /\ IsSegment(s) /\ s.length = n
      <4>1. /\ base # 0 /\ 0 \in Nat /\ n \in Nat /\ VMM_FLAG_NONE \in Nat
            /\ "RW" \in {"RW", "RX"} /\ "ANON" \in {"ANON", "DIRECT"}
        BY <2>2, <3>1
      <4>2. s \notin segs /\ Sound(segs \cup {s})
        BY <1>1, <4>1, NewSegment
      <4>3. s.length = n
        BY DEF Segment
      <4> QED
        BY <4>2, <4>3 DEF Sound
    <3>3. s.base = base
      BY DEF Segment
    <3> HIDE DEF s, base
    <3>4. base \in Nat /\ EndOf(s) = base + n /\ Whole(s.base, s.length)
      BY <3>2, <3>3 DEF IsSegment, EndOf, Sound
    <3>5. \A p \in S : p \in Page /\ InSome(segs \cup {s}, p)
      <4>1. base \in Int /\ s.base <= base /\ base + n <= EndOf(s) /\ s \in segs \cup {s}
        BY <3>1, <3>3, <3>4
      <4> QED
        BY <3>1, <3>2, <3>4, <4>1, InsidePages
    <3>6. Adding(base, n, S)
      BY <2>2, <3>2, <3>3, <3>5, OnDemand DEF Adding
    <3> QED
      BY <1>1, <2>2, <3>6 DEF FlagsOK
  <2> QED
    BY <1>2, <2>1, <2>2
<1>6. ASSUME NEW q \in Page, syscall_elib_framebuffer(q * PAGE)
      PROVE  /\ \/ Idle
                \/ \E a : \E S \in {{}, PagesOf(q * PAGE, 1)} : Adding(a, Ceil(Framebuffer.size), S)
             /\ FlagsOK
  <2> DEFINE out == q * PAGE
             n == Ceil(Framebuffer.size)
             flags == VMM_CACHE_WRITE_COMBINE
             base == map_common(0, n, flags)
             s == Segment(base, n, "RW", VMM_FLAG_NONE, "DIRECT", Framebuffer.phys)
             S == IF memory_exists(segs \cup {s}, out, 1) THEN PagesOf(out, 1) ELSE {}
  <2>1. /\ NoSpace \/ (base # 0 /\ AddSegment(s, flags, S))
        /\ UNCHANGED <<todo, loaded, halted>>
    BY <1>6 DEF syscall_elib_framebuffer
  <2>2. NoSpace => Idle
    BY DEF Idle, NoSpace
  <2>3. ASSUME base # 0, AddSegment(s, flags, S)
        PROVE  \E a : Adding(a, n, S)
    <3>1. n \in Nat /\ VMM_FLAG_NONE \in Nat /\ Framebuffer.phys \in Nat
      BY VmmAssumption, Rounding DEF VMM_FLAG_NONE
    <3>5. s.length = n
      BY DEF Segment
    <3>2. s \notin segs /\ Sound(segs \cup {s})
      <4> HIDE DEF n, flags
      <4> QED
        BY <1>1, <2>3, <3>1, NewSegment
    <3> HIDE DEF s
    <3>3. ASSUME NEW p \in S
          PROVE  p \in Page /\ InSome(segs \cup {s}, p)
      <4>1. p \in PagesOf(out, 1) /\ memory_exists(segs \cup {s}, out, 1) /\ p \in Page
        BY <3>3 DEF PagesOf
      <4>2. out \in Nat
        BY Bounds
      <4> QED
        BY <3>2, <4>1, <4>2, ExistingPages
    <3>4. Adding(s.base, n, S)
      BY <2>3, <3>2, <3>3, <3>5, OnDemand DEF Adding
    <3> QED
      BY <3>4
  <2>4. S \in {{}, PagesOf(q * PAGE, 1)}
    OBVIOUS
  <2>5. FlagsOK
    BY <1>1, <2>1 DEF FlagsOK
  <2> HIDE DEF S, s, base
  <2> QED
    BY <2>1, <2>2, <2>3, <2>4, <2>5
<1>7. ASSUME NEW lo \in START .. END, NEW n \in Lengths, syscall_mem_anon_free(lo, n)
      PROVE  (Stopped \/ Freeing(lo, n)) /\ FlagsOK
  <2>1. lo \in Nat /\ n \in Nat /\ n > 0 /\ Garbage \subseteq Nat /\ lo % PAGE = 0 /\ n % PAGE = 0
    BY <1>7, VmmAssumption DEF syscall_mem_anon_free
  <2>2. CASE ~SEGMENT_IN_BOUNDS(lo, n)
    <3>1. Panic
      BY <1>7, <2>2 DEF syscall_mem_anon_free
    <3> QED
      BY <1>2, <3>1
  <2>3. CASE SEGMENT_IN_BOUNDS(lo, n)
    <3>1. Freeable(lo, n) /\ Whole(lo, n)
      BY <2>1, <2>3 DEF Freeable, Whole
    <3>2. Hit(lo, n) = {s \in segs : SEGMENT_INTERSECTS(lo, n, s)}
      BY DEF Hit
    <3> DEFINE caches == IF {s \in Hit(lo, n) : EndOf(s) > lo + n} = {} THEN {0} ELSE Garbage
    <3>3. /\ \E cache \in caches :
               segs' = (segs \ Hit(lo, n)) \cup
                         UNION {Before(s, lo) \cup After(s, lo + n, cache) : s \in Hit(lo, n)}
          /\ pt' = Cleared(lo, lo + n)
          /\ UNCHANGED <<todo, loaded, halted>>
      BY <1>7, <2>3 DEF syscall_mem_anon_free, SplitEnd, Hit
    <3>4. Returned(lo, n)
      BY <1>7, <2>3 DEF syscall_mem_anon_free, SplitEnd, Returned, Hit, Last, Back
    <3>5. \E cache \in Nat : segs' = Unmapped(lo, n, cache)
      <4>1. caches \subseteq Nat
        BY <2>1
      <4> HIDE DEF caches
      <4> QED
        BY <3>3, <4>1 DEF Unmapped, Pieces
    <3>6. Freeing(lo, n)
      BY <3>1, <3>3, <3>4, <3>5 DEF Freeing
    <3> QED
      BY <1>1, <3>3, <3>6 DEF FlagsOK
  <2> QED
    BY <2>2, <2>3
<1>8. ASSUME NEW q \in Page, x86_64_vmm_page_fault_handler(q)
      PROVE  (Stopped \/ Using({q})) /\ FlagsOK
  <2>1. CASE addr_to_segment(q * PAGE) = {}
    BY <1>2, <1>8, <2>1 DEF x86_64_vmm_page_fault_handler
  <2>2. CASE addr_to_segment(q * PAGE) # {}
    <3>1. InSome(segs, q)
      BY <2>2 DEF addr_to_segment, InSome
    <3>2. pt' = Used(segs, {q}) /\ UNCHANGED <<segs, pool, kpages, todo, loaded, halted>>
      BY <1>8, <2>2 DEF x86_64_vmm_page_fault_handler
    <3>3. Using({q})
      BY <3>1, <3>2 DEF Using
    <3> QED
      BY <1>1, <3>2, <3>3 DEF FlagsOK
  <2> QED
    BY <2>1, <2>2
<1>9. ASSUME NEW a \in START .. END, NEW n \in Lengths, vmm_copy(a, n)
      PROVE  Using(PagesOf(a, n)) /\ FlagsOK
  <2>1. a \in Nat /\ n \in Nat
    BY VmmAssumption
  <2>2. /\ memory_exists(segs, a, n) /\ pt' = Used(segs, PagesOf(a, n))
        /\ UNCHANGED <<segs, pool, kpages, todo, loaded, halted>>
    BY <1>9 DEF vmm_copy
  <2>3. \A p \in PagesOf(a, n) : p \in Page /\ InSome(segs, p)
    BY <1>1, <2>1, <2>2, ExistingPages DEF PagesOf
  <2>4. Using(PagesOf(a, n))
    BY <2>2, <2>3 DEF Using
  <2> QED
    BY <1>1, <2>2, <2>4 DEF FlagsOK
<1> QED
  BY <1>3, <1>4, <1>5, <1>6, <1>7, <1>8, <1>9

(* Every step is of one of the kinds.                                      *)
LEMMA Kinds ==
  ASSUME IInv, [Next]_vars
  PROVE  /\ Adds \/ Uses \/ Frees \/ Idle
         /\ (\E a, n, S : Adding(a, n, S)) \/ (\E S : Using(S)) \/ Frees \/ Idle
         /\ todo' \subseteq Headers /\ loaded' \in BOOLEAN /\ halted' \in BOOLEAN
<1>1. \A a, n, S : Adding(a, n, S) => Adds
  BY DEF Adding, Adds
<1>2. \A S : Using(S) => Uses
  BY DEF Using, Uses
<1>3. \A lo, n : Freeing(lo, n) => Frees
  BY DEF Frees, Freeing
<1>4. todo \subseteq Headers /\ loaded \in BOOLEAN /\ halted \in BOOLEAN
  BY DEF IInv, TypeOK
<1>5. CASE UNCHANGED vars
  BY <1>4, <1>5 DEF vars, Idle
<1>6. CASE Next
  <2>1. ((\E a, n, S : Adding(a, n, S)) \/ (\E S : Using(S)) \/ Frees \/ Idle) /\ FlagsOK
    BY <1>3, <1>6, Calls DEF Next, Stopped
  <2> QED
    BY <1>1, <1>2, <2>1 DEF FlagsOK
<1> QED
  BY <1>5, <1>6

(* Unmapping: the entries that stay are outside the range, and so is what  *)
(* is left of their segments.                                              *)
LEMMA FreeStep ==
  ASSUME IInv, Frees, todo' \subseteq Headers, loaded' \in BOOLEAN, halted' \in BOOLEAN
  PROVE  IInv'
<1>1. PICK lo, n, cache : /\ cache \in Nat
                          /\ Freeable(lo, n) /\ Whole(lo, n)
                          /\ segs' = Unmapped(lo, n, cache) /\ pt' = Cleared(lo, lo + n)
                          /\ Returned(lo, n)
  BY DEF Frees, Freeing
<1>2. cache \in Nat /\ segs' = Unmapped(lo, n, cache)
  BY <1>1
<1>3. /\ Sound(segs) /\ IsFiniteSet(segs) /\ DOMAIN pt = Page /\ pool \in Nat /\ kpages \in Nat
      /\ EntriesCovered /\ RecordsAccounted
  BY Soundness DEF IInv
<1>4. /\ lo \in Nat /\ n \in Nat /\ Freeable(lo, n) /\ (lo + n) - lo = n
  BY <1>1 DEF Freeable
<1>5. Sound(segs')
  BY <1>2, <1>3, <1>4, UnmappedSound
<1>6. DOMAIN pt' = Page /\ \A p \in Page : pt'[p] # None => p \notin PagesOf(lo, n) /\ pt'[p] = pt[p]
  BY <1>1, <1>4 DEF Cleared
<1>7. EntriesCovered'
  <2> SUFFICES ASSUME NEW p \in Page, pt'[p] # None
               PROVE  \E t \in segs' : /\ Covers(t, p * PAGE) /\ pt'[p].type = t.type
                                       /\ pt'[p].prot = t.prot
    BY DEF EntriesCovered
  <2>1. pt'[p] = pt[p] /\ p \notin PagesOf(lo, n)
    BY <1>6
  <2>2. PICK s \in segs : Covers(s, p * PAGE) /\ pt[p].type = s.type /\ pt[p].prot = s.prot
    BY <1>3, <2>1 DEF EntriesCovered
  <2>3. p * PAGE \in Nat /\ (p * PAGE < lo \/ lo + n <= p * PAGE)
    BY <1>4, <2>1, RangePages, Bounds
  <2>4. \E t \in segs' : Covers(t, p * PAGE) /\ t.type = s.type /\ t.prot = s.prot
    BY <1>2, <1>3, <1>4, <2>2, <2>3, StillCovered
  <2> QED
    BY <2>1, <2>2, <2>4
<1>8. IsFiniteSet(segs') /\ pool' \in Nat /\ kpages' \in Nat /\ RecordsAccounted'
  <2> DEFINE last == Last(lo, n)
             back == Back(lo, n)
             early == pool + Cardinality(back \ last)
             C == Cardinality(segs)
             B == Cardinality(back)
             L == Cardinality(last)
             BL == Cardinality(back \cap last)
             C2 == Cardinality(segs')
  <2>1. /\ IsFiniteSet(segs') /\ L = IF last = {} THEN 0 ELSE 1
        /\ C2 = (C - B) + L /\ early = pool + (B - BL)
        /\ BL \in Nat /\ B \in Nat /\ C \in Nat /\ early \in Nat
    <3>1. /\ IsFiniteSet(segs') /\ L = (IF last = {} THEN 0 ELSE 1) /\ C2 = (C - B) + L
          /\ Cardinality(back \ last) = B - BL
          /\ BL \in Nat /\ B \in Nat /\ C \in Nat /\ Cardinality(back \ last) \in Nat
      BY <1>2, <1>3, <1>4, LeftOverCount
    <3> HIDE DEF L, C2, C, B, BL, last, back
    <3> QED
      BY <1>3, <3>1
  <2>2. IF last = {} THEN pool' = early /\ UNCHANGED kpages
        ELSE /\ pool' = (Refill(early) - 1) + BL
             /\ kpages' = kpages + Pages(early)
    BY <1>1 DEF Returned
  <2>3. last = {} => BL = 0
    BY FS_EmptySet
  <2> HIDE DEF last, back, early, C, B, L, BL
  <2>4. pool + C + kpages = kpages * RECORDS
    BY <1>3 DEF RecordsAccounted, C
  <2>5. RECORDS \in Nat /\ RECORDS > 2 /\ kpages * RECORDS \in Nat
        /\ (kpages + 1) * RECORDS = kpages * RECORDS + RECORDS
    BY <1>3, VmmAssumption, OneMorePage
  <2>6. C2 \in Nat
    BY <2>1, FS_CardinalityType
  <2>7. /\ pool' \in Nat /\ kpages' \in Nat
        /\ pool' + C2 + kpages' = kpages' * RECORDS
    <3>1. CASE last = {}
      BY <1>3, <2>1, <2>2, <2>3, <2>4, <2>5, <2>6, <3>1
    <3>2. CASE last # {} /\ early # 0
      <4>1. pool' = (early - 1) + BL /\ kpages' = kpages /\ L = 1
        BY <1>3, <2>1, <2>2, <3>2 DEF Refill, Pages
      <4>2. pool' \in Nat /\ pool' + C2 + kpages = pool + C + kpages
        BY <1>3, <2>1, <2>6, <3>2, <4>1
      <4> QED
        BY <1>3, <2>4, <4>1, <4>2
    <3>3. CASE last # {} /\ early = 0
      <4>1. pool' = (RECORDS - 1 - 1) + BL /\ kpages' = kpages + 1 /\ L = 1
        BY <2>1, <2>2, <3>3 DEF Refill, Pages
      <4>2. pool = 0 /\ B = BL
        <5>1. B - BL \in Nat
          <6>1. BL <= B
            <7>1. IsFiniteSet(back) /\ back \cap last \in SUBSET back
              BY <1>3, <1>4, LeftOverCount DEF back
            <7> QED
              BY <7>1, FS_Subset DEF B, BL
          <6> QED
            BY <2>1, <6>1
        <5> QED
          BY <1>3, <2>1, <3>3, <5>1
      <4>3. pool' \in Nat /\ pool' + C2 + kpages' = kpages * RECORDS + RECORDS
        BY <1>3, <2>1, <2>4, <2>5, <2>6, <4>1, <4>2
      <4> QED
        BY <1>3, <2>5, <4>1, <4>3
    <3> QED
      BY <3>1, <3>2, <3>3
  <2> QED
    BY <2>1, <2>7 DEF RecordsAccounted, C2
<1>9. TypeOK' /\ SegmentsApart'
  BY <1>5, <1>6, <1>8, Soundness DEF TypeOK, SegmentsApart, Sound, Whole
<1> QED
  BY <1>7, <1>8, <1>9 DEF IInv

-----------------------------------------------------------------------------
(* The invariant                                                           *)

LEMMA InitStep == Init => IInv
<1> SUFFICES ASSUME Init
             PROVE  IInv
  OBVIOUS
<1>1. TypeOK /\ SegmentsApart /\ EntriesCovered
  BY FS_EmptySet DEF Init, TypeOK, SegmentsApart, EntriesCovered
<1>2. RecordsAccounted
  BY FS_EmptySet, VmmAssumption DEF Init, RecordsAccounted
<1> QED
  BY <1>1, <1>2 DEF IInv

LEMMA Invariance ==
  ASSUME IInv, [Next]_vars
  PROVE  IInv'
<1>1. /\ Adds \/ Uses \/ Frees \/ Idle
      /\ todo' \subseteq Headers /\ loaded' \in BOOLEAN /\ halted' \in BOOLEAN
  BY Kinds
<1>2. CASE Adds
  <2>1. PICK s, flags : \E S \in SUBSET Page :
               /\ s \notin segs /\ Sound(segs \cup {s})
               /\ \A p \in S : InSome(segs \cup {s}, p)
               /\ AddSegment(s, flags, S)
    BY <1>2 DEF Adds
  <2> QED
    BY <1>1, <2>1, AddStep
<1>3. CASE Uses
  <2>1. PICK S \in SUBSET Page : /\ \A p \in S : InSome(segs, p)
                                 /\ pt' = Used(segs, S)
                                 /\ UNCHANGED <<segs, pool, kpages>>
    BY <1>3 DEF Uses
  <2> QED
    BY <1>1, <2>1, UseStep
<1>4. CASE Frees
  BY <1>1, <1>4, FreeStep
<1>5. CASE Idle /\ NoSpace
  BY <1>1, <1>5, NoSpaceStep
<1>6. CASE Idle /\ UNCHANGED <<pool, kpages>>
  BY <1>1, <1>6 DEF Idle, IInv, TypeOK, SegmentsApart, EntriesCovered, RecordsAccounted
<1> QED
  BY <1>1, <1>2, <1>3, <1>4, <1>5, <1>6 DEF Idle

(* Segments are whole pages of the address space and apart, and every      *)
(* translation lies in a segment that grants it, whatever is loaded,       *)
(* mapped, unmapped, touched or copied (memory/vmm.c).                     *)
THEOREM SpaceAlwaysSound == Spec => []SpaceSound
<1>1. IInv => SpaceSound
  BY DEF IInv, SpaceSound
<1> QED
  BY InitStep, Invariance, <1>1, PTL DEF Spec

(* No record of a segment is lost or given back twice: those in the free   *)
(* list, those in use and those that describe the pages they lie in add up *)
(* (segments_alloc and segments_free).                                     *)
THEOREM RecordsAlwaysAccounted == Spec => []RecordsAccounted
<1>1. IInv => RecordsAccounted
  BY DEF IInv
<1> QED
  BY InitStep, Invariance, <1>1, PTL DEF Spec

(* An entry, once made, stays until its page is unmapped: neither a fault  *)
(* nor a copy, nor a new mapping replaces the frame under it.              *)
THEOREM FramesAlwaysStay == Spec => FramesStay
<1>1. ASSUME IInv, [Next]_vars
      PROVE  [\A p \in Page : pt[p] # None => pt'[p] \in {pt[p], None}]_vars
  <2>1. ASSUME NEW p \in Page, pt[p] # None
        PROVE  pt'[p] \in {pt[p], None}
    <3>1. Adds \/ Uses \/ Frees \/ Idle
      BY <1>1, Kinds
    <3>2. \A sg, S : Used(sg, S)[p] = pt[p]
      BY <2>1 DEF Used, Absent
    <3>3. CASE Adds
      BY <3>2, <3>3 DEF Adds, AddSegment
    <3>4. CASE Uses
      BY <3>2, <3>4 DEF Uses
    <3>5. CASE Frees
      BY <3>5 DEF Frees, Freeing, Cleared
    <3>6. CASE Idle
      BY <3>6 DEF Idle
    <3> QED
      BY <3>1, <3>3, <3>4, <3>5, <3>6
  <2> QED
    BY <2>1
<1> QED
  BY InitStep, Invariance, <1>1, PTL DEF Spec, FramesStay

-----------------------------------------------------------------------------
(* The address space from outside                                          *)

(* What AddressSpace calls backing, of a set of segments.                  *)
BackingOf(sg) ==
  [p \in Page |-> IF {s \in sg : Covers(s, p * PAGE)} = {} THEN None
                  ELSE LET s == CHOOSE s \in {s \in sg : Covers(s, p * PAGE)} : TRUE
                       IN [type |-> s.type, prot |-> s.prot]]
Resident == {p \in Page : pt[p] # None}

(* A page has what its one segment grants, and nothing without one.        *)
LEMMA BackingIs ==
  ASSUME NEW sg, Sound(sg), NEW p \in Page
  PROVE  /\ \A s \in sg : Covers(s, p * PAGE) =>
              BackingOf(sg)[p] = [type |-> s.type, prot |-> s.prot]
         /\ ~InSome(sg, p) => BackingOf(sg)[p] = None
         /\ InSome(sg, p) => BackingOf(sg)[p] # None
<1>1. ~InSome(sg, p) => BackingOf(sg)[p] = None
  BY DEF InSome, BackingOf
<1>2. ASSUME NEW s \in sg, Covers(s, p * PAGE)
      PROVE  BackingOf(sg)[p] = [type |-> s.type, prot |-> s.prot]
  <2> DEFINE B == {t \in sg : Covers(t, p * PAGE)}
             c == CHOOSE t \in B : TRUE
  <2>1. s \in B
    BY <1>2
  <2>2. c \in B
    BY <2>1
  <2>3. c = s
    <3>1. c \in sg /\ Covers(c, p * PAGE)
      BY <2>2
    <3> HIDE DEF c
    <3>2. c # s => ~SEGMENT_INTERSECTS(c.base, c.length, s)
      BY <3>1 DEF Sound
    <3>3. /\ c.base \in Nat /\ c.length \in Nat /\ s.base \in Nat /\ s.length \in Nat
          /\ p * PAGE \in Nat
      BY <3>1, Bounds DEF Sound, IsSegment
    <3> QED
      BY <1>2, <3>1, <3>2, <3>3 DEF Covers, SEGMENT_INTERSECTS, EndOf
  <2>4. BackingOf(sg)[p] = [type |-> c.type, prot |-> c.prot]
    BY <2>1 DEF BackingOf
  <2> QED
    BY <2>3, <2>4
<1>3. ASSUME InSome(sg, p)
      PROVE  BackingOf(sg)[p] # None
  <2>1. PICK s \in sg : Covers(s, p * PAGE)
    BY <1>3 DEF InSome
  <2>2. BackingOf(sg)[p] = [type |-> s.type, prot |-> s.prot]
    BY <1>2, <2>1
  <2>3. s.type \in {"ANON", "DIRECT"} /\ s.prot \in {"RW", "RX"}
    BY <2>1 DEF Sound, IsSegment
  <2>4. [type |-> s.type, prot |-> s.prot] \in [type : {"ANON", "DIRECT"}, prot : {"RW", "RX"}]
    BY <2>3
  <2> QED
    BY <2>2, <2>4, VmmAssumption
<1> QED
  BY <1>1, <1>2, <1>3

LEMMA IsPage ==
  ASSUME NEW k \in Nat, START <= k * PAGE, k * PAGE <= END
  PROVE  k \in Page
<1>1. PICK j \in Nat : START = j * PAGE
  BY Bounds, Multiple
<1>2. START \div PAGE = j
  BY <1>1, PageStarts
<1>3. j <= k
  <2>1. ~(k * PAGE < j * PAGE)
    BY <1>1, Bounds, PageStarts
  <2>2. ~(k < j)
    BY <2>1, PageStarts
  <2> QED
    BY <2>2
<1>4. END \div PAGE \in Nat /\ k <= END \div PAGE
  <2> DEFINE e == END \div PAGE
  <2>1. e \in Nat /\ END % PAGE \in 0 .. PAGE - 1 /\ END = PAGE * e + (END % PAGE) /\ PAGE \in Nat \ {0}
    BY Bounds, DivMod
  <2> HIDE DEF e
  <2>2. (e + 1) * PAGE = e * PAGE + PAGE /\ PAGE * e = e * PAGE /\ e * PAGE \in Nat
    BY <2>1, PageStarts
  <2>3. k * PAGE \in Nat
    BY PageStarts
  <2>4. k * PAGE < (e + 1) * PAGE
    BY <2>1, <2>2, <2>3
  <2>5. k < e + 1
    BY <2>1, <2>4, PageStarts
  <2> QED
    BY <2>1, <2>5 DEF e
<1> QED
  BY <1>2, <1>3, <1>4 DEF Page

(* The pages of a place are a range of pages.                              *)
LEMMA PlaceIsRange ==
  ASSUME NEW b \in Nat, NEW n \in Nat, Whole(b, n)
  PROVE  {p \in Page : b <= p * PAGE /\ p * PAGE < b + n} \in Coarse!Ranges
<1>1. /\ b % PAGE = 0 /\ (b + n) % PAGE = 0 /\ b + n \in Nat
      /\ START <= b /\ n > 0 /\ b < END /\ b + n <= END
  <2>1. b % PAGE = 0 /\ n % PAGE = 0 /\ n > 0 /\ b >= START /\ b < END /\ END - b >= n
    BY DEF Whole, SEGMENT_IN_BOUNDS, ADDRESS_IN_BOUNDS
  <2>2. START \in Nat /\ END \in Nat
    BY Bounds
  <2>3. (b + n) % PAGE = 0
    BY <2>1, Multiples
  <2> QED
    BY <2>1, <2>2, <2>3
<1>2. PICK k \in Nat : b = k * PAGE
  BY <1>1, Multiple
<1>3. PICK m \in Nat : b + n = m * PAGE
  BY <1>1, Multiple
<1>4. k < m
  <2>1. k * PAGE < m * PAGE
    BY <1>1, <1>2, <1>3
  <2> QED
    BY <2>1, PageStarts
<1>5. m - 1 \in Nat /\ k <= m - 1
  BY <1>4
<1>6. k \in Page
  BY <1>1, <1>2, Bounds, IsPage
<1>7. m - 1 \in Page
  <2>1. (m - 1) * PAGE + PAGE = m * PAGE /\ (m - 1) * PAGE \in Nat
    <3>1. ((m - 1) + 1) * PAGE = (m - 1) * PAGE + PAGE /\ (m - 1) * PAGE \in Nat
      BY <1>5, PageStarts
    <3> QED
      BY <3>1
  <2>2. ~((m - 1) * PAGE < k * PAGE)
    <3>1. ~(m - 1 < k)
      BY <1>5
    <3> QED
      BY <1>5, <3>1, PageStarts
  <2> QED
    BY <1>1, <1>2, <1>3, <1>5, <2>1, <2>2, Bounds, IsPage
<1> DEFINE R == {p \in Page : b <= p * PAGE /\ p * PAGE < b + n}
<1>8. \A p, q \in Int : (p < q <=> p * PAGE < q * PAGE) /\ p * PAGE \in Int
  BY PageStarts
<1>9. R = k .. m - 1
  <2>1. ASSUME NEW p \in R
        PROVE  p \in k .. m - 1
    <3>1. p \in Nat /\ ~(p * PAGE < k * PAGE) /\ p * PAGE < m * PAGE
      BY <1>2, <1>3, <1>8, Bounds
    <3>2. ~(p < k) /\ p < m
      BY <1>8, <3>1
    <3> QED
      BY <3>1, <3>2
  <2>2. ASSUME NEW p \in k .. m - 1
        PROVE  p \in R
    <3>1. p \in Nat /\ ~(p < k) /\ p < m
      OBVIOUS
    <3>2. ~(p * PAGE < k * PAGE) /\ p * PAGE < m * PAGE
      BY <1>8, <3>1
    <3>3. p \in Page
      <4>1. START \div PAGE \in Nat /\ END \div PAGE \in Nat
        BY Bounds, DivMod
      <4> QED
        BY <1>6, <1>7, <3>1, <4>1 DEF Page
    <3>4. p * PAGE \in Nat
      BY <3>1, PageStarts
    <3> QED
      BY <1>2, <1>3, <3>2, <3>3, <3>4
  <2> HIDE DEF R
  <2> QED
    BY <2>1, <2>2
<1>10. k \in R
  BY <1>4, <1>5, <1>9
<1> HIDE DEF R
<1>11. R \in Coarse!Ranges
  BY <1>6, <1>7, <1>9, <1>10 DEF Coarse!Ranges
<1> QED
  BY <1>11 DEF R

(* The actions of AddressSpace, of these two.                              *)
LEMMA CoarseActions ==
  /\ Coarse!Use <=> /\ Resident \subseteq Resident'
                    /\ \A p \in Resident' : BackingOf(segs')[p] # None
  /\ \A R : Coarse!Outside(R) <=> \A p \in Page \ R : BackingOf(segs')[p] = BackingOf(segs)[p]
  /\ \A R : Coarse!Map(R) <=>
       /\ \A p \in R : BackingOf(segs)[p] = None /\ BackingOf(segs')[p] # None
       /\ Coarse!Outside(R) /\ Coarse!Use
  /\ \A R : Coarse!Unmap(R) <=>
       /\ \A p \in R : BackingOf(segs')[p] = None
       /\ Coarse!Outside(R) /\ Resident' = Resident \ R
  /\ Coarse!Touch <=> BackingOf(segs') = BackingOf(segs) /\ Coarse!Use
  /\ segs' = segs /\ pt' = pt => UNCHANGED Coarse!absVars
<1>1. Coarse!Use <=> /\ Resident \subseteq Resident'
                     /\ \A p \in Resident' : BackingOf(segs')[p] # None
  BY DEF Coarse!Use, Resident, BackingOf, Backed
<1>2. \A R : Coarse!Outside(R) <=> \A p \in Page \ R : BackingOf(segs')[p] = BackingOf(segs)[p]
  BY DEF Coarse!Outside, BackingOf, Backed
<1>3. \A R : Coarse!Map(R) <=>
        /\ \A p \in R : BackingOf(segs)[p] = None /\ BackingOf(segs')[p] # None
        /\ Coarse!Outside(R) /\ Coarse!Use
  BY DEF Coarse!Map, BackingOf, Backed
<1>4. \A R : Coarse!Unmap(R) <=>
        /\ \A p \in R : BackingOf(segs')[p] = None
        /\ Coarse!Outside(R) /\ Resident' = Resident \ R
  BY DEF Coarse!Unmap, BackingOf, Backed, Resident
<1>5. Coarse!Touch <=> BackingOf(segs') = BackingOf(segs) /\ Coarse!Use
  BY DEF Coarse!Touch, BackingOf, Backed
<1>6. segs' = segs /\ pt' = pt => UNCHANGED Coarse!absVars
  BY DEF Coarse!absVars, Backed
<1> QED
  BY <1>1, <1>2, <1>3, <1>4, <1>5, <1>6

(* Used pages are those of segments.                                       *)
LEMMA ResidentBacked ==
  ASSUME IInv
  PROVE  \A p \in Resident : p \in Page /\ InSome(segs, p) /\ BackingOf(segs)[p] # None
<1>1. Sound(segs) /\ EntriesCovered
  BY Soundness DEF IInv
<1>2. \A p \in Resident : p \in Page /\ InSome(segs, p)
  BY <1>1 DEF Resident, EntriesCovered, InSome
<1> QED
  BY <1>1, <1>2, BackingIs

(* Absent pages that are used get an entry, and no others do.              *)
LEMMA UsedFaults ==
  ASSUME NEW sg, Sound(sg), NEW S \in SUBSET Page, \A p \in S : InSome(sg, p), pt' = Used(sg, S)
  PROVE  Faulted(S)
<1>1. ASSUME NEW p \in Page
      PROVE  pt'[p] # None <=> pt[p] # None \/ p \in S
  <2>1. CASE p \in Absent(S)
    <3> DEFINE s == CHOOSE x \in sg : Covers(x, p * PAGE)
    <3>1. s \in sg /\ IsSegment(s)
      BY <2>1 DEF Absent, InSome, Sound
    <3> HIDE DEF s
    <3>2. pt[p] = None /\ p * PAGE \in Nat /\ PAGE \in Nat
      BY <2>1, Bounds DEF Absent
    <3>3. Entry(s, p) \in [type : {"ANON", "DIRECT"}, prot : {"RW", "RX"}, cache : Nat, frame : Int]
      <4>1. s.base \in Nat /\ s.phys \in Nat /\ s.cache \in Nat
            /\ s.type \in {"ANON", "DIRECT"} /\ s.prot \in {"RW", "RX"}
        BY <3>1 DEF IsSegment
      <4>2. s.phys + (p * PAGE - s.base) \in Int
        BY <3>2, <4>1
      <4> QED
        BY <3>2, <4>1, <4>2 DEF Entry
    <3>4. Entry(s, p) # None
      BY <3>3, VmmAssumption
    <3>5. pt'[p] = Entry(s, p)
      BY <2>1 DEF Used, s
    <3> QED
      BY <2>1, <3>4, <3>5 DEF Absent
  <2>2. CASE p \notin Absent(S)
    BY <2>2 DEF Used, Absent
  <2> QED
    BY <2>1, <2>2
<1> QED
  BY <1>1 DEF Faulted

(* A new mapping backs the pages of its range, which nothing backed.       *)
LEMMA AddMaps ==
  ASSUME IInv, IInv', NEW a, NEW n, NEW S, Adding(a, n, S)
  PROVE  /\ a \in START .. END /\ Maps(a, n, S)
         /\ PagesOf(a, n) \in Coarse!Ranges /\ Coarse!Map(PagesOf(a, n))
<1>1. PICK s, flags : /\ s.base = a /\ s.length = n /\ ~Has(flags, VMM_FLAG_NO_DEMAND)
                      /\ s \notin segs /\ Sound(segs \cup {s})
                      /\ S \in SUBSET Page /\ \A p \in S : InSome(segs \cup {s}, p)
                      /\ AddSegment(s, flags, S)
  BY DEF Adding
<1>2. AddSegment(s, flags, S)
  BY <1>1
<1> DEFINE R == {p \in Page : s.base <= p * PAGE /\ p * PAGE < s.base + s.length}
<1>3. Sound(segs) /\ Sound(segs') /\ segs' = segs \cup {s}
  BY <1>1, <1>2, Soundness DEF IInv, AddSegment
<1>4. R = {p \in Page : Covers(s, p * PAGE)}
  BY DEF Covers, EndOf
<1>5. R \in Coarse!Ranges
  <2>1. s.base \in Nat /\ s.length \in Nat /\ Whole(s.base, s.length)
    BY <1>3 DEF Sound, IsSegment
  <2> QED
    BY <2>1, PlaceIsRange
<1> HIDE DEF R
<1>6. ASSUME NEW p \in R
      PROVE  BackingOf(segs)[p] = None /\ BackingOf(segs')[p] # None
  <2>1. p \in Page /\ Covers(s, p * PAGE) /\ p * PAGE \in Nat
    BY <1>4, Bounds
  <2>2. ASSUME NEW t \in segs, Covers(t, p * PAGE)
        PROVE  FALSE
    <3>1. t # s /\ ~SEGMENT_INTERSECTS(t.base, t.length, s)
      BY <1>1, <1>3 DEF Sound
    <3>2. /\ t.base \in Nat /\ t.length \in Nat /\ s.base \in Nat /\ s.length \in Nat
      BY <1>3 DEF Sound, IsSegment
    <3> QED
      BY <2>1, <2>2, <3>1, <3>2 DEF Covers, SEGMENT_INTERSECTS, EndOf
  <2>3. ~InSome(segs, p) /\ InSome(segs', p)
    BY <1>3, <2>1, <2>2 DEF InSome
  <2> QED
    BY <1>3, <2>1, <2>3, BackingIs
<1>7. ASSUME NEW p \in Page \ R
      PROVE  BackingOf(segs')[p] = BackingOf(segs)[p]
  <2>1. ~Covers(s, p * PAGE)
    BY <1>4
  <2>2. {t \in segs' : Covers(t, p * PAGE)} = {t \in segs : Covers(t, p * PAGE)}
    BY <1>3, <2>1
  <2> QED
    BY <2>2 DEF BackingOf
<1>8. Resident \subseteq Resident'
  BY <1>2 DEF Resident, AddSegment, Used, Absent
<1>9. \A p \in Resident' : BackingOf(segs')[p] # None
  <2>1. (\A p \in Resident : p \in Page /\ InSome(segs, p) /\ BackingOf(segs)[p] # None)'
    BY ResidentBacked, PTL
  <2> QED
    BY <2>1
<1>10. Coarse!Use /\ Coarse!Outside(R)
  BY <1>7, <1>8, <1>9, CoarseActions
<1>11. Coarse!Map(R)
  BY <1>6, <1>10, CoarseActions
<1>12. a \in Nat /\ n \in Nat /\ Whole(a, n)
  BY <1>1 DEF Sound, IsSegment
<1>13. R = PagesOf(a, n)
  <2>1. Freeable(a, n)
    BY <1>12 DEF Freeable, Whole
  <2>2. \A p \in Page : p \in PagesOf(a, n) <=> a <= p * PAGE /\ p * PAGE < a + n
    BY <2>1, RangePages
  <2>3. PagesOf(a, n) \subseteq Page
    BY DEF PagesOf
  <2> QED
    BY <1>1, <2>2, <2>3 DEF R
<1>14. a % PAGE = 0 /\ SEGMENT_IN_BOUNDS(a, n) /\ a \in START .. END
  BY <1>12, Bounds DEF Whole, SEGMENT_IN_BOUNDS, ADDRESS_IN_BOUNDS
<1>15. Faulted(S)
  <2>1. pt' = Used(segs \cup {s}, S)
    BY <1>1 DEF AddSegment
  <2> QED
    BY <1>1, <2>1, UsedFaults
<1> QED
  BY <1>5, <1>11, <1>13, <1>14, <1>15 DEF Maps

(* A fault or a copy backs nothing and makes its own pages resident.       *)
LEMMA UseTouches ==
  ASSUME IInv, IInv', NEW S, Using(S)
  PROVE  Coarse!Touch /\ Faulted(S)
<1>1. segs' = segs /\ Resident \subseteq Resident'
  BY DEF Using, Resident, Used, Absent
<1>3. Faulted(S)
  BY Soundness, UsedFaults DEF Using, IInv
<1>2. \A p \in Resident' : BackingOf(segs')[p] # None
  <2>1. (\A p \in Resident : p \in Page /\ InSome(segs, p) /\ BackingOf(segs)[p] # None)'
    BY ResidentBacked, PTL
  <2> QED
    BY <2>1
<1> QED
  BY <1>1, <1>2, <1>3, CoarseActions

(* Unmapping takes the backing from its range, and from nothing else.      *)
LEMMA FreeUnmaps ==
  ASSUME IInv, IInv', NEW lo, NEW n, Freeing(lo, n)
  PROVE  PagesOf(lo, n) \in Coarse!Ranges /\ Coarse!Unmap(PagesOf(lo, n))
<1>1. PICK cache : /\ cache \in Nat
                   /\ Freeable(lo, n) /\ Whole(lo, n)
                   /\ segs' = Unmapped(lo, n, cache) /\ pt' = Cleared(lo, lo + n)
                   /\ Returned(lo, n)
  BY DEF Freeing
<1>2. cache \in Nat /\ segs' = Unmapped(lo, n, cache)
  BY <1>1
<1>3. lo \in Nat /\ n \in Nat /\ Freeable(lo, n) /\ Whole(lo, n) /\ (lo + n) - lo = n
  BY <1>1 DEF Freeable
<1>4. Sound(segs) /\ Sound(segs') /\ DOMAIN pt = Page
  <2>1. Sound(segs) /\ DOMAIN pt = Page
    BY Soundness DEF IInv
  <2> QED
    BY <1>2, <1>3, <2>1, UnmappedSound
<1> DEFINE R == {p \in Page : lo <= p * PAGE /\ p * PAGE < lo + n}
<1>5. R \in Coarse!Ranges
  BY <1>3, PlaceIsRange
<1>6. \A p \in Page : p \in R <=> p \in PagesOf(lo, n)
  BY <1>3, RangePages
<1>7. \A t \in segs' : \E s \in segs : PartOf(t, s, lo, lo + n)
  BY <1>2, <1>4, <1>3, UnmappedSound
<1>8. ASSUME NEW p \in R
      PROVE  BackingOf(segs')[p] = None
  <2>1. ASSUME NEW t \in segs', Covers(t, p * PAGE)
        PROVE  FALSE
    <3>1. (EndOf(t) <= lo \/ lo + n <= t.base) /\ IsSegment(t)
      BY <1>7 DEF PartOf
    <3>2. t.base \in Nat /\ EndOf(t) \in Nat /\ p * PAGE \in Nat
      BY <3>1, Bounds DEF IsSegment, EndOf
    <3> QED
      BY <1>3, <2>1, <3>1, <3>2 DEF Covers
  <2>2. ~InSome(segs', p)
    BY <2>1 DEF InSome
  <2> QED
    BY <1>4, <2>2, BackingIs
<1>9. ASSUME NEW p \in Page \ R
      PROVE  BackingOf(segs')[p] = BackingOf(segs)[p]
  <2>1. p * PAGE \in Nat /\ (p * PAGE < lo \/ lo + n <= p * PAGE)
    BY <1>3, Bounds
  <2>2. CASE InSome(segs, p)
    <3>1. PICK s \in segs : Covers(s, p * PAGE)
      BY <2>2 DEF InSome
    <3>2. PICK t \in segs' : Covers(t, p * PAGE) /\ t.type = s.type /\ t.prot = s.prot
      BY <1>2, <1>4, <1>3, <2>1, <3>1, StillCovered
    <3>3. BackingOf(segs)[p] = [type |-> s.type, prot |-> s.prot]
      BY <1>4, <3>1, BackingIs
    <3>4. BackingOf(segs')[p] = [type |-> t.type, prot |-> t.prot]
      BY <1>4, <3>2, BackingIs
    <3> QED
      BY <3>2, <3>3, <3>4
  <2>3. CASE ~InSome(segs, p)
    <3>1. ASSUME NEW t \in segs', Covers(t, p * PAGE)
          PROVE  FALSE
      <4>1. PICK s \in segs : PartOf(t, s, lo, lo + n)
        BY <1>7
      <4>2. s.base <= t.base /\ EndOf(t) <= EndOf(s) /\ IsSegment(t) /\ IsSegment(s)
        BY <1>4, <4>1 DEF PartOf, Sound
      <4>3. /\ s.base \in Nat /\ EndOf(s) \in Nat /\ t.base \in Nat /\ EndOf(t) \in Nat
        BY <4>2 DEF IsSegment, EndOf
      <4>4. Covers(s, p * PAGE)
        BY <2>1, <3>1, <4>2, <4>3 DEF Covers
      <4> QED
        BY <2>3, <4>4 DEF InSome
    <3>2. ~InSome(segs', p)
      BY <3>1 DEF InSome
    <3> QED
      BY <1>4, <2>3, <3>2, BackingIs
  <2> QED
    BY <2>2, <2>3
<1>10. Resident' = Resident \ R
  <2>1. \A p \in Page : pt'[p] = IF p \in PagesOf(lo, n) THEN None ELSE pt[p]
    BY <1>1, <1>3 DEF Cleared
  <2> HIDE DEF R
  <2> QED
    BY <1>6, <2>1 DEF Resident
<1> HIDE DEF R
<1>11. Coarse!Outside(R)
  BY <1>9, CoarseActions
<1>12. Coarse!Unmap(R)
  BY <1>8, <1>10, <1>11, CoarseActions
<1>13. R = PagesOf(lo, n)
  <2>1. PagesOf(lo, n) \subseteq Page
    BY DEF PagesOf
  <2> QED
    BY <1>6, <2>1 DEF R
<1> QED
  BY <1>5, <1>12, <1>13

(* Each call does to the address space what its arguments say.             *)
LEMMA CallsMatched ==
  ASSUME IInv, IInv'
  PROVE  CallsMatch
<1>1. ASSUME NEW h \in Headers, elf_load(h), ~halted'
      PROVE  \E a \in START .. END :
               Maps(a, Ceil(h.memsz + (h.vaddr - Floor(h.vaddr))), PagesOf(h.vaddr, h.filesz))
  <2>1. PICK a : Adding(a, Ceil(h.memsz + (h.vaddr - Floor(h.vaddr))), PagesOf(h.vaddr, h.filesz))
    BY <1>1, Calls DEF Stopped
  <2> QED
    BY <2>1, AddMaps
<1>2. ASSUME arch_sched_stack_setup, ~halted'
      PROVE  \E a \in START .. END : Maps(a, STACK, PagesOf(a + STACK - PAGE, PAGE))
  <2>1. PICK a : Adding(a, STACK, PagesOf(a + STACK - PAGE, PAGE))
    BY <1>2, Calls DEF Stopped
  <2> QED
    BY <2>1, AddMaps
<1>3. ASSUME NEW n \in Lengths, syscall_mem_anon_allocate(n), ~halted'
      PROVE  \E a \in START .. END : Maps(a, n, PagesOf(a, n))
  <2>1. PICK a : Adding(a, n, PagesOf(a, n))
    BY <1>3, Calls DEF Stopped
  <2> QED
    BY <2>1, AddMaps
<1>4. ASSUME NEW q \in Page, syscall_elib_framebuffer(q * PAGE)
      PROVE  \/ UNCHANGED Coarse!absVars
             \/ \E a \in START .. END : \E S \in {{}, {q}} : Maps(a, Ceil(Framebuffer.size), S)
  <2>1. CASE Idle
    BY <2>1, CoarseActions DEF Idle
  <2>2. CASE \E a : \E S \in {{}, PagesOf(q * PAGE, 1)} : Adding(a, Ceil(Framebuffer.size), S)
    <3>1. PICK a : \E S \in {{}, PagesOf(q * PAGE, 1)} : Adding(a, Ceil(Framebuffer.size), S)
      BY <2>2
    <3>3. PICK S \in {{}, PagesOf(q * PAGE, 1)} : Adding(a, Ceil(Framebuffer.size), S)
      BY <3>1
    <3>2. PagesOf(q * PAGE, 1) = {q}
      <4>1. ASSUME NEW p \in Page
            PROVE  p * PAGE < q * PAGE + 1 /\ q * PAGE < (p + 1) * PAGE <=> p = q
        <5>1. p \in Nat /\ q \in Nat /\ p * PAGE \in Nat /\ q * PAGE \in Nat /\ p + 1 \in Nat
              /\ (p + 1) * PAGE \in Nat
          BY Bounds, PageStarts
        <5>2. (q < p <=> q * PAGE < p * PAGE) /\ (q < p + 1 <=> q * PAGE < (p + 1) * PAGE)
          BY <5>1, PageStarts
        <5> QED
          BY <5>1, <5>2
      <4> QED
        BY <4>1 DEF PagesOf
    <3> QED
      BY <3>2, <3>3, AddMaps
  <2> QED
    BY <1>4, <2>1, <2>2, Calls
<1>5. ASSUME NEW lo \in START .. END, NEW n \in Lengths, syscall_mem_anon_free(lo, n), ~halted'
      PROVE  Coarse!Unmap(PagesOf(lo, n))
  BY <1>5, Calls, FreeUnmaps DEF Stopped
<1>6. ASSUME NEW p \in Page, x86_64_vmm_page_fault_handler(p), ~halted'
      PROVE  Faulted({p}) /\ Coarse!Touch
  BY <1>6, Calls, UseTouches DEF Stopped
<1>7. ASSUME NEW a \in START .. END, NEW n \in Lengths, vmm_copy(a, n)
      PROVE  Faulted(PagesOf(a, n)) /\ Coarse!Touch
  BY <1>7, Calls, UseTouches
<1> QED
  BY <1>1, <1>2, <1>3, <1>4, <1>5, <1>6, <1>7 DEF CallsMatch

(* The segments and the page table implement the address space: mapping,   *)
(* unmapping, faulting and copying change the backing and the residence of *)
(* the pages their arguments name, and of no other (memory/vmm.c).         *)
THEOREM Refinement == Spec => ImplementsAddressSpace
<1>1. Init => Coarse!AbsInit
  <2> SUFFICES ASSUME Init
               PROVE  Coarse!AbsInit
    OBVIOUS
  <2>1. segs = {} /\ pt = [p \in Page |-> None]
    BY DEF Init
  <2>2. \A p \in Page : Backed(p) = {}
    BY <2>1 DEF Backed
  <2>3. {p \in Page : pt[p] # None} = {}
    BY <2>1
  <2> QED
    BY <2>2, <2>3 DEF Coarse!AbsInit
<1>2. ASSUME IInv, IInv', [Next]_vars
      PROVE  [Coarse!AbsNext]_(Coarse!absVars)
  <2>1. (\E a, n, S : Adding(a, n, S)) \/ (\E S : Using(S)) \/ (\E lo, n : Freeing(lo, n)) \/ Idle
    BY <1>2, Kinds DEF Frees
  <2>2. CASE \E a, n, S : Adding(a, n, S)
    <3>1. PICK a, n, S : Adding(a, n, S)
      BY <2>2
    <3> QED
      BY <1>2, <3>1, AddMaps DEF Coarse!AbsNext
  <2>3. CASE \E S : Using(S)
    BY <1>2, <2>3, UseTouches DEF Coarse!AbsNext
  <2>4. CASE \E lo, n : Freeing(lo, n)
    <3>1. PICK lo, n : Freeing(lo, n)
      BY <2>4
    <3> QED
      BY <1>2, <3>1, FreeUnmaps DEF Coarse!AbsNext
  <2>5. CASE Idle
    BY <2>5, CoarseActions DEF Idle
  <2> QED
    BY <2>1, <2>2, <2>3, <2>4, <2>5
<1>3. ASSUME IInv, IInv'
      PROVE  [CallsMatch]_vars
  BY <1>3, CallsMatched
<1> QED
  BY InitStep, Invariance, <1>1, <1>2, <1>3, PTL DEF Spec, ImplementsAddressSpace, Coarse!AbsSpec

-----------------------------------------------------------------------------
(* The search loops                                                        *)

(* Every segment ends behind its beginning, at a number.                   *)
Numbered(sg) == \A s \in sg : s.base \in Nat /\ EndOf(s) \in Nat /\ EndOf(s) <= START + END

(* The places where n bytes are free, among a and the ends behind it, and  *)
(* what find_space makes of them.                                          *)
Stops(a) == {a} \cup {EndOf(s) : s \in {x \in segs : EndOf(x) >= a}}
Free(a, n) == {x \in Stops(a) : \A s \in segs : ~SEGMENT_INTERSECTS(x, n, s)}
First(a, n) == CHOOSE x \in Free(a, n) : \A y \in Free(a, n) : x <= y
FoundFrom(a, n) == IF SEGMENT_IN_BOUNDS(First(a, n), n) THEN First(a, n) ELSE 0

(* From every address there is a first place behind all segments.          *)
LEMMA FirstIs ==
  ASSUME Numbered(segs), NEW a \in Nat, NEW n \in Nat
  PROVE  /\ First(a, n) \in Free(a, n) /\ First(a, n) \in Nat /\ First(a, n) >= a
         /\ \A y \in Free(a, n) : First(a, n) <= y
<1>1. \A s \in segs : s.base \in Nat /\ EndOf(s) \in Nat /\ EndOf(s) <= START + END
  BY DEF Numbered
<1>2. \A x \in Stops(a) : x \in Nat /\ x >= a /\ x <= a + (START + END)
  BY <1>1, Bounds DEF Stops
<1>3. Stops(a) \in SUBSET Nat /\ a \in Stops(a) /\ \A s \in segs : EndOf(s) >= a => EndOf(s) \in Stops(a)
  BY <1>2 DEF Stops
<1>4. PICK x \in Stops(a) : \A y \in Stops(a) : y <= x
  <2>1. a + (START + END) \in Nat
    BY Bounds
  <2> QED
    BY <1>2, <1>3, <2>1, Greatest
<1>5. \A s \in segs : ~SEGMENT_INTERSECTS(x, n, s)
  <2> SUFFICES ASSUME NEW s \in segs, x < EndOf(s) PROVE FALSE
    BY DEF SEGMENT_INTERSECTS
  <2>1. x \in Nat /\ x >= a /\ EndOf(s) \in Nat
    BY <1>1, <1>2, <1>4
  <2>2. EndOf(s) \in Stops(a)
    BY <1>3, <2>1
  <2>3. EndOf(s) <= x
    BY <1>4, <2>2
  <2> QED
    BY <2>1, <2>3
<1>6. x \in Free(a, n) /\ Free(a, n) \subseteq Stops(a)
  BY <1>4, <1>5 DEF Free
<1>7. \E y \in Free(a, n) : \A z \in Free(a, n) : y <= z
  <2>1. Free(a, n) \in SUBSET Nat /\ Free(a, n) # {}
    BY <1>2, <1>6
  <2> QED
    BY <2>1, Least
<1>8. First(a, n) \in Free(a, n) /\ \A y \in Free(a, n) : First(a, n) <= y
  BY Zenon, <1>7 DEF First
<1> QED
  BY <1>2, <1>6, <1>8

(* Nothing between an address and the end of a segment in its way is free. *)
LEMMA SkipsNothing ==
  ASSUME Numbered(segs), NEW a \in Nat, NEW n \in Nat, NEW s \in segs, SEGMENT_INTERSECTS(a, n, s)
  PROVE  EndOf(s) \in Nat /\ EndOf(s) > a /\ EndOf(s) <= START + END /\ Free(a, n) = Free(EndOf(s), n)
<1> DEFINE b == EndOf(s)
<1>1. \A t \in segs : t.base \in Nat /\ EndOf(t) \in Nat /\ EndOf(t) <= START + END
  BY DEF Numbered
<1>2. b \in Nat /\ a < b /\ s.base < a + n /\ s.base \in Nat /\ b <= START + END
  BY <1>1 DEF SEGMENT_INTERSECTS
<1>3. \A x : x \in Stops(a) <=> x = a \/ \E t \in segs : x = EndOf(t) /\ EndOf(t) >= a
  BY DEF Stops
<1>4. \A x : x \in Stops(b) <=> x = b \/ \E t \in segs : x = EndOf(t) /\ EndOf(t) >= b
  BY DEF Stops
<1>5. \A x \in Stops(b) : x \in Stops(a)
  <2> SUFFICES ASSUME NEW x \in Stops(b) PROVE x \in Stops(a)
    OBVIOUS
  <2>1. PICK t \in segs : x = EndOf(t) /\ EndOf(t) >= b
    <3>1. b >= b
      BY <1>2
    <3> QED
      BY <1>4, <3>1
  <2>2. EndOf(t) >= a
    BY <1>1, <1>2, <2>1
  <2> QED
    BY <1>3, <2>1, <2>2
<1>6. \A x \in Stops(a) : x \in Nat /\ x >= a
  BY <1>1, <1>3
<1>7. ASSUME NEW x \in Stops(a), ~SEGMENT_INTERSECTS(x, n, s)
      PROVE  x \in Stops(b)
  <2>1. x \in Nat /\ x >= a
    BY <1>6
  <2>2. s.base < x + n
    BY <1>2, <2>1
  <2>3. x >= b
    BY <1>2, <1>7, <2>1, <2>2 DEF SEGMENT_INTERSECTS
  <2>4. x # a
    BY <1>2, <2>3
  <2>5. PICK t \in segs : x = EndOf(t)
    BY <1>3, <2>4
  <2> QED
    BY <1>4, <2>3, <2>5
<1>8. Free(a, n) = Free(b, n)
  BY <1>5, <1>7 DEF Free
<1> QED
  BY <1>2, <1>8

(* f is the walk of find_space for n bytes, at every address. *)
WalkTo(n, f) ==
  f = [a \in Nat |->
         LET hits == {s \in segs : SEGMENT_INTERSECTS(a, n, s)} IN
         IF ~SEGMENT_IN_BOUNDS(a, n) THEN {0}
         ELSE IF hits = {} THEN {a} ELSE UNION {f[EndOf(s)] : s \in hits}]

(* The three ways on from an address.                                      *)
LEMMA FoundStep ==
  ASSUME Numbered(segs), NEW a \in Nat, NEW n \in Nat
  PROVE  /\ a >= START /\ ~SEGMENT_IN_BOUNDS(a, n) => FoundFrom(a, n) = 0
         /\ SEGMENT_IN_BOUNDS(a, n) /\ (\A s \in segs : ~SEGMENT_INTERSECTS(a, n, s)) => FoundFrom(a, n) = a
         /\ \A s \in segs : SEGMENT_INTERSECTS(a, n, s) => FoundFrom(a, n) = FoundFrom(EndOf(s), n)
<1>1. /\ First(a, n) \in Free(a, n) /\ First(a, n) \in Nat /\ First(a, n) >= a
      /\ \A y \in Free(a, n) : First(a, n) <= y
  BY FirstIs
<1>2. ASSUME a >= START, ~SEGMENT_IN_BOUNDS(a, n)
      PROVE  FoundFrom(a, n) = 0
  <2> DEFINE x == First(a, n)
  <2>1. x \in Nat /\ x >= a
    BY <1>1
  <2> HIDE DEF x
  <2>2. ~SEGMENT_IN_BOUNDS(x, n)
    BY <1>2, <2>1, Bounds DEF SEGMENT_IN_BOUNDS, ADDRESS_IN_BOUNDS
  <2> QED
    BY <2>2 DEF FoundFrom, x
<1>3. ASSUME SEGMENT_IN_BOUNDS(a, n), \A s \in segs : ~SEGMENT_INTERSECTS(a, n, s)
      PROVE  FoundFrom(a, n) = a
  <2>1. a \in Free(a, n)
    BY <1>3 DEF Free, Stops
  <2>2. First(a, n) = a
    BY <1>1, <2>1
  <2> QED
    BY <1>3, <2>2 DEF FoundFrom
<1>4. ASSUME NEW s \in segs, SEGMENT_INTERSECTS(a, n, s)
      PROVE  FoundFrom(a, n) = FoundFrom(EndOf(s), n)
  <2>1. Free(a, n) = Free(EndOf(s), n)
    BY <1>4, SkipsNothing
  <2>2. First(a, n) = First(EndOf(s), n)
    BY Zenon, <2>1 DEF First
  <2> QED
    BY Zenon, <2>2 DEF FoundFrom
<1> QED
  BY <1>2, <1>3, <1>4

(* The walk ends at the first free place and nowhere else: the function of *)
(* its definition is there, and it is the only one.                        *)
LEMMA WalkFinds ==
  ASSUME Numbered(segs), NEW n \in Nat
  PROVE  /\ \E f : WalkTo(n, f)
         /\ \A f : WalkTo(n, f) => \A a \in Nat : a >= START => f[a] = {FoundFrom(a, n)}
<1> DEFINE hits(a) == {s \in segs : SEGMENT_INTERSECTS(a, n, s)}
           value(a) == IF a < START THEN {0} ELSE {FoundFrom(a, n)}
           step(f, a) == IF ~SEGMENT_IN_BOUNDS(a, n) THEN {0}
                         ELSE IF hits(a) = {} THEN {a} ELSE UNION {f[EndOf(s)] : s \in hits(a)}
<1>0. START \in Nat /\ END \in Nat
  BY Bounds
<1>1. \A a \in Nat : SEGMENT_IN_BOUNDS(a, n) => a >= START /\ a < END
  BY <1>0 DEF SEGMENT_IN_BOUNDS, ADDRESS_IN_BOUNDS
<1>2. \A a \in Nat : ~SEGMENT_IN_BOUNDS(a, n) => value(a) = {0}
  BY <1>0, FoundStep
<1>3. \A a \in Nat : SEGMENT_IN_BOUNDS(a, n) /\ hits(a) = {} => value(a) = {a}
  <2> SUFFICES ASSUME NEW a \in Nat, SEGMENT_IN_BOUNDS(a, n), hits(a) = {} PROVE value(a) = {a}
    OBVIOUS
  <2>1. \A s \in segs : ~SEGMENT_INTERSECTS(a, n, s)
    OBVIOUS
  <2>2. FoundFrom(a, n) = a
    BY <2>1, FoundStep
  <2> QED
    BY <1>0, <1>1, <2>2
<1>4. \A a \in Nat : SEGMENT_IN_BOUNDS(a, n) =>
        \A s \in hits(a) : EndOf(s) \in Nat /\ EndOf(s) > a /\ value(EndOf(s)) = value(a)
  <2> SUFFICES ASSUME NEW a \in Nat, SEGMENT_IN_BOUNDS(a, n), NEW s \in hits(a)
               PROVE EndOf(s) \in Nat /\ EndOf(s) > a /\ value(EndOf(s)) = value(a)
    OBVIOUS
  <2>1. EndOf(s) \in Nat /\ EndOf(s) > a
    BY SkipsNothing
  <2>2. FoundFrom(a, n) = FoundFrom(EndOf(s), n)
    BY FoundStep
  <2>3. a >= START
    BY <1>1
  <2>4. ~(EndOf(s) < START) /\ ~(a < START)
    BY <1>0, <2>1, <2>3
  <2> QED
    BY Zenon, <2>1, <2>2, <2>4
<1> HIDE DEF hits, value
<1>5. ASSUME NEW f, NEW a \in Nat, SEGMENT_IN_BOUNDS(a, n) => \A s \in hits(a) : f[EndOf(s)] = value(EndOf(s))
      PROVE  step(f, a) = value(a)
  <2>1. CASE ~SEGMENT_IN_BOUNDS(a, n)
    BY Zenon, <1>2, <2>1
  <2>2. CASE SEGMENT_IN_BOUNDS(a, n) /\ hits(a) = {}
    BY Zenon, <1>3, <2>2
  <2>3. CASE SEGMENT_IN_BOUNDS(a, n) /\ hits(a) # {}
    <3>1. \A s \in hits(a) : f[EndOf(s)] = value(a)
      BY Zenon, <1>4, <1>5, <2>3
    <3> DEFINE U == UNION {f[EndOf(s)] : s \in hits(a)}
    <3>2. \A x : x \in U <=> \E s \in hits(a) : x \in f[EndOf(s)]
      OBVIOUS
    <3> HIDE DEF U
    <3>3. U = value(a)
      BY <2>3, <3>1, <3>2
    <3> QED
      BY Zenon, <2>3, <3>3 DEF U
  <2> QED
    BY <2>1, <2>2, <2>3
<1>6. \A f : WalkTo(n, f) <=> f = [a \in Nat |-> step(f, a)]
  BY Zenon DEF WalkTo, hits
<1>7. \E f : WalkTo(n, f)
  <2> DEFINE f == [a \in Nat |-> value(a)]
  <2>1. \A a \in Nat : f[a] = value(a)
    OBVIOUS
  <2>2. f = [a \in Nat |-> value(a)]
    OBVIOUS
  <2> HIDE DEF f, step
  <2>3. \A a \in Nat : step(f, a) = value(a)
    BY Zenon, <1>4, <1>5, <2>1
  <2>4. f = [a \in Nat |-> step(f, a)]
    BY Zenon, <2>2, <2>3
  <2> QED
    BY Zenon, <1>6, <2>4
<1>8. ASSUME NEW f, WalkTo(n, f)
      PROVE  \A a \in Nat : f[a] = value(a)
  <2>1. \A a \in Nat : f[a] = step(f, a)
    <3>1. f = [a \in Nat |-> step(f, a)]
      BY Zenon, <1>6, <1>8
    <3> HIDE DEF step
    <3> QED
      BY Zenon, <3>1
  <2> HIDE DEF step
  <2> DEFINE wrong(a) == f[a] # value(a)
             T == {d \in Nat : \E a \in Nat : a < END /\ d = END - a /\ wrong(a)}
  <2>2. \A a \in Nat : wrong(a) => a < END /\ \E s \in hits(a) : EndOf(s) \in Nat /\ EndOf(s) > a /\ wrong(EndOf(s))
    <3> SUFFICES ASSUME NEW a \in Nat, wrong(a)
                 PROVE a < END /\ \E s \in hits(a) : EndOf(s) \in Nat /\ EndOf(s) > a /\ wrong(EndOf(s))
      OBVIOUS
    <3>1. SEGMENT_IN_BOUNDS(a, n) /\ ~ \A s \in hits(a) : f[EndOf(s)] = value(EndOf(s))
      BY Zenon, <1>5, <2>1
    <3>2. PICK s \in hits(a) : f[EndOf(s)] # value(EndOf(s))
      BY <3>1
    <3> QED
      BY Zenon, <1>1, <1>4, <3>1, <3>2
  <2> HIDE DEF wrong
  <2>3. ASSUME T # {}
        PROVE  FALSE
    <3>1. PICK d \in T : \A y \in T : d <= y
      <4>1. T \in SUBSET Nat
        OBVIOUS
      <4> HIDE DEF T
      <4> QED
        BY <2>3, <4>1, Least
    <3>2. PICK a \in Nat : a < END /\ d = END - a /\ wrong(a)
      BY <3>1
    <3>3. PICK s \in hits(a) : EndOf(s) \in Nat /\ EndOf(s) > a /\ wrong(EndOf(s))
      BY <2>2, <3>2
    <3> DEFINE b == EndOf(s)
    <3>4. b \in Nat /\ b > a /\ wrong(b) /\ b < END
      BY <2>2, <3>3
    <3> HIDE DEF b
    <3>5. END - b \in Nat /\ ~(END - a <= END - b)
      BY <1>0, <3>2, <3>4
    <3>6. END - b \in T
      BY <3>4, <3>5
    <3> QED
      BY <3>1, <3>2, <3>5, <3>6
  <2>4. \A a \in Nat : ~wrong(a)
    <3> SUFFICES ASSUME NEW a \in Nat, wrong(a) PROVE FALSE
      OBVIOUS
    <3>1. a < END
      BY <2>2
    <3>2. END - a \in Nat
      BY <1>0, <3>1
    <3>3. END - a \in T
      BY <3>1, <3>2
    <3> QED
      BY <2>3, <3>3
  <2> QED
    BY <2>4 DEF wrong
<1>9. \A a \in Nat : a >= START => ~(a < START)
  BY <1>0
<1> QED
  BY Zenon, <1>7, <1>8, <1>9 DEF value

(* From every address find_space_loop has one answer: that of find_space.  *)
LEMMA WalkIsSearch ==
  ASSUME Numbered(segs), NEW a0 \in Nat, NEW n \in Nat
  PROVE  find_space_loop(a0, n) = {find_space(a0, n)}
<1> DEFINE a == IF SEGMENT_IN_BOUNDS(a0, n) THEN a0 ELSE START
           W == CHOOSE f : WalkTo(n, f)
<1>1. find_space_loop(a0, n) = W[a]
  BY Zenon DEF find_space_loop, WalkTo
<1>2. WalkTo(n, W)
  <2>1. \E f : WalkTo(n, f)
    BY WalkFinds
  <2> QED
    BY Zenon, <2>1
<1>3. a \in Nat /\ a >= START
  BY Bounds DEF SEGMENT_IN_BOUNDS, ADDRESS_IN_BOUNDS
<1>4. find_space(a0, n) = FoundFrom(a, n)
  BY Zenon DEF find_space, FoundFrom, First, Free, Stops
<1> HIDE DEF a, W
<1>5. W[a] = {FoundFrom(a, n)}
  BY <1>2, <1>3, WalkFinds
<1> QED
  BY Zenon, <1>1, <1>4, <1>5

(* Every one of the n bytes from a on lies in a segment.                   *)
AllIn(sg, a, n) == \A x \in a .. (a + n) - 1 : \E s \in sg : Covers(s, x)

(* The set of the one answer b. *)
Answer(b) == IF b THEN {TRUE} ELSE {FALSE}

(* A turn of the loop takes a part of the range with s: its start lies in  *)
(* s, or its end does.                                                     *)
Shortens(s, a, n) ==
  \/ Covers(s, a)
  \/ s.base > a /\ s.base < a + n /\ EndOf(s) >= a + n

(* What a segment takes from the range, it covers.                         *)
LEMMA ShortenedRange ==
  ASSUME NEW sg, Numbered(sg), NEW a \in Nat, NEW n \in Nat, n # 0, NEW s \in sg, Shortens(s, a, n)
  PROVE  LET r == Shortened(s, a, n) IN
         /\ r \in Nat \X Nat /\ r[2] < n
         /\ AllIn(sg, r[1], r[2]) <=> AllIn(sg, a, n)
<1> DEFINE b == s.base
           e == EndOf(s)
<1>1. b \in Nat /\ e \in Nat
  BY DEF Numbered
<1>2. \A x : Covers(s, x) <=> b <= x /\ x < e
  BY DEF Covers
<1>3. Shortened(s, a, n) = IF Covers(s, a) THEN <<e, IF e >= a + n THEN 0 ELSE (a + n) - e>> ELSE <<a, b - a>>
  BY DEF Shortened
<1>4. Covers(s, a) \/ (b > a /\ b < a + n /\ e >= a + n)
  BY DEF Shortens
<1> HIDE DEF b, e
<1>5. CASE Covers(s, a)
  <2> DEFINE m == IF e >= a + n THEN 0 ELSE (a + n) - e
  <2>1. m \in Nat /\ m < n /\ Shortened(s, a, n) = <<e, m>>
    BY <1>1, <1>2, <1>3, <1>5
  <2>2. \A x \in a .. (a + n) - 1 : x \in e .. (e + m) - 1 \/ Covers(s, x)
    BY <1>1, <1>2, <1>5
  <2>3. \A x \in e .. (e + m) - 1 : x \in a .. (a + n) - 1
    BY <1>1, <1>2, <1>5
  <2> HIDE DEF m
  <2>4. AllIn(sg, e, m) <=> AllIn(sg, a, n)
    BY Zenon, <2>2, <2>3 DEF AllIn
  <2> QED
    BY <1>1, <2>1, <2>4
<1>6. CASE ~Covers(s, a)
  <2> DEFINE m == b - a
  <2>1. m \in Nat /\ m < n /\ Shortened(s, a, n) = <<a, m>>
    BY <1>1, <1>3, <1>4, <1>6
  <2>2. \A x \in a .. (a + n) - 1 : x \in a .. (a + m) - 1 \/ Covers(s, x)
    BY <1>1, <1>2, <1>4, <1>6
  <2>3. \A x \in a .. (a + m) - 1 : x \in a .. (a + n) - 1
    BY <1>1, <1>4, <1>6
  <2> HIDE DEF m
  <2>4. AllIn(sg, a, m) <=> AllIn(sg, a, n)
    BY Zenon, <2>2, <2>3 DEF AllIn
  <2> QED
    BY <2>1, <2>4
<1> QED
  BY <1>5, <1>6

(* f is the loop of memory_exists, for every range. *)
RestTo(sg, f) ==
  f = [r \in Nat \X Nat |->
         LET a == r[1]
             n == r[2]
             hits == {s \in sg : \/ Covers(s, a)
                                 \/ s.base > a /\ s.base < a + n /\ EndOf(s) >= a + n}
         IN IF n = 0 THEN {TRUE}
            ELSE IF hits = {} THEN {FALSE} ELSE UNION {f[Shortened(s, a, n)] : s \in hits}]

(* The loop says what is so of the range, whichever segments shorten it.   *)
LEMMA RestSays ==
  ASSUME NEW sg, Numbered(sg)
  PROVE  /\ \E f : RestTo(sg, f)
         /\ \A f : RestTo(sg, f) => \A r \in Nat \X Nat : f[r] = Answer(AllIn(sg, r[1], r[2]))
<1> DEFINE R == Nat \X Nat
           hits(r) == {s \in sg : Shortens(s, r[1], r[2])}
           value(r) == Answer(AllIn(sg, r[1], r[2]))
           on(s, r) == Shortened(s, r[1], r[2])
           step(f, r) == IF r[2] = 0 THEN {TRUE}
                         ELSE IF hits(r) = {} THEN {FALSE} ELSE UNION {f[on(s, r)] : s \in hits(r)}
<1>1. \A r \in R : r[1] \in Nat /\ r[2] \in Nat
  OBVIOUS
<1>2. \A r \in R : r[2] = 0 => value(r) = {TRUE}
  <2> SUFFICES ASSUME NEW r \in R, r[2] = 0 PROVE value(r) = {TRUE}
    OBVIOUS
  <2>1. AllIn(sg, r[1], r[2])
    BY <1>1 DEF AllIn
  <2> QED
    BY <2>1 DEF Answer
<1>3. \A r \in R : r[2] # 0 /\ hits(r) = {} => value(r) = {FALSE}
  <2> SUFFICES ASSUME NEW r \in R, r[2] # 0, hits(r) = {} PROVE value(r) = {FALSE}
    OBVIOUS
  <2>1. \A s \in sg : ~Covers(s, r[1])
    BY DEF Shortens
  <2>2. r[1] \in r[1] .. (r[1] + r[2]) - 1
    BY <1>1
  <2>3. ~AllIn(sg, r[1], r[2])
    BY Zenon, <2>1, <2>2 DEF AllIn
  <2> QED
    BY <2>3 DEF Answer
<1>4. \A r \in R : r[2] # 0 => \A s \in hits(r) : on(s, r) \in R /\ on(s, r)[2] < r[2] /\ value(on(s, r)) = value(r)
  <2> SUFFICES ASSUME NEW r \in R, r[2] # 0, NEW s \in hits(r)
               PROVE on(s, r) \in R /\ on(s, r)[2] < r[2] /\ value(on(s, r)) = value(r)
    OBVIOUS
  <2>1. s \in sg /\ Shortens(s, r[1], r[2])
    OBVIOUS
  <2>2. /\ on(s, r) \in R /\ on(s, r)[2] < r[2]
        /\ AllIn(sg, on(s, r)[1], on(s, r)[2]) <=> AllIn(sg, r[1], r[2])
    BY <1>1, <2>1, ShortenedRange
  <2> QED
    BY <2>2 DEF Answer
<1> HIDE DEF hits, value, on, R
<1>5. ASSUME NEW f, NEW r \in R, r[2] # 0 => \A s \in hits(r) : f[on(s, r)] = value(on(s, r))
      PROVE  step(f, r) = value(r)
  <2>1. CASE r[2] = 0
    BY Zenon, <1>2, <2>1
  <2>2. CASE r[2] # 0 /\ hits(r) = {}
    BY Zenon, <1>3, <2>2
  <2>3. CASE r[2] # 0 /\ hits(r) # {}
    <3>1. \A s \in hits(r) : f[on(s, r)] = value(r)
      BY Zenon, <1>4, <1>5, <2>3
    <3> DEFINE U == UNION {f[on(s, r)] : s \in hits(r)}
    <3>2. \A x : x \in U <=> \E s \in hits(r) : x \in f[on(s, r)]
      OBVIOUS
    <3> HIDE DEF U
    <3>3. U = value(r)
      BY <2>3, <3>1, <3>2
    <3> QED
      BY Zenon, <2>3, <3>3 DEF U
  <2> QED
    BY <2>1, <2>2, <2>3
<1>6. \A f : RestTo(sg, f) <=> f = [r \in R |-> step(f, r)]
  BY Zenon DEF RestTo, hits, on, R, Shortens
<1>7. \E f : RestTo(sg, f)
  <2> DEFINE f == [r \in R |-> value(r)]
  <2>1. \A r \in R : f[r] = value(r)
    OBVIOUS
  <2>2. f = [r \in R |-> value(r)]
    OBVIOUS
  <2> HIDE DEF f, step
  <2>3. \A r \in R : step(f, r) = value(r)
    BY Zenon, <1>4, <1>5, <2>1
  <2>4. f = [r \in R |-> step(f, r)]
    BY Zenon, <2>2, <2>3
  <2> QED
    BY Zenon, <1>6, <2>4
<1>8. ASSUME NEW f, RestTo(sg, f)
      PROVE  \A r \in R : f[r] = value(r)
  <2>1. \A r \in R : f[r] = step(f, r)
    <3>1. f = [r \in R |-> step(f, r)]
      BY Zenon, <1>6, <1>8
    <3> HIDE DEF step
    <3> QED
      BY Zenon, <3>1
  <2> HIDE DEF step
  <2> DEFINE wrong(r) == f[r] # value(r)
             T == {d \in Nat : \E r \in R : d = r[2] /\ wrong(r)}
  <2>2. \A r \in R : wrong(r) => \E s \in hits(r) : on(s, r) \in R /\ on(s, r)[2] < r[2] /\ wrong(on(s, r))
    <3> SUFFICES ASSUME NEW r \in R, wrong(r)
                 PROVE \E s \in hits(r) : on(s, r) \in R /\ on(s, r)[2] < r[2] /\ wrong(on(s, r))
      OBVIOUS
    <3>1. r[2] # 0 /\ ~ \A s \in hits(r) : f[on(s, r)] = value(on(s, r))
      BY Zenon, <1>5, <2>1
    <3>2. PICK s \in hits(r) : f[on(s, r)] # value(on(s, r))
      BY <3>1
    <3> QED
      BY Zenon, <1>4, <3>1, <3>2
  <2> HIDE DEF wrong
  <2>3. ASSUME T # {}
        PROVE  FALSE
    <3>1. PICK d \in T : \A y \in T : d <= y
      <4>1. T \in SUBSET Nat
        OBVIOUS
      <4> HIDE DEF T
      <4> QED
        BY <2>3, <4>1, Least
    <3>2. PICK r \in R : d = r[2] /\ wrong(r)
      BY <3>1
    <3>3. PICK s \in hits(r) : on(s, r) \in R /\ on(s, r)[2] < r[2] /\ wrong(on(s, r))
      BY <2>2, <3>2
    <3> DEFINE q == on(s, r)
    <3>4. q \in R /\ q[2] < r[2] /\ wrong(q)
      BY <3>3
    <3> HIDE DEF q
    <3>5. q[2] \in Nat /\ r[2] \in Nat
      BY <1>1, <3>4
    <3>6. q[2] \in T
      BY <3>4, <3>5
    <3> QED
      BY <3>1, <3>2, <3>4, <3>5, <3>6
  <2>4. \A r \in R : ~wrong(r)
    <3> SUFFICES ASSUME NEW r \in R, wrong(r) PROVE FALSE
      OBVIOUS
    <3>1. r[2] \in T
      BY <1>1
    <3> QED
      BY <2>3, <3>1
  <2> QED
    BY <2>4 DEF wrong
<1> QED
  BY Zenon, <1>7, <1>8 DEF value, R

(* Whichever segments the loop takes, it answers what memory_exists says.  *)
LEMMA LoopIsCheck ==
  ASSUME NEW sg, Numbered(sg), NEW a0 \in Nat, NEW n0 \in Nat
  PROVE  memory_exists_loop(sg, a0, n0) = Answer(memory_exists(sg, a0, n0))
<1> DEFINE W == CHOOSE f : RestTo(sg, f)
           r == <<a0, n0>>
           B == ADDRESS_IN_BOUNDS(a0) /\ ADDRESS_IN_BOUNDS(a0 + n0)
<1>1. memory_exists_loop(sg, a0, n0) = IF B THEN W[r] ELSE {FALSE}
  BY Zenon DEF memory_exists_loop, RestTo
<1>2. RestTo(sg, W)
  <2>1. \E f : RestTo(sg, f)
    BY RestSays
  <2> QED
    BY Zenon, <2>1
<1> HIDE DEF W
<1>3. r \in Nat \X Nat /\ r[1] = a0 /\ r[2] = n0
  OBVIOUS
<1>4. W[r] = Answer(AllIn(sg, a0, n0))
  <2> HIDE DEF r
  <2>1. W[r] = Answer(AllIn(sg, r[1], r[2]))
    BY <1>2, <1>3, RestSays
  <2> QED
    BY <1>3, <2>1
<1>5. memory_exists(sg, a0, n0) <=> B /\ AllIn(sg, a0, n0)
  BY Zenon DEF memory_exists, AllIn
<1> HIDE DEF B, r
<1>6. CASE B
  <2>1. Answer(AllIn(sg, a0, n0)) = Answer(memory_exists(sg, a0, n0))
    BY <1>5, <1>6 DEF Answer
  <2> QED
    BY Zenon, <1>1, <1>4, <1>6, <2>1
<1>7. CASE ~B
  <2>1. Answer(memory_exists(sg, a0, n0)) = {FALSE}
    BY <1>5, <1>7 DEF Answer
  <2> QED
    BY Zenon, <1>1, <1>7, <2>1
<1> QED
  BY <1>6, <1>7

(* Whatever is mapped, the loops of find_space and memory_exists end, and  *)
(* with the first free place and with a yes for exactly the ranges that    *)
(* are mapped, in whatever order the segments are listed.                  *)
THEOREM SearchesAlwaysExact == Spec => []SearchesExact
<1>1. ASSUME IInv
      PROVE  SearchesExact
  <2>1. Numbered(segs)
    <3> SUFFICES ASSUME NEW s \in segs
                 PROVE s.base \in Nat /\ EndOf(s) \in Nat /\ EndOf(s) <= START + END
      BY DEF Numbered
    <3>1. s.base \in Nat /\ s.length \in Nat /\ s.base < END /\ END - s.base >= s.length
      BY <1>1 DEF IInv, TypeOK, IsSegment, SegmentsApart, SEGMENT_IN_BOUNDS, ADDRESS_IN_BOUNDS
    <3> QED
      BY <3>1, Bounds DEF EndOf
  <2>2. FirstFit
    <3> SUFFICES ASSUME NEW hint \in 0 .. END, NEW n \in Lengths
                 PROVE find_space_loop(Ceil(hint), n) = {find_space(Ceil(hint), n)}
      BY DEF FirstFit
    <3>1. Ceil(hint) \in Nat /\ n \in Nat
      BY Rounding, VmmAssumption
    <3> QED
      BY <2>1, <3>1, WalkIsSearch
  <2>3. RangeCheckExact
    <3> SUFFICES ASSUME NEW a \in START - 1 .. END, NEW n \in 0 .. END - a
                 PROVE memory_exists_loop(segs, a, n) = Answer(memory_exists(segs, a, n))
      BY DEF RangeCheckExact, Answer
    <3>1. a \in Nat /\ n \in Nat
      BY Bounds
    <3> QED
      BY <2>1, <3>1, LoopIsCheck
  <2> QED
    BY <2>2, <2>3 DEF SearchesExact
<1> QED
  BY InitStep, Invariance, <1>1, PTL DEF Spec

================================================================================
