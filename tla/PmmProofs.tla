-------------------------------- MODULE PmmProofs --------------------------------
(***************************************************************************)
(* The buddy allocator, for any memory map and any orders: its blocks tile *)
(* the memory, buddies are merged and the count is exact, when one CPU     *)
(* frees and allocates or when any number of them allocate.                *)
(***************************************************************************)
EXTENDS Pmm, FiniteSetTheorems, NaturalsInduction, TLAPS

(* A set of natural numbers that is not empty has a least member: what the *)
(* proofs below that go down in n rest on.                                 *)
LEMMA Least ==
  ASSUME NEW T \in SUBSET Nat, T # {}
  PROVE  \E x \in T : \A y \in T : x <= y
<1> DEFINE R == {ss \in Nat \X Nat : ss[1] < ss[2]}
<1>1. OpToRel(<, Nat) = R
  BY DEF OpToRel
<1>2. \A x, y \in T : y < x => <<y, x>> \in R
  OBVIOUS
<1> HIDE DEF R
<1>3. IsWellFoundedOn(R, Nat)
  BY NatLessThanWellFounded, <1>1
<1>4. PICK x \in T : \A y \in T : <<y, x>> \notin R
  BY <1>3, WFMin
<1>5. \A y \in T : ~(y < x)
  BY <1>2, <1>4
<1> QED
  BY <1>5

-----------------------------------------------------------------------------
(* Powers of two                                                           *)

(* The recursive function Shifted, on 0 .. n.                              *)
ShiftedTo(f, n) == f = [o \in 0 .. n |-> IF o = 0 THEN 1 ELSE 2 * f[o - 1]]

(* Shifted is a recursive function: it exists because its restriction to 0 *)
(* .. n does, for every n.                                                 *)
LEMMA ShiftedToExists ==
  ASSUME NEW n \in Nat
  PROVE  \E f : ShiftedTo(f, n)
<1> DEFINE T == {k \in Nat : ~ \E f : ShiftedTo(f, k)}
<1>1. SUFFICES ASSUME T # {}
               PROVE  FALSE
  OBVIOUS
<1>2. PICK k \in T : \A l \in T : k <= l
  BY <1>1, Least
<1>3. CASE k = 0
  <2> DEFINE f == [o \in 0 .. 0 |-> 1]
  <2>1. ShiftedTo(f, 0)
    BY DEF ShiftedTo
  <2> QED
    BY <1>2, <1>3, <2>1
<1>4. CASE k # 0
  <2>1. k \in Nat /\ k - 1 \in Nat /\ k - 1 \notin T
    BY <1>2, <1>4
  <2>2. PICK g : ShiftedTo(g, k - 1)
    BY <2>1
  <2> DEFINE f == [o \in 0 .. k |-> IF o = 0 THEN 1 ELSE 2 * g[o - 1]]
  <2>3. \A o \in 0 .. k - 1 : f[o] = g[o]
    BY <2>1, <2>2 DEF ShiftedTo
  <2>4. ASSUME NEW o \in 0 .. k, o # 0 PROVE f[o - 1] = g[o - 1]
    <3>1. o - 1 \in 0 .. k - 1
      BY <2>1, <2>4
    <3> QED
      BY <2>3, <3>1
  <2>5. ShiftedTo(f, k)
    BY <2>4 DEF ShiftedTo
  <2> QED
    BY <1>2, <2>5
<1> QED
  BY <1>3, <1>4

(* Two restrictions agree where both are defined.                          *)
LEMMA ShiftedToUnique ==
  ASSUME NEW n \in Nat, NEW m \in Nat, n <= m, NEW f, NEW g, ShiftedTo(f, n), ShiftedTo(g, m)
  PROVE  f[n] = g[n]
<1> DEFINE T == {k \in 0 .. n : f[k] # g[k]}
<1>1. SUFFICES ASSUME T # {}
               PROVE  FALSE
  OBVIOUS
<1>2. PICK k \in T : \A l \in T : k <= l
  <2>1. T \in SUBSET Nat
    OBVIOUS
  <2> HIDE DEF T
  <2> QED
    BY <1>1, <2>1, Least
<1>3. k \in 0 .. n /\ k \in 0 .. m /\ f[k] # g[k]
  BY <1>2
<1>4. f[k] = (IF k = 0 THEN 1 ELSE 2 * f[k - 1]) /\ g[k] = (IF k = 0 THEN 1 ELSE 2 * g[k - 1])
  BY <1>3 DEF ShiftedTo
<1>5. k # 0 => f[k - 1] = g[k - 1]
  BY <1>2, <1>3
<1> QED
  BY <1>3, <1>4, <1>5

(* A shift by one more place doubles.                                      *)
LEMMA ShiftedIs ==
  /\ Shifted[0] = 1
  /\ \A o \in Nat : Shifted[o + 1] = 2 * Shifted[o]
<1> DEFINE at(n) == CHOOSE f : ShiftedTo(f, n)
           F == [n \in Nat |-> at(n)[n]]
<1>1. \A n \in Nat : ShiftedTo(at(n), n)
  BY ShiftedToExists
<1> HIDE DEF at
<1>2. \A n \in Nat : at(n)[n] = IF n = 0 THEN 1 ELSE 2 * at(n)[n - 1]
  BY <1>1 DEF ShiftedTo
<1>3. ASSUME NEW n \in Nat, n # 0
      PROVE  at(n)[n - 1] = at(n - 1)[n - 1]
  <2>1. n - 1 \in Nat /\ n - 1 <= n
    BY <1>3
  <2>2. ShiftedTo(at(n), n) /\ ShiftedTo(at(n - 1), n - 1)
    BY <1>1, <2>1
  <2> QED
    BY <2>1, <2>2, ShiftedToUnique
<1>4. \A n \in Nat : F[n] = IF n = 0 THEN 1 ELSE 2 * F[n - 1]
  <2> SUFFICES ASSUME NEW n \in Nat
               PROVE  F[n] = IF n = 0 THEN 1 ELSE 2 * F[n - 1]
    OBVIOUS
  <2>1. CASE n = 0
    BY <1>2, <2>1
  <2>2. CASE n # 0
    <3>1. F[n] = at(n)[n] /\ F[n - 1] = at(n - 1)[n - 1]
      BY <2>2
    <3>2. at(n)[n] = 2 * at(n)[n - 1]
      BY <1>2, <2>2
    <3> QED
      BY <1>3, <2>2, <3>1, <3>2
  <2> QED
    BY <2>1, <2>2
<1>5. F = [n \in Nat |-> IF n = 0 THEN 1 ELSE 2 * F[n - 1]]
  BY <1>4
<1> HIDE DEF F
<1>6. Shifted = [n \in Nat |-> IF n = 0 THEN 1 ELSE 2 * Shifted[n - 1]]
  <2>1. \E G : G = [n \in Nat |-> IF n = 0 THEN 1 ELSE 2 * G[n - 1]]
    BY <1>5
  <2> QED
    BY <2>1 DEF Shifted
<1>7. \A n \in Nat : Shifted[n] = IF n = 0 THEN 1 ELSE 2 * Shifted[n - 1]
  <2> DEFINE S == Shifted
  <2>1. S = [n \in Nat |-> IF n = 0 THEN 1 ELSE 2 * S[n - 1]]
    BY <1>6
  <2> HIDE DEF S
  <2>2. \A n \in Nat : S[n] = IF n = 0 THEN 1 ELSE 2 * S[n - 1]
    BY <2>1
  <2> QED
    BY <2>2 DEF S
<1> QED
  BY <1>7

(* order_to_pagecount: one page at order 0, twice as many at the next.     *)
LEMMA Powers ==
  /\ order_to_pagecount(0) = 1
  /\ \A o \in Nat : /\ order_to_pagecount(o) \in Nat \ {0}
                    /\ order_to_pagecount(o + 1) = 2 * order_to_pagecount(o)
<1> DEFINE T == {o \in Nat : order_to_pagecount(o) \notin Nat \ {0}}
<1>1. order_to_pagecount(0) = 1 /\ \A o \in Nat : order_to_pagecount(o + 1) = 2 * order_to_pagecount(o)
  BY ShiftedIs DEF order_to_pagecount
<1>2. ASSUME T # {} PROVE FALSE
  <2>1. T \in SUBSET Nat
    OBVIOUS
  <2>2. PICK k \in T : \A l \in T : k <= l
    <3> HIDE DEF T
    <3> QED
      BY <1>2, <2>1, Least
  <2>3. k \in Nat /\ order_to_pagecount(k) \notin Nat \ {0}
    BY <2>2
  <2>4. k # 0
    BY <1>1, <2>3
  <2>5. k - 1 \in Nat /\ order_to_pagecount(k - 1) \in Nat \ {0}
    BY <2>2, <2>3, <2>4
  <2>6. order_to_pagecount((k - 1) + 1) = 2 * order_to_pagecount(k - 1)
    BY <1>1, <2>5
  <2>7. (k - 1) + 1 = k
    BY <2>3
  <2> QED
    BY <2>3, <2>5, <2>6, <2>7
<1> QED
  BY <1>1, <1>2

(* A larger block is some smaller ones.                                    *)
LEMMA Multiple ==
  ASSUME NEW i \in Nat, NEW j \in Nat, i <= j
  PROVE  \E k \in Nat \ {0} : order_to_pagecount(j) = k * order_to_pagecount(i)
<1> DEFINE T == {l \in Nat : i <= l /\ ~ \E k \in Nat \ {0} : order_to_pagecount(l) = k * order_to_pagecount(i)}
<1>1. SUFFICES ASSUME T # {}
               PROVE  FALSE
  OBVIOUS
<1>2. PICK l \in T : \A x \in T : l <= x
  <2>1. T \in SUBSET Nat
    OBVIOUS
  <2> HIDE DEF T
  <2> QED
    BY <1>1, <2>1, Least
<1>3. l \in Nat /\ i <= l /\ ~ \E k \in Nat \ {0} : order_to_pagecount(l) = k * order_to_pagecount(i)
  BY <1>2
<1>4. order_to_pagecount(i) \in Nat /\ order_to_pagecount(i) = 1 * order_to_pagecount(i)
  BY Powers
<1>5. l # i
  BY <1>3, <1>4
<1>6. l - 1 \in Nat /\ i <= l - 1 /\ l - 1 \notin T
  BY <1>2, <1>3, <1>5
<1>7. PICK k \in Nat \ {0} : order_to_pagecount(l - 1) = k * order_to_pagecount(i)
  BY <1>6
<1>8. order_to_pagecount(l) = 2 * order_to_pagecount(l - 1)
  <2>1. order_to_pagecount((l - 1) + 1) = 2 * order_to_pagecount(l - 1)
    BY <1>6, Powers
  <2>2. (l - 1) + 1 = l
    BY <1>3
  <2> QED
    BY <2>1, <2>2
<1>9. order_to_pagecount(l) = (2 * k) * order_to_pagecount(i) /\ 2 * k \in Nat \ {0}
  <2> DEFINE s == order_to_pagecount(i)
  <2>1. s \in Nat /\ order_to_pagecount(l) = 2 * (k * s)
    BY <1>4, <1>7, <1>8
  <2> HIDE DEF s
  <2>2. 2 * (k * s) = (2 * k) * s
    BY <2>1
  <2> QED
    BY <2>1, <2>2 DEF s
<1> QED
  BY <1>3, <1>9

(* A larger order has at least twice the pages.                            *)
LEMMA Grows ==
  ASSUME NEW i \in Nat, NEW j \in Nat, i < j
  PROVE  2 * order_to_pagecount(i) <= order_to_pagecount(j)
<1>1. PICK k \in Nat \ {0} : order_to_pagecount(j) = k * order_to_pagecount(i + 1)
  BY Multiple
<1>2. order_to_pagecount(i + 1) = 2 * order_to_pagecount(i) /\ order_to_pagecount(i + 1) \in Nat
  BY Powers
<1>3. \A s \in Nat : s <= k * s
  OBVIOUS
<1> QED
  BY <1>1, <1>2, <1>3

(* There is an order large enough for any number of pages.                 *)
LEMMA Exceeds ==
  ASSUME NEW n \in Nat
  PROVE  n < order_to_pagecount(n)
<1> DEFINE T == {o \in Nat : ~(o < order_to_pagecount(o))}
<1>1. SUFFICES ASSUME T # {}
               PROVE  FALSE
  OBVIOUS
<1>2. PICK k \in T : \A l \in T : k <= l
  <2>1. T \in SUBSET Nat
    OBVIOUS
  <2> HIDE DEF T
  <2> QED
    BY <1>1, <2>1, Least
<1>3. k \in Nat /\ ~(k < order_to_pagecount(k))
  BY <1>2
<1>4. k # 0
  BY <1>3, Powers
<1>5. k - 1 \in Nat /\ k - 1 < order_to_pagecount(k - 1)
  BY <1>2, <1>3, <1>4
<1>6. 2 * order_to_pagecount(k - 1) <= order_to_pagecount(k) /\ order_to_pagecount(k) \in Nat
      /\ order_to_pagecount(k - 1) \in Nat
  BY <1>3, <1>5, Grows, Powers
<1> QED
  BY <1>3, <1>5, <1>6

(* Stretches that begin at multiples of their sizes share no page, or one  *)
(* lies in the other.                                                      *)
LEMMA Nested ==
  ASSUME NEW i \in Nat, NEW j \in Nat, i <= j, NEW m \in Nat, NEW n \in Nat,
         NEW x, x = m * order_to_pagecount(i), NEW y, y = n * order_to_pagecount(j),
         x < y + order_to_pagecount(j), y < x + order_to_pagecount(i)
  PROVE  y <= x /\ x + order_to_pagecount(i) <= y + order_to_pagecount(j)
<1> DEFINE s == order_to_pagecount(i)
<1>1. PICK k \in Nat \ {0} : order_to_pagecount(j) = k * s
  BY Multiple
<1>2. s \in Nat \ {0}
  BY Powers
<1>3. x = m * s /\ y = n * (k * s) /\ x < y + k * s /\ y < x + s
  BY <1>1
<1> HIDE DEF s
<1>4. n * k \in Nat /\ n * (k * s) = (n * k) * s
  BY <1>1, <1>2
<1> DEFINE a == n * k
<1>5. a \in Nat /\ y = a * s /\ m * s < a * s + k * s /\ a * s < m * s + s
  BY <1>3, <1>4
<1> HIDE DEF a
<1>6. m * s < (a + k) * s /\ a * s < (m + 1) * s
  BY <1>1, <1>2, <1>5
<1>7. m < a + k /\ a < m + 1
  BY <1>1, <1>2, <1>5, <1>6
<1>8. a <= m /\ m + 1 <= a + k
  BY <1>1, <1>5, <1>7
<1>9. a * s <= m * s /\ (m + 1) * s <= (a + k) * s
  BY <1>1, <1>2, <1>5, <1>8
<1>10. (m + 1) * s = m * s + s /\ (a + k) * s = a * s + k * s
  BY <1>1, <1>2, <1>5
<1>11. y <= x /\ x + s <= y + k * s
  BY <1>1, <1>2, <1>3, <1>5, <1>9, <1>10
<1> QED
  BY <1>1, <1>11 DEF s

-----------------------------------------------------------------------------
(* The regions                                                             *)

(* All the pages of a zone that can be handed out.                         *)
Data == UNION {DataOf(r) : r \in Regions}

(* The records of a region leave room for themselves, and take some.       *)
LEMMA CeilDivBounds ==
  ASSUME NEW a \in Nat \ {0}, NEW b \in Nat \ {0}, NEW n \in Nat, a <= n * b
  PROVE  CeilDiv(a, b) \in 1 .. n
  BY DEF CeilDiv

(* What pmm_region_add makes of an entry: the records come first, and what *)
(* they leave is data.                                                     *)
LEMMA RegionFacts ==
  ASSUME NEW r \in Regions
  PROVE  /\ r.base \in Nat /\ r.page_count \in Nat \ {0}
         /\ used_pages(r) \in 1 .. r.page_count
         /\ data_base(r) \in Nat /\ region_end(r) \in Nat
         /\ r.base < data_base(r) /\ data_base(r) <= region_end(r)
         /\ region_end(r) <= Zone[Standard].end
         /\ data_base(r) = r.base + used_pages(r) /\ region_end(r) = r.base + r.page_count
<1> DEFINE z == Zone[Standard]
<1>1. PICK m \in Memory : m.base + m.size > z.start /\ m.base < z.end /\ r = Clip(m, z)
  BY DEF Regions
<1>2. m.base \in Nat /\ m.size \in Nat \ {0}
  BY MemoryAssumption
<1>3. z.start \in Nat /\ z.end \in Nat /\ z.start < z.end
  BY PmmAssumption
<1> HIDE DEF z
<1>4. /\ r.base = IF m.base < z.start THEN z.start ELSE m.base
      /\ r.page_count = (IF m.base + m.size > z.end THEN z.end ELSE m.base + m.size) - r.base
  BY <1>1 DEF Clip
<1>5. r.base \in Nat /\ r.page_count \in Nat \ {0} /\ r.base + r.page_count <= z.end
  <2> DEFINE b == IF m.base < z.start THEN z.start ELSE m.base
             e == IF m.base + m.size > z.end THEN z.end ELSE m.base + m.size
  <2>1. b \in Nat /\ e \in Nat /\ b < e /\ e <= z.end
    BY <1>1, <1>2, <1>3
  <2>2. r.base = b /\ r.page_count = e - b
    BY <1>4
  <2> HIDE DEF b, e
  <2> QED
    BY <2>1, <2>2
<1>6. /\ REGION + RECORD * r.page_count \in Nat \ {0}
      /\ REGION + RECORD * r.page_count <= r.page_count * PAGE /\ PAGE \in Nat \ {0}
  <2>1. REGION \in Nat \ {0} /\ RECORD \in Nat /\ PAGE \in Nat /\ REGION + RECORD <= PAGE
    BY PmmAssumption
  <2> DEFINE n == r.page_count
  <2>2. n \in Nat \ {0}
    BY <1>5
  <2> HIDE DEF n
  <2>3. REGION + RECORD * n <= n * PAGE /\ RECORD * n \in Nat
    BY <2>1, <2>2
  <2> QED
    BY <2>1, <2>2, <2>3 DEF n
<1>7. used_pages(r) \in 1 .. r.page_count
  BY <1>5, <1>6, CeilDivBounds DEF used_pages
<1> QED
  BY <1>5, <1>7 DEF data_base, region_end, z

(* Entries that do not overlap have regions that do not.                   *)
LEMMA RegionsApart ==
  ASSUME NEW r \in Regions, NEW s \in Regions, r # s
  PROVE  region_end(r) <= s.base \/ region_end(s) <= r.base
<1> DEFINE z == Zone[Standard]
<1>1. PICK m \in Memory : m.base + m.size > z.start /\ m.base < z.end /\ r = Clip(m, z)
  BY DEF Regions
<1>2. PICK n \in Memory : n.base + n.size > z.start /\ n.base < z.end /\ s = Clip(n, z)
  BY DEF Regions
<1>3. m # n
  BY <1>1, <1>2
<1>4. m.base \in Nat /\ m.size \in Nat /\ n.base \in Nat /\ n.size \in Nat
  BY MemoryAssumption
<1>5. m.base + m.size <= n.base \/ n.base + n.size <= m.base
  BY <1>3, MemoryAssumption
<1>6. z.start \in Nat /\ z.end \in Nat /\ z.start < z.end
  BY PmmAssumption
<1> HIDE DEF z
<1>7. /\ r.base = IF m.base < z.start THEN z.start ELSE m.base
      /\ r.base + r.page_count = IF m.base + m.size > z.end THEN z.end ELSE m.base + m.size
      /\ s.base = IF n.base < z.start THEN z.start ELSE n.base
      /\ s.base + s.page_count = IF n.base + n.size > z.end THEN z.end ELSE n.base + n.size
  BY <1>1, <1>2, <1>4, <1>6 DEF Clip
<1>8. region_end(r) = r.base + r.page_count /\ region_end(s) = s.base + s.page_count
  BY DEF region_end
<1> QED
  BY <1>1, <1>2, <1>4, <1>5, <1>6, <1>7, <1>8

(* A page of a region belongs to that region alone.                        *)
LEMMA RegionOfIs ==
  ASSUME NEW r \in Regions, NEW p \in Nat, r.base <= p, p < region_end(r)
  PROVE  p \in Page /\ RegionOf(p) = r
<1>1. p \in Page
  BY RegionFacts DEF Page
<1>2. \A s \in Regions : s.base <= p /\ p < region_end(s) => s = r
  <2> SUFFICES ASSUME NEW s \in Regions, s.base <= p, p < region_end(s), s # r
               PROVE  FALSE
    OBVIOUS
  <2>1. region_end(r) <= s.base \/ region_end(s) <= r.base
    BY RegionsApart
  <2>2. r.base \in Nat /\ s.base \in Nat /\ region_end(r) \in Nat /\ region_end(s) \in Nat
    BY RegionFacts
  <2> QED
    BY <2>1, <2>2
<1> QED
  BY <1>1, <1>2 DEF RegionOf

(* The pages of a zone are finitely many, and the data lie among them.     *)
LEMMA DataFacts ==
  /\ Data \subseteq Page /\ Page \subseteq 0 .. Zone[Standard].end /\ Page \subseteq Nat
  /\ \A r \in Regions : DataOf(r) \subseteq Data
  /\ IsFiniteSet(Data)
<1>1. Data \subseteq Page
  <2> SUFFICES ASSUME NEW r \in Regions, NEW p \in DataOf(r)
               PROVE  p \in Page
    BY DEF Data
  <2>1. p \in Nat /\ r.base <= p /\ p < region_end(r)
    BY RegionFacts DEF DataOf
  <2> QED
    BY <2>1, RegionOfIs
<1>2. Zone[Standard].end \in Nat
  BY PmmAssumption
<1>3. Page \subseteq 0 .. Zone[Standard].end
  <2> SUFFICES ASSUME NEW r \in Regions, NEW p \in r.base .. region_end(r) - 1
               PROVE  p \in 0 .. Zone[Standard].end
    BY DEF Page
  <2> QED
    BY <1>2, RegionFacts
<1>4. IsFiniteSet(Data)
  <2>1. IsFiniteSet(0 .. Zone[Standard].end)
    BY <1>2, FS_Interval
  <2>2. Data \in SUBSET (0 .. Zone[Standard].end)
    BY <1>1, <1>3
  <2> QED
    BY <2>1, <2>2, FS_Subset
<1> QED
  BY <1>1, <1>2, <1>3, <1>4 DEF Data

-----------------------------------------------------------------------------
(* The blocks a region is cut into                                         *)

(* The largest block there is that fits into n pages.                      *)
LEMMA FirstOrderIs ==
  ASSUME NEW n \in Nat \ {0}
  PROVE  /\ FirstOrder(n) \in 0 .. PMM_MAX_ORDER
         /\ order_to_pagecount(FirstOrder(n)) <= n
         /\ FirstOrder(n) < PMM_MAX_ORDER => n < 2 * order_to_pagecount(FirstOrder(n))
<1> DEFINE T == {x \in 0 .. n : order_to_pagecount(x) >= n}
           o == pagecount_to_order(n)
<1>1. PICK x \in T : \A y \in T : x <= y
  <2>1. T \in SUBSET Nat
    OBVIOUS
  <2>2. n \in T
    BY Exceeds, Powers
  <2> HIDE DEF T
  <2> QED
    BY <2>1, <2>2, Least
<1>2. x = 0 \/ order_to_pagecount(x - 1) < n
  <2>1. x # 0 => x - 1 \in 0 .. n /\ x - 1 \notin T
    BY <1>1
  <2>2. x # 0 => order_to_pagecount(x - 1) \in Nat
    BY <2>1, Powers
  <2> QED
    BY <2>1, <2>2
<1>3. o \in 0 .. n /\ order_to_pagecount(o) >= n /\ (o = 0 \/ order_to_pagecount(o - 1) < n)
  <2>1. \E y \in 0 .. n : order_to_pagecount(y) >= n /\ (y = 0 \/ order_to_pagecount(y - 1) < n)
    BY <1>1, <1>2
  <2> QED
    BY <2>1 DEF pagecount_to_order
<1> DEFINE fit == IF order_to_pagecount(o) = n THEN o ELSE o - 1
<1> HIDE DEF o
<1>4. fit \in Nat /\ order_to_pagecount(fit) <= n /\ n < 2 * order_to_pagecount(fit)
  <2>1. o \in Nat /\ order_to_pagecount(o) \in Nat
    BY <1>3, Powers
  <2>2. CASE order_to_pagecount(o) = n
    BY <2>1, <2>2
  <2>3. CASE order_to_pagecount(o) # n
    <3>1. o # 0
      BY <1>3, <2>1, <2>3, Powers
    <3>2. o - 1 \in Nat /\ order_to_pagecount((o - 1) + 1) = 2 * order_to_pagecount(o - 1) /\ (o - 1) + 1 = o
      BY <2>1, <3>1, Powers
    <3>3. order_to_pagecount(o - 1) \in Nat
      BY <3>2, Powers
    <3> QED
      BY <1>3, <2>1, <2>3, <3>1, <3>2, <3>3
  <2> QED
    BY <2>2, <2>3
<1>5. FirstOrder(n) = IF fit > PMM_MAX_ORDER THEN PMM_MAX_ORDER ELSE fit
  BY DEF FirstOrder, o
<1> HIDE DEF fit
<1>6. PMM_MAX_ORDER \in Nat
  BY PmmAssumption
<1>7. CASE fit > PMM_MAX_ORDER
  <2>1. /\ 2 * order_to_pagecount(PMM_MAX_ORDER) <= order_to_pagecount(fit)
        /\ order_to_pagecount(PMM_MAX_ORDER) \in Nat /\ order_to_pagecount(fit) \in Nat
    BY <1>4, <1>6, <1>7, Grows, Powers
  <2> QED
    BY <1>4, <1>5, <1>6, <1>7, <2>1
<1>8. CASE ~(fit > PMM_MAX_ORDER)
  BY <1>4, <1>5, <1>6, <1>8
<1> QED
  BY <1>7, <1>8

(* The recursive function Cuts takes its value from.                       *)
Cutting(f, n) ==
  f = [k \in 0 .. n |->
         IF k = 0 THEN {}
         ELSE {<<k, FirstOrder(k)>>} \cup f[k - order_to_pagecount(FirstOrder(k))]]

(* The recursive function by which a region is cut exists.                 *)
LEMMA CuttingExists ==
  ASSUME NEW n \in Nat
  PROVE  \E f : Cutting(f, n)
<1> DEFINE T == {k \in Nat : ~ \E f : Cutting(f, k)}
<1>1. SUFFICES ASSUME T # {}
               PROVE  FALSE
  OBVIOUS
<1>2. PICK k \in T : \A l \in T : k <= l
  <2>1. T \in SUBSET Nat
    OBVIOUS
  <2> HIDE DEF T
  <2> QED
    BY <1>1, <2>1, Least
<1>3. CASE k = 0
  <2> DEFINE f == [l \in 0 .. 0 |-> {}]
  <2>1. Cutting(f, 0)
    BY DEF Cutting
  <2> QED
    BY <1>2, <1>3, <2>1
<1>4. CASE k # 0
  <2>1. k \in Nat /\ k - 1 \in Nat /\ k - 1 \notin T
    BY <1>2, <1>4
  <2>2. PICK g : Cutting(g, k - 1)
    BY <2>1
  <2> DEFINE rest(l) == l - order_to_pagecount(FirstOrder(l))
             f == [l \in 0 .. k |-> IF l = 0 THEN {} ELSE {<<l, FirstOrder(l)>>} \cup g[rest(l)]]
  <2>3. \A l \in 0 .. k : l # 0 => rest(l) \in 0 .. k - 1
    <3> SUFFICES ASSUME NEW l \in 0 .. k, l # 0
                 PROVE  rest(l) \in 0 .. k - 1
      OBVIOUS
    <3>1. l \in Nat \ {0}
      BY <2>1
    <3>2. FirstOrder(l) \in Nat /\ order_to_pagecount(FirstOrder(l)) <= l
      BY <3>1, FirstOrderIs
    <3>3. order_to_pagecount(FirstOrder(l)) \in Nat \ {0}
      BY <3>2, Powers
    <3> QED
      BY <2>1, <3>1, <3>2, <3>3
  <2> HIDE DEF rest
  <2>4. \A l \in 0 .. k - 1 : f[l] = g[l]
    <3>1. \A l \in 0 .. k - 1 : g[l] = IF l = 0 THEN {} ELSE {<<l, FirstOrder(l)>>} \cup g[rest(l)]
      BY <2>2 DEF Cutting, rest
    <3>2. \A l \in 0 .. k - 1 : l \in 0 .. k
      BY <2>1
    <3> QED
      BY <3>1, <3>2
  <2>5. \A l \in 0 .. k : l # 0 => f[rest(l)] = g[rest(l)]
    BY <2>3, <2>4
  <2>6. f = [l \in 0 .. k |-> IF l = 0 THEN {} ELSE {<<l, FirstOrder(l)>>} \cup f[rest(l)]]
    BY <2>5
  <2>7. Cutting(f, k)
    <3> HIDE DEF f
    <3> QED
      BY <2>6 DEF Cutting, rest
  <2> QED
    BY <1>2, <2>7
<1> QED
  BY <1>3, <1>4

(* Blocks <<pages left, order>> that cut n pages up, none with a buddy.    *)
CutUp(cuts, n) ==
  /\ \A c \in cuts : /\ c \in (1 .. n) \X (0 .. PMM_MAX_ORDER)
                     /\ order_to_pagecount(c[2]) <= c[1]
                     /\ \E m \in Nat : n - c[1] = m * order_to_pagecount(c[2])
  /\ \A x \in 1 .. n : \E c \in cuts : c[1] - order_to_pagecount(c[2]) < x /\ x <= c[1]
  /\ \A c, d \in cuts : c # d => \/ c[1] <= d[1] - order_to_pagecount(d[2])
                                 \/ d[1] <= c[1] - order_to_pagecount(c[2])
  /\ \A c, d \in cuts : c[2] = d[2] /\ c[2] < PMM_MAX_ORDER => c = d

(* Cutting off the largest block leaves smaller ones behind it.            *)
LEMMA CutOff ==
  ASSUME NEW n \in Nat \ {0}, NEW cuts, CutUp(cuts, n - order_to_pagecount(FirstOrder(n)))
  PROVE  CutUp({<<n, FirstOrder(n)>>} \cup cuts, n)
<1> DEFINE f == FirstOrder(n)
           s == order_to_pagecount(f)
           k == n - s
<1>1. /\ f \in 0 .. PMM_MAX_ORDER /\ s \in Nat \ {0} /\ s <= n /\ (f < PMM_MAX_ORDER => n < 2 * s)
      /\ PMM_MAX_ORDER \in Nat
  BY FirstOrderIs, Powers, PmmAssumption
<1>2. CutUp(cuts, k)
  OBVIOUS
<1>3. k \in Nat /\ k < n /\ n = k + s
  BY <1>1
<1> HIDE DEF f, k
<1>4. ASSUME NEW c \in cuts
      PROVE  /\ c \in (1 .. k) \X (0 .. PMM_MAX_ORDER) /\ c[1] \in 1 .. k /\ c[2] \in 0 .. PMM_MAX_ORDER
             /\ order_to_pagecount(c[2]) \in Nat \ {0} /\ order_to_pagecount(c[2]) <= c[1]
             /\ c[2] <= f /\ (c[2] < PMM_MAX_ORDER => c[2] < f)
  <2>1. c \in (1 .. k) \X (0 .. PMM_MAX_ORDER) /\ order_to_pagecount(c[2]) <= c[1]
    BY <1>2 DEF CutUp
  <2>2. c[1] \in 1 .. k /\ c[2] \in 0 .. PMM_MAX_ORDER /\ c[2] \in Nat
    BY <2>1
  <2>3. order_to_pagecount(c[2]) \in Nat \ {0}
    BY <2>2, Powers
  <2>4. f < PMM_MAX_ORDER => c[2] < f
    <3> SUFFICES ASSUME f < PMM_MAX_ORDER, ~(c[2] < f)
                 PROVE  FALSE
      OBVIOUS
    <3>1. f <= c[2] /\ f \in Nat
      BY <1>1, <2>2
    <3>2. s <= order_to_pagecount(c[2])
      <4>1. CASE f = c[2]
        BY <2>3, <4>1
      <4>2. CASE f < c[2]
        <5>1. 2 * s <= order_to_pagecount(c[2])
          BY <2>2, <3>1, <4>2, Grows
        <5> QED
          BY <1>1, <2>3, <5>1
      <4> QED
        BY <2>2, <3>1, <4>1, <4>2
    <3> QED
      BY <1>1, <1>3, <2>1, <2>2, <2>3, <3>2
  <2> QED
    BY <1>1, <2>1, <2>2, <2>3, <2>4
<1> DEFINE all == {<<n, f>>} \cup cuts
<1>5. ASSUME NEW c \in all
      PROVE  /\ c \in (1 .. n) \X (0 .. PMM_MAX_ORDER)
             /\ order_to_pagecount(c[2]) <= c[1]
             /\ \E m \in Nat : n - c[1] = m * order_to_pagecount(c[2])
  <2>1. CASE c = <<n, f>>
    <3>1. n - c[1] = 0 * order_to_pagecount(c[2])
      BY <1>1, <2>1
    <3> QED
      BY <1>1, <2>1, <3>1
  <2>2. CASE c \in cuts
    <3>1. PICK m \in Nat : k - c[1] = m * order_to_pagecount(c[2])
      BY <1>2, <2>2 DEF CutUp
    <3>2. /\ c \in (1 .. k) \X (0 .. PMM_MAX_ORDER) /\ c[1] \in 1 .. k /\ c[2] \in Nat /\ f \in Nat
          /\ order_to_pagecount(c[2]) \in Nat \ {0} /\ order_to_pagecount(c[2]) <= c[1] /\ c[2] <= f
      BY <1>1, <1>4, <2>2
    <3>3. PICK l \in Nat \ {0} : s = l * order_to_pagecount(c[2])
      BY <3>2, Multiple
    <3> DEFINE t == order_to_pagecount(c[2])
    <3>4. n - c[1] = (l + m) * t
      <4>1. t \in Nat /\ n - c[1] = l * t + m * t
        BY <1>1, <1>3, <3>1, <3>2, <3>3
      <4> HIDE DEF t
      <4> QED
        BY <4>1
    <3>5. l + m \in Nat /\ c \in (1 .. n) \X (0 .. PMM_MAX_ORDER)
      BY <1>3, <3>2
    <3> QED
      BY <3>2, <3>4, <3>5
  <2> QED
    BY <2>1, <2>2
<1>6. ASSUME NEW x \in 1 .. n
      PROVE  \E c \in all : c[1] - order_to_pagecount(c[2]) < x /\ x <= c[1]
  <2>1. CASE x \in 1 .. k
    BY <1>2, <2>1 DEF CutUp
  <2>2. CASE x \notin 1 .. k
    <3>1. n - s < x /\ x <= n
      BY <1>1, <1>3, <2>2
    <3>2. <<n, f>> \in all /\ <<n, f>>[1] = n /\ <<n, f>>[2] = f
      OBVIOUS
    <3> QED
      BY <3>1, <3>2
  <2> QED
    BY <2>1, <2>2
<1>7. ASSUME NEW c \in all, NEW d \in all, c # d
      PROVE  \/ c[1] <= d[1] - order_to_pagecount(d[2])
             \/ d[1] <= c[1] - order_to_pagecount(c[2])
  <2>1. CASE c \in cuts /\ d \in cuts
    BY <1>2, <1>7, <2>1 DEF CutUp
  <2>2. CASE c = <<n, f>> /\ d \in cuts
    <3>1. d[1] <= n - s
      BY <1>1, <1>3, <1>4, <2>2
    <3> QED
      BY <2>2, <3>1
  <2>3. CASE d = <<n, f>> /\ c \in cuts
    <3>1. c[1] <= n - s
      BY <1>1, <1>3, <1>4, <2>3
    <3> QED
      BY <2>3, <3>1
  <2> QED
    BY <1>7, <2>1, <2>2, <2>3
<1>8. ASSUME NEW c \in all, NEW d \in all, c[2] = d[2], c[2] < PMM_MAX_ORDER
      PROVE  c = d
  <2>1. CASE c \in cuts /\ d \in cuts
    BY <1>2, <1>8, <2>1 DEF CutUp
  <2>2. ASSUME NEW e \in cuts, e[2] = f, f < PMM_MAX_ORDER
        PROVE  FALSE
    BY <1>1, <1>4, <2>2
  <2> QED
    BY <1>8, <2>1, <2>2
<1> QED
  BY <1>5, <1>6, <1>7, <1>8 DEF CutUp, f

(* The cutting of pmm_region_add, from the largest block that fits down.   *)
LEMMA CutsCutUp ==
  ASSUME NEW n \in Nat
  PROVE  CutUp(Cuts(n), n)
<1>1. PICK f : f = (CHOOSE g : Cutting(g, n))
  OBVIOUS
<1>2. Cutting(f, n)
  BY <1>1, CuttingExists
<1>3. Cuts(n) = f[n]
  BY <1>1 DEF Cuts, Cutting
<1>4. \A k \in 0 .. n :
        f[k] = IF k = 0 THEN {} ELSE {<<k, FirstOrder(k)>>} \cup f[k - order_to_pagecount(FirstOrder(k))]
  BY <1>2 DEF Cutting
<1> DEFINE T == {k \in 0 .. n : ~CutUp(f[k], k)}
<1>5. ASSUME T # {}
      PROVE  FALSE
  <2>1. PICK k \in T : \A l \in T : k <= l
    <3>1. T \in SUBSET Nat
      OBVIOUS
    <3> HIDE DEF T
    <3> QED
      BY <1>5, <3>1, Least
  <2>2. k \in 0 .. n /\ ~CutUp(f[k], k)
    BY <2>1
  <2>3. CASE k = 0
    <3>1. f[k] = {}
      BY <1>4, <2>2, <2>3
    <3>2. CutUp({}, 0)
      BY DEF CutUp
    <3> QED
      BY <2>2, <2>3, <3>1, <3>2
  <2>4. CASE k # 0
    <3> DEFINE l == k - order_to_pagecount(FirstOrder(k))
    <3>1. k \in Nat \ {0}
      BY <2>2, <2>4
    <3>2. FirstOrder(k) \in Nat /\ order_to_pagecount(FirstOrder(k)) <= k
      BY <3>1, FirstOrderIs
    <3>3. order_to_pagecount(FirstOrder(k)) \in Nat \ {0}
      BY <3>2, Powers
    <3>4. l \in 0 .. n /\ l < k
      BY <2>2, <3>1, <3>2, <3>3
    <3>5. CutUp(f[l], l)
      BY <2>1, <2>2, <3>4
    <3>6. f[k] = {<<k, FirstOrder(k)>>} \cup f[l]
      BY <1>4, <2>2, <2>4
    <3> QED
      BY <2>2, <3>1, <3>5, <3>6, CutOff
  <2> QED
    BY <2>3, <2>4
<1> QED
  BY <1>3, <1>5

-----------------------------------------------------------------------------
(* Blocks                                                                  *)

Block == [page : Page, order : 0 .. PMM_MAX_ORDER]

(* A block stands at a multiple of its size in the data of its region.     *)
Fits(b, r) ==
  /\ \E m \in Nat : b.page = data_base(r) + m * order_to_pagecount(b.order)
  /\ b.page + order_to_pagecount(b.order) <= region_end(r)

Cover(S) == UNION {PagesOf(b) : b \in S}

(* Blocks that fit their regions, cover the data and share no page.        *)
Tiled(S) ==
  /\ \A b \in S : b \in Block /\ \E r \in Regions : Fits(b, r)
  /\ Cover(S) = Data
  /\ \A a, b \in S : a # b => PagesOf(a) \cap PagesOf(b) = {}

(* The pages of a block, by its first page and its order.                  *)
LEMMA BlockFacts ==
  ASSUME NEW b \in Block
  PROVE  /\ b.page \in Page /\ b.page \in Nat /\ b.order \in Nat /\ b.order <= PMM_MAX_ORDER
         /\ order_to_pagecount(b.order) \in Nat \ {0}
         /\ b.page \in PagesOf(b)
         /\ \A x \in Int : x \in PagesOf(b) <=> b.page <= x /\ x < b.page + order_to_pagecount(b.order)
         /\ PagesOf(b) \subseteq Nat
<1>1. b.page \in Page /\ b.order \in 0 .. PMM_MAX_ORDER /\ PMM_MAX_ORDER \in Nat
  BY PmmAssumption DEF Block
<1>2. b.page \in Nat /\ b.order \in Nat
  <2>1. b.page \in Nat
    BY <1>1, DataFacts, Zenon
  <2>2. b.order \in Nat
    BY <1>1
  <2> QED
    BY <2>1, <2>2
<1>3. order_to_pagecount(b.order) \in Nat \ {0}
  BY <1>2, Powers
<1> QED
  BY <1>1, <1>2, <1>3 DEF PagesOf

(* A block that fits a region is made of its data.                         *)
LEMMA FitsFacts ==
  ASSUME NEW b \in Block, NEW r \in Regions, Fits(b, r)
  PROVE  /\ data_base(r) <= b.page /\ b.page < region_end(r)
         /\ RegionOf(b.page) = r /\ PagesOf(b) \subseteq DataOf(r)
<1>1. b.page \in Nat /\ order_to_pagecount(b.order) \in Nat \ {0}
  BY BlockFacts
<1>2. data_base(r) \in Nat /\ region_end(r) \in Nat /\ r.base \in Nat /\ r.base < data_base(r)
  BY RegionFacts
<1>3. PICK m \in Nat : b.page = data_base(r) + m * order_to_pagecount(b.order)
  BY DEF Fits
<1>4. m * order_to_pagecount(b.order) \in Nat
  BY <1>1
<1>5. data_base(r) <= b.page /\ b.page + order_to_pagecount(b.order) <= region_end(r)
  BY <1>1, <1>2, <1>3, <1>4 DEF Fits
<1>6. RegionOf(b.page) = r
  BY <1>1, <1>2, <1>5, RegionOfIs
<1>7. PagesOf(b) \subseteq DataOf(r)
  BY <1>1, <1>2, <1>5 DEF PagesOf, DataOf
<1> QED
  BY <1>1, <1>2, <1>5, <1>6, <1>7

(* The buddy of a block of order o at p.                                   *)
BuddyAt(p, o) ==
  LET base == data_base(RegionOf(p))
      size == order_to_pagecount(o)
  IN IF ((p - base) \div size) % 2 = 0 THEN p + size ELSE p - size

(* The first page of a block and its buddy.                                *)
LowOf(b) == IF BuddyAt(b.page, b.order) < b.page THEN BuddyAt(b.page, b.order) ELSE b.page

(* A block and its buddy make one of the next order.                       *)
LEMMA BuddyFacts ==
  ASSUME NEW b \in Block, NEW r \in Regions, Fits(b, r)
  PROVE  LET q == BuddyAt(b.page, b.order)
             s == order_to_pagecount(b.order)
         IN  /\ q \in Nat /\ data_base(r) <= q /\ q <= region_end(r) /\ q # b.page
             /\ q = b.page + s \/ q = b.page - s
             /\ \E m \in Nat : q = data_base(r) + m * s
             /\ \E l \in Nat : LowOf(b) = data_base(r) + l * order_to_pagecount(b.order + 1)
<1> DEFINE q == BuddyAt(b.page, b.order)
           s == order_to_pagecount(b.order)
           d == data_base(r)
           p == b.page
<1>1. p \in Nat /\ b.order \in Nat /\ s \in Nat \ {0} /\ d \in Nat /\ region_end(r) \in Nat
  BY BlockFacts, RegionFacts
<1>2. PICK m \in Nat : p = d + m * s
  BY DEF Fits
<1>3. RegionOf(p) = r /\ p + s <= region_end(r)
  BY FitsFacts DEF Fits
<1>4. q = IF ((p - d) \div s) % 2 = 0 THEN p + s ELSE p - s
  BY <1>3 DEF BuddyAt
<1>5. order_to_pagecount(b.order + 1) = 2 * s
  BY <1>1, Powers
<1>6. LowOf(b) = IF q < p THEN q ELSE p
  BY DEF LowOf
<1> HIDE DEF q, s, d, p
<1>7. (p - d) \div s = m
  <2>1. p - d = m * s
    BY <1>1, <1>2
  <2>2. (m * s) \div s = m
    BY <1>1, <1>2
  <2> QED
    BY <2>1, <2>2
<1>8. CASE m % 2 = 0
  <2>1. q = p + s
    BY <1>4, <1>7, <1>8
  <2>2. PICK l \in Nat : m = 2 * l
    BY <1>2, <1>8
  <2>3. m * s = l * (2 * s) /\ m * s + s = (m + 1) * s /\ m * s \in Nat
    BY <1>1, <1>2, <2>2
  <2>4. LowOf(b) = d + l * (2 * s) /\ q = d + (m + 1) * s /\ d <= q /\ q \in Nat /\ q # p
    BY <1>1, <1>2, <1>6, <2>1, <2>3
  <2> QED
    BY <1>1, <1>2, <1>3, <1>5, <2>1, <2>2, <2>4 DEF q, s, d, p
<1>9. CASE m % 2 # 0
  <2>1. q = p - s
    BY <1>4, <1>7, <1>9
  <2>2. PICK l \in Nat : m = 2 * l + 1
    <3>1. m % 2 = 1 /\ m = 2 * (m \div 2) + (m % 2) /\ m \div 2 \in Nat
      BY <1>2, <1>9
    <3> QED
      BY <3>1
  <2>3. m * s - s = l * (2 * s) /\ m * s - s = (m - 1) * s /\ (m - 1) * s \in Nat /\ m - 1 \in Nat
    <3>1. m - 1 = 2 * l /\ m - 1 \in Nat
      BY <1>2, <2>2
    <3>2. m * s - s = (m - 1) * s
      BY <1>1, <1>2
    <3>3. (m - 1) * s \in Nat
      BY <1>1, <3>1
    <3>4. (2 * l) * s = l * (2 * s)
      BY <1>1, <2>2
    <3> QED
      BY <3>1, <3>2, <3>3, <3>4
  <2>4. LowOf(b) = d + l * (2 * s) /\ q = d + (m - 1) * s /\ d <= q /\ q \in Nat /\ q # p /\ q <= p
    BY <1>1, <1>2, <1>6, <2>1, <2>3
  <2> QED
    BY <1>1, <1>2, <1>3, <1>5, <2>1, <2>2, <2>3, <2>4 DEF q, s, d, p
<1> QED
  BY <1>8, <1>9

(* BuddiesMerged, for a set of blocks and by their own orders.             *)
NoBuddies(S) ==
  \A b \in S : b.order < PMM_MAX_ORDER =>
    [b EXCEPT !.page = BuddyAt(b.page, b.order)] \notin S

(* A block and its buddy stand in the same region.                         *)
LEMMA SameRegion ==
  ASSUME NEW b \in Block, NEW r \in Regions, Fits(b, r),
         NEW a \in Block, NEW s \in Regions, Fits(a, s), a.page = BuddyAt(b.page, b.order)
  PROVE  r = s
<1>1. SUFFICES ASSUME r # s
               PROVE  FALSE
  OBVIOUS
<1>2. /\ data_base(r) <= a.page /\ a.page <= region_end(r)
      /\ data_base(s) <= a.page /\ a.page < region_end(s)
  BY BuddyFacts, FitsFacts
<1>3. region_end(r) <= s.base \/ region_end(s) <= r.base
  BY <1>1, RegionsApart
<1>4. /\ data_base(r) \in Nat /\ region_end(r) \in Nat /\ r.base \in Nat /\ r.base < data_base(r)
      /\ data_base(s) \in Nat /\ region_end(s) \in Nat /\ s.base \in Nat /\ s.base < data_base(s)
  BY RegionFacts
<1>5. a.page \in Nat
  BY BlockFacts
<1> QED
  BY <1>2, <1>3, <1>4, <1>5

(* What pmm_region_add makes of the memory map.                            *)
LEMMA InitialBlockIs ==
  ASSUME NEW b \in InitialBlocks
  PROVE  \E r \in Regions : \E c \in Cuts(r.page_count - used_pages(r)) :
           /\ b = [page |-> region_end(r) - c[1], order |-> c[2]]
           /\ b \in Block /\ Fits(b, r)
           /\ c[1] \in 1 .. r.page_count - used_pages(r) /\ c[1] = region_end(r) - b.page
<1>1. PICK r \in Regions : \E c \in Cuts(r.page_count - used_pages(r)) :
        b = [page |-> region_end(r) - c[1], order |-> c[2]]
  BY DEF InitialBlocks
<1>16. PICK c \in Cuts(r.page_count - used_pages(r)) :
         b = [page |-> region_end(r) - c[1], order |-> c[2]]
  BY <1>1
<1> DEFINE n == r.page_count - used_pages(r)
<1>2. n \in Nat /\ region_end(r) = data_base(r) + n /\ data_base(r) \in Nat /\ region_end(r) \in Nat
      /\ r.base \in Nat /\ r.base < data_base(r)
  BY RegionFacts
<1>3. CutUp(Cuts(n), n)
  BY <1>2, CutsCutUp
<1>4. c \in (1 .. n) \X (0 .. PMM_MAX_ORDER) /\ order_to_pagecount(c[2]) <= c[1]
      /\ \E m \in Nat : n - c[1] = m * order_to_pagecount(c[2])
  BY <1>16, <1>3 DEF CutUp
<1> HIDE DEF n
<1>5. c[1] \in 1 .. n /\ c[2] \in 0 .. PMM_MAX_ORDER
  BY <1>4
<1>6. order_to_pagecount(c[2]) \in Nat \ {0}
  BY <1>5, Powers
<1>7. b.page = region_end(r) - c[1] /\ b.order = c[2]
  BY <1>16
<1>8. b.page \in Nat /\ r.base <= b.page /\ b.page < region_end(r)
  BY <1>2, <1>5, <1>7
<1>9. b.page \in Page
  BY <1>8, RegionOfIs
<1>10. b \in Block
  BY <1>16, <1>5, <1>7, <1>9 DEF Block
<1>11. PICK m \in Nat : n - c[1] = m * order_to_pagecount(c[2])
  BY <1>4
<1>12. b.page = data_base(r) + m * order_to_pagecount(b.order)
  <2> DEFINE k == m * order_to_pagecount(c[2])
  <2>1. k = n - c[1] /\ b.page = data_base(r) + n - c[1]
    BY <1>2, <1>5, <1>7, <1>11
  <2> HIDE DEF k
  <2>2. b.page = data_base(r) + k
    BY <1>2, <1>5, <2>1
  <2> QED
    BY <1>7, <2>2 DEF k
<1>13. b.page + order_to_pagecount(b.order) <= region_end(r)
  BY <1>2, <1>4, <1>5, <1>6, <1>7
<1>14. Fits(b, r)
  BY <1>12, <1>13 DEF Fits
<1>15. c[1] = region_end(r) - b.page
  BY <1>2, <1>5, <1>7
<1> QED
  BY <1>16, <1>5, <1>10, <1>14, <1>15 DEF n

(* Blocks in different regions share no page.                              *)
LEMMA RegionsApartBlocks ==
  ASSUME NEW a \in Block, NEW r \in Regions, Fits(a, r),
         NEW b \in Block, NEW s \in Regions, Fits(b, s), r # s
  PROVE  PagesOf(a) \cap PagesOf(b) = {}
<1>1. region_end(r) <= s.base \/ region_end(s) <= r.base
  BY RegionsApart
<1>2. /\ data_base(r) \in Nat /\ region_end(r) \in Nat /\ r.base \in Nat /\ r.base < data_base(r)
      /\ data_base(s) \in Nat /\ region_end(s) \in Nat /\ s.base \in Nat /\ s.base < data_base(s)
  BY RegionFacts
<1>3. DataOf(r) \cap DataOf(s) = {}
  BY <1>1, <1>2 DEF DataOf
<1>4. PagesOf(a) \subseteq DataOf(r) /\ PagesOf(b) \subseteq DataOf(s)
  BY FitsFacts
<1> QED
  BY <1>3, <1>4

(* At boot the blocks tile the data, and no two are buddies.               *)
LEMMA InitialTiled ==
  Tiled(InitialBlocks) /\ NoBuddies(InitialBlocks)
<1>1. \A b \in InitialBlocks : b \in Block /\ \E r \in Regions : Fits(b, r)
  BY InitialBlockIs
<1>2. Data \subseteq Cover(InitialBlocks)
  <2> SUFFICES ASSUME NEW r \in Regions, NEW x \in DataOf(r)
               PROVE  \E b \in InitialBlocks : x \in PagesOf(b)
    BY DEF Data, Cover
  <2> DEFINE n == r.page_count - used_pages(r)
             y == region_end(r) - x
  <2>1. n \in Nat /\ region_end(r) = data_base(r) + n /\ data_base(r) \in Nat
    BY RegionFacts
  <2>2. y \in 1 .. n /\ x = region_end(r) - y /\ x \in Nat
    BY <2>1 DEF DataOf
  <2>3. CutUp(Cuts(n), n)
    BY <2>1, CutsCutUp
  <2>4. PICK c \in Cuts(n) : c[1] - order_to_pagecount(c[2]) < y /\ y <= c[1]
    <3> HIDE DEF n, y
    <3> QED
      BY <2>2, <2>3 DEF CutUp
  <2>5. c \in (1 .. n) \X (0 .. PMM_MAX_ORDER)
    BY <2>3 DEF CutUp
  <2> DEFINE b == [page |-> region_end(r) - c[1], order |-> c[2]]
  <2>6. b \in InitialBlocks
    BY DEF InitialBlocks
  <2>7. c[1] \in Nat /\ c[2] \in Nat
    BY <2>5
  <2>8. order_to_pagecount(c[2]) \in Nat
    BY <2>7, Powers
  <2>9. x \in PagesOf(b)
    <3>1. b.page = region_end(r) - c[1] /\ b.order = c[2]
      OBVIOUS
    <3> HIDE DEF b, n, y
    <3>2. region_end(r) \in Nat
      BY <2>1
    <3> QED
      BY <2>2, <2>4, <2>7, <2>8, <3>1, <3>2 DEF PagesOf
  <2> QED
    BY <2>6, <2>9
<1>3. Cover(InitialBlocks) \subseteq Data
  <2> SUFFICES ASSUME NEW b \in InitialBlocks
               PROVE  PagesOf(b) \subseteq Data
    BY DEF Cover
  <2>1. PICK r \in Regions : b \in Block /\ Fits(b, r)
    BY <1>1
  <2>2. PagesOf(b) \subseteq DataOf(r) /\ DataOf(r) \subseteq Data
    BY <2>1, FitsFacts, DataFacts
  <2> QED
    BY <2>2
<1>4. ASSUME NEW a \in InitialBlocks, NEW b \in InitialBlocks
      PROVE  /\ a # b => PagesOf(a) \cap PagesOf(b) = {}
             /\ a.order < PMM_MAX_ORDER => b # [a EXCEPT !.page = BuddyAt(a.page, a.order)]
  <2>5. PICK r \in Regions : \E c \in Cuts(r.page_count - used_pages(r)) :
           /\ a = [page |-> region_end(r) - c[1], order |-> c[2]]
           /\ a \in Block /\ Fits(a, r)
           /\ c[1] \in 1 .. r.page_count - used_pages(r) /\ c[1] = region_end(r) - a.page
    BY InitialBlockIs
  <2>1. PICK c \in Cuts(r.page_count - used_pages(r)) :
           /\ a = [page |-> region_end(r) - c[1], order |-> c[2]]
           /\ a \in Block /\ Fits(a, r)
           /\ c[1] \in 1 .. r.page_count - used_pages(r) /\ c[1] = region_end(r) - a.page
    BY <2>5
  <2>6. PICK s \in Regions : \E d \in Cuts(s.page_count - used_pages(s)) :
           /\ b = [page |-> region_end(s) - d[1], order |-> d[2]]
           /\ b \in Block /\ Fits(b, s)
           /\ d[1] \in 1 .. s.page_count - used_pages(s) /\ d[1] = region_end(s) - b.page
    BY InitialBlockIs
  <2>2. PICK d \in Cuts(s.page_count - used_pages(s)) :
           /\ b = [page |-> region_end(s) - d[1], order |-> d[2]]
           /\ b \in Block /\ Fits(b, s)
           /\ d[1] \in 1 .. s.page_count - used_pages(s) /\ d[1] = region_end(s) - b.page
    BY <2>6
  <2>3. CASE r # s
    <3>1. PagesOf(a) \cap PagesOf(b) = {}
      BY <2>1, <2>2, <2>3, RegionsApartBlocks
    <3>2. b # [a EXCEPT !.page = BuddyAt(a.page, a.order)]
      <4> SUFFICES ASSUME b = [a EXCEPT !.page = BuddyAt(a.page, a.order)]
                   PROVE  FALSE
        OBVIOUS
      <4>1. b.page = BuddyAt(a.page, a.order)
        BY <2>1
      <4> QED
        BY <2>1, <2>2, <2>3, <4>1, SameRegion
    <3> QED
      BY <3>1, <3>2
  <2>4. CASE r = s
    <3> DEFINE n == r.page_count - used_pages(r)
    <3>1. n \in Nat /\ region_end(r) \in Nat
      BY RegionFacts
    <3>2. CutUp(Cuts(n), n)
      BY <3>1, CutsCutUp
    <3>3. /\ c \in Cuts(n) /\ d \in Cuts(n) /\ c[1] \in 1 .. n /\ d[1] \in 1 .. n
          /\ a.page = region_end(r) - c[1] /\ a.order = c[2]
          /\ b.page = region_end(r) - d[1] /\ b.order = d[2]
      BY <2>1, <2>2, <2>4
    <3> HIDE DEF n
    <3>4. c # d => c[1] <= d[1] - order_to_pagecount(d[2]) \/ d[1] <= c[1] - order_to_pagecount(c[2])
      BY <3>2, <3>3 DEF CutUp
    <3>5. a.order < PMM_MAX_ORDER /\ a.order = b.order => c = d
      BY <3>2, <3>3 DEF CutUp
    <3>6. order_to_pagecount(c[2]) \in Nat \ {0} /\ order_to_pagecount(d[2]) \in Nat \ {0}
      BY <2>1, <2>2, <3>3, BlockFacts
    <3>7. a # b => PagesOf(a) \cap PagesOf(b) = {}
      <4>1. a # b => c # d
        BY <2>1, <2>2, <2>4
      <4>2. c # d => a.page >= b.page + order_to_pagecount(d[2]) \/ b.page >= a.page + order_to_pagecount(c[2])
        BY <3>1, <3>3, <3>4, <3>6
      <4>3. a.page \in Nat /\ b.page \in Nat
        BY <2>1, <2>2, BlockFacts
      <4> QED
        BY <3>3, <3>6, <4>1, <4>2, <4>3 DEF PagesOf
    <3>8. a.order < PMM_MAX_ORDER => b # [a EXCEPT !.page = BuddyAt(a.page, a.order)]
      <4> SUFFICES ASSUME a.order < PMM_MAX_ORDER, b = [a EXCEPT !.page = BuddyAt(a.page, a.order)]
                   PROVE  FALSE
        OBVIOUS
      <4>1. b.page = BuddyAt(a.page, a.order) /\ b.order = a.order
        BY <2>1
      <4>2. b.page = a.page
        BY <3>3, <3>5, <4>1
      <4> QED
        BY <2>1, <4>1, <4>2, BuddyFacts
    <3> QED
      BY <3>7, <3>8
  <2> QED
    BY <2>3, <2>4
<1> QED
  BY <1>1, <1>2, <1>3, <1>4 DEF Tiled, NoBuddies

(* Some blocks may be exchanged for others on the same pages.              *)
LEMMA Retile ==
  ASSUME NEW S, Tiled(S), NEW R \in SUBSET S, NEW N,
         \A b \in N : b \in Block /\ \E r \in Regions : Fits(b, r),
         Cover(N) = Cover(R),
         \A a, b \in N : a # b => PagesOf(a) \cap PagesOf(b) = {}
  PROVE  Tiled((S \ R) \cup N)
<1>1. \A b \in (S \ R) \cup N : b \in Block /\ \E r \in Regions : Fits(b, r)
  BY DEF Tiled
<1>2. Cover((S \ R) \cup N) = Data
  <2>1. Cover(S) = Data
    BY DEF Tiled
  <2>2. Cover(S) = Cover(S \ R) \cup Cover(R)
    BY DEF Cover
  <2>3. Cover((S \ R) \cup N) = Cover(S \ R) \cup Cover(N)
    BY DEF Cover
  <2> QED
    BY <2>1, <2>2, <2>3
<1>3. ASSUME NEW a \in (S \ R) \cup N, NEW b \in (S \ R) \cup N, a # b
      PROVE  PagesOf(a) \cap PagesOf(b) = {}
  <2>1. ASSUME NEW c \in S \ R, NEW d \in N
        PROVE  PagesOf(c) \cap PagesOf(d) = {}
    <3> SUFFICES ASSUME NEW x \in PagesOf(c), x \in PagesOf(d)
                 PROVE  FALSE
      OBVIOUS
    <3>1. x \in Cover(R)
      BY DEF Cover
    <3>2. PICK e \in R : x \in PagesOf(e)
      BY <3>1 DEF Cover
    <3>3. c \in S /\ e \in S /\ c # e
      BY <2>1
    <3>4. PagesOf(c) \cap PagesOf(e) = {}
      BY <3>3 DEF Tiled
    <3> QED
      BY <3>2, <3>4
  <2>2. CASE a \in S \ R /\ b \in S \ R
    BY <1>3, <2>2 DEF Tiled
  <2>3. CASE a \in N /\ b \in N
    BY <1>3, <2>3
  <2> QED
    BY <2>1, <2>2, <2>3
<1> QED
  BY <1>1, <1>2, <1>3 DEF Tiled

(* A block halved down to order o: its first part, and the second halves.  *)
Half(b, j) == [page |-> b.page + order_to_pagecount(j), order |-> j]
Split(b, o) == {[page |-> b.page, order |-> o]} \cup {Half(b, j) : j \in o .. b.order - 1}

(* A half cut off a block lies in it and fits the region too, and what is  *)
(* left of the block begins at the buddy.                                  *)
LEMMA HalfFacts ==
  ASSUME NEW b \in Block, NEW r \in Regions, Fits(b, r), NEW j \in 0 .. b.order - 1
  PROVE  /\ Half(b, j) \in Block /\ Fits(Half(b, j), r)
         /\ BuddyAt(Half(b, j).page, j) = b.page
         /\ PagesOf(Half(b, j)) \subseteq PagesOf(b)
<1> DEFINE s == order_to_pagecount(j)
           t == order_to_pagecount(b.order)
           h == Half(b, j)
<1>1. /\ b.page \in Nat /\ b.order \in Nat /\ j \in Nat /\ j < b.order /\ b.order <= PMM_MAX_ORDER
      /\ PMM_MAX_ORDER \in Nat
  BY BlockFacts, PmmAssumption
<1>2. s \in Nat \ {0} /\ t \in Nat \ {0} /\ 2 * s <= t /\ order_to_pagecount(j + 1) = 2 * s
  BY <1>1, Grows, Powers
<1>3. /\ data_base(r) \in Nat /\ region_end(r) \in Nat /\ r.base \in Nat /\ r.base < data_base(r)
  BY RegionFacts
<1>4. PICK m \in Nat : b.page = data_base(r) + m * t
  BY DEF Fits
<1>5. PICK k \in Nat \ {0} : t = k * (2 * s)
  <2>1. j + 1 \in Nat /\ j + 1 <= b.order
    BY <1>1
  <2>2. \E k \in Nat \ {0} : order_to_pagecount(b.order) = k * order_to_pagecount(j + 1)
    BY <1>1, <2>1, Multiple
  <2> QED
    BY <1>2, <2>2
<1>6. b.page + t <= region_end(r)
  BY DEF Fits
<1>7. h.page = b.page + s /\ h.order = j /\ h = [page |-> h.page, order |-> j]
  BY DEF Half
<1> HIDE DEF s, t, h
<1> DEFINE l == 2 * (m * k)
<1>8. l \in Nat /\ m * t = l * s
  <2>1. m * t = m * (k * (2 * s))
    BY <1>5
  <2>2. m * (k * (2 * s)) = (m * k) * (2 * s)
    BY <1>2, <1>4, <1>5
  <2> DEFINE n == m * k
  <2>3. n \in Nat
    BY <1>4, <1>5
  <2> HIDE DEF n
  <2>4. n * (2 * s) = (2 * n) * s
    BY <1>2, <2>3
  <2> QED
    BY <2>1, <2>2, <2>3, <2>4 DEF n
<1>9. l % 2 = 0 /\ (l + 1) % 2 = 1
  <2>1. m * k \in Nat
    BY <1>4, <1>5
  <2> QED
    BY <2>1
<1> HIDE DEF l
<1>10. h.page = data_base(r) + (l + 1) * s
  <2>1. (l + 1) * s = l * s + s /\ l * s \in Nat
    BY <1>2, <1>8
  <2> QED
    BY <1>2, <1>3, <1>4, <1>7, <1>8, <2>1
<1>11. h.page + s <= region_end(r) /\ h.page \in Nat /\ r.base <= h.page /\ h.page < region_end(r)
  <2>1. l * s \in Nat /\ b.page = data_base(r) + l * s
    BY <1>2, <1>4, <1>8
  <2> QED
    BY <1>1, <1>2, <1>3, <1>6, <1>7, <2>1
<1>12. h.page \in Page /\ RegionOf(h.page) = r
  BY <1>11, RegionOfIs
<1>13. h \in Block
  BY <1>1, <1>7, <1>12 DEF Block
<1>14. Fits(h, r)
  BY <1>7, <1>8, <1>10, <1>11 DEF Fits, s
<1>15. BuddyAt(h.page, j) = b.page
  <2>1. h.page - data_base(r) = (l + 1) * s
    <3> DEFINE x == (l + 1) * s
    <3>1. x \in Nat /\ h.page = data_base(r) + x
      BY <1>2, <1>8, <1>10
    <3> HIDE DEF x
    <3>2. h.page - data_base(r) = x
      BY <1>3, <3>1
    <3> QED
      BY <3>2 DEF x
  <2>2. ((l + 1) * s) \div s = l + 1
    <3>1. \A a \in Nat : (a * s) \div s = a
      BY <1>2
    <3> QED
      BY <1>8, <3>1
  <2>3. ((h.page - data_base(r)) \div s) % 2 = 1
    BY <1>9, <2>1, <2>2
  <2>4. BuddyAt(h.page, j) = h.page - s
    BY <1>12, <2>3 DEF BuddyAt, s
  <2> QED
    BY <1>1, <1>2, <1>7, <2>4
<1>16. PagesOf(h) \subseteq PagesOf(b)
  BY <1>1, <1>2, <1>7 DEF PagesOf, s, t
<1> QED
  BY <1>7, <1>13, <1>14, <1>15, <1>16 DEF h

(* The halves and what is left of a block tile it.                         *)
LEMMA SplitFacts ==
  ASSUME NEW b \in Block, NEW r \in Regions, Fits(b, r), NEW o \in 0 .. b.order
  PROVE  /\ \A a \in Split(b, o) : a \in Block /\ Fits(a, r)
         /\ Cover(Split(b, o)) = PagesOf(b)
         /\ \A a, c \in Split(b, o) : a # c => PagesOf(a) \cap PagesOf(c) = {}
<1> DEFINE f == [page |-> b.page, order |-> o]
<1>1. /\ b.page \in Nat /\ b.page \in Page /\ b.order \in Nat /\ b.order <= PMM_MAX_ORDER /\ PMM_MAX_ORDER \in Nat
      /\ o \in Nat /\ o <= b.order
  BY BlockFacts, PmmAssumption
<1>2. \A j \in Nat : order_to_pagecount(j) \in Nat \ {0}
  BY Powers
<1>3. f \in Block
  BY <1>1 DEF Block
<1>4. PICK k \in Nat \ {0} : order_to_pagecount(b.order) = k * order_to_pagecount(o)
  BY <1>1, Multiple
<1>5. order_to_pagecount(o) <= order_to_pagecount(b.order)
  <2>1. \A s \in Nat : s <= k * s
    OBVIOUS
  <2> QED
    BY <1>1, <1>2, <1>4, <2>1
<1>6. Fits(f, r)
  <2>1. PICK m \in Nat : b.page = data_base(r) + m * order_to_pagecount(b.order)
    BY DEF Fits
  <2>2. m * order_to_pagecount(b.order) = (m * k) * order_to_pagecount(o) /\ m * k \in Nat
    <3> DEFINE s == order_to_pagecount(o)
    <3>1. s \in Nat
      BY <1>1, <1>2
    <3> HIDE DEF s
    <3>2. m * (k * s) = (m * k) * s /\ m * k \in Nat
      BY <1>4, <3>1
    <3> QED
      BY <1>4, <3>2 DEF s
  <2>3. b.page + order_to_pagecount(o) <= region_end(r)
    <3>1. b.page + order_to_pagecount(b.order) <= region_end(r) /\ region_end(r) \in Nat
      BY RegionFacts DEF Fits
    <3> QED
      BY <1>1, <1>2, <1>5, <3>1
  <2>4. b.page = data_base(r) + (m * k) * order_to_pagecount(o)
    BY <2>1, <2>2
  <2> QED
    BY <2>2, <2>3, <2>4 DEF Fits
<1>7. \A a \in Split(b, o) : a = f \/ \E j \in o .. b.order - 1 : a = Half(b, j)
  BY DEF Split
<1>8. \A j \in o .. b.order - 1 : j \in 0 .. b.order - 1 /\ j \in Nat /\ j < b.order /\ o <= j
  BY <1>1
<1>9. \A a \in Split(b, o) : a \in Block /\ Fits(a, r)
  BY <1>3, <1>6, <1>7, <1>8, HalfFacts
<1>10. PagesOf(f) \subseteq PagesOf(b)
  BY <1>1, <1>2, <1>5 DEF PagesOf
<1>11. Cover(Split(b, o)) \subseteq PagesOf(b)
  BY <1>7, <1>8, <1>10, HalfFacts DEF Cover
<1>12. PagesOf(b) \subseteq Cover(Split(b, o))
  <2> SUFFICES ASSUME NEW x \in PagesOf(b)
               PROVE  \E a \in Split(b, o) : x \in PagesOf(a)
    BY DEF Cover
  <2>1. x \in Nat /\ b.page <= x /\ x < b.page + order_to_pagecount(b.order)
    BY BlockFacts
  <2> DEFINE T == {j \in o .. b.order : x < b.page + order_to_pagecount(j)}
  <2>2. PICK j \in T : \A l \in T : j <= l
    <3>1. T \in SUBSET Nat /\ b.order \in T
      BY <1>1, <2>1
    <3> HIDE DEF T
    <3> QED
      BY <3>1, Least
  <2>3. j \in o .. b.order /\ x < b.page + order_to_pagecount(j)
    BY <2>2
  <2>4. CASE j = o
    <3>1. x \in PagesOf(f)
      BY <1>1, <1>2, <2>1, <2>3, <2>4 DEF PagesOf
    <3> QED
      BY <3>1 DEF Split
  <2>5. CASE j # o
    <3>1. j - 1 \in o .. b.order /\ j - 1 \notin T /\ j - 1 \in Nat /\ j - 1 \in o .. b.order - 1
      BY <1>1, <2>2, <2>3, <2>5
    <3>2. ~(x < b.page + order_to_pagecount(j - 1))
      BY <3>1
    <3>3. order_to_pagecount((j - 1) + 1) = 2 * order_to_pagecount(j - 1) /\ (j - 1) + 1 = j
      BY <3>1, Powers
    <3>4. order_to_pagecount(j - 1) \in Nat
      BY <1>2, <3>1
    <3>5. x \in PagesOf(Half(b, j - 1))
      BY <1>1, <2>1, <2>3, <3>2, <3>3, <3>4 DEF PagesOf, Half
    <3> QED
      BY <3>1, <3>5 DEF Split
  <2> QED
    BY <2>4, <2>5
<1>13. ASSUME NEW i \in o .. b.order - 1
       PROVE  PagesOf(f) \cap PagesOf(Half(b, i)) = {}
  <2>1. order_to_pagecount(o) <= order_to_pagecount(i)
    <3>1. CASE o = i
      BY <1>1, <1>2, <3>1
    <3>2. CASE o < i
      <4>1. 2 * order_to_pagecount(o) <= order_to_pagecount(i)
        BY <1>1, <1>8, <3>2, Grows
      <4> QED
        BY <1>1, <1>2, <1>8, <4>1
    <3> QED
      BY <1>1, <1>8, <3>1, <3>2
  <2>2. order_to_pagecount(i) \in Nat /\ order_to_pagecount(o) \in Nat
    BY <1>1, <1>2, <1>8
  <2> QED
    BY <1>1, <2>1, <2>2 DEF PagesOf, Half
<1>14. ASSUME NEW i \in o .. b.order - 1, NEW j \in o .. b.order - 1, i < j
       PROVE  PagesOf(Half(b, i)) \cap PagesOf(Half(b, j)) = {}
  <2>1. 2 * order_to_pagecount(i) <= order_to_pagecount(j)
    BY <1>8, <1>14, Grows
  <2>2. order_to_pagecount(i) \in Nat /\ order_to_pagecount(j) \in Nat
    BY <1>2, <1>8
  <2> QED
    BY <1>1, <2>1, <2>2 DEF PagesOf, Half
<1>15. ASSUME NEW a \in Split(b, o), NEW c \in Split(b, o), a # c
       PROVE  PagesOf(a) \cap PagesOf(c) = {}
  <2>1. CASE a = f
    BY <1>7, <1>13, <1>15, <2>1
  <2>2. CASE c = f
    BY <1>7, <1>13, <1>15, <2>2
  <2>3. CASE a # f /\ c # f
    <3>1. PICK i \in o .. b.order - 1 : a = Half(b, i)
      BY <1>7, <2>3
    <3>2. PICK j \in o .. b.order - 1 : c = Half(b, j)
      BY <1>7, <2>3
    <3>3. i < j \/ j < i
      BY <1>1, <1>15, <3>1, <3>2
    <3> QED
      BY <1>14, <3>1, <3>2, <3>3
  <2> QED
    BY <2>1, <2>2, <2>3
<1> QED
  BY <1>9, <1>11, <1>12, <1>15

(* The buddy of a block is never inside a larger one: a block begins there.*)
LEMMA BuddyBlock ==
  ASSUME NEW S, Tiled(S), NEW b \in S, NEW r \in Regions, Fits(b, r),
         BuddyAt(b.page, b.order) < region_end(r)
  PROVE  \E a \in S : /\ a.page = BuddyAt(b.page, b.order) /\ a.order <= b.order /\ a # b
                      /\ Fits(a, r)
<1> DEFINE q == BuddyAt(b.page, b.order)
           d == data_base(r)
           k == b.order
<1>1. b \in Block
  BY DEF Tiled
<1>2. /\ q \in Nat /\ d <= q /\ q # b.page
      /\ q = b.page + order_to_pagecount(k) \/ q = b.page - order_to_pagecount(k)
      /\ \E m \in Nat : q = d + m * order_to_pagecount(k)
      /\ \E l \in Nat : LowOf(b) = d + l * order_to_pagecount(k + 1)
  BY <1>1, BuddyFacts
<1>3. /\ d \in Nat /\ region_end(r) \in Nat /\ b.page \in Nat /\ k \in Nat
      /\ order_to_pagecount(k) \in Nat \ {0} /\ order_to_pagecount(k + 1) = 2 * order_to_pagecount(k)
  BY <1>1, BlockFacts, RegionFacts, Powers
<1>4. q \in DataOf(r)
  BY <1>2, <1>3 DEF DataOf
<1>5. PICK a \in S : q \in PagesOf(a)
  <2>1. q \in Cover(S)
    BY <1>4 DEF Tiled, Data
  <2> QED
    BY <2>1 DEF Cover
<1>6. a \in Block
  BY DEF Tiled
<1>7. Fits(a, r)
  <2>1. PICK s \in Regions : Fits(a, s)
    BY DEF Tiled
  <2>2. r # s => PagesOf(a) \cap DataOf(r) = {}
    <3>1. r # s => region_end(r) <= s.base \/ region_end(s) <= r.base
      BY RegionsApart
    <3>2. /\ r.base \in Nat /\ r.base < d
          /\ data_base(s) \in Nat /\ region_end(s) \in Nat /\ s.base \in Nat /\ s.base < data_base(s)
      BY RegionFacts
    <3>3. PagesOf(a) \subseteq DataOf(s)
      BY <1>6, <2>1, FitsFacts
    <3>4. r # s => DataOf(s) \cap DataOf(r) = {}
      BY <1>3, <3>1, <3>2 DEF DataOf
    <3> QED
      BY <3>3, <3>4
  <2> QED
    BY <1>4, <1>5, <2>1, <2>2
<1> DEFINE j == a.order
<1>8. a.page \in Nat /\ j \in Nat /\ order_to_pagecount(j) \in Nat \ {0}
      /\ a.page <= q /\ q < a.page + order_to_pagecount(j)
  BY <1>2, <1>5, <1>6, BlockFacts
<1>9. PICK n \in Nat : a.page = d + n * order_to_pagecount(j)
  BY <1>7 DEF Fits
<1>10. PICK m \in Nat : q = d + m * order_to_pagecount(k)
  BY <1>2
<1>11. PICK l \in Nat : LowOf(b) = d + l * order_to_pagecount(k + 1)
  BY <1>2
<1>12. LowOf(b) = IF q < b.page THEN q ELSE b.page
  BY DEF LowOf
<1> HIDE DEF q, d, k, j
<1>13. /\ a.page - d = n * order_to_pagecount(j) /\ q - d = m * order_to_pagecount(k)
       /\ LowOf(b) - d = l * order_to_pagecount(k + 1)
       /\ n * order_to_pagecount(j) \in Nat /\ m * order_to_pagecount(k) \in Nat /\ l * order_to_pagecount(k + 1) \in Nat
  <2>1. \A x, y \in Nat : x * y \in Nat
    OBVIOUS
  <2>2. n * order_to_pagecount(j) \in Nat /\ m * order_to_pagecount(k) \in Nat /\ l * order_to_pagecount(k + 1) \in Nat
    BY <1>3, <1>8, <2>1
  <2>3. \A x, y, z \in Nat : x = y + z => x - y = z
    OBVIOUS
  <2>4. LowOf(b) \in Nat
    BY <1>2, <1>3, <1>12
  <2> QED
    BY <1>2, <1>3, <1>8, <1>9, <1>10, <1>11, <2>2, <2>3, <2>4
<1>14. CASE j <= k
  <2>1. a.page - d < (q - d) + order_to_pagecount(k) /\ q - d < (a.page - d) + order_to_pagecount(j)
    BY <1>2, <1>3, <1>8
  <2>2. q - d <= a.page - d
    BY <1>3, <1>8, <1>13, <1>14, <2>1, Nested
  <2>3. a.page = q
    BY <1>2, <1>3, <1>8, <2>2
  <2> QED
    BY <1>2, <1>7, <1>14, <2>3 DEF q, k, j
<1>15. CASE ~(j <= k)
  <2> DEFINE low == LowOf(b)
  <2>1. low \in Nat /\ low <= q /\ q < low + order_to_pagecount(k + 1)
        /\ low <= b.page /\ b.page < low + order_to_pagecount(k + 1)
    BY <1>2, <1>3, <1>12
  <2>2. k + 1 \in Nat /\ k + 1 <= j /\ order_to_pagecount(k + 1) \in Nat
    BY <1>3, <1>8, <1>15
  <2>3. low - d < (a.page - d) + order_to_pagecount(j) /\ a.page - d < (low - d) + order_to_pagecount(k + 1)
    BY <1>2, <1>3, <1>8, <2>1, <2>2
  <2>4. a.page - d <= low - d /\ (low - d) + order_to_pagecount(k + 1) <= (a.page - d) + order_to_pagecount(j)
    BY <1>8, <1>13, <2>2, <2>3, Nested
  <2>5. a.page <= b.page /\ b.page < a.page + order_to_pagecount(j)
    BY <1>3, <1>8, <2>1, <2>2, <2>4
  <2>6. b.page \in PagesOf(a) /\ b.page \in PagesOf(b)
    BY <1>1, <1>3, <1>6, <2>5, BlockFacts DEF j
  <2>7. a = b
    BY <2>6 DEF Tiled
  <2> QED
    BY <1>3, <1>15, <2>7 DEF j, k
<1> QED
  BY <1>14, <1>15

(* A block and its buddy of the same order make one block of the next.     *)
LEMMA MergeFacts ==
  ASSUME NEW b \in Block, NEW r \in Regions, Fits(b, r), b.order < PMM_MAX_ORDER,
         NEW a \in Block, Fits(a, r), a.page = BuddyAt(b.page, b.order), a.order = b.order
  PROVE  LET new == [page |-> LowOf(b), order |-> b.order + 1]
         IN  new \in Block /\ Fits(new, r) /\ PagesOf(new) = PagesOf(a) \cup PagesOf(b)
<1> DEFINE s == order_to_pagecount(b.order)
           low == LowOf(b)
           new == [page |-> low, order |-> b.order + 1]
<1>1. /\ b.page \in Nat /\ a.page \in Nat /\ b.order \in Nat /\ s \in Nat \ {0} /\ PMM_MAX_ORDER \in Nat
      /\ order_to_pagecount(b.order + 1) = 2 * s /\ b.page \in Page /\ a.page \in Page
  BY BlockFacts, Powers, PmmAssumption
<1>2. a.page = b.page + s \/ a.page = b.page - s
  BY BuddyFacts
<1>3. low = IF a.page < b.page THEN a.page ELSE b.page
  BY DEF LowOf
<1>4. PICK l \in Nat : low = data_base(r) + l * order_to_pagecount(b.order + 1)
  BY BuddyFacts
<1>5. b.page + s <= region_end(r) /\ a.page + s <= region_end(r) /\ region_end(r) \in Nat
  BY RegionFacts DEF Fits
<1> HIDE DEF s, low
<1>6. low + 2 * s <= region_end(r)
  BY <1>1, <1>2, <1>3, <1>5
<1>7. new.page = low /\ new.order = b.order + 1
  OBVIOUS
<1>8. low \in Page
  BY <1>1, <1>3
<1>9. new \in Block
  BY <1>1, <1>8 DEF Block
<1>10. Fits(new, r)
  BY <1>1, <1>4, <1>6, <1>7 DEF Fits
<1>11. PagesOf(new) = PagesOf(a) \cup PagesOf(b)
  <2>1. /\ PagesOf(new) = low .. low + 2 * s - 1 /\ PagesOf(a) = a.page .. a.page + s - 1
        /\ PagesOf(b) = b.page .. b.page + s - 1
    BY <1>1 DEF PagesOf, s
  <2> HIDE DEF new
  <2> QED
    BY <1>1, <1>2, <1>3, <2>1
<1> QED
  BY <1>9, <1>10, <1>11 DEF low

(* The buddy of the buddy is the block itself.                             *)
LEMMA BuddyTwice ==
  ASSUME NEW b \in Block, NEW r \in Regions, Fits(b, r),
         NEW a \in Block, Fits(a, r), a.page = BuddyAt(b.page, b.order), a.order = b.order
  PROVE  BuddyAt(a.page, a.order) = b.page
<1> DEFINE s == order_to_pagecount(b.order)
           d == data_base(r)
<1>1. b.page \in Nat /\ a.page \in Nat /\ s \in Nat \ {0} /\ d \in Nat
  BY BlockFacts, RegionFacts
<1>2. PICK m \in Nat : b.page = d + m * s
  BY DEF Fits
<1>3. PICK n \in Nat : a.page = d + n * s
  BY DEF Fits
<1>4. RegionOf(b.page) = r /\ RegionOf(a.page) = r
  BY FitsFacts
<1>5. /\ a.page = IF ((b.page - d) \div s) % 2 = 0 THEN b.page + s ELSE b.page - s
      /\ BuddyAt(a.page, a.order) = IF ((a.page - d) \div s) % 2 = 0 THEN a.page + s ELSE a.page - s
  BY <1>4 DEF BuddyAt
<1> HIDE DEF s, d
<1>6. (b.page - d) \div s = m /\ (a.page - d) \div s = n
  <2>1. \A x, y, z \in Nat : x = y + z => x - y = z
    OBVIOUS
  <2>2. \A x \in Nat : x * s \in Nat /\ (x * s) \div s = x
    BY <1>1
  <2>3. b.page - d = m * s /\ a.page - d = n * s
    BY <1>1, <1>2, <1>3, <2>1, <2>2
  <2> QED
    BY <2>2, <2>3
<1>7. CASE m % 2 = 0
  <2>1. a.page = b.page + s
    BY <1>5, <1>6, <1>7
  <2>2. n = m + 1
    <3>1. n * s = m * s + s /\ m * s + s = (m + 1) * s
      <4>1. \A x \in Nat : x * s \in Nat
        BY <1>1
      <4>2. m * s + s = (m + 1) * s
        BY <1>1, <1>2
      <4> QED
        BY <1>1, <1>2, <1>3, <2>1, <4>1, <4>2
    <3>2. \A x, y \in Nat : x * s = y * s => x = y
      BY <1>1
    <3> QED
      BY <1>2, <1>3, <3>1, <3>2
  <2> QED
    BY <1>1, <1>2, <1>5, <1>6, <1>7, <2>1, <2>2
<1>8. CASE m % 2 # 0
  <2>1. a.page = b.page - s
    BY <1>5, <1>6, <1>8
  <2>2. m = n + 1
    <3>1. m * s = n * s + s /\ n * s + s = (n + 1) * s
      <4>1. \A x \in Nat : x * s \in Nat
        BY <1>1
      <4>2. n * s + s = (n + 1) * s
        BY <1>1, <1>3
      <4> QED
        BY <1>1, <1>2, <1>3, <2>1, <4>1, <4>2
    <3>2. \A x, y \in Nat : x * s = y * s => x = y
      BY <1>1
    <3> QED
      BY <1>2, <1>3, <3>1, <3>2
  <2> QED
    BY <1>1, <1>3, <1>5, <1>6, <1>8, <2>1, <2>2
<1> QED
  BY <1>7, <1>8

(* Halving a block makes no buddies that are both free.                    *)
LEMMA NoBuddiesSplit ==
  ASSUME NEW S, Tiled(S), NEW L \in SUBSET S, NoBuddies(L), NEW b \in L, NEW o \in 0 .. b.order
  PROVE  NoBuddies((L \ {b}) \cup {Half(b, j) : j \in o .. b.order - 1})
<1> DEFINE H == {Half(b, j) : j \in o .. b.order - 1}
           N == (L \ {b}) \cup H
<1>1. b \in S /\ b \in Block
  BY DEF Tiled
<1>2. PICK r \in Regions : Fits(b, r)
  BY <1>1 DEF Tiled
<1>3. b.order \in Nat /\ b.page \in Nat /\ b.page \in PagesOf(b)
  BY <1>1, BlockFacts
<1>4. ASSUME NEW c \in L, c.page = b.page
      PROVE  c = b
  <2>1. c \in S /\ c \in Block
    BY DEF Tiled
  <2>2. b.page \in PagesOf(c)
    BY <1>4, <2>1, BlockFacts
  <2> QED
    BY <1>1, <1>3, <2>1, <2>2 DEF Tiled
<1>5. ASSUME NEW h \in H
      PROVE  /\ h \in Block /\ Fits(h, r) /\ BuddyAt(h.page, h.order) = b.page /\ h.page # b.page
  <2>1. PICK j \in o .. b.order - 1 : h = Half(b, j)
    OBVIOUS
  <2>2. j \in 0 .. b.order - 1 /\ j \in Nat
    BY <1>3
  <2>3. h \in Block /\ Fits(h, r) /\ BuddyAt(h.page, j) = b.page
    BY <1>1, <1>2, <2>1, <2>2, HalfFacts
  <2>4. h.order = j /\ h.page = b.page + order_to_pagecount(j)
    BY <2>1 DEF Half
  <2>5. order_to_pagecount(j) \in Nat \ {0}
    BY <2>2, Powers
  <2> QED
    BY <1>3, <2>3, <2>4, <2>5
<1> HIDE DEF H
<1>6. ASSUME NEW c \in N, c.order < PMM_MAX_ORDER, [c EXCEPT !.page = BuddyAt(c.page, c.order)] \in N
      PROVE  FALSE
  <2> DEFINE a == [c EXCEPT !.page = BuddyAt(c.page, c.order)]
  <2>1. c \in Block
    BY <1>1, <1>5 DEF Tiled
  <2>2. a.page = BuddyAt(c.page, c.order) /\ a.order = c.order /\ a \in N
    BY <1>6, <2>1 DEF Block
  <2> HIDE DEF a
  <2>3. CASE c \in H
    <3>1. a.page = b.page
      BY <1>5, <2>2, <2>3
    <3>2. a \in L \ {b}
      BY <1>5, <2>2, <3>1
    <3> QED
      BY <1>4, <3>1, <3>2
  <2>4. CASE c \in L \ {b} /\ a \in H
    <3>1. a \in Block /\ Fits(a, r) /\ BuddyAt(a.page, a.order) = b.page
      BY <1>5, <2>4
    <3>2. PICK s \in Regions : Fits(c, s)
      BY <2>4 DEF Tiled
    <3>3. s = r
      BY <2>1, <2>2, <3>1, <3>2, SameRegion
    <3>4. BuddyAt(a.page, a.order) = c.page
      BY <2>1, <2>2, <3>1, <3>2, <3>3, BuddyTwice
    <3> QED
      BY <1>4, <2>4, <3>1, <3>4
  <2>5. CASE c \in L \ {b} /\ a \in L \ {b}
    BY <1>6, <2>5 DEF NoBuddies, a
  <2> QED
    BY <2>2, <2>3, <2>4, <2>5
<1> QED
  BY <1>6 DEF NoBuddies, H

(* A block whose buddy is not free may be added to the free ones.          *)
LEMMA NoBuddiesAdd ==
  ASSUME NEW S, Tiled(S), NEW L \in SUBSET S, NoBuddies(L), NEW b \in S,
         b.order < PMM_MAX_ORDER => [b EXCEPT !.page = BuddyAt(b.page, b.order)] \notin L
  PROVE  NoBuddies(L \cup {b})
<1>1. b \in Block
  BY DEF Tiled
<1>2. PICK r \in Regions : Fits(b, r)
  BY DEF Tiled
<1>3. ASSUME NEW c \in L \cup {b}, c.order < PMM_MAX_ORDER,
             [c EXCEPT !.page = BuddyAt(c.page, c.order)] \in L \cup {b}
      PROVE  FALSE
  <2> DEFINE a == [c EXCEPT !.page = BuddyAt(c.page, c.order)]
  <2>1. c \in Block
    BY <1>1 DEF Tiled
  <2>2. PICK s \in Regions : Fits(c, s)
    BY DEF Tiled
  <2>3. a.page = BuddyAt(c.page, c.order) /\ a.order = c.order /\ a \in L \cup {b}
        /\ c = [page |-> c.page, order |-> c.order]
    BY <1>3, <2>1 DEF Block
  <2>4. a.page # c.page
    BY <2>1, <2>2, <2>3, BuddyFacts
  <2>5. CASE c = b
    <3>1. a \in L
      BY <2>3, <2>4, <2>5
    <3> QED
      BY <1>3, <2>5, <3>1
  <2>6. CASE c # b /\ a = b
    <3>1. s = r
      BY <1>1, <1>2, <2>1, <2>2, <2>3, <2>6, SameRegion
    <3>2. BuddyAt(b.page, b.order) = c.page
      BY <1>1, <1>2, <2>1, <2>2, <2>3, <2>6, <3>1, BuddyTwice
    <3>3. [b EXCEPT !.page = BuddyAt(b.page, b.order)] = c
      BY <1>1, <2>3, <2>6, <3>2 DEF Block
    <3> QED
      BY <1>3, <2>3, <2>6, <3>3
  <2>7. CASE c # b /\ a # b
    BY <1>3, <2>3, <2>7 DEF NoBuddies
  <2> QED
    BY <2>5, <2>6, <2>7
<1> QED
  BY <1>3 DEF NoBuddies

-----------------------------------------------------------------------------
(* The inductive invariant                                                 *)

(* The labels of a CPU whose block is no longer free by its flag, of one   *)
(* that frees, of one whose block is in the count, and of all that work on *)
(* a block.                                                                *)
TakenAt == {"load", "store"}
FreesAt == {"free_load", "free_store", "acquire", "merge"}
CountedAt == {"mark", "load", "store", "acquire", "merge"}
Working == {"mark", "load", "store", "free_load", "free_store", "acquire", "merge"}

WorkedOn(p, q, L) == {q[c] : c \in {d \in Cpu : p[d] \in L}}
At(L) == WorkedOn(pc, page, L)
Blocks == Listed \cup At(Working) \cup held
Taken == held \cup At(TakenAt)
Counted == Listed \cup At(CountedAt)

(* The types, and which CPUs work on a block.                              *)
TypeInv ==
  /\ lists \in [0 .. PMM_MAX_ORDER -> SUBSET Page]
  /\ order \in [Page -> 0 .. PMM_MAX_ORDER] /\ free \in [Page -> BOOLEAN]
  /\ lock \in Cpu \cup {None} /\ held \subseteq Block /\ tmp \in [Cpu -> Nat]
  /\ pc \in [Cpu -> Working \cup {"idle", "halted"}]
  /\ page \in [Cpu -> Block \cup {None}]
  /\ \A c \in Cpu : page[c] \in Block <=> pc[c] \in Working

(* No two CPUs work on one block, and nobody works on one that is free or  *)
(* owned.                                                                  *)
Apart ==
  /\ \A c, d \in Cpu : c # d /\ pc[c] \in Working => page[c] # page[d]
  /\ Listed \cap At(Working) = {} /\ Listed \cap held = {} /\ At(Working) \cap held = {}

(* The record of the first page of a block has its order, and says not     *)
(* free for the blocks that were handed out, and for no other page.        *)
RecordsTrue ==
  /\ \A b \in Blocks : order[b.page] = b.order \/ b \in At({"mark"})
  /\ \A p \in Data : free[p] <=> \A b \in Taken : b.page # p

(* The free pages a count must cover: an update lost to another CPU leaves *)
(* it too large, never too small.                                          *)
OneCpu == \A c, d \in Cpu : c = d
IsCount(n) ==
  /\ n \in Nat /\ Cardinality(Cover(Counted)) <= n
  /\ OneCpu => n = Cardinality(Cover(Counted))
CountInv ==
  /\ IsCount(free_count)
  /\ \A c \in Cpu : pc[c] \in {"store", "free_store"} => IsCount(tmp[c])

(* The inductive invariant.                                                *)
IInv ==
  /\ TypeInv /\ Tiled(Blocks) /\ Apart /\ RecordsTrue
  /\ NoBuddies(Listed) /\ CountInv

(* The free lists as a set of blocks.                                      *)
LEMMA ListedIs ==
  ASSUME NEW l \in [0 .. PMM_MAX_ORDER -> SUBSET Page]
  PROVE  UNION {{[page |-> p, order |-> o] : p \in l[o]} : o \in DOMAIN l} = {b \in Block : b.page \in l[b.order]}
<1> DEFINE L == UNION {{[page |-> p, order |-> o] : p \in l[o]} : o \in DOMAIN l}
<1>1. ASSUME NEW b \in L PROVE b \in Block /\ b.page \in l[b.order]
  BY DEF Block
<1>2. ASSUME NEW b \in Block, b.page \in l[b.order] PROVE b \in L
  <2>1. b = [page |-> b.page, order |-> b.order] /\ b.order \in 0 .. PMM_MAX_ORDER
    BY DEF Block
  <2> QED
    BY <1>2, <2>1
<1> QED
  BY <1>1, <1>2

(* A page is the first of one block of a tiling at most.                   *)
LEMMA Heads ==
  ASSUME NEW S, Tiled(S), NEW a \in S, NEW b \in S, a.page \in PagesOf(b)
  PROVE  a = b
<1>1. a \in Block /\ b \in Block
  BY DEF Tiled
<1>2. a.page \in PagesOf(a)
  BY <1>1, BlockFacts
<1> QED
  BY <1>2 DEF Tiled

(* What a block adds to the pages counted.                                 *)
LEMMA CountLess ==
  ASSUME NEW S, Tiled(S), NEW C \in SUBSET S, NEW b \in C
  PROVE  /\ Cardinality(Cover(C)) \in Nat /\ Cardinality(Cover(C \ {b})) \in Nat
         /\ order_to_pagecount(b.order) \in Nat
         /\ Cardinality(Cover(C)) = Cardinality(Cover(C \ {b})) + order_to_pagecount(b.order)
<1>1. b \in S /\ b \in Block
  BY DEF Tiled
<1>2. Cover(C) \subseteq Data /\ IsFiniteSet(Data)
  BY DataFacts DEF Tiled, Cover
<1>3. IsFiniteSet(Cover(C))
  BY <1>2, FS_Subset
<1>4. Cover(C \ {b}) = Cover(C) \ PagesOf(b) /\ PagesOf(b) \subseteq Cover(C)
  <2>1. ASSUME NEW a \in C, a # b PROVE PagesOf(a) \cap PagesOf(b) = {}
    BY <1>1, <2>1 DEF Tiled
  <2> QED
    BY <2>1 DEF Cover
<1>5. Cardinality(PagesOf(b)) = order_to_pagecount(b.order) /\ order_to_pagecount(b.order) \in Nat
      /\ IsFiniteSet(PagesOf(b))
  <2> DEFINE s == order_to_pagecount(b.order)
             l == b.page + s - 1
  <2>1. b.page \in Nat /\ s \in Nat \ {0}
    BY <1>1, BlockFacts
  <2>2. PagesOf(b) = b.page .. l
    BY DEF PagesOf
  <2> HIDE DEF s
  <2>3. b.page \in Int /\ l \in Int /\ ~(b.page > l) /\ l - b.page + 1 = s
    BY <2>1
  <2> HIDE DEF l
  <2>4. /\ IsFiniteSet(b.page .. l)
        /\ Cardinality(b.page .. l) = IF b.page > l THEN 0 ELSE l - b.page + 1
    BY <2>3, FS_Interval
  <2>5. Cardinality(b.page .. l) = s
    BY <2>3, <2>4
  <2> QED
    BY <2>1, <2>2, <2>4, <2>5 DEF s
<1>6. /\ IsFiniteSet(Cover(C \ {b}))
      /\ Cardinality(Cover(C \ {b})) = Cardinality(Cover(C)) - Cardinality(PagesOf(b))
  <2>1. Cover(C) \cap PagesOf(b) = PagesOf(b)
    BY <1>4
  <2> QED
    BY <1>3, <1>4, <1>5, <2>1, FS_Difference
<1>7. Cardinality(Cover(C)) \in Nat /\ Cardinality(Cover(C \ {b})) \in Nat
  BY <1>3, <1>6, FS_CardinalityType
<1> QED
  BY <1>5, <1>6, <1>7

(* The zone as pmm_zone_register and pmm_region_add leave it.              *)
LEMMA InitInv ==
  ASSUME Init
  PROVE  IInv
<1>1. Tiled(InitialBlocks) /\ NoBuddies(InitialBlocks)
  BY InitialTiled
<1>2. \A b \in InitialBlocks : b \in Block /\ b.page \in Page /\ b.order \in 0 .. PMM_MAX_ORDER
  BY <1>1 DEF Tiled, Block
<1>3. lists \in [0 .. PMM_MAX_ORDER -> SUBSET Page]
  BY <1>2 DEF Init
<1>4. Listed = InitialBlocks
  <2>1. Listed = {b \in Block : b.page \in lists[b.order]}
    BY <1>3, ListedIs DEF Listed
  <2>2. \A b \in Block : b.page \in lists[b.order] <=> \E x \in InitialBlocks : x.order = b.order /\ x.page = b.page
    BY DEF Init, Block
  <2>3. \A x, b \in Block : x.order = b.order /\ x.page = b.page => x = b
    BY DEF Block
  <2> QED
    BY <1>2, <2>1, <2>2, <2>3
<1>5. \A L \in SUBSET Working : At(L) = {}
  <2>1. "idle" \notin Working
    BY DEF Working
  <2> QED
    BY <2>1 DEF At, WorkedOn, Init
<1>6. At(Working) = {} /\ At(TakenAt) = {} /\ At(CountedAt) = {} /\ held = {}
  <2>1. TakenAt \subseteq Working /\ CountedAt \subseteq Working
    BY DEF Working, TakenAt, CountedAt
  <2> QED
    BY <1>5, <2>1 DEF Init
<1>7. Blocks = InitialBlocks /\ Counted = InitialBlocks /\ Taken = {}
  BY <1>4, <1>6 DEF Blocks, Counted, Taken
<1>8. TypeInv
  <2>1. \A p \in Page : (\E b \in InitialBlocks : b.page = p) =>
          (CHOOSE b \in InitialBlocks : b.page = p).order \in 0 .. PMM_MAX_ORDER
    BY <1>2
  <2>2. order \in [Page -> 0 .. PMM_MAX_ORDER]
    <3>1. 0 \in 0 .. PMM_MAX_ORDER
      BY PmmAssumption
    <3> QED
      BY <2>1, <3>1 DEF Init
  <2>3. free \in [Page -> BOOLEAN]
    BY DEF Init
  <2>4. None \notin Block
    BY PmmAssumption, BlockFacts DEF Block
  <2>5. "idle" \notin Working /\ "idle" \notin FreesAt
    BY DEF Working, FreesAt
  <2>6. lock \in Cpu \cup {None} /\ held \subseteq Block /\ tmp \in [Cpu -> Nat]
        /\ pc \in [Cpu -> Working \cup {"idle", "halted"}] /\ page \in [Cpu -> Block \cup {None}]
    BY DEF Init
  <2>7. \A c \in Cpu : page[c] = None /\ pc[c] = "idle"
    BY DEF Init
  <2> QED
    BY <1>3, <2>2, <2>3, <2>4, <2>5, <2>6, <2>7 DEF TypeInv
<1>9. RecordsTrue
  <2>1. ASSUME NEW b \in InitialBlocks PROVE order[b.page] = b.order
    <3>1. \A x \in InitialBlocks : x.page = b.page => x = b
      <4>1. b.page \in PagesOf(b)
        BY <1>2, BlockFacts
      <4> QED
        BY <1>1, <4>1, Heads
    <3>2. (CHOOSE x \in InitialBlocks : x.page = b.page) = b
      BY <3>1
    <3> QED
      BY <1>2, <3>2 DEF Init
  <2>2. \A p \in Data : free[p] = TRUE
    BY DataFacts DEF Init, Data
  <2> QED
    BY <1>7, <2>1, <2>2 DEF RecordsTrue
<1>10. Apart
  <2>1. "idle" \notin Working
    BY DEF Working
  <2> QED
    BY <1>6, <2>1 DEF Apart, Init
<1>11. CountInv
  <2>1. Cover(Counted) = Data /\ free_count = Cardinality(Data)
    BY <1>1, <1>7 DEF Tiled, Init, Data
  <2>2. Cardinality(Data) \in Nat
    BY DataFacts, FS_CardinalityType
  <2>3. IsCount(free_count)
    BY <2>1, <2>2 DEF IsCount
  <2>4. \A c \in Cpu : pc[c] = "idle"
    BY DEF Init
  <2> QED
    BY <2>3, <2>4 DEF CountInv
<1> QED
  BY <1>1, <1>4, <1>7, <1>8, <1>9, <1>10, <1>11 DEF IInv

(* What a CPU works on, by its label.                                      *)
LEMMA WorkFacts ==
  ASSUME TypeInv, Apart, NEW c \in Cpu, NEW L \in SUBSET Working
  PROVE  /\ At(L) \subseteq Block /\ At(L) \subseteq At(Working)
         /\ page[c] \in At(L) <=> pc[c] \in L
<1>1. At(L) \subseteq Block /\ At(L) \subseteq At(Working)
  BY DEF At, WorkedOn, TypeInv
<1>2. pc[c] \in L => page[c] \in At(L)
  BY DEF At, WorkedOn
<1>3. ASSUME page[c] \in At(L) PROVE pc[c] \in L
  <2>1. PICK d \in Cpu : pc[d] \in L /\ page[d] = page[c]
    BY <1>3 DEF At, WorkedOn
  <2>2. d = c
    BY <2>1 DEF Apart
  <2> QED
    BY <2>1, <2>2
<1> QED
  BY <1>1, <1>2, <1>3

(* A step changes what one CPU works on.                                   *)
Moves(c) == \A d \in Cpu \ {c} : pc'[d] = pc[d] /\ page'[d] = page[d]

(* A set of blocks worked on, before and after a step of one CPU.          *)
LEMMA AtMoves ==
  ASSUME TypeInv, Apart, NEW c \in Cpu, Moves(c), NEW L \in SUBSET Working
  PROVE  WorkedOn(pc', page', L) = (At(L) \ {page[c]}) \cup (IF pc'[c] \in L THEN {page'[c]} ELSE {})
<1>2. \A d \in Cpu : d # c => pc'[d] = pc[d] /\ page'[d] = page[d]
  BY DEF Moves
<1>3. \A d \in Cpu : d # c /\ pc[d] \in L => page[d] # page[c]
  BY DEF Apart
<1>4. ASSUME NEW z \in WorkedOn(pc', page', L)
      PROVE  z \in (At(L) \ {page[c]}) \cup (IF pc'[c] \in L THEN {page'[c]} ELSE {})
  <2>1. PICK d \in Cpu : pc'[d] \in L /\ z = page'[d]
    BY DEF WorkedOn
  <2> QED
    BY <1>2, <1>3, <2>1 DEF At, WorkedOn
<1>5. ASSUME NEW z \in (At(L) \ {page[c]}) \cup (IF pc'[c] \in L THEN {page'[c]} ELSE {})
      PROVE  z \in WorkedOn(pc', page', L)
  <2>1. CASE z \in At(L) \ {page[c]}
    <3>1. PICK d \in Cpu : pc[d] \in L /\ z = page[d]
      BY <2>1 DEF At, WorkedOn
    <3>2. d # c
      BY <2>1, <3>1
    <3> QED
      BY <1>2, <3>1, <3>2 DEF WorkedOn
  <2>2. CASE pc'[c] \in L /\ z = page'[c]
    BY <1>2, <2>2 DEF WorkedOn
  <2> QED
    BY <2>1, <2>2
<1> QED
  BY <1>4, <1>5

(* Where the labels of the steps belong.                                   *)
LEMMA Labels ==
  /\ TakenAt \subseteq Working /\ FreesAt \subseteq Working /\ CountedAt \subseteq Working
  /\ {"mark"} \subseteq Working /\ "idle" \notin Working /\ "halted" \notin Working
  /\ TakenAt \cap FreesAt = {} /\ "mark" \notin TakenAt /\ "mark" \notin FreesAt
  /\ TakenAt \subseteq CountedAt /\ "mark" \in CountedAt
  /\ "acquire" \in CountedAt /\ "merge" \in CountedAt
  /\ "free_load" \notin CountedAt /\ "free_store" \notin CountedAt
BY DEF TakenAt, FreesAt, CountedAt, Working

(* Facts of a block in the invariant.                                      *)
LEMMA InvFacts ==
  ASSUME IInv
  PROVE  /\ Tiled(Blocks) /\ Counted \subseteq Blocks /\ Listed \subseteq Blocks /\ Taken \subseteq Blocks
         /\ \A b \in Blocks : b \in Block /\ b.page \in Data /\ b.page \in Page
         /\ None \notin Block
<1>1. TypeInv /\ Tiled(Blocks) /\ Apart
  BY DEF IInv
<1>2. At(CountedAt) \subseteq At(Working) /\ At(TakenAt) \subseteq At(Working)
  BY Labels DEF At, WorkedOn
<1>3. Counted \subseteq Blocks /\ Listed \subseteq Blocks /\ Taken \subseteq Blocks
  BY <1>2 DEF Counted, Blocks, Taken
<1>4. ASSUME NEW b \in Blocks PROVE b \in Block /\ b.page \in Data /\ b.page \in Page
  <2>1. b \in Block /\ b.page \in PagesOf(b)
    BY <1>1, BlockFacts DEF Tiled
  <2>2. b.page \in Cover(Blocks)
    BY <2>1 DEF Cover
  <2> QED
    BY <1>1, <2>1, <2>2 DEF Tiled, Block
<1>5. None \notin Block
  BY PmmAssumption, BlockFacts DEF Block
<1> QED
  BY <1>1, <1>3, <1>4, <1>5

(* A step of one CPU takes its block out of a set, and puts the block it   *)
(* has then back by the new label.                                         *)
Moved(S, c, L) == (S \ {page[c]}) \cup (IF pc'[c] \in L THEN {page'[c]} ELSE {})

(* So do the four sets the invariant speaks of.                            *)
LEMMA AtSets ==
  ASSUME IInv, NEW c \in Cpu, Moves(c)
  PROVE  /\ At(Working)' = Moved(At(Working), c, Working)
         /\ At(TakenAt)' = Moved(At(TakenAt), c, TakenAt)
         /\ At(CountedAt)' = Moved(At(CountedAt), c, CountedAt)
         /\ At({"mark"})' = Moved(At({"mark"}), c, {"mark"})
<1>1. TypeInv /\ Apart
  BY DEF IInv
<1>2. At(Working)' = Moved(At(Working), c, Working)
  <2>1. WorkedOn(pc', page', Working) = Moved(At(Working), c, Working)
    BY <1>1, AtMoves DEF Moved
  <2> QED
    BY <2>1 DEF At
<1>3. At(TakenAt)' = Moved(At(TakenAt), c, TakenAt)
  <2>1. WorkedOn(pc', page', TakenAt) = Moved(At(TakenAt), c, TakenAt)
    BY <1>1, Labels, AtMoves DEF Moved
  <2> QED
    BY <2>1 DEF At
<1>4. At(CountedAt)' = Moved(At(CountedAt), c, CountedAt)
  <2>1. WorkedOn(pc', page', CountedAt) = Moved(At(CountedAt), c, CountedAt)
    BY <1>1, Labels, AtMoves DEF Moved
  <2> QED
    BY <2>1 DEF At
<1>5. At({"mark"})' = Moved(At({"mark"}), c, {"mark"})
  <2>1. WorkedOn(pc', page', {"mark"}) = Moved(At({"mark"}), c, {"mark"})
    BY <1>1, Labels, AtMoves DEF Moved
  <2> QED
    BY <2>1 DEF At
<1> QED
  BY <1>2, <1>3, <1>4, <1>5

(* A CPU that works on nothing is in none of the sets.                     *)
LEMMA Idles ==
  ASSUME IInv, NEW c \in Cpu, page[c] \notin Block
  PROVE  /\ At(Working) \ {page[c]} = At(Working) /\ At(TakenAt) \ {page[c]} = At(TakenAt)
         /\ At(CountedAt) \ {page[c]} = At(CountedAt) /\ At({"mark"}) \ {page[c]} = At({"mark"})
<1>1. \A L \in SUBSET Working : At(L) \subseteq Block
  BY WorkFacts DEF IInv
<1>2. /\ At(Working) \subseteq Block /\ At(TakenAt) \subseteq Block
      /\ At(CountedAt) \subseteq Block /\ At({"mark"}) \subseteq Block
  BY <1>1, Labels
<1> QED
  BY <1>2

(* What pmm_alloc does when it finds a block: it takes one of the smallest *)
(* order that serves, and lists the halves it cuts off.                    *)
LEMMA AllocFacts ==
  ASSUME IInv, NEW c \in Cpu, NEW o \in Orders, pmm_alloc(c, o),
         {a \in o .. PMM_MAX_ORDER : lists[a] # {}} # {}
  PROVE  \E b \in Listed :
           LET H == {Half(b, j) : j \in o .. b.order - 1} IN
           /\ o \in 0 .. b.order
           /\ lists' \in [0 .. PMM_MAX_ORDER -> SUBSET Page]
           /\ Listed' = (Listed \ {b}) \cup H
           /\ order' \in [Page -> 0 .. PMM_MAX_ORDER]
           /\ \A h \in H : order'[h.page] = h.order
           /\ \A q \in Page \ PagesOf(b) : order'[q] = order[q]
           /\ page' = [page EXCEPT ![c] = [page |-> b.page, order |-> o]]
           /\ pc[c] = "idle" /\ pc' = [pc EXCEPT ![c] = "mark"]
<1> DEFINE orders == {a \in o .. PMM_MAX_ORDER : lists[a] # {}}
           avl == Min(orders)
<1>1. /\ TypeInv /\ Tiled(Blocks) /\ Listed \subseteq Blocks
      /\ PMM_MAX_ORDER \in Nat /\ o \in 0 .. PMM_MAX_ORDER
  BY InvFacts, PmmAssumption DEF IInv
<1>2. avl \in orders
  <2>1. orders \in SUBSET Nat /\ orders # {}
    BY <1>1
  <2> HIDE DEF orders
  <2>2. \E x \in orders : \A y \in orders : x <= y
    BY <2>1, Least
  <2> QED
    BY <2>2 DEF Min
<1>3. PICK p \in lists[avl] :
        /\ lists' = [a \in DOMAIN lists |->
                       (lists[a] \ (IF a = avl THEN {p} ELSE {}))
                       \cup (IF a \in DOMAIN Halves(p, avl, o) THEN {Halves(p, avl, o)[a]} ELSE {})]
        /\ order' = [q \in Page |-> IF \E a \in DOMAIN Halves(p, avl, o) : Halves(p, avl, o)[a] = q
                                    THEN CHOOSE a \in DOMAIN Halves(p, avl, o) : Halves(p, avl, o)[a] = q
                                    ELSE order[q]]
        /\ page' = [page EXCEPT ![c] = [page |-> p, order |-> o]]
        /\ pc' = [pc EXCEPT ![c] = "mark"]
  BY DEF pmm_alloc, Goto
<1>4. avl \in o .. PMM_MAX_ORDER /\ avl \in 0 .. PMM_MAX_ORDER
  BY <1>1, <1>2
<1> HIDE DEF orders, avl
<1>5. lists \in [0 .. PMM_MAX_ORDER -> SUBSET Page] /\ order \in [Page -> 0 .. PMM_MAX_ORDER]
  BY <1>1 DEF TypeInv
<1>6. Listed = {x \in Block : x.page \in lists[x.order]}
  BY <1>5, ListedIs DEF Listed
<1> DEFINE b == [page |-> p, order |-> avl]
           H == {Half(b, j) : j \in o .. b.order - 1}
<1>7. b \in Listed /\ b \in Block
  BY <1>3, <1>4, <1>5, <1>6 DEF Block
<1>8. PICK r \in Regions : Fits(b, r)
  BY <1>1, <1>7 DEF Tiled
<1>9. b.page = p /\ b.order = avl
  OBVIOUS
<1>10. DOMAIN Halves(p, avl, o) = o .. avl - 1 /\ \A j \in o .. avl - 1 : Halves(p, avl, o)[j] = Half(b, j).page
  BY DEF Halves, Half
<1>11. ASSUME NEW j \in o .. avl - 1
       PROVE  /\ Half(b, j) \in Block /\ Half(b, j).order = j /\ Half(b, j).page \in PagesOf(b)
              /\ Half(b, j).page \in Page /\ j \in 0 .. PMM_MAX_ORDER
  <2>1. j \in 0 .. b.order - 1 /\ j \in 0 .. PMM_MAX_ORDER
    BY <1>1, <1>4, <1>9
  <2>2. Half(b, j) \in Block /\ PagesOf(Half(b, j)) \subseteq PagesOf(b)
    BY <1>7, <1>8, <2>1, HalfFacts
  <2>3. Half(b, j).page \in PagesOf(Half(b, j)) /\ Half(b, j).page \in Page
    BY <2>2, BlockFacts
  <2> QED
    BY <2>1, <2>2, <2>3 DEF Half
<1>12. ASSUME NEW i \in o .. avl - 1, NEW j \in o .. avl - 1, Half(b, i).page = Half(b, j).page
       PROVE  i = j
  <2>1. i \in Nat /\ j \in Nat
    BY <1>1
  <2>2. order_to_pagecount(i) \in Nat \ {0} /\ order_to_pagecount(j) \in Nat \ {0}
    BY <2>1, Powers
  <2>3. p \in Nat
    BY <1>7, <1>9, BlockFacts
  <2>4. order_to_pagecount(i) = order_to_pagecount(j)
    BY <1>9, <1>12, <2>2, <2>3 DEF Half
  <2>5. i < j => 2 * order_to_pagecount(i) <= order_to_pagecount(j)
    BY <2>1, Grows
  <2>6. j < i => 2 * order_to_pagecount(j) <= order_to_pagecount(i)
    BY <2>1, Grows
  <2> QED
    BY <2>1, <2>2, <2>4, <2>5, <2>6
<1>13. \A a \in 0 .. PMM_MAX_ORDER :
         lists'[a] = (lists[a] \ (IF a = avl THEN {p} ELSE {}))
                     \cup (IF a \in o .. avl - 1 THEN {Half(b, a).page} ELSE {})
  BY <1>3, <1>5, <1>10
<1>14. lists' \in [0 .. PMM_MAX_ORDER -> SUBSET Page]
  <2>1. DOMAIN lists' = 0 .. PMM_MAX_ORDER /\ lists' = [a \in DOMAIN lists' |-> lists'[a]]
    BY <1>3, <1>5
  <2>2. \A a \in 0 .. PMM_MAX_ORDER : lists'[a] \subseteq Page
    BY <1>5, <1>11, <1>13
  <2> QED
    BY <2>1, <2>2
<1>15. Listed' = (Listed \ {b}) \cup H
  <2>1. Listed' = {x \in Block : x.page \in lists'[x.order]}
    BY <1>14, ListedIs DEF Listed
  <2>2. \A x \in Block : x = [page |-> x.page, order |-> x.order] /\ x.order \in 0 .. PMM_MAX_ORDER
    BY DEF Block
  <2>3. \A x \in Block : x \in H <=> x.order \in o .. avl - 1 /\ x.page = Half(b, x.order).page
    BY <1>9, <2>2 DEF Half
  <2>4. \A x \in Block : x = b <=> x.order = avl /\ x.page = p
    BY <1>9, <2>2
  <2>5. H \subseteq Block
    BY <1>9, <1>11
  <2> HIDE DEF b, H
  <2>6. ASSUME NEW x \in Block
        PROVE  x.page \in lists'[x.order] <=> x \in (Listed \ {b}) \cup H
    <3>1. x \in Listed <=> x.page \in lists[x.order]
      BY <1>6
    <3>2. x.order \in 0 .. PMM_MAX_ORDER
      BY <2>2
    <3>3. lists'[x.order] = (lists[x.order] \ (IF x.order = avl THEN {p} ELSE {}))
                             \cup (IF x.order \in o .. avl - 1 THEN {Half(b, x.order).page} ELSE {})
      BY <1>13, <3>2
    <3>4. x = b <=> x.order = avl /\ x.page = p
      BY <2>4
    <3>5. x \in H <=> x.order \in o .. avl - 1 /\ x.page = Half(b, x.order).page
      BY <2>3
    <3> QED
      BY <3>1, <3>3, <3>4, <3>5
  <2> QED
    BY <1>6, <2>1, <2>5, <2>6
<1>16. ASSUME NEW h \in H PROVE order'[h.page] = h.order
  <2>1. PICK j \in o .. avl - 1 : h = Half(b, j)
    BY <1>9
  <2>2. h.page \in Page /\ h.order = j
    BY <1>11, <2>1
  <2>3. \A i \in o .. avl - 1 : Halves(p, avl, o)[i] = h.page <=> i = j
    BY <1>10, <1>12, <2>1
  <2>4. (CHOOSE a \in DOMAIN Halves(p, avl, o) : Halves(p, avl, o)[a] = h.page) = j
    BY <1>10, <2>3
  <2>5. \E a \in DOMAIN Halves(p, avl, o) : Halves(p, avl, o)[a] = h.page
    BY <1>10, <2>3
  <2> QED
    BY <1>3, <2>2, <2>4, <2>5
<1>17. ASSUME NEW q \in Page \ PagesOf(b) PROVE order'[q] = order[q]
  <2>1. \A a \in DOMAIN Halves(p, avl, o) : Halves(p, avl, o)[a] # q
    BY <1>10, <1>11
  <2> QED
    BY <1>3, <2>1
<1>18. order' \in [Page -> 0 .. PMM_MAX_ORDER]
  <2>1. ASSUME NEW q \in Page PROVE order'[q] \in 0 .. PMM_MAX_ORDER
    <3>1. CASE \E j \in o .. avl - 1 : Half(b, j).page = q
      <4>1. PICK j \in o .. avl - 1 : Half(b, j).page = q
        BY <3>1
      <4>2. Half(b, j) \in H /\ Half(b, j).order = j /\ j \in 0 .. PMM_MAX_ORDER
        BY <1>9, <1>11
      <4> QED
        BY <1>16, <4>1, <4>2
    <3>2. CASE ~ \E j \in o .. avl - 1 : Half(b, j).page = q
      BY <1>3, <1>5, <1>10, <3>2
    <3> QED
      BY <3>1, <3>2
  <2>2. DOMAIN order' = Page /\ order' = [q \in DOMAIN order' |-> order'[q]]
    BY <1>3
  <2> QED
    BY <2>1, <2>2
<1>19. o \in 0 .. b.order /\ page' = [page EXCEPT ![c] = [page |-> b.page, order |-> o]]
       /\ pc[c] = "idle" /\ pc' = [pc EXCEPT ![c] = "mark"]
  BY <1>1, <1>3, <1>4, <1>9 DEF pmm_alloc
<1> HIDE DEF b
<1> QED
  BY <1>7, <1>14, <1>15, <1>16, <1>17, <1>18, <1>19

(* Blocks on pages of a block that is cut are new ones.                    *)
LEMMA SplitApart ==
  ASSUME NEW S, Tiled(S), NEW b \in S, NEW o \in 0 .. b.order, NEW a \in Split(b, o), NEW x \in S, x # b
  PROVE  a # x /\ x.page \notin PagesOf(b)
<1>1. b \in Block /\ x \in Block
  BY DEF Tiled
<1>2. PICK r \in Regions : Fits(b, r)
  BY DEF Tiled
<1>3. PagesOf(a) \subseteq PagesOf(b) /\ a.page \in PagesOf(a) /\ x.page \in PagesOf(x)
  <2>1. a \in Block /\ PagesOf(a) \subseteq Cover(Split(b, o)) /\ Cover(Split(b, o)) = PagesOf(b)
    BY <1>1, <1>2, SplitFacts DEF Cover
  <2> QED
    BY <1>1, <2>1, BlockFacts
<1> QED
  BY <1>3 DEF Tiled

(* pmm_alloc, with a block or without.                                     *)
LEMMA AllocInv ==
  ASSUME IInv, NEW c \in Cpu, NEW o \in Orders, pmm_alloc(c, o)
  PROVE  IInv'
<1> DEFINE orders == {a \in o .. PMM_MAX_ORDER : lists[a] # {}}
<1>1. TypeInv /\ Tiled(Blocks) /\ Apart /\ RecordsTrue /\ NoBuddies(Listed) /\ CountInv
  BY DEF IInv
<1>2. /\ Counted \subseteq Blocks /\ Listed \subseteq Blocks /\ Taken \subseteq Blocks /\ None \notin Block
      /\ \A x \in Blocks : x \in Block /\ x.page \in Page
  BY InvFacts
<1>3. pc[c] = "idle" /\ page[c] \notin Block
  BY <1>1, Labels DEF pmm_alloc, TypeInv
<1>4. UNCHANGED <<free, free_count, tmp, held>>
  BY DEF pmm_alloc
<1>5. CASE orders = {}
  <2>1. /\ lock' = c /\ pc' = [pc EXCEPT ![c] = "halted"] /\ UNCHANGED <<lists, order, page>>
    BY <1>5 DEF pmm_alloc, Goto
  <2>2. page' = [page EXCEPT ![c] = page[c]] /\ page[c] = None
    BY <1>1, <1>3, <2>1 DEF TypeInv
  <2>4. At(Working)' = At(Working) /\ At(TakenAt)' = At(TakenAt) /\ At(CountedAt)' = At(CountedAt)
        /\ At({"mark"})' = At({"mark"})
    <3>1. Moves(c) /\ pc'[c] = "halted"
      BY <1>1, <2>1 DEF Moves, TypeInv
    <3>2. /\ At(Working)' = Moved(At(Working), c, Working)
          /\ At(TakenAt)' = Moved(At(TakenAt), c, TakenAt)
          /\ At(CountedAt)' = Moved(At(CountedAt), c, CountedAt)
          /\ At({"mark"})' = Moved(At({"mark"}), c, {"mark"})
      BY <3>1, AtSets
    <3>3. /\ At(Working) \ {page[c]} = At(Working) /\ At(TakenAt) \ {page[c]} = At(TakenAt)
          /\ At(CountedAt) \ {page[c]} = At(CountedAt) /\ At({"mark"}) \ {page[c]} = At({"mark"})
      BY <1>3, Idles
    <3> QED
      BY <3>1, <3>2, <3>3, Labels DEF Moved
  <2>5. Listed' = Listed /\ held' = held
    BY <1>4, <2>1 DEF Listed
  <2>6. Blocks' = Blocks /\ Taken' = Taken /\ Counted' = Counted
    BY <2>4, <2>5 DEF Blocks, Taken, Counted
  <2>7. TypeInv'
    BY <1>1, <1>3, <1>4, <2>1, Labels DEF TypeInv
  <2>8. Apart'
    BY <1>1, <1>3, <2>1, <2>4, <2>5, Labels DEF Apart, TypeInv
  <2>9. RecordsTrue'
    BY <1>1, <1>4, <2>1, <2>4, <2>6 DEF RecordsTrue
  <2>10. CountInv'
    BY <1>1, <1>4, <2>1, <2>6 DEF CountInv, IsCount, TypeInv
  <2> QED
    BY <1>1, <2>5, <2>6, <2>7, <2>8, <2>9, <2>10 DEF IInv
<1>6. CASE orders # {}
  <2>1. PICK b \in Listed :
           /\ o \in 0 .. b.order
           /\ lists' \in [0 .. PMM_MAX_ORDER -> SUBSET Page]
           /\ Listed' = (Listed \ {b}) \cup {Half(b, j) : j \in o .. b.order - 1}
           /\ order' \in [Page -> 0 .. PMM_MAX_ORDER]
           /\ \A h \in {Half(b, j) : j \in o .. b.order - 1} : order'[h.page] = h.order
           /\ \A q \in Page \ PagesOf(b) : order'[q] = order[q]
           /\ page' = [page EXCEPT ![c] = [page |-> b.page, order |-> o]]
           /\ pc[c] = "idle" /\ pc' = [pc EXCEPT ![c] = "mark"]
    BY <1>6, AllocFacts
  <2> DEFINE n == [page |-> b.page, order |-> o]
             H == {Half(b, j) : j \in o .. b.order - 1}
  <2>2. lock' = lock
    BY <1>6 DEF pmm_alloc
  <2>3. b \in Blocks /\ b \in Block
    BY <1>2
  <2>4. PICK r \in Regions : Fits(b, r)
    BY <1>1, <2>3 DEF Tiled
  <2>5. Split(b, o) = {n} \cup H
    BY DEF Split
  <2>6. /\ \A a \in Split(b, o) : a \in Block /\ Fits(a, r)
        /\ Cover(Split(b, o)) = PagesOf(b)
        /\ \A x, y \in Split(b, o) : x # y => PagesOf(x) \cap PagesOf(y) = {}
    BY <2>1, <2>3, <2>4, SplitFacts
  <2>7. n \in Block /\ n \in Split(b, o) /\ n.page = b.page
    BY <2>5, <2>6
  <2>8. n \notin H
    <3>1. ASSUME NEW j \in o .. b.order - 1 PROVE Half(b, j) # n
      <4>1. b.page \in Nat /\ b.order \in Nat
        BY <2>3, BlockFacts
      <4>2. j \in Nat
        BY <2>1, <4>1
      <4>3. order_to_pagecount(j) \in Nat \ {0}
        BY <4>2, Powers
      <4> QED
        BY <2>7, <4>1, <4>3 DEF Half
    <3> QED
      BY <3>1
  <2>9. Listed' = (Listed \ {b}) \cup H /\ H \subseteq Split(b, o)
    BY <2>1, <2>5
  <2>10. \A h \in H : order'[h.page] = h.order
    BY <2>1
  <2>11. NoBuddies((Listed \ {b}) \cup H)
    BY <1>1, <1>2, <2>1, NoBuddiesSplit
  <2>12. pc' = [pc EXCEPT ![c] = "mark"] /\ page' = [page EXCEPT ![c] = n]
    BY <2>1
  <2> HIDE DEF H, n
  <2>14. /\ At(Working)' = At(Working) \cup {n} /\ At(TakenAt)' = At(TakenAt)
         /\ At(CountedAt)' = At(CountedAt) \cup {n} /\ At({"mark"})' = At({"mark"}) \cup {n}
    <3>1. Moves(c) /\ pc'[c] = "mark" /\ page'[c] = n
      BY <1>1, <2>12 DEF Moves, TypeInv
    <3>2. "mark" \in Working
      BY Labels
    <3>3. /\ At(Working)' = Moved(At(Working), c, Working)
          /\ At(TakenAt)' = Moved(At(TakenAt), c, TakenAt)
          /\ At(CountedAt)' = Moved(At(CountedAt), c, CountedAt)
          /\ At({"mark"})' = Moved(At({"mark"}), c, {"mark"})
      BY <3>1, AtSets
    <3>4. /\ At(Working) \ {page[c]} = At(Working) /\ At(TakenAt) \ {page[c]} = At(TakenAt)
          /\ At(CountedAt) \ {page[c]} = At(CountedAt) /\ At({"mark"}) \ {page[c]} = At({"mark"})
      BY <1>3, Idles
    <3> QED
      BY <3>1, <3>2, <3>3, <3>4, Labels DEF Moved
  <2>15. b \notin At(Working) /\ b \notin held /\ b \notin At(CountedAt)
    <3>1. At(CountedAt) \subseteq At(Working)
      BY <1>1, Labels, WorkFacts
    <3> QED
      BY <1>1, <3>1 DEF Apart
  <2>16. /\ Blocks' = (Blocks \ {b}) \cup Split(b, o) /\ Taken' = Taken
         /\ Counted' = (Counted \ {b}) \cup Split(b, o)
    BY <1>4, <2>5, <2>9, <2>14, <2>15 DEF Blocks, Taken, Counted
  <2>17. ASSUME NEW x \in Blocks, x # b
         PROVE  x \notin Split(b, o) /\ x.page \notin PagesOf(b)
    BY <1>1, <2>1, <2>3, <2>7, <2>17, SplitApart
  <2>18. Tiled(Blocks')
    <3>1. Cover({b}) = PagesOf(b)
      BY DEF Cover
    <3>2. Tiled((Blocks \ {b}) \cup Split(b, o))
      BY <1>1, <2>3, <2>6, <3>1, Retile
    <3> QED
      BY <2>16, <3>2
  <2>19. TypeInv'
    <3>1. \A d \in Cpu : d # c => page'[d] = page[d] /\ pc'[d] = pc[d]
      BY <1>1, <2>12 DEF TypeInv
    <3>2. page'[c] = n /\ pc'[c] = "mark" /\ n \in Block /\ "mark" \in Working /\ "mark" \notin FreesAt
      BY <1>1, <2>7, <2>12, Labels DEF TypeInv
    <3>3. DOMAIN page' = Cpu /\ pc' \in [Cpu -> Working \cup {"idle", "halted"}]
      BY <1>1, <2>12, <3>2 DEF TypeInv
    <3> QED
      BY <1>1, <1>4, <2>1, <2>2, <3>1, <3>2, <3>3 DEF TypeInv
  <2>20. Apart'
    <3>1. n \notin At(Working) /\ n \notin held /\ n \notin Listed \ {b}
      BY <2>7, <2>15, <2>17 DEF Blocks
    <3>2. H \cap At(Working) = {} /\ H \cap held = {}
      BY <2>9, <2>15, <2>17 DEF Blocks
    <3>3. /\ Listed' \cap At(Working)' = {} /\ Listed' \cap held' = {} /\ At(Working)' \cap held' = {}
      BY <1>1, <1>4, <2>8, <2>9, <2>14, <3>1, <3>2 DEF Apart
    <3>4. \A d \in Cpu : pc[d] \in Working => page[d] \in At(Working)
      BY DEF At, WorkedOn
    <3>5. \A d \in Cpu : d # c => page'[d] = page[d] /\ pc'[d] = pc[d]
      BY <1>1, <2>12 DEF TypeInv
    <3>6. page'[c] = n /\ pc'[c] = "mark"
      BY <1>1, <2>12 DEF TypeInv
    <3>7. \A d \in Cpu : page[d] \in Block <=> pc[d] \in Working
      BY <1>1 DEF TypeInv
    <3>8. \A d, e \in Cpu : d # e /\ pc'[d] \in Working => page'[d] # page'[e]
      <4> SUFFICES ASSUME NEW d \in Cpu, NEW e \in Cpu, d # e, pc'[d] \in Working, page'[d] = page'[e]
                   PROVE  FALSE
        OBVIOUS
      <4>1. CASE d = c
        BY <2>7, <3>1, <3>4, <3>5, <3>6, <3>7, <4>1
      <4>2. CASE e = c
        BY <3>1, <3>4, <3>5, <3>6, <4>2
      <4>3. CASE d # c /\ e # c
        BY <1>1, <3>5, <4>3 DEF Apart
      <4> QED
        BY <4>1, <4>2, <4>3
    <3> QED
      BY <3>3, <3>8 DEF Apart
  <2>21. RecordsTrue'
    <3>1. ASSUME NEW x \in Blocks' PROVE order'[x.page] = x.order \/ x \in At({"mark"})'
      <4>1. CASE x \in Blocks /\ x # b
        <5>1. x.page \in Page \ PagesOf(b)
          BY <1>2, <2>17, <4>1
        <5>2. order[x.page] = x.order \/ x \in At({"mark"})
          BY <1>1, <4>1 DEF RecordsTrue
        <5> QED
          BY <2>1, <2>14, <5>1, <5>2
      <4>2. CASE x \in H
        BY <2>10, <4>2
      <4>3. CASE x = n
        BY <2>14, <4>3
      <4> QED
        BY <2>5, <2>16, <4>1, <4>2, <4>3
    <3> QED
      BY <1>1, <1>4, <2>16, <3>1 DEF RecordsTrue
  <2>22. CountInv'
    <3>1. b \in Counted
      BY DEF Counted
    <3>2. Cover((Counted \ {b}) \cup Split(b, o)) = Cover(Counted)
      <4>1. Cover((Counted \ {b}) \cup Split(b, o)) = Cover(Counted \ {b}) \cup PagesOf(b)
        BY <2>6 DEF Cover
      <4>2. Cover(Counted) = Cover(Counted \ {b}) \cup PagesOf(b)
        BY <3>1 DEF Cover
      <4> QED
        BY <4>1, <4>2
    <3>3. Cover(Counted') = Cover(Counted)
      BY <2>16, <3>2
    <3>4. \A d \in Cpu : pc'[d] \in {"store", "free_store"} => pc[d] = pc'[d]
      BY <1>1, <2>12 DEF TypeInv
    <3> QED
      BY <1>1, <1>4, <3>3, <3>4 DEF CountInv, IsCount
  <2> QED
    BY <2>9, <2>11, <2>18, <2>19, <2>20, <2>21, <2>22 DEF IInv
<1> QED
  BY <1>5, <1>6

(* Two blocks never begin at one page.                                     *)
LEMMA PageFirst ==
  ASSUME IInv, NEW a \in Blocks, NEW b \in Blocks, a.page = b.page
  PROVE  a = b
<1>1. Tiled(Blocks) /\ b \in Block
  BY InvFacts
<1>2. a.page \in PagesOf(b)
  BY <1>1, BlockFacts
<1> QED
  BY <1>1, <1>2, Heads

(* The record of a block handed out is written after the unlock.           *)
LEMMA AllocMarkInv ==
  ASSUME IInv, NEW c \in Cpu, AllocMark(c)
  PROVE  IInv'
<1> DEFINE b == page[c]
<1>1. TypeInv /\ Tiled(Blocks) /\ Apart /\ RecordsTrue /\ NoBuddies(Listed) /\ CountInv
  BY DEF IInv
<1>2. None \notin Block /\ \A x \in Blocks : x \in Block /\ x.page \in Data /\ x.page \in Page
  BY InvFacts
<1>3. /\ pc[c] = "mark" /\ pc' = [pc EXCEPT ![c] = "load"] /\ pc'[c] = "load" /\ Moves(c)
      /\ UNCHANGED <<lists, free_count, lock, page, tmp, held>>
  BY <1>1 DEF AllocMark, Goto, Moves, TypeInv
<1>4. "mark" \in Working /\ "load" \in Working /\ "load" \in TakenAt /\ "load" \in CountedAt /\ "mark" \in CountedAt
      /\ "load" \notin FreesAt
  BY DEF Working, TakenAt, CountedAt, FreesAt
<1>5. b \in Block /\ b \in At(Working) /\ b \in At(CountedAt) /\ b \in At({"mark"})
  BY <1>1, <1>3, <1>4 DEF TypeInv, At, WorkedOn
<1>6. /\ At(Working)' = At(Working) /\ At(TakenAt)' = At(TakenAt) \cup {b}
      /\ At(CountedAt)' = At(CountedAt) /\ At({"mark"})' = At({"mark"}) \ {b}
  <2>1. page'[c] = b
    BY <1>3
  <2>2. /\ At(Working)' = Moved(At(Working), c, Working)
        /\ At(TakenAt)' = Moved(At(TakenAt), c, TakenAt)
        /\ At(CountedAt)' = Moved(At(CountedAt), c, CountedAt)
        /\ At({"mark"})' = Moved(At({"mark"}), c, {"mark"})
    BY <1>3, AtSets
  <2>3. At(TakenAt)' = (At(TakenAt) \ {b}) \cup {b}
    BY <1>3, <1>4, <2>1, <2>2 DEF Moved
  <2>4. At(Working)' = (At(Working) \ {b}) \cup {b} /\ At(CountedAt)' = (At(CountedAt) \ {b}) \cup {b}
        /\ At({"mark"})' = At({"mark"}) \ {b}
    BY <1>3, <1>4, <2>1, <2>2 DEF Moved
  <2> HIDE DEF b
  <2> QED
    BY <1>5, <2>3, <2>4
<1>7. Listed' = Listed /\ held' = held
  BY <1>3 DEF Listed
<1>8. Blocks' = Blocks /\ Counted' = Counted /\ Taken' = Taken \cup {b}
  BY <1>6, <1>7 DEF Blocks, Counted, Taken
<1>9. b \in Blocks
  BY <1>5 DEF Blocks
<1>10. TypeInv'
  <2>1. order' = [order EXCEPT ![b.page] = b.order] /\ free' = [free EXCEPT ![b.page] = FALSE]
    BY DEF AllocMark
  <2>2. order' \in [Page -> 0 .. PMM_MAX_ORDER] /\ free' \in [Page -> BOOLEAN]
    <3>1. b.page \in Page /\ b.order \in 0 .. PMM_MAX_ORDER
      BY <1>5 DEF Block
    <3> HIDE DEF b
    <3> QED
      BY <1>1, <2>1, <3>1 DEF TypeInv
  <2> HIDE DEF b
  <2>3. \A d \in Cpu : page'[d] = page[d] /\ (d # c => pc'[d] = pc[d])
    BY <1>1, <1>3 DEF TypeInv
  <2>4. pc' \in [Cpu -> Working \cup {"idle", "halted"}]
    BY <1>1, <1>3, <1>4 DEF TypeInv
  <2> QED
    BY <1>1, <1>3, <1>4, <1>7, <2>2, <2>3, <2>4 DEF TypeInv
<1>11. Apart'
  <2>1. \A d \in Cpu : page'[d] = page[d] /\ (pc'[d] \in Working <=> pc[d] \in Working)
    BY <1>3, <1>4 DEF Moves
  <2> QED
    BY <1>1, <1>6, <1>7, <2>1 DEF Apart
<1>12. RecordsTrue'
  <2>1. b.page \in Page /\ order'[b.page] = b.order /\ free'[b.page] = FALSE
        /\ \A q \in Page : q # b.page => order'[q] = order[q] /\ free'[q] = free[q]
    BY <1>1, <1>2, <1>9 DEF AllocMark, TypeInv
  <2>2. \A x \in Blocks : x.page = b.page => x = b
    BY <1>9, PageFirst
  <2>3. Data \subseteq Page
    BY DataFacts
  <2> HIDE DEF b
  <2>4. \A x \in Blocks' : order'[x.page] = x.order \/ x \in At({"mark"})'
    BY <1>1, <1>2, <1>6, <1>8, <2>1, <2>2 DEF RecordsTrue
  <2>5. \A p \in Data : free'[p] <=> \A x \in Taken' : x.page # p
    <3> SUFFICES ASSUME NEW p \in Data PROVE free'[p] <=> \A x \in Taken' : x.page # p
      OBVIOUS
    <3>1. free[p] <=> \A x \in Taken : x.page # p
      BY <1>1 DEF RecordsTrue
    <3>2. CASE p = b.page
      BY <1>8, <2>1, <3>2
    <3>3. CASE p # b.page
      BY <1>8, <2>1, <2>3, <3>1, <3>3
    <3> QED
      BY <3>2, <3>3
  <2> QED
    BY <2>4, <2>5 DEF RecordsTrue
<1>13. CountInv'
  <2>1. \A d \in Cpu : pc'[d] \in {"store", "free_store"} => pc[d] = pc'[d]
    BY <1>3 DEF Moves
  <2> QED
    BY <1>1, <1>3, <1>8, <2>1 DEF CountInv, IsCount
<1> QED
  BY <1>1, <1>7, <1>8, <1>10, <1>11, <1>12, <1>13 DEF IInv

(* The count is read ...                                                   *)
LEMMA AllocLoadInv ==
  ASSUME IInv, NEW c \in Cpu, AllocLoad(c)
  PROVE  IInv'
<1> DEFINE b == page[c]
<1>1. TypeInv /\ Tiled(Blocks) /\ Apart /\ RecordsTrue /\ NoBuddies(Listed) /\ CountInv
  BY DEF IInv
<1>2. None \notin Block
  BY InvFacts
<1>3. /\ pc[c] = "load" /\ pc' = [pc EXCEPT ![c] = "store"] /\ pc'[c] = "store" /\ Moves(c)
      /\ tmp' = [tmp EXCEPT ![c] = free_count]
      /\ UNCHANGED <<lists, order, free, free_count, lock, page, held>>
  BY <1>1 DEF AllocLoad, Goto, Moves, TypeInv
<1>4. /\ "load" \in Working /\ "load" \in TakenAt /\ "load" \in CountedAt
      /\ "store" \in Working /\ "store" \in TakenAt /\ "store" \in CountedAt /\ "store" \notin FreesAt
  BY DEF Working, TakenAt, CountedAt, FreesAt
<1>5. b \in Block /\ b \in At(Working) /\ b \in At(CountedAt) /\ b \in At(TakenAt) /\ b \notin At({"mark"})
  <2>1. b \in Block /\ b \in At(Working) /\ b \in At(CountedAt) /\ b \in At(TakenAt)
    BY <1>1, <1>3, <1>4 DEF TypeInv, At, WorkedOn
  <2>2. b \notin At({"mark"})
    BY <1>1, <1>3, Labels, WorkFacts
  <2> QED
    BY <2>1, <2>2
<1>6. /\ At(Working)' = At(Working) /\ At(TakenAt)' = At(TakenAt)
      /\ At(CountedAt)' = At(CountedAt) /\ At({"mark"})' = At({"mark"})
  <2>1. page'[c] = b
    BY <1>3
  <2>2. /\ At(Working)' = Moved(At(Working), c, Working)
        /\ At(TakenAt)' = Moved(At(TakenAt), c, TakenAt)
        /\ At(CountedAt)' = Moved(At(CountedAt), c, CountedAt)
        /\ At({"mark"})' = Moved(At({"mark"}), c, {"mark"})
    BY <1>3, AtSets
  <2>3. /\ At(Working)' = (At(Working) \ {b}) \cup {b} /\ At(CountedAt)' = (At(CountedAt) \ {b}) \cup {b}
        /\ At(TakenAt)' = (At(TakenAt) \ {b}) \cup {b} /\ At({"mark"})' = At({"mark"}) \ {b}
    BY <1>3, <1>4, <2>1, <2>2 DEF Moved
  <2> HIDE DEF b
  <2> QED
    BY <1>5, <2>3
<1>7. Listed' = Listed /\ held' = held
  BY <1>3 DEF Listed
<1>8. Blocks' = Blocks /\ Counted' = Counted /\ Taken' = Taken
  BY <1>6, <1>7 DEF Blocks, Counted, Taken
<1>9. free_count \in Nat
  BY <1>1 DEF CountInv, IsCount
<1>10. TypeInv'
  <2>1. \A d \in Cpu : page'[d] = page[d] /\ (d # c => pc'[d] = pc[d])
    BY <1>1, <1>3 DEF TypeInv
  <2>2. pc' \in [Cpu -> Working \cup {"idle", "halted"}] /\ tmp' \in [Cpu -> Nat]
    BY <1>1, <1>3, <1>4, <1>9 DEF TypeInv
  <2> QED
    BY <1>1, <1>3, <1>4, <1>7, <2>1, <2>2 DEF TypeInv
<1>11. Apart'
  <2>1. \A d \in Cpu : page'[d] = page[d] /\ (pc'[d] \in Working <=> pc[d] \in Working)
    BY <1>3, <1>4 DEF Moves
  <2> QED
    BY <1>1, <1>6, <1>7, <2>1 DEF Apart
<1>12. RecordsTrue'
  BY <1>1, <1>3, <1>6, <1>8 DEF RecordsTrue
<1>13. CountInv'
  <2>1. tmp'[c] = free_count /\ free_count' = free_count /\ \A d \in Cpu : d # c => tmp'[d] = tmp[d]
    BY <1>1, <1>3 DEF TypeInv
  <2>2. IsCount(free_count)' <=> IsCount(free_count)
    BY <1>8, <2>1 DEF IsCount
  <2>3. \A d \in Cpu : d # c /\ pc'[d] \in {"store", "free_store"} => IsCount(tmp[d])
    BY <1>1, <1>3 DEF CountInv, Moves
  <2>4. \A d \in Cpu : pc'[d] \in {"store", "free_store"} =>
          /\ tmp'[d] \in Nat /\ Cardinality(Cover(Counted)) <= tmp'[d]
          /\ OneCpu => tmp'[d] = Cardinality(Cover(Counted))
    <3>1. IsCount(free_count)
      BY <1>1 DEF CountInv
    <3> QED
      BY <2>1, <2>3, <3>1 DEF IsCount
  <2> QED
    BY <1>1, <1>8, <2>2, <2>4 DEF CountInv, IsCount
<1> QED
  BY <1>1, <1>7, <1>8, <1>10, <1>11, <1>12, <1>13 DEF IInv

(* ... and written less the pages of the block, which its caller now owns. *)
LEMMA AllocStoreInv ==
  ASSUME IInv, NEW c \in Cpu, AllocStore(c)
  PROVE  IInv'
<1> DEFINE b == page[c]
<1>1. TypeInv /\ Tiled(Blocks) /\ Apart /\ RecordsTrue /\ NoBuddies(Listed) /\ CountInv
  BY DEF IInv
<1>2. None \notin Block /\ Counted \subseteq Blocks
  BY InvFacts
<1>3. /\ pc[c] = "store" /\ pc' = [pc EXCEPT ![c] = "idle"] /\ pc'[c] = "idle" /\ Moves(c)
      /\ page' = [page EXCEPT ![c] = None] /\ page'[c] = None
      /\ held' = held \cup {b} /\ free_count' = tmp[c] - order_to_pagecount(b.order)
      /\ tmp' \in [Cpu -> Nat] /\ \A d \in Cpu : d # c => tmp'[d] = tmp[d]
      /\ UNCHANGED <<lists, order, free, lock>>
  BY <1>1 DEF AllocStore, Left, Goto, Moves, TypeInv
<1>4. /\ "store" \in Working /\ "store" \in TakenAt /\ "store" \in CountedAt
      /\ "idle" \notin Working /\ "idle" \notin TakenAt /\ "idle" \notin CountedAt /\ "idle" \notin FreesAt
  BY DEF Working, TakenAt, CountedAt, FreesAt
<1>5. b \in Block /\ b \in At(Working) /\ b \in At(CountedAt) /\ b \in At(TakenAt) /\ b \notin At({"mark"})
  <2>1. b \in Block /\ b \in At(Working) /\ b \in At(CountedAt) /\ b \in At(TakenAt)
    BY <1>1, <1>3, <1>4 DEF TypeInv, At, WorkedOn
  <2>2. b \notin At({"mark"})
    BY <1>1, <1>3, Labels, WorkFacts
  <2> QED
    BY <2>1, <2>2
<1>6. /\ At(Working)' = At(Working) \ {b} /\ At(TakenAt)' = At(TakenAt) \ {b}
      /\ At(CountedAt)' = At(CountedAt) \ {b} /\ At({"mark"})' = At({"mark"})
  <2>1. /\ At(Working)' = Moved(At(Working), c, Working)
        /\ At(TakenAt)' = Moved(At(TakenAt), c, TakenAt)
        /\ At(CountedAt)' = Moved(At(CountedAt), c, CountedAt)
        /\ At({"mark"})' = Moved(At({"mark"}), c, {"mark"})
    BY <1>3, AtSets
  <2>2. /\ At(Working)' = At(Working) \ {b} /\ At(CountedAt)' = At(CountedAt) \ {b}
        /\ At(TakenAt)' = At(TakenAt) \ {b} /\ At({"mark"})' = At({"mark"}) \ {b}
    BY <1>3, <1>4, <2>1 DEF Moved
  <2> HIDE DEF b
  <2> QED
    BY <1>5, <2>2
<1>7. Listed' = Listed
  BY <1>3 DEF Listed
<1>8. b \notin Listed /\ b \notin held
  BY <1>1, <1>5 DEF Apart
<1> HIDE DEF b
<1>9. Blocks' = Blocks /\ Taken' = Taken /\ Counted' = Counted \ {b} /\ b \in Counted
  BY <1>3, <1>5, <1>6, <1>7, <1>8 DEF Blocks, Counted, Taken
<1>10. TypeInv'
  <2>1. \A d \in Cpu : d # c => page'[d] = page[d] /\ pc'[d] = pc[d]
    BY <1>3 DEF Moves
  <2>2. pc' \in [Cpu -> Working \cup {"idle", "halted"}] /\ page' \in [Cpu -> Block \cup {None}]
    BY <1>1, <1>3, <1>4 DEF TypeInv
  <2> QED
    BY <1>1, <1>2, <1>3, <1>4, <1>5, <1>7, <2>1, <2>2 DEF TypeInv
<1>11. Apart'
  <2>1. \A d, e \in Cpu : d # e /\ pc'[d] \in Working => page'[d] # page'[e]
    <3> SUFFICES ASSUME NEW d \in Cpu, NEW e \in Cpu, d # e, pc'[d] \in Working
                 PROVE  page'[d] # page'[e]
      OBVIOUS
    <3>1. d # c /\ page'[d] = page[d] /\ pc[d] \in Working
      BY <1>3, <1>4 DEF Moves
    <3>2. page[d] \in Block
      BY <1>1, <3>1 DEF TypeInv
    <3>3. e # c => page'[e] = page[e]
      BY <1>3 DEF Moves
    <3>4. page[d] # page[e]
      BY <1>1, <3>1 DEF Apart
    <3> QED
      BY <1>2, <1>3, <3>1, <3>2, <3>3, <3>4
  <2>2. Listed' \cap At(Working)' = {} /\ Listed' \cap held' = {} /\ At(Working)' \cap held' = {}
    BY <1>1, <1>3, <1>6, <1>7, <1>8 DEF Apart
  <2> QED
    BY <2>1, <2>2 DEF Apart
<1>12. RecordsTrue'
  BY <1>1, <1>3, <1>6, <1>9 DEF RecordsTrue
<1>13. CountInv'
  <2>1. /\ Cardinality(Cover(Counted)) \in Nat /\ Cardinality(Cover(Counted \ {b})) \in Nat
        /\ order_to_pagecount(b.order) \in Nat
        /\ Cardinality(Cover(Counted)) = Cardinality(Cover(Counted \ {b})) + order_to_pagecount(b.order)
    BY <1>1, <1>2, <1>9, CountLess
  <2>2. IsCount(tmp[c])
    BY <1>1, <1>3 DEF CountInv
  <2>3. IsCount(free_count)'
    <3>1. /\ tmp[c] \in Nat /\ Cardinality(Cover(Counted)) <= tmp[c]
          /\ OneCpu => tmp[c] = Cardinality(Cover(Counted))
      BY <2>2 DEF IsCount
    <3>2. /\ free_count' \in Nat /\ Cardinality(Cover(Counted \ {b})) <= free_count'
          /\ OneCpu => free_count' = Cardinality(Cover(Counted \ {b}))
      BY <1>3, <2>1, <3>1
    <3> QED
      BY <1>9, <3>2 DEF IsCount
  <2>4. ASSUME NEW d \in Cpu, pc'[d] \in {"store", "free_store"}
        PROVE  IsCount(tmp[d])'
    <3>1. d # c /\ tmp'[d] = tmp[d] /\ pc[d] \in {"store", "free_store"}
      BY <1>3, <2>4 DEF Moves
    <3>2. ~OneCpu
      BY <3>1 DEF OneCpu
    <3>3. tmp[d] \in Nat /\ Cardinality(Cover(Counted)) <= tmp[d]
      BY <1>1, <3>1 DEF CountInv, IsCount
    <3>4. Cardinality(Cover(Counted \ {b})) <= tmp[d]
      BY <2>1, <3>3
    <3> QED
      BY <1>9, <3>1, <3>2, <3>3, <3>4 DEF IsCount
  <2> QED
    BY <2>3, <2>4 DEF CountInv
<1> QED
  BY <1>1, <1>7, <1>9, <1>10, <1>11, <1>12, <1>13 DEF IInv

(* No other CPU is in the allocator.                                       *)
Lone(c) == \A d \in Cpu : d # c => pc[d] \in {"idle", "halted"}

LEMMA LoneFacts ==
  ASSUME TypeInv, NEW c \in Cpu, Lone(c)
  PROVE  \A d \in Cpu : d # c =>
           /\ page[d] \notin Block /\ pc[d] \notin Working /\ pc[d] \notin TakenAt
           /\ pc[d] \notin CountedAt /\ pc[d] \notin {"mark", "store", "free_store"} /\ pc[d] # "mark"
<1>1. \A d \in Cpu : d # c =>
        /\ pc[d] \notin Working /\ pc[d] \notin TakenAt
        /\ pc[d] \notin CountedAt /\ pc[d] \notin {"mark", "store", "free_store"} /\ pc[d] # "mark"
  BY DEF Lone, Working, TakenAt, CountedAt
<1> QED
  BY <1>1 DEF TypeInv

(* The steps of pmm_free, taken by the only CPU.                           *)
LEMMA FreeInv ==
  ASSUME IInv, NEW c \in Cpu, Lone(c), NEW b \in held, pmm_free(c, b)
  PROVE  IInv'
<1>1. TypeInv /\ Tiled(Blocks) /\ Apart /\ RecordsTrue /\ NoBuddies(Listed) /\ CountInv
  BY DEF IInv
<1>2. None \notin Block /\ Taken \subseteq Blocks /\ b \in Blocks /\ b.page \in Data /\ b.page \in Page /\ b \in Block
  <2>1. b \in Blocks
    BY DEF Blocks
  <2> QED
    BY <2>1, InvFacts
<1>3. /\ pc[c] = "idle" /\ pc' = [pc EXCEPT ![c] = "free_load"] /\ pc'[c] = "free_load" /\ Moves(c)
      /\ page' = [page EXCEPT ![c] = b] /\ page'[c] = b
      /\ held' = held \ {b} /\ free' = [free EXCEPT ![b.page] = TRUE]
      /\ UNCHANGED <<lists, order, free_count, lock, tmp>>
  BY <1>1 DEF pmm_free, Goto, Moves, TypeInv
<1>4. /\ "free_load" \in Working /\ "free_load" \notin TakenAt /\ "free_load" \notin CountedAt
      /\ "idle" \notin Working /\ "free_load" # "mark"
  BY DEF Working, TakenAt, CountedAt
<1>5. page[c] \notin Block
  BY <1>1, <1>3, <1>4 DEF TypeInv
<1>6. /\ At(Working)' = At(Working) \cup {b} /\ At(TakenAt)' = At(TakenAt)
      /\ At(CountedAt)' = At(CountedAt) /\ At({"mark"})' = At({"mark"})
  <2>1. /\ At(Working)' = Moved(At(Working), c, Working)
        /\ At(TakenAt)' = Moved(At(TakenAt), c, TakenAt)
        /\ At(CountedAt)' = Moved(At(CountedAt), c, CountedAt)
        /\ At({"mark"})' = Moved(At({"mark"}), c, {"mark"})
    BY <1>3, AtSets
  <2>2. /\ At(Working) \ {page[c]} = At(Working) /\ At(TakenAt) \ {page[c]} = At(TakenAt)
        /\ At(CountedAt) \ {page[c]} = At(CountedAt) /\ At({"mark"}) \ {page[c]} = At({"mark"})
    BY <1>5, Idles
  <2> QED
    BY <1>3, <1>4, <2>1, <2>2 DEF Moved
<1>7. Listed' = Listed
  BY <1>3 DEF Listed
<1>8. b \notin Listed /\ b \notin At(Working) /\ b \notin At(TakenAt) /\ b \notin At({"mark"})
  <2>1. At(TakenAt) \subseteq At(Working) /\ At({"mark"}) \subseteq At(Working)
    BY <1>1, Labels, WorkFacts
  <2> QED
    BY <1>1, <2>1 DEF Apart
<1>9. Blocks' = Blocks /\ Taken' = Taken \ {b} /\ Counted' = Counted /\ b \in Taken
  BY <1>3, <1>6, <1>7, <1>8 DEF Blocks, Counted, Taken
<1>10. \A d \in Cpu : d # c => /\ pc'[d] = pc[d] /\ page'[d] = page[d] /\ page[d] \notin Block
                               /\ pc[d] \notin Working
  BY <1>1, <1>3, LoneFacts DEF Moves
<1>11. TypeInv'
  <2>1. pc' \in [Cpu -> Working \cup {"idle", "halted"}] /\ page' \in [Cpu -> Block \cup {None}]
    BY <1>1, <1>2, <1>3, <1>4 DEF TypeInv
  <2>2. free' \in [Page -> BOOLEAN] /\ held' \subseteq Block
    BY <1>1, <1>3 DEF TypeInv
  <2> QED
    BY <1>1, <1>2, <1>3, <1>4, <1>10, <2>1, <2>2 DEF TypeInv
<1>12. Apart'
  <2>1. \A d, e \in Cpu : d # e /\ pc'[d] \in Working => page'[d] # page'[e]
    BY <1>2, <1>3, <1>10
  <2>2. Listed' \cap At(Working)' = {} /\ Listed' \cap held' = {} /\ At(Working)' \cap held' = {}
    BY <1>1, <1>3, <1>6, <1>7, <1>8 DEF Apart
  <2> QED
    BY <2>1, <2>2 DEF Apart
<1>13. RecordsTrue'
  <2>1. free'[b.page] = TRUE /\ \A p \in Page : p # b.page => free'[p] = free[p]
    BY <1>1, <1>2, <1>3 DEF TypeInv
  <2>2. \A x \in Taken : x.page = b.page => x = b
    BY <1>2, PageFirst
  <2>3. \A p \in Data : free'[p] <=> \A x \in Taken' : x.page # p
    <3> SUFFICES ASSUME NEW p \in Data PROVE free'[p] <=> \A x \in Taken' : x.page # p
      OBVIOUS
    <3>1. free[p] <=> \A x \in Taken : x.page # p
      BY <1>1 DEF RecordsTrue
    <3>2. p \in Page
      BY DataFacts
    <3>3. CASE p = b.page
      BY <1>9, <2>1, <2>2, <3>3
    <3>4. CASE p # b.page
      BY <1>9, <2>1, <3>1, <3>2, <3>4
    <3> QED
      BY <3>3, <3>4
  <2> QED
    BY <1>1, <1>3, <1>6, <1>9, <2>3 DEF RecordsTrue
<1>14. CountInv'
  <2>1. "store" \in Working /\ "free_store" \in Working
    BY DEF Working
  <2> QED
    BY <1>1, <1>3, <1>9, <1>10, <2>1 DEF CountInv, IsCount
<1> QED
  BY <1>1, <1>7, <1>9, <1>11, <1>12, <1>13, <1>14 DEF IInv

(* A block that is being freed is neither listed nor owned, and its record *)
(* has its order.                                                          *)
LEMMA FreeingFacts ==
  ASSUME IInv, NEW c \in Cpu, pc[c] \in FreesAt
  PROVE  /\ page[c] \in Block /\ page[c] \in At(Working) /\ page[c] \in Blocks
         /\ page[c] \notin Listed /\ page[c] \notin held
         /\ page[c] \notin At(TakenAt) /\ page[c] \notin At({"mark"})
         /\ page[c] \in At(CountedAt) <=> pc[c] \in CountedAt
         /\ order[page[c].page] = page[c].order
<1>1. TypeInv /\ Apart /\ RecordsTrue
  BY DEF IInv
<1>2. pc[c] \in Working /\ pc[c] \notin TakenAt /\ pc[c] # "mark"
  BY DEF FreesAt, Working, TakenAt
<1>3. page[c] \in Block /\ page[c] \in At(Working)
  BY <1>1, <1>2 DEF TypeInv, At, WorkedOn
<1>4. page[c] \notin At(TakenAt) /\ page[c] \notin At({"mark"}) /\ (page[c] \in At(CountedAt) <=> pc[c] \in CountedAt)
  <2>1. page[c] \in At({"mark"}) <=> pc[c] \in {"mark"}
    BY <1>1, Labels, WorkFacts
  <2> QED
    BY <1>1, <1>2, <2>1, Labels, WorkFacts
<1>5. page[c] \in Blocks /\ page[c] \notin Listed /\ page[c] \notin held
  BY <1>1, <1>3 DEF Apart, Blocks
<1> QED
  BY <1>1, <1>3, <1>4, <1>5 DEF RecordsTrue

(* The steps of pmm_free that leave the blocks as they are.                *)
LEMMA FreeingMoves ==
  ASSUME IInv, NEW c \in Cpu, Lone(c), pc[c] \in FreesAt, NEW x \in FreesAt, pc' = [pc EXCEPT ![c] = x],
         UNCHANGED <<lists, order, free, page, held>>, lock' \in Cpu \cup {None}, tmp' \in [Cpu -> Nat]
  PROVE  /\ TypeInv' /\ Apart' /\ RecordsTrue' /\ Blocks' = Blocks /\ Listed' = Listed
         /\ Counted' = (Counted \ {page[c]}) \cup (IF x \in CountedAt THEN {page[c]} ELSE {})
         /\ page[c] \in Counted <=> pc[c] \in CountedAt
<1> DEFINE b == page[c]
<1>1. TypeInv /\ Apart /\ RecordsTrue /\ None \notin Block
  BY InvFacts DEF IInv
<1>2. /\ pc'[c] = x /\ Moves(c) /\ page'[c] = b
      /\ \A d \in Cpu : d # c => /\ pc'[d] = pc[d] /\ page'[d] = page[d] /\ page[d] \notin Block
                                 /\ pc[d] \notin Working
  <2>1. pc'[c] = x /\ Moves(c) /\ page'[c] = b
    BY <1>1 DEF Moves, TypeInv
  <2> QED
    BY <1>1, <2>1, LoneFacts DEF Moves
<1>3. x \in Working /\ x \notin TakenAt /\ x # "mark"
  BY DEF FreesAt, Working, TakenAt
<1>4. /\ b \in Block /\ b \in At(Working) /\ b \in Blocks /\ b \notin Listed /\ b \notin held
      /\ b \notin At(TakenAt) /\ b \notin At({"mark"}) /\ (b \in At(CountedAt) <=> pc[c] \in CountedAt)
  BY FreeingFacts
<1> HIDE DEF b
<1>5. /\ At(Working)' = (At(Working) \ {b}) \cup {b} /\ At(TakenAt)' = At(TakenAt) \ {b}
      /\ At(CountedAt)' = (At(CountedAt) \ {b}) \cup (IF x \in CountedAt THEN {b} ELSE {})
      /\ At({"mark"})' = At({"mark"}) \ {b}
  <2>1. /\ At(Working)' = Moved(At(Working), c, Working)
        /\ At(TakenAt)' = Moved(At(TakenAt), c, TakenAt)
        /\ At(CountedAt)' = Moved(At(CountedAt), c, CountedAt)
        /\ At({"mark"})' = Moved(At({"mark"}), c, {"mark"})
    BY <1>2, AtSets
  <2>2. page[c] = b /\ page'[c] = b /\ pc'[c] = x
    BY <1>2 DEF b
  <2>3. At(Working)' = (At(Working) \ {b}) \cup {b} /\ At(TakenAt)' = At(TakenAt) \ {b}
    BY <1>3, <2>1, <2>2 DEF Moved
  <2>4. At(CountedAt)' = (At(CountedAt) \ {b}) \cup (IF x \in CountedAt THEN {b} ELSE {})
    BY <2>1, <2>2 DEF Moved
  <2>5. At({"mark"})' = At({"mark"}) \ {b}
    BY <1>3, <2>1, <2>2 DEF Moved
  <2> QED
    BY <2>3, <2>4, <2>5
<1>6. At(Working)' = At(Working) /\ At(TakenAt)' = At(TakenAt) /\ At({"mark"})' = At({"mark"})
  <2>1. \A S : b \in S => (S \ {b}) \cup {b} = S
    OBVIOUS
  <2>2. \A S : b \notin S => S \ {b} = S
    OBVIOUS
  <2>3. At(Working)' = At(Working)
    BY <1>4, <1>5, <2>1
  <2>4. At(TakenAt)' = At(TakenAt)
    BY <1>4, <1>5, <2>2
  <2>5. At({"mark"})' = At({"mark"})
    BY <1>4, <1>5, <2>2
  <2> QED
    BY <2>3, <2>4, <2>5
<1>7. Listed' = Listed /\ held' = held
  BY DEF Listed
<1>8. Blocks' = Blocks /\ Taken' = Taken
  BY <1>6, <1>7 DEF Blocks, Taken
<1>9. Counted' = (Counted \ {b}) \cup (IF x \in CountedAt THEN {b} ELSE {})
  BY <1>4, <1>5, <1>7 DEF Counted
<1>10. b \in Counted <=> pc[c] \in CountedAt
  BY <1>4 DEF Counted
<1>11. TypeInv'
  <2>1. pc' \in [Cpu -> Working \cup {"idle", "halted"}]
    BY <1>1, <1>3 DEF TypeInv
  <2>2. page'[c] \in Block
    BY <1>1, <1>2, <1>4 DEF TypeInv
  <2>3. \A d \in Cpu : page'[d] \in Block <=> pc'[d] \in Working
    BY <1>2, <1>3, <2>2
  <2> QED
    BY <1>1, <2>1, <2>3 DEF TypeInv
<1>12. Apart'
  <2>1. \A d, e \in Cpu : d # e /\ pc'[d] \in Working => page'[d] # page'[e]
    BY <1>2, <1>4
  <2>2. Listed' \cap At(Working)' = {} /\ Listed' \cap held' = {} /\ At(Working)' \cap held' = {}
    BY <1>1, <1>6, <1>7 DEF Apart
  <2> QED
    BY <2>1, <2>2 DEF Apart
<1>13. RecordsTrue'
  BY <1>1, <1>6, <1>8 DEF RecordsTrue
<1> QED
  BY <1>7, <1>8, <1>9, <1>10, <1>11, <1>12, <1>13 DEF b

(* The count is read ...                                                   *)
LEMMA FreeLoadInv ==
  ASSUME IInv, NEW c \in Cpu, Lone(c), FreeLoad(c)
  PROVE  IInv'
<1>1. TypeInv /\ Tiled(Blocks) /\ NoBuddies(Listed) /\ CountInv
  BY DEF IInv
<1>2. /\ pc[c] = "free_load" /\ pc' = [pc EXCEPT ![c] = "free_store"] /\ tmp' = [tmp EXCEPT ![c] = free_count]
      /\ UNCHANGED <<lists, order, free, free_count, lock, page, held>>
  BY DEF FreeLoad, Goto
<1>3. IsCount(free_count) /\ free_count \in Nat
  BY <1>1 DEF CountInv, IsCount
<1>4. tmp' \in [Cpu -> Nat] /\ tmp'[c] = free_count /\ lock' \in Cpu \cup {None}
  BY <1>1, <1>2, <1>3 DEF TypeInv
<1>5. /\ "free_load" \in FreesAt /\ "free_store" \in FreesAt
      /\ "free_load" \notin CountedAt /\ "free_store" \notin CountedAt
  BY DEF FreesAt, CountedAt
<1>6. pc[c] \in FreesAt /\ UNCHANGED <<lists, order, free, page, held>>
  BY <1>2, <1>5
<1>7. /\ TypeInv' /\ Apart' /\ RecordsTrue' /\ Blocks' = Blocks /\ Listed' = Listed
      /\ Counted' = Counted \ {page[c]} /\ page[c] \notin Counted
  BY <1>2, <1>4, <1>5, <1>6, FreeingMoves
<1>8. Counted' = Counted
  BY <1>7
<1>9. CountInv'
  <2>1. \A d \in Cpu : d # c => pc'[d] \notin {"store", "free_store"}
    BY <1>1, <1>2, LoneFacts DEF TypeInv
  <2> QED
    BY <1>2, <1>3, <1>4, <1>8, <2>1 DEF CountInv, IsCount
<1> QED
  BY <1>1, <1>7, <1>9 DEF IInv

(* ... and written with the pages of the block.                            *)
LEMMA FreeStoreInv ==
  ASSUME IInv, NEW c \in Cpu, Lone(c), FreeStore(c)
  PROVE  IInv'
<1> DEFINE b == page[c]
<1>1. TypeInv /\ Tiled(Blocks) /\ NoBuddies(Listed) /\ CountInv /\ Counted \subseteq Blocks
  BY InvFacts DEF IInv
<1>2. /\ pc[c] = "free_store" /\ pc' = [pc EXCEPT ![c] = "acquire"]
      /\ free_count' = tmp[c] + order_to_pagecount(order[b.page]) /\ tmp' = [tmp EXCEPT ![c] = 0]
      /\ UNCHANGED <<lists, order, free, lock, page, held>>
  BY DEF FreeStore, Goto
<1>3. lock' \in Cpu \cup {None} /\ tmp' \in [Cpu -> Nat]
  BY <1>1, <1>2 DEF TypeInv
<1>4. /\ "free_store" \in FreesAt /\ "acquire" \in FreesAt
      /\ "free_store" \notin CountedAt /\ "acquire" \in CountedAt
  BY DEF FreesAt, CountedAt
<1>5. pc[c] \in FreesAt /\ UNCHANGED <<lists, order, free, page, held>>
  BY <1>2, <1>4
<1>6. b \in Blocks /\ order[b.page] = b.order
  BY <1>5, FreeingFacts
<1>7. /\ TypeInv' /\ Apart' /\ RecordsTrue' /\ Blocks' = Blocks /\ Listed' = Listed
      /\ Counted' = (Counted \ {b}) \cup {b} /\ b \notin Counted
  BY <1>2, <1>3, <1>4, <1>5, FreeingMoves
<1> HIDE DEF b
<1>8. Counted' \in SUBSET Blocks /\ b \in Counted' /\ Counted' \ {b} = Counted
  BY <1>1, <1>6, <1>7
<1>9. CountInv'
  <2> DEFINE C == Counted'
  <2>1. C \in SUBSET Blocks /\ b \in C /\ C \ {b} = Counted
    BY <1>8
  <2> HIDE DEF C
  <2>2. /\ Cardinality(Cover(C)) \in Nat /\ Cardinality(Cover(C \ {b})) \in Nat
        /\ order_to_pagecount(b.order) \in Nat
        /\ Cardinality(Cover(C)) = Cardinality(Cover(C \ {b})) + order_to_pagecount(b.order)
    BY <1>1, <2>1, CountLess
  <2>3. /\ tmp[c] \in Nat /\ Cardinality(Cover(Counted)) <= tmp[c]
        /\ OneCpu => tmp[c] = Cardinality(Cover(Counted))
    BY <1>1, <1>2 DEF CountInv, IsCount
  <2>4. /\ free_count' \in Nat /\ Cardinality(Cover(C)) <= free_count'
        /\ OneCpu => free_count' = Cardinality(Cover(C))
    <3>1. Cardinality(Cover(C \ {b})) = Cardinality(Cover(Counted))
      BY <2>1, Zenon
    <3>2. free_count' = tmp[c] + order_to_pagecount(b.order)
      BY <1>2, <1>6 DEF b
    <3> DEFINE n == Cardinality(Cover(C))
               m == Cardinality(Cover(Counted))
               k == order_to_pagecount(b.order)
               t == tmp[c]
    <3>3. n \in Nat /\ m \in Nat /\ k \in Nat /\ n = m + k /\ t \in Nat /\ m <= t /\ (OneCpu => t = m)
      BY <2>2, <2>3, <3>1
    <3>4. free_count' = t + k
      BY <3>2
    <3> HIDE DEF n, m, k, t
    <3>5. free_count' \in Nat /\ n <= free_count' /\ (OneCpu => free_count' = n)
      BY <3>3, <3>4
    <3> QED
      BY <3>5 DEF n
  <2>5. \A d \in Cpu : pc'[d] \notin {"store", "free_store"}
    BY <1>1, <1>2, LoneFacts DEF TypeInv
  <2>6. IsCount(free_count)'
    BY <2>4 DEF IsCount, C
  <2> QED
    BY <2>5, <2>6 DEF CountInv
<1> QED
  BY <1>1, <1>7, <1>9 DEF IInv

(* The lock is taken for the merging.                                      *)
LEMMA FreeAcquireInv ==
  ASSUME IInv, NEW c \in Cpu, Lone(c), FreeAcquire(c)
  PROVE  IInv'
<1>1. TypeInv /\ Tiled(Blocks) /\ NoBuddies(Listed) /\ CountInv
  BY DEF IInv
<1>2. /\ pc[c] = "acquire" /\ pc' = [pc EXCEPT ![c] = "merge"] /\ lock' = c
      /\ UNCHANGED <<lists, order, free, free_count, page, tmp, held>>
  BY DEF FreeAcquire, Goto
<1>3. lock' \in Cpu \cup {None} /\ tmp' \in [Cpu -> Nat]
  BY <1>1, <1>2 DEF TypeInv
<1>4. /\ "acquire" \in FreesAt /\ "merge" \in FreesAt
      /\ "acquire" \in CountedAt /\ "merge" \in CountedAt
  BY DEF FreesAt, CountedAt
<1>5. pc[c] \in FreesAt /\ UNCHANGED <<lists, order, free, page, held>>
  BY <1>2, <1>4
<1>6. /\ TypeInv' /\ Apart' /\ RecordsTrue' /\ Blocks' = Blocks /\ Listed' = Listed
      /\ Counted' = (Counted \ {page[c]}) \cup {page[c]} /\ page[c] \in Counted
  BY <1>2, <1>3, <1>4, <1>5, FreeingMoves
<1>7. Counted' = Counted
  BY <1>6
<1>8. CountInv'
  <2>1. \A d \in Cpu : pc'[d] \notin {"store", "free_store"}
    BY <1>1, <1>2, LoneFacts DEF TypeInv
  <2> QED
    BY <1>1, <1>2, <1>7, <2>1 DEF CountInv, IsCount
<1> QED
  BY <1>1, <1>6, <1>8 DEF IInv

(* The flags of the page at the buddy's address say whether the buddy is a *)
(* free block of the same order, whatever blocks it has been part of.      *)
LEMMA MergeMeans ==
  ASSUME IInv, NEW c \in Cpu, Lone(c), pc[c] = "merge"
  PROVE  LET b == page[c]
             q == BuddyAt(b.page, b.order)
         IN  /\ b \in Block /\ b \in Blocks /\ order[b.page] = b.order /\ BuddyOf(b.page) = q
             /\ MayMerge(b.page) => b.order < PMM_MAX_ORDER /\ [page |-> q, order |-> b.order] \in Listed
             /\ ~MayMerge(b.page) /\ b.order < PMM_MAX_ORDER => [page |-> q, order |-> b.order] \notin Listed
<1> DEFINE b == page[c]
           q == BuddyAt(b.page, b.order)
           a == [page |-> q, order |-> b.order]
<1>1. TypeInv /\ Tiled(Blocks) /\ Apart /\ RecordsTrue /\ Listed \subseteq Blocks /\ Taken \subseteq Blocks
      /\ \A x \in Blocks : x \in Block /\ x.page \in Data /\ x.page \in Page
  BY InvFacts DEF IInv
<1>2. pc[c] \in FreesAt
  BY DEF FreesAt
<1>3. b \in Block /\ b \in Blocks /\ order[b.page] = b.order /\ b \notin Listed
  BY <1>2, FreeingFacts
<1>4. BuddyOf(b.page) = q
  BY <1>3 DEF BuddyOf, BuddyAt
<1>5. PICK r \in Regions : Fits(b, r)
  BY <1>1, <1>3 DEF Tiled
<1>6. RegionOf(b.page) = r
  BY <1>3, <1>5, FitsFacts
<1>7. At(Working) = {b} /\ At({"mark"}) = {}
  <2>1. \A d \in Cpu : d # c => pc[d] \notin Working /\ pc[d] # "mark"
    BY <1>1, LoneFacts
  <2>2. "merge" \in Working
    BY DEF Working
  <2> QED
    BY <2>1, <2>2 DEF At, WorkedOn
<1>8. ASSUME MayMerge(b.page) PROVE b.order < PMM_MAX_ORDER /\ a \in Listed
  <2>1. b.order < PMM_MAX_ORDER /\ q < region_end(r) /\ free[q] /\ order[q] = b.order
    BY <1>3, <1>4, <1>6, <1>8 DEF MayMerge
  <2>2. PICK x \in Blocks : x.page = q /\ x # b
    BY <1>1, <1>3, <1>5, <2>1, BuddyBlock
  <2>3. x \notin held
    <3>1. x \in held => x \in Taken
      BY DEF Taken
    <3> QED
      BY <1>1, <2>1, <2>2, <3>1 DEF RecordsTrue
  <2>4. x \in Listed
    BY <1>7, <2>2, <2>3 DEF Blocks
  <2>5. x.order = b.order
    BY <1>1, <1>7, <2>1, <2>2 DEF RecordsTrue
  <2>6. x = a
    BY <1>1, <2>2, <2>5 DEF Block
  <2> QED
    BY <2>1, <2>4, <2>6
<1>9. ASSUME a \in Listed, b.order < PMM_MAX_ORDER PROVE MayMerge(b.page)
  <2>1. a \in Blocks /\ a \in Block /\ a.page = q /\ a.order = b.order /\ q \in Data
    BY <1>1, <1>9
  <2>2. order[q] = b.order
    BY <1>1, <1>7, <2>1 DEF RecordsTrue
  <2>3. free[q]
    <3>1. a \notin Taken
      <4>1. At(TakenAt) \subseteq At(Working)
        BY <1>1, Labels, WorkFacts
      <4> QED
        BY <1>1, <1>9, <4>1 DEF Taken, Apart
    <3>2. \A x \in Taken : x.page # q
      BY <1>1, <2>1, <3>1, PageFirst
    <3> QED
      BY <1>1, <2>1, <3>2 DEF RecordsTrue
  <2>4. q < region_end(r)
    <3>1. PICK s \in Regions : Fits(a, s)
      BY <1>1, <2>1 DEF Tiled
    <3>2. r = s
      BY <1>3, <1>5, <2>1, <3>1, SameRegion
    <3> QED
      BY <2>1, <3>1, <3>2, FitsFacts
  <2> QED
    BY <1>3, <1>4, <1>6, <1>9, <2>2, <2>3, <2>4 DEF MayMerge
<1> HIDE DEF a, q
<1> QED
  BY <1>3, <1>4, <1>8, <1>9 DEF a, q

(* A turn of the loop takes the buddy off its list and makes one block of  *)
(* the two.                                                                *)
LEMMA FreeMergeInv ==
  ASSUME IInv, NEW c \in Cpu, Lone(c), FreeMerge(c)
  PROVE  IInv'
<1> DEFINE b == page[c]
           q == BuddyAt(b.page, b.order)
           a == [page |-> q, order |-> b.order]
           new == [page |-> LowOf(b), order |-> b.order + 1]
<1>1. TypeInv /\ Tiled(Blocks) /\ Apart /\ RecordsTrue /\ NoBuddies(Listed) /\ CountInv
      /\ Listed \subseteq Blocks /\ None \notin Block
      /\ \A x \in Blocks : x \in Block /\ x.page \in Data /\ x.page \in Page
  BY InvFacts DEF IInv
<1>2. pc[c] = "merge" /\ MayMerge(b.page)
  BY DEF FreeMerge
<1>3. /\ b \in Block /\ b \in Blocks /\ order[b.page] = b.order /\ BuddyOf(b.page) = q
      /\ b.order < PMM_MAX_ORDER /\ a \in Listed
  BY <1>2, MergeMeans
<1>4. /\ a \in Blocks /\ a \in Block /\ a.page = q /\ a.order = b.order
      /\ b.order \in 0 .. PMM_MAX_ORDER /\ b.page \in Page /\ q \in Page /\ PMM_MAX_ORDER \in Nat
  <2>1. a \in Blocks /\ a \in Block
    BY <1>1, <1>3
  <2> QED
    BY <1>3, <2>1, PmmAssumption DEF Block
<1>5. order[q] = b.order
  <2>1. a \notin At({"mark"})
    <3>1. At({"mark"}) \subseteq At(Working)
      BY <1>1, Labels, WorkFacts
    <3> QED
      BY <1>1, <1>3, <3>1 DEF Apart
  <2> QED
    BY <1>1, <1>4, <2>1 DEF RecordsTrue
<1>6. /\ lists' = [lists EXCEPT ![b.order] = @ \ {q}]
      /\ order' = [order EXCEPT ![q] = @ + 1, ![b.page] = @ + 1]
      /\ page' = [page EXCEPT ![c].page = IF q < b.page THEN q ELSE b.page, ![c].order = b.order + 1]
      /\ UNCHANGED <<free, free_count, lock, pc, tmp, held>>
  BY <1>3, <1>5 DEF FreeMerge
<1>7. \A d \in Cpu : d # c => /\ pc'[d] = pc[d] /\ page'[d] = page[d] /\ page[d] \notin Block
                              /\ pc[d] \notin Working /\ pc[d] \notin TakenAt
                              /\ pc[d] \notin CountedAt /\ pc[d] # "mark"
  BY <1>1, <1>6, LoneFacts DEF TypeInv
<1>8. page'[c] = new
  <2>1. page'[c] = [page |-> IF q < b.page THEN q ELSE b.page, order |-> b.order + 1]
    BY <1>1, <1>3, <1>6 DEF TypeInv, Block
  <2> QED
    BY <2>1 DEF LowOf
<1>9. PICK r \in Regions : Fits(b, r)
  BY <1>1, <1>3 DEF Tiled
<1>10. Fits(a, r)
  <2>1. PICK s \in Regions : Fits(a, s)
    BY <1>1, <1>4 DEF Tiled
  <2> QED
    BY <1>3, <1>4, <1>9, <2>1, SameRegion
<1>11. /\ new \in Block /\ Fits(new, r) /\ PagesOf(new) = PagesOf(a) \cup PagesOf(b)
       /\ q # b.page
  BY <1>3, <1>4, <1>9, <1>10, MergeFacts, BuddyFacts
<1>12. new.order = b.order + 1 /\ (new.page = q \/ new.page = b.page)
  BY DEF LowOf
<1>13. /\ At(Working) = {b} /\ At(TakenAt) = {} /\ At({"mark"}) = {} /\ At(CountedAt) = {b}
  <2>1. "merge" \in Working /\ "merge" \in CountedAt /\ "merge" \notin TakenAt
    BY DEF Working, CountedAt, TakenAt
  <2> QED
    BY <1>2, <1>7, <2>1 DEF At, WorkedOn
<1>14. /\ At(Working)' = {new} /\ At(TakenAt)' = {} /\ At({"mark"})' = {} /\ At(CountedAt)' = {new}
  <2>1. "merge" \in Working /\ "merge" \in CountedAt /\ "merge" \notin TakenAt
    BY DEF Working, CountedAt, TakenAt
  <2>2. pc'[c] = "merge" /\ page'[c] = new
    BY <1>2, <1>6, <1>8
  <2> HIDE DEF new
  <2> QED
    BY <1>7, <2>1, <2>2 DEF At, WorkedOn
<1> HIDE DEF new, a, q, b
<1>15. lists' \in [0 .. PMM_MAX_ORDER -> SUBSET Page]
  BY <1>1, <1>6 DEF TypeInv
<1>16. Listed' = Listed \ {a}
  <2>1. Listed = {x \in Block : x.page \in lists[x.order]}
    BY <1>1, ListedIs DEF Listed, TypeInv
  <2>2. Listed' = {x \in Block : x.page \in lists'[x.order]}
    BY <1>15, ListedIs DEF Listed
  <2>3. \A x \in Block : x.order \in 0 .. PMM_MAX_ORDER /\ (x = a <=> x.page = q /\ x.order = b.order)
    BY <1>4 DEF Block
  <2>4. \A o \in 0 .. PMM_MAX_ORDER : lists'[o] = IF o = b.order THEN lists[o] \ {q} ELSE lists[o]
    BY <1>1, <1>6 DEF TypeInv
  <2>5. ASSUME NEW x \in Block PROVE x.page \in lists'[x.order] <=> x.page \in lists[x.order] /\ x # a
    <3>1. x.order \in 0 .. PMM_MAX_ORDER /\ (x = a <=> x.page = q /\ x.order = b.order)
      BY <2>3
    <3>2. lists'[x.order] = IF x.order = b.order THEN lists[x.order] \ {q} ELSE lists[x.order]
      BY <2>4, <3>1
    <3> QED
      BY <3>1, <3>2
  <2> QED
    BY <2>1, <2>2, <2>5
<1>17. b \notin Listed /\ b \notin held /\ a \notin held /\ held' = held
  BY <1>1, <1>3, <1>6, <1>13 DEF Apart
<1>18. Blocks' = (Blocks \ {a, b}) \cup {new} /\ Taken' = Taken
  BY <1>13, <1>14, <1>16, <1>17 DEF Blocks, Taken
<1>19. ASSUME NEW x \in Blocks, x # a, x # b
       PROVE  x # new /\ x.page # q /\ x.page # b.page
  <2>1. x.page # q /\ x.page # b.page
    BY <1>3, <1>4, <1>19, PageFirst
  <2> QED
    BY <1>12, <2>1
<1>20. Tiled(Blocks')
  <2>1. Cover({new}) = PagesOf(new) /\ Cover({a, b}) = PagesOf(a) \cup PagesOf(b)
    BY DEF Cover
  <2>2. Tiled((Blocks \ {a, b}) \cup {new})
    <3>1. {a, b} \in SUBSET Blocks /\ Cover({new}) = Cover({a, b})
      BY <1>3, <1>4, <1>11, <2>1
    <3>2. \A x \in {new} : x \in Block /\ \E s \in Regions : Fits(x, s)
      BY <1>11
    <3>3. \A x, y \in {new} : x # y => PagesOf(x) \cap PagesOf(y) = {}
      OBVIOUS
    <3> QED
      BY <1>1, <3>1, <3>2, <3>3, Retile
  <2> QED
    BY <1>18, <2>2
<1>21. /\ order' \in [Page -> 0 .. PMM_MAX_ORDER] /\ order'[q] = b.order + 1 /\ order'[b.page] = b.order + 1
       /\ \A p \in Page : p # q /\ p # b.page => order'[p] = order[p]
  <2>1. b.order + 1 \in 0 .. PMM_MAX_ORDER
    BY <1>3, <1>4
  <2> QED
    BY <1>1, <1>3, <1>4, <1>5, <1>6, <1>11, <2>1 DEF TypeInv
<1>22. TypeInv'
  <2>1. page' \in [Cpu -> Block \cup {None}]
    <3>1. DOMAIN page' = Cpu /\ page' = [d \in DOMAIN page' |-> page'[d]]
      BY <1>1, <1>6 DEF TypeInv
    <3>2. \A d \in Cpu : page'[d] \in Block \cup {None}
      BY <1>1, <1>7, <1>8, <1>11 DEF TypeInv
    <3> QED
      BY <3>1, <3>2
  <2>2. \A d \in Cpu : page'[d] \in Block <=> pc'[d] \in Working
    <3>1. "merge" \in Working /\ "merge" \in FreesAt
      BY DEF Working, FreesAt
    <3> QED
      BY <1>1, <1>2, <1>6, <1>7, <1>8, <1>11, <3>1 DEF TypeInv
  <2> QED
    BY <1>1, <1>6, <1>15, <1>21, <2>1, <2>2 DEF TypeInv
<1>23. Apart'
  <2>1. new \notin Listed \ {a} /\ new \notin held
    BY <1>17, <1>19 DEF Blocks
  <2>2. \A d, e \in Cpu : d # e /\ pc'[d] \in Working => page'[d] # page'[e]
    BY <1>7, <1>8, <1>11
  <2> QED
    BY <1>1, <1>14, <1>16, <1>17, <2>1, <2>2 DEF Apart
<1>24. RecordsTrue'
  <2>1. ASSUME NEW x \in Blocks' PROVE order'[x.page] = x.order
    <3>1. CASE x = new
      BY <1>12, <1>21, <3>1
    <3>2. CASE x # new
      <4>1. x \in Blocks /\ x # a /\ x # b
        BY <1>18, <3>2
      <4>2. x.page # q /\ x.page # b.page /\ x.page \in Page
        BY <1>1, <1>19, <4>1
      <4>3. order[x.page] = x.order
        BY <1>1, <1>13, <4>1 DEF RecordsTrue
      <4> QED
        BY <1>21, <4>2, <4>3
    <3> QED
      BY <3>1, <3>2
  <2> QED
    BY <1>1, <1>6, <1>18, <2>1 DEF RecordsTrue
<1>25. NoBuddies(Listed')
  BY <1>1, <1>16 DEF NoBuddies
<1>26. CountInv'
  <2>1. Counted' = (Listed \ {a}) \cup {new} /\ Counted = Listed \cup {b}
    BY <1>13, <1>14, <1>16 DEF Counted
  <2>2. Cover((Listed \ {a}) \cup {new}) = Cover(Listed \cup {b})
    <3>1. Cover((Listed \ {a}) \cup {new}) = Cover(Listed \ {a}) \cup PagesOf(new)
      BY DEF Cover
    <3>2. Cover(Listed \cup {b}) = Cover(Listed \ {a}) \cup (PagesOf(a) \cup PagesOf(b))
      BY <1>3 DEF Cover
    <3> QED
      BY <1>11, <3>1, <3>2
  <2>3. Cover(Counted') = Cover(Counted)
    BY <2>1, <2>2
  <2> QED
    BY <1>1, <1>6, <2>3 DEF CountInv, IsCount
<1> QED
  BY <1>20, <1>22, <1>23, <1>24, <1>25, <1>26 DEF IInv

(* The end of the loop lists a block whose buddy is not free.              *)
LEMMA FreeAppendInv ==
  ASSUME IInv, NEW c \in Cpu, Lone(c), FreeAppend(c)
  PROVE  IInv'
<1> DEFINE b == page[c]
<1>1. TypeInv /\ Tiled(Blocks) /\ Apart /\ RecordsTrue /\ NoBuddies(Listed) /\ CountInv
      /\ Listed \subseteq Blocks /\ None \notin Block
  BY InvFacts DEF IInv
<1>2. pc[c] = "merge" /\ ~MayMerge(b.page)
  BY DEF FreeAppend
<1>3. /\ b \in Block /\ b \in Blocks /\ order[b.page] = b.order
      /\ b.order < PMM_MAX_ORDER => [page |-> BuddyAt(b.page, b.order), order |-> b.order] \notin Listed
  BY <1>2, MergeMeans
<1>4. b.order \in 0 .. PMM_MAX_ORDER /\ b.page \in Page
  BY <1>3 DEF Block
<1>5. /\ lists' = [lists EXCEPT ![b.order] = @ \cup {b.page}] /\ lock' = None
      /\ page' = [page EXCEPT ![c] = None] /\ pc' = [pc EXCEPT ![c] = "idle"]
      /\ UNCHANGED <<order, free, free_count, tmp, held>>
  BY <1>3 DEF FreeAppend, Goto
<1>6. \A d \in Cpu : d # c => /\ pc'[d] = pc[d] /\ page'[d] = page[d] /\ page[d] \notin Block
                              /\ pc[d] \notin Working /\ pc[d] \notin TakenAt
                              /\ pc[d] \notin CountedAt /\ pc[d] # "mark"
  BY <1>1, <1>5, LoneFacts DEF TypeInv
<1>7. page'[c] = None /\ pc'[c] = "idle"
  BY <1>1, <1>5 DEF TypeInv
<1>8. /\ At(Working) = {b} /\ At(TakenAt) = {} /\ At({"mark"}) = {} /\ At(CountedAt) = {b}
  <2>1. "merge" \in Working /\ "merge" \in CountedAt /\ "merge" \notin TakenAt
    BY DEF Working, CountedAt, TakenAt
  <2> QED
    BY <1>2, <1>6, <2>1 DEF At, WorkedOn
<1>9. /\ At(Working)' = {} /\ At(TakenAt)' = {} /\ At({"mark"})' = {} /\ At(CountedAt)' = {}
  <2>1. "idle" \notin Working /\ "idle" \notin CountedAt /\ "idle" \notin TakenAt
    BY DEF Working, CountedAt, TakenAt
  <2> QED
    BY <1>6, <1>7, <2>1 DEF At, WorkedOn
<1> HIDE DEF b
<1>10. lists' \in [0 .. PMM_MAX_ORDER -> SUBSET Page]
  BY <1>1, <1>4, <1>5 DEF TypeInv
<1>11. Listed' = Listed \cup {b}
  <2>1. Listed = {x \in Block : x.page \in lists[x.order]}
    BY <1>1, ListedIs DEF Listed, TypeInv
  <2>2. Listed' = {x \in Block : x.page \in lists'[x.order]}
    BY <1>10, ListedIs DEF Listed
  <2>3. \A x \in Block : x.order \in 0 .. PMM_MAX_ORDER /\ (x = b <=> x.page = b.page /\ x.order = b.order)
    BY <1>3 DEF Block
  <2>4. \A o \in 0 .. PMM_MAX_ORDER : lists'[o] = IF o = b.order THEN lists[o] \cup {b.page} ELSE lists[o]
    BY <1>1, <1>5 DEF TypeInv
  <2>5. ASSUME NEW x \in Block PROVE x.page \in lists'[x.order] <=> x.page \in lists[x.order] \/ x = b
    <3>1. x.order \in 0 .. PMM_MAX_ORDER /\ (x = b <=> x.page = b.page /\ x.order = b.order)
      BY <2>3
    <3>2. lists'[x.order] = IF x.order = b.order THEN lists[x.order] \cup {b.page} ELSE lists[x.order]
      BY <2>4, <3>1
    <3> QED
      BY <3>1, <3>2
  <2> QED
    BY <1>3, <2>1, <2>2, <2>5
<1>12. b \notin Listed /\ b \notin held /\ held' = held
  BY <1>1, <1>5, <1>8 DEF Apart
<1>13. Blocks' = Blocks /\ Taken' = Taken /\ Counted' = Counted
  BY <1>8, <1>9, <1>11, <1>12 DEF Blocks, Taken, Counted
<1>14. TypeInv'
  <2>1. "idle" \notin Working /\ "idle" \notin FreesAt
    BY DEF Working, FreesAt
  <2>2. page' \in [Cpu -> Block \cup {None}] /\ pc' \in [Cpu -> Working \cup {"idle", "halted"}]
    BY <1>1, <1>5 DEF TypeInv
  <2> QED
    BY <1>1, <1>5, <1>6, <1>7, <1>10, <2>1, <2>2 DEF TypeInv
<1>15. Apart'
  <2>1. "idle" \notin Working
    BY DEF Working
  <2>2. \A d \in Cpu : pc'[d] \notin Working
    BY <1>6, <1>7, <2>1
  <2> QED
    BY <1>1, <1>9, <1>11, <1>12, <2>2 DEF Apart
<1>16. RecordsTrue'
  BY <1>1, <1>5, <1>8, <1>9, <1>13 DEF RecordsTrue
<1>17. NoBuddies(Listed')
  <2>1. [b EXCEPT !.page = BuddyAt(b.page, b.order)] = [page |-> BuddyAt(b.page, b.order), order |-> b.order]
    BY <1>3 DEF Block
  <2>2. NoBuddies(Listed \cup {b})
    BY <1>1, <1>3, <2>1, NoBuddiesAdd
  <2> QED
    BY <1>11, <2>2
<1>18. CountInv'
  <2>1. "store" \in Working /\ "free_store" \in Working
    BY DEF Working
  <2>2. \A d \in Cpu : pc'[d] \notin {"store", "free_store"}
    BY <1>6, <1>7, <2>1
  <2> QED
    BY <1>1, <1>5, <1>13, <2>2 DEF CountInv, IsCount
<1> QED
  BY <1>1, <1>13, <1>14, <1>15, <1>16, <1>17, <1>18 DEF IInv

-----------------------------------------------------------------------------
(* Every step keeps the invariant while those that free do so alone: with  *)
(* a CPU that frees beside another at work the allocator does not hold     *)
(* what it promises.                                                       *)
LEMMA NextInv ==
  ASSUME IInv, FreesAlone, [Next /\ FreesAlone']_vars
  PROVE  IInv' /\ FreesAlone'
<1>1. ASSUME NEW c \in Cpu, pc[c] \in FreesAt
      PROVE  Lone(c)
  BY <1>1 DEF FreesAlone, FreesAt, Lone
<1>2. ASSUME NEW c \in Cpu, NEW o \in Orders, pmm_alloc(c, o) PROVE IInv'
  BY <1>2, AllocInv
<1>3. ASSUME NEW c \in Cpu, AllocMark(c) PROVE IInv'
  BY <1>3, AllocMarkInv
<1>4. ASSUME NEW c \in Cpu, AllocLoad(c) PROVE IInv'
  BY <1>4, AllocLoadInv
<1>5. ASSUME NEW c \in Cpu, AllocStore(c) PROVE IInv'
  BY <1>5, AllocStoreInv
<1>6. ASSUME NEW c \in Cpu, NEW b \in held, pmm_free(c, b), FreesAlone' PROVE IInv'
  <2>1. pc \in [Cpu -> Working \cup {"idle", "halted"}] /\ pc' = [pc EXCEPT ![c] = "free_load"]
    BY <1>6 DEF pmm_free, Goto, IInv, TypeInv
  <2>2. pc'[c] = "free_load" /\ \A d \in Cpu : d # c => pc'[d] = pc[d]
    BY <2>1
  <2>3. Lone(c)
    BY <1>6, <2>2 DEF FreesAlone, Lone
  <2> QED
    BY <1>6, <2>3, FreeInv
<1>7. ASSUME NEW c \in Cpu, FreeLoad(c) PROVE IInv'
  <2>1. Lone(c)
    BY <1>1, <1>7 DEF FreeLoad, FreesAt
  <2> QED
    BY <1>7, <2>1, FreeLoadInv
<1>8. ASSUME NEW c \in Cpu, FreeStore(c) PROVE IInv'
  <2>1. Lone(c)
    BY <1>1, <1>8 DEF FreeStore, FreesAt
  <2> QED
    BY <1>8, <2>1, FreeStoreInv
<1>9. ASSUME NEW c \in Cpu, FreeAcquire(c) PROVE IInv'
  <2>1. Lone(c)
    BY <1>1, <1>9 DEF FreeAcquire, FreesAt
  <2> QED
    BY <1>9, <2>1, FreeAcquireInv
<1>10. ASSUME NEW c \in Cpu, FreeMerge(c) PROVE IInv'
  <2>1. Lone(c)
    BY <1>1, <1>10 DEF FreeMerge, FreesAt
  <2> QED
    BY <1>10, <2>1, FreeMergeInv
<1>11. ASSUME NEW c \in Cpu, FreeAppend(c) PROVE IInv'
  <2>1. Lone(c)
    BY <1>1, <1>11 DEF FreeAppend, FreesAt
  <2> QED
    BY <1>11, <2>1, FreeAppendInv
<1>12. CASE UNCHANGED vars
  <2>1. IInv'
    BY <1>12 DEF vars, IInv, TypeInv, Apart, RecordsTrue, CountInv, IsCount, Blocks, Taken, Counted,
       Listed, At
  <2>2. FreesAlone'
    BY <1>12 DEF vars, FreesAlone
  <2> QED
    BY <2>1, <2>2
<1>13. CASE Next /\ FreesAlone'
  BY <1>2, <1>3, <1>4, <1>5, <1>6, <1>7, <1>8, <1>9, <1>10, <1>11, <1>13 DEF Next
<1> QED
  BY <1>12, <1>13

(* The invariant holds in every state.                                     *)
LEMMA InvHolds == QuietSpec => []IInv
<1>1. Init => IInv /\ FreesAlone
  <2>1. Init => FreesAlone
    BY DEF Init, FreesAlone
  <2> QED
    BY <2>1, InitInv
<1>2. IInv /\ FreesAlone /\ [Next /\ FreesAlone']_vars => IInv' /\ FreesAlone'
  BY NextInv
<1> QED
  BY <1>1, <1>2, PTL DEF QuietSpec

(* The blocks in flight are those of the CPUs at a working label.          *)
LEMMA InFlightIs ==
  ASSUME IInv
  PROVE  InFlight = At(Working)
<1>1. \A c \in Cpu : page[c] # None <=> pc[c] \in Working
  BY InvFacts DEF IInv, TypeInv
<1> QED
  BY <1>1 DEF InFlight, At, WorkedOn

(* The free blocks, the blocks of the callers and those a CPU works on are *)
(* of the orders there are and always tile the memory of the zone          *)
(* (pmm.c: pmm_region_add, pmm_alloc, pmm_free).                           *)
THEOREM BlocksAlwaysSound ==
  QuietSpec => []BlocksSound
<1>1. IInv => BlocksSound
  <2> SUFFICES ASSUME IInv PROVE BlocksSound
    OBVIOUS
  <2>1. TypeInv /\ Tiled(Blocks) /\ Apart /\ CountInv
    BY DEF IInv
  <2>2. TypeOK
    <3>1. free_count \in Nat
      BY <2>1 DEF CountInv, IsCount
    <3>2. \A b \in Block : IsBlock(b)
      BY DEF Block, IsBlock
    <3> QED
      BY <2>1, <3>1, <3>2 DEF TypeOK, TypeInv
  <2>3. PagesTile
    <3>1. InFlight = At(Working)
      BY InFlightIs
    <3> QED
      BY <2>1, <3>1 DEF PagesTile, Apart, Tiled, Cover, Data, Blocks
  <2> QED
    BY <2>2, <2>3 DEF BlocksSound
<1>2. QuietSpec => []IInv
  BY InvHolds
<1> QED
  BY <1>1, <1>2, PTL

(* A free block never lies beside its free buddy: pmm_free merges as far   *)
(* as it can, and pmm_alloc hands out one half of what it splits (pmm.c).  *)
THEOREM BuddiesAlwaysMerged ==
  QuietSpec => []BuddiesMerged
<1>1. IInv => BuddiesMerged
  <2> SUFFICES ASSUME IInv, NEW b \in Listed, b.order < PMM_MAX_ORDER
               PROVE  [b EXCEPT !.page = BuddyOf(b.page)] \notin Listed
    BY DEF BuddiesMerged
  <2>1. TypeInv /\ Apart /\ RecordsTrue /\ NoBuddies(Listed) /\ b \in Blocks
    BY InvFacts DEF IInv
  <2>2. b \notin At({"mark"})
    BY <2>1, Labels DEF Apart, At, WorkedOn
  <2>3. order[b.page] = b.order
    BY <2>1, <2>2 DEF RecordsTrue
  <2>4. BuddyOf(b.page) = BuddyAt(b.page, b.order)
    BY <2>3 DEF BuddyOf, BuddyAt
  <2> QED
    BY <2>1, <2>4 DEF NoBuddies
<1>2. QuietSpec => []IInv
  BY InvHolds
<1> QED
  BY <1>1, <1>2, PTL

(* It is the lost updates alone that make the count too large: with one    *)
(* CPU it is the number of free pages whenever that CPU is not in the      *)
(* allocator.                                                              *)
LEMMA CountExactAlone ==
  ASSUME OneCpu
  PROVE  QuietSpec => []((\A c \in Cpu : pc[c] = "idle") => free_count = Cardinality(Cover(Listed)))
<1>1. IInv => ((\A c \in Cpu : pc[c] = "idle") => free_count = Cardinality(Cover(Listed)))
  <2> SUFFICES ASSUME IInv, \A c \in Cpu : pc[c] = "idle"
               PROVE  free_count = Cardinality(Cover(Listed))
    OBVIOUS
  <2>1. At(CountedAt) = {}
    BY DEF At, WorkedOn, CountedAt
  <2>2. Cover(Counted) = Cover(Listed)
    BY <2>1 DEF Counted
  <2> QED
    BY <2>2 DEF IInv, CountInv, IsCount
<1>2. QuietSpec => []IInv
  BY InvHolds
<1> QED
  BY <1>1, <1>2, PTL

(* The blocks in the lists never have more pages than the count says, with *)
(* any number of CPUs that take the count down outside the lock and lose   *)
(* one another's updates (pmm.c:112): every value a CPU has read or is     *)
(* about to write is too large, if anything.                               *)
THEOREM CountIsNeverLow ==
  QuietSpec => []CountNeverLow
<1>1. IInv => CountNeverLow
  <2> SUFFICES ASSUME IInv
               PROVE  Cardinality(Cover(Listed)) <= free_count
    BY DEF CountNeverLow, Cover
  <2>1. Tiled(Blocks) /\ Counted \subseteq Blocks
    BY InvFacts DEF IInv
  <2>2. IsFiniteSet(Cover(Counted)) /\ Cover(Listed) \subseteq Cover(Counted)
    <3>1. Cover(Counted) \subseteq Data /\ IsFiniteSet(Data)
      BY <2>1, DataFacts DEF Tiled, Cover
    <3>2. Cover(Listed) \subseteq Cover(Counted)
      BY DEF Cover, Counted
    <3> QED
      BY <3>1, <3>2, FS_Subset
  <2>3. /\ Cardinality(Cover(Listed)) \in Nat /\ Cardinality(Cover(Counted)) \in Nat
        /\ Cardinality(Cover(Listed)) <= Cardinality(Cover(Counted))
    BY <2>2, FS_Subset, FS_CardinalityType
  <2>4. free_count \in Nat /\ Cardinality(Cover(Counted)) <= free_count
    BY DEF IInv, CountInv, IsCount
  <2> HIDE DEF Cover, Counted
  <2> QED
    BY <2>3, <2>4
<1>2. QuietSpec => []IInv
  BY InvHolds
<1> QED
  BY <1>1, <1>2, PTL
=================================================================================
