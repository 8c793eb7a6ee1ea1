------------------------------- MODULE HeapProofs -------------------------------
(***************************************************************************)
(* The entries of the kernel heap tile it, stay merged and serve their     *)
(* callers, and a request is refused only when no gap could hold it, for   *)
(* every heap and header size and every sequence of requests.              *)
(***************************************************************************)
EXTENDS Heap, SequenceTheorems, FiniteSetTheorems, TLAPS

Tiles(s) == \A i \in 1 .. Len(s) - 1 : s[i + 1].at = EndOf(s[i])
Merged(s) == \A i \in 1 .. Len(s) - 1 : ~(s[i].free /\ s[i + 1].free)
Sealed(s) == \A i \in 1 .. Len(s) : get_prot(s[i]) = 0

(* The entries that are not free.                                          *)
Used(s) == {s[i] : i \in {n \in 1 .. Len(s) : ~s[n].free}}

(* A list of entries as heap.c may hold it, from one address to another.   *)
Fills(s, from, to) ==
  /\ s \in Seq(Entry) /\ Len(s) > 0
  /\ s[1].at = from /\ EndOf(s[Len(s)]) = to
  /\ Tiles(s) /\ Merged(s) /\ Sealed(s)

(* Used entries and blocks belong to each other, one to one.               *)
Paired(used, blocks) ==
  /\ \A b \in blocks : /\ b \in Block /\ b.address % b.alignment = 0
                       /\ \E e \in used : Data(e) = b.address /\ e.size >= b.size
  /\ \A e \in used : \E b \in blocks : b.address = Data(e)
  /\ \A b, c \in blocks : b.address = c.address => b = c

IInv ==
  /\ Fills(entries, BASE, BASE + SIZE)
  /\ Paired(Used(entries), live)
  /\ refused \in Nat
  /\ RefusedOnlyWhenFull

-----------------------------------------------------------------------------
(* Lists of entries                                                        *)

LEMMA Least ==
  ASSUME NEW T \in SUBSET Nat, T # {}
  PROVE  \E x \in T : \A y \in T : x <= y
<1> DEFINE R == {ss \in Nat \X Nat : ss[1] < ss[2]}
<1>1. OpToRel(<, Nat) = R
  BY DEF OpToRel
<1>2. \A x, y \in T : y < x => <<y, x>> \in R
  OBVIOUS
<1> HIDE DEF R
<1>3. IsWellFoundedOn(R, Nat)
  BY NatLessThanWellFounded, <1>1
<1>4. PICK x \in T : \A y \in T : <<y, x>> \notin R
  BY <1>3, WFMin
<1>5. \A y \in T : ~(y < x)
  BY <1>2, <1>4
<1> QED
  BY <1>5

LEMMA EntryFacts ==
  ASSUME NEW e \in Entry
  PROVE  /\ e.at \in Nat /\ e.size \in Nat /\ e.free \in BOOLEAN /\ e.prot \in Nat
         /\ EndOf(e) \in Nat /\ Data(e) \in Nat /\ e.at < Data(e) /\ Data(e) <= EndOf(e)
         /\ e.at < EndOf(e) /\ e.at <= EndOf(e)
         /\ Data(e) = e.at + HEADER /\ EndOf(e) = e.at + HEADER + e.size
         /\ HEADER \in Nat \ {0}
  BY HeapAssumption DEF Entry, EndOf, Data

(* Entries that tile a stretch of memory are in the order of their         *)
(* addresses: the first that were not would follow one that is.            *)
LEMMA Ordered ==
  ASSUME NEW s \in Seq(Entry), Tiles(s), NEW i \in 1 .. Len(s), NEW j \in 1 .. Len(s), i < j
  PROVE  EndOf(s[i]) <= s[j].at
<1> DEFINE T == {k \in 1 .. Len(s) : i < k /\ ~(EndOf(s[i]) <= s[k].at)}
<1>1. SUFFICES ASSUME T # {}
               PROVE  FALSE
  OBVIOUS
<1>2. Len(s) \in Nat /\ \A k \in 1 .. Len(s) : s[k] \in Entry
  BY LenProperties, ElementOfSeq
<1>3. T \in SUBSET Nat
  BY <1>2
<1>4. PICK k \in T : \A l \in T : k <= l
  BY <1>1, <1>3, Least
<1>5. k \in 1 .. Len(s) /\ i < k /\ k - 1 \in 1 .. Len(s) - 1 /\ k - 1 \in 1 .. Len(s)
  BY <1>2
<1>6. s[k].at = EndOf(s[k - 1])
  <2>1. s[(k - 1) + 1].at = EndOf(s[k - 1])
    BY <1>5 DEF Tiles
  <2> QED
    BY <1>5, <2>1
<1>7. /\ EndOf(s[i]) \in Nat /\ s[k - 1].at \in Nat /\ s[k - 1].at <= EndOf(s[k - 1])
      /\ EndOf(s[k - 1]) \in Nat
  <2>1. s[k - 1] \in Entry /\ s[i] \in Entry
    BY <1>2, <1>5
  <2> QED
    BY ONLY <2>1, EntryFacts
<1>8. CASE k - 1 = i
  BY <1>6, <1>7, <1>8
<1>9. CASE k - 1 # i
  <2>1. k - 1 \notin T /\ i < k - 1
    BY <1>4, <1>5, <1>9
  <2>2. EndOf(s[i]) <= s[k - 1].at
    BY <1>5, <2>1
  <2> QED
    BY <1>6, <1>7, <2>2
<1> QED
  BY <1>8, <1>9

(* No two entries begin at one address.                                    *)
LEMMA Distinct ==
  ASSUME NEW s \in Seq(Entry), Tiles(s), NEW i \in 1 .. Len(s), NEW j \in 1 .. Len(s),
         Data(s[i]) = Data(s[j])
  PROVE  i = j
<1>1. Len(s) \in Nat /\ s[i] \in Entry /\ s[j] \in Entry
  BY LenProperties, ElementOfSeq
<1> DEFINE e == s[i]
           f == s[j]
<1>2. e \in Entry /\ f \in Entry /\ Data(e) = Data(f)
  BY <1>1
<1>3. i < j => EndOf(e) <= f.at
  BY Ordered
<1>4. j < i => EndOf(f) <= e.at
  BY Ordered
<1> HIDE DEF e, f
<1>5. /\ e.at \in Nat /\ f.at \in Nat /\ HEADER \in Nat /\ e.at = f.at
      /\ EndOf(e) \in Nat /\ EndOf(f) \in Nat
  <2>1. e.at \in Nat /\ Data(e) = e.at + HEADER /\ HEADER \in Nat /\ EndOf(e) \in Nat
    BY <1>2, EntryFacts
  <2>2. f.at \in Nat /\ Data(f) = f.at + HEADER /\ EndOf(f) \in Nat
    BY <1>2, EntryFacts
  <2>3. e.at + HEADER = f.at + HEADER
    BY ONLY <1>2, <2>1, <2>2
  <2>4. e.at = f.at
    BY ONLY <2>1, <2>2, <2>3
  <2> QED
    BY <2>1, <2>2, <2>4
<1>6. e.at < EndOf(e) /\ f.at < EndOf(f)
  BY <1>2, EntryFacts
<1> QED
  BY <1>1, <1>3, <1>4, <1>5, <1>6

(* What a splice holds, and where: the entries before stay where they are, *)
(* those behind move by the difference in number.                          *)
LEMMA SpliceParts ==
  ASSUME entries \in Seq(Entry), NEW i \in 1 .. Len(entries), NEW j \in i .. Len(entries),
         NEW new \in Seq(Entry)
  PROVE  LET s == Splice(i, j, new)
             by == Len(new) - (j - i + 1)
         IN  /\ s \in Seq(Entry) /\ Len(s) = Len(entries) + by
             /\ \A n \in 1 .. i - 1 : s[n] = entries[n]
             /\ \A n \in 1 .. Len(new) : s[(i - 1) + n] = new[n]
             /\ \A n \in (i + Len(new)) .. Len(s) : s[n] = entries[n - by]
<1> DEFINE a == SubSeq(entries, 1, i - 1)
           c == SubSeq(entries, j + 1, Len(entries))
           s == Splice(i, j, new)
           by == Len(new) - (j - i + 1)
<1>1. Len(entries) \in Nat /\ Len(new) \in Nat /\ \A n \in 1 .. Len(entries) : entries[n] \in Entry
  BY LenProperties, ElementOfSeq
<1>2. /\ a \in Seq(Entry) /\ Len(a) = i - 1
      /\ \A n \in 1 .. i - 1 : a[n] = entries[n]
  <2>1. \A n \in 1 .. i - 1 : entries[n] \in Entry
    BY <1>1
  <2>2. 1 \in Int /\ i - 1 \in Int
    OBVIOUS
  <2>3. /\ a \in Seq(Entry) /\ Len(a) = IF 1 <= i - 1 THEN (i - 1) - 1 + 1 ELSE 0
        /\ \A n \in 1 .. (i - 1) - 1 + 1 : a[n] = entries[1 + n - 1]
    BY <2>1, <2>2, SubSeqProperties
  <2> HIDE DEF a
  <2> QED
    BY <2>3
<1>3. /\ c \in Seq(Entry) /\ Len(c) = Len(entries) - j
      /\ \A n \in 1 .. Len(entries) - j : c[n] = entries[j + n]
  <2>1. \A n \in j + 1 .. Len(entries) : entries[n] \in Entry
    BY <1>1
  <2>2. j + 1 \in Int /\ Len(entries) \in Int
    BY <1>1
  <2>3. /\ c \in Seq(Entry)
        /\ Len(c) = IF j + 1 <= Len(entries) THEN Len(entries) - (j + 1) + 1 ELSE 0
        /\ \A n \in 1 .. Len(entries) - (j + 1) + 1 : c[n] = entries[(j + 1) + n - 1]
    BY <2>1, <2>2, SubSeqProperties
  <2> HIDE DEF c
  <2> QED
    BY <1>1, <2>3
<1>4. s = (a \o new) \o c
  BY DEF Splice
<1>5. i \in Nat /\ j \in Nat /\ 1 <= i /\ i <= j /\ j <= Len(entries)
  BY <1>1
<1> HIDE DEF a, c, s
<1>6. /\ a \o new \in Seq(Entry) /\ Len(a \o new) = (i - 1) + Len(new)
      /\ \A n \in 1 .. (i - 1) + Len(new) :
           (a \o new)[n] = IF n <= i - 1 THEN a[n] ELSE new[n - (i - 1)]
  <2>1. /\ a \o new \in Seq(Entry) /\ Len(a \o new) = Len(a) + Len(new)
        /\ \A n \in 1 .. Len(a) + Len(new) :
             (a \o new)[n] = IF n <= Len(a) THEN a[n] ELSE new[n - Len(a)]
    BY <1>2, ConcatProperties
  <2> QED
    BY <1>2, <2>1
<1>7. /\ s \in Seq(Entry) /\ Len(s) = ((i - 1) + Len(new)) + (Len(entries) - j)
      /\ \A n \in 1 .. ((i - 1) + Len(new)) + (Len(entries) - j) :
           s[n] = IF n <= (i - 1) + Len(new) THEN (a \o new)[n] ELSE c[n - ((i - 1) + Len(new))]
  <2> DEFINE d == a \o new
  <2>1. d \in Seq(Entry) /\ Len(d) = (i - 1) + Len(new)
    BY <1>6
  <2> HIDE DEF d
  <2>2. /\ d \o c \in Seq(Entry) /\ Len(d \o c) = Len(d) + Len(c)
        /\ \A n \in 1 .. Len(d) + Len(c) :
             (d \o c)[n] = IF n <= Len(d) THEN d[n] ELSE c[n - Len(d)]
    <3>1. c \in Seq(Entry) /\ d \in Seq(Entry)
      BY <1>3, <2>1
    <3> QED
      BY ONLY <3>1, ConcatProperties
  <2>3. s = d \o c
    BY <1>4 DEF d
  <2>4. /\ s \in Seq(Entry) /\ Len(s) = ((i - 1) + Len(new)) + (Len(entries) - j)
        /\ \A n \in 1 .. ((i - 1) + Len(new)) + (Len(entries) - j) :
             s[n] = IF n <= (i - 1) + Len(new) THEN d[n] ELSE c[n - ((i - 1) + Len(new))]
    <3>1. Len(d) = (i - 1) + Len(new) /\ Len(c) = Len(entries) - j
      BY <1>3, <2>1
    <3> HIDE DEF s, c
    <3> QED
      BY ONLY <2>2, <2>3, <3>1
  <2> QED
    BY <2>4 DEF d
<1>8. Len(s) = Len(entries) + by
  BY <1>1, <1>7
<1>9. \A n \in 1 .. i - 1 : s[n] = entries[n]
  <2> SUFFICES ASSUME NEW n \in 1 .. i - 1
               PROVE  s[n] = entries[n]
    OBVIOUS
  <2>1. /\ n \in 1 .. (i - 1) + Len(new) /\ n <= i - 1 /\ n <= (i - 1) + Len(new)
        /\ n \in 1 .. ((i - 1) + Len(new)) + (Len(entries) - j)
    BY ONLY <1>1, <1>5, n \in 1 .. i - 1
  <2>2. s[n] = (a \o new)[n]
    BY ONLY <1>7, <2>1
  <2>3. (a \o new)[n] = a[n]
    BY ONLY <1>6, <2>1
  <2>4. a[n] = entries[n]
    BY <1>2
  <2> QED
    BY ONLY <2>2, <2>3, <2>4
<1>10. ASSUME NEW n \in 1 .. Len(new)
       PROVE  s[(i - 1) + n] = new[n]
  <2> DEFINE m == (i - 1) + n
  <2>1. m \in 1 .. (i - 1) + Len(new) /\ ~(m <= i - 1) /\ m - (i - 1) = n
    BY <1>1
  <2> HIDE DEF m
  <2>2. s[m] = (a \o new)[m]
    <3>1. m \in 1 .. ((i - 1) + Len(new)) + (Len(entries) - j) /\ m <= (i - 1) + Len(new)
      BY <1>1, <2>1
    <3> QED
      BY <1>7, <3>1
  <2>3. (a \o new)[m] = new[n]
    BY <1>6, <2>1
  <2> QED
    BY <2>2, <2>3 DEF m
<1>11. ASSUME NEW n \in (i + Len(new)) .. Len(s)
       PROVE  s[n] = entries[n - by]
  <2>1. /\ n \in 1 .. ((i - 1) + Len(new)) + (Len(entries) - j)
        /\ ~(n <= (i - 1) + Len(new))
        /\ n - ((i - 1) + Len(new)) \in 1 .. Len(entries) - j
        /\ j + (n - ((i - 1) + Len(new))) = n - by
    BY <1>1, <1>7
  <2>2. s[n] = c[n - ((i - 1) + Len(new))]
    BY <1>7, <2>1
  <2>3. c[n - ((i - 1) + Len(new))] = entries[j + (n - ((i - 1) + Len(new)))]
    BY <1>3, <2>1
  <2> QED
    BY <2>1, <2>2, <2>3
<1> QED
  BY <1>7, <1>8, <1>9, <1>10, <1>11 DEF s

(* Entries i to j give way to others that fill the same stretch, are       *)
(* merged as far as they go and do not put free entries side by side.      *)
LEMMA Replaced ==
  ASSUME NEW lo, NEW hi, Fills(entries, lo, hi),
         NEW i \in 1 .. Len(entries), NEW j \in i .. Len(entries),
         NEW new, Fills(new, entries[i].at, EndOf(entries[j])),
         new[1].free => i = 1 \/ ~entries[i - 1].free,
         new[Len(new)].free => j = Len(entries) \/ ~entries[j + 1].free
  PROVE  Fills(Splice(i, j, new), lo, hi)
<1> DEFINE s == Splice(i, j, new)
           k == Len(new)
           by == k - (j - i + 1)
           L == Len(entries)
<1>1. /\ entries \in Seq(Entry) /\ new \in Seq(Entry) /\ L \in Nat /\ k \in Nat /\ k > 0
      /\ i \in Nat /\ j \in Nat /\ 1 <= i /\ i <= j /\ j <= L
      /\ by = k - (j - i + 1) /\ by \in Int
  BY LenProperties DEF Fills
<1>2. /\ s \in Seq(Entry) /\ Len(s) = L + by
      /\ \A n \in 1 .. i - 1 : s[n] = entries[n]
      /\ \A n \in 1 .. k : s[(i - 1) + n] = new[n]
      /\ \A n \in (i + k) .. Len(s) : s[n] = entries[n - by]
  BY <1>1, SpliceParts
<1> HIDE DEF s, k, L, by
<1>3. Len(s) \in Nat /\ Len(s) = (i - 1) + k + (L - j) /\ Len(s) > 0
  BY ONLY <1>1, <1>2
<1>4. \A n \in i .. (i - 1) + k : s[n] = new[n - (i - 1)]
  <2> SUFFICES ASSUME NEW n \in i .. (i - 1) + k
               PROVE  s[n] = new[n - (i - 1)]
    OBVIOUS
  <2> DEFINE m == n - (i - 1)
  <2>1. m \in 1 .. k /\ (i - 1) + m = n
    BY <1>1
  <2> HIDE DEF m
  <2>2. s[(i - 1) + m] = new[m]
    BY <1>2, <2>1
  <2> QED
    BY <2>1, <2>2 DEF m
<1> DEFINE Follows(x, y) == y.at = EndOf(x) /\ ~(x.free /\ y.free)
<1>5. /\ \A n \in 1 .. L - 1 : Follows(entries[n], entries[n + 1])
      /\ \A n \in 1 .. k - 1 : Follows(new[n], new[n + 1])
      /\ \A n \in 1 .. L : get_prot(entries[n]) = 0
      /\ \A n \in 1 .. k : get_prot(new[n]) = 0
      /\ entries[1].at = lo /\ EndOf(entries[L]) = hi
      /\ new[1].at = entries[i].at /\ EndOf(new[k]) = EndOf(entries[j])
  BY DEF Fills, Tiles, Merged, Sealed, k, L
<1>6. s[1].at = lo
  <2>1. CASE i = 1
    <3>1. s[1] = new[1]
      <4>1. 1 \in i .. (i - 1) + k /\ 1 - (i - 1) = 1
        BY <1>1, <2>1
      <4>2. s[1] = new[1 - (i - 1)]
        BY <1>4, <4>1
      <4> QED
        BY <4>1, <4>2
    <3> QED
      BY <1>5, <2>1, <3>1
  <2>2. CASE i # 1
    <3>1. s[1] = entries[1]
      <4>1. 1 \in 1 .. i - 1
        BY <1>1, <2>2
      <4> QED
        BY <1>2, <4>1
    <3> QED
      BY <1>5, <3>1
  <2> QED
    BY <2>1, <2>2
<1>7. EndOf(s[Len(s)]) = hi
  <2>1. CASE j = L
    <3>1. Len(s) \in i .. (i - 1) + k /\ Len(s) - (i - 1) = k
      BY <1>1, <1>3, <2>1
    <3>2. s[Len(s)] = new[k]
      BY <1>4, <3>1
    <3> QED
      BY <1>5, <2>1, <3>2
  <2>2. CASE j # L
    <3>1. Len(s) \in (i + k) .. Len(s) /\ Len(s) - by = L
      BY <1>1, <1>3, <1>2, <2>2
    <3>2. s[Len(s)] = entries[L]
      BY <1>2, <3>1
    <3> QED
      BY <1>5, <3>2
  <2> QED
    BY <2>1, <2>2
<1>8. ASSUME NEW n \in 1 .. Len(s) - 1
      PROVE  Follows(s[n], s[n + 1])
  <2>1. n \in Nat /\ n >= 1 /\ n < Len(s) /\ n + 1 \in Nat
    BY <1>3
  <2>2. CASE n + 1 < i
    <3>1. n \in 1 .. i - 1 /\ n + 1 \in 1 .. i - 1 /\ n \in 1 .. L - 1
      BY <1>1, <2>1, <2>2
    <3>2. s[n] = entries[n] /\ s[n + 1] = entries[n + 1]
      BY <1>2, <3>1
    <3> HIDE DEF Follows
    <3> QED
      BY <1>5, <3>1, <3>2
  <2>3. CASE n + 1 = i
    <3>1. n \in 1 .. i - 1 /\ i \in i .. (i - 1) + k /\ i - (i - 1) = 1 /\ n \in 1 .. L - 1 /\ i - 1 = n
      BY <1>1, <2>1, <2>3
    <3>2. s[n] = entries[n] /\ s[n + 1] = new[1]
      BY <1>2, <1>4, <2>3, <3>1
    <3>3. Follows(entries[n], entries[n + 1])
      BY <1>5, <3>1
    <3>4. ~(new[1].free /\ entries[n].free)
      <4>1. i # 1
        BY ONLY <1>1, <2>1, <2>3
      <4>2. ~(new[1].free /\ entries[i - 1].free)
        BY <4>1
      <4> QED
        BY ONLY <3>1, <4>2
    <3> QED
      BY <1>5, <2>3, <3>2, <3>3, <3>4
  <2>4. CASE i <= n /\ n < (i - 1) + k
    <3> DEFINE m == n - (i - 1)
    <3>1. /\ n \in i .. (i - 1) + k /\ n + 1 \in i .. (i - 1) + k
          /\ m \in 1 .. k - 1 /\ (n + 1) - (i - 1) = m + 1
      BY <1>1, <2>1, <2>4
    <3>2. s[n] = new[m] /\ s[n + 1] = new[m + 1]
      BY <1>4, <3>1
    <3> HIDE DEF m, Follows
    <3>3. Follows(new[m], new[m + 1])
      BY ONLY <1>5, <3>1
    <3> QED
      BY ONLY <3>2, <3>3
  <2>5. CASE n = (i - 1) + k
    <3>1. /\ n \in i .. (i - 1) + k /\ n - (i - 1) = k /\ n + 1 \in (i + k) .. Len(s)
          /\ (n + 1) - by = j + 1 /\ j \in 1 .. L - 1 /\ j # L
      BY <1>1, <1>3, <2>1, <2>5
    <3>2. s[n] = new[k] /\ s[n + 1] = entries[j + 1]
      BY <1>2, <1>4, <3>1
    <3>3. Follows(entries[j], entries[j + 1])
      BY <1>5, <3>1
    <3>4. ~(new[k].free /\ entries[j + 1].free)
      BY <3>1 DEF k, L
    <3> QED
      BY <1>5, <3>2, <3>3, <3>4
  <2>6. CASE n > (i - 1) + k
    <3> DEFINE m == n - by
    <3>1. /\ n \in (i + k) .. Len(s) /\ n + 1 \in (i + k) .. Len(s)
          /\ (n + 1) - by = m + 1 /\ m \in 1 .. L - 1
      <4>1. n \in (i + k) .. Len(s) /\ n + 1 \in (i + k) .. Len(s)
        BY <1>1, <1>3, <2>1, <2>6
      <4>2. m \in Int /\ m >= 1 /\ m <= L - 1 /\ (n + 1) - by = m + 1
        BY <1>1, <1>3, <2>1, <2>6
      <4> QED
        BY <1>1, <4>1, <4>2
    <3>2. s[n] = entries[n - by] /\ s[n + 1] = entries[(n + 1) - by]
      BY <1>2, <3>1
    <3>3. s[n] = entries[m] /\ s[n + 1] = entries[m + 1]
      BY ONLY <3>1, <3>2
    <3> HIDE DEF m, Follows
    <3> QED
      BY <1>5, <3>1, <3>3
  <2> QED
    BY ONLY <1>1, <2>1, <2>2, <2>3, <2>4, <2>5, <2>6
<1>9. ASSUME NEW n \in 1 .. Len(s)
      PROVE  get_prot(s[n]) = 0
  <2>1. n \in Nat /\ n >= 1 /\ n <= Len(s)
    BY <1>3
  <2>2. CASE n < i
    <3>1. n \in 1 .. i - 1 /\ n \in 1 .. L
      BY <1>1, <2>1, <2>2
    <3> QED
      BY <1>2, <1>5, <3>1
  <2>3. CASE i <= n /\ n <= (i - 1) + k
    <3>1. n \in i .. (i - 1) + k /\ n - (i - 1) \in 1 .. k
      BY <1>1, <2>1, <2>3
    <3> QED
      BY <1>4, <1>5, <3>1
  <2>4. CASE n > (i - 1) + k
    <3>1. n \in (i + k) .. Len(s) /\ n - by \in 1 .. L
      BY <1>1, <1>3, <2>1, <2>4
    <3> QED
      BY <1>2, <1>5, <3>1
  <2> QED
    BY <1>1, <2>1, <2>2, <2>3, <2>4
<1> QED
  BY <1>2, <1>3, <1>6, <1>7, <1>8, <1>9 DEF Fills, Tiles, Merged, Sealed, s, L

(* The used entries of the list afterwards.                                *)
LEMMA UsedAfter ==
  ASSUME entries \in Seq(Entry), NEW i \in 1 .. Len(entries), NEW j \in i .. Len(entries),
         NEW new \in Seq(Entry)
  PROVE  \A e : e \in Used(Splice(i, j, new)) <=>
                  \/ e \in Used(new)
                  \/ \E n \in 1 .. Len(entries) : n \notin i .. j /\ ~entries[n].free /\ e = entries[n]
<1> DEFINE s == Splice(i, j, new)
           k == Len(new)
           by == k - (j - i + 1)
           L == Len(entries)
<1>1. L \in Nat /\ k \in Nat /\ i \in Nat /\ j \in Nat /\ 1 <= i /\ i <= j /\ j <= L
  BY LenProperties
<1>2. /\ Len(s) = L + by
      /\ \A n \in 1 .. i - 1 : s[n] = entries[n]
      /\ \A n \in 1 .. k : s[(i - 1) + n] = new[n]
      /\ \A n \in (i + k) .. Len(s) : s[n] = entries[n - by]
  BY SpliceParts
<1> HIDE DEF s
<1>3. ASSUME NEW n \in 1 .. Len(s)
      PROVE  \/ \E m \in 1 .. k : s[n] = new[m]
             \/ \E m \in 1 .. L : m \notin i .. j /\ s[n] = entries[m]
  <2>1. CASE n < i
    <3>1. n \in 1 .. i - 1 /\ n \in 1 .. L /\ n \notin i .. j
      BY <1>1, <1>2, <2>1
    <3> QED
      BY <1>2, <3>1
  <2>2. CASE i <= n /\ n <= (i - 1) + k
    <3> DEFINE m == n - (i - 1)
    <3>1. m \in 1 .. k /\ (i - 1) + m = n
      BY <1>1, <1>2, <2>2
    <3> HIDE DEF m
    <3>2. s[(i - 1) + m] = new[m]
      BY <1>2, <3>1
    <3> QED
      BY <3>1, <3>2
  <2>3. CASE n > (i - 1) + k
    <3>1. n \in (i + k) .. Len(s) /\ n - by \in 1 .. L /\ n - by \notin i .. j
      BY <1>1, <1>2, <2>3
    <3> QED
      BY <1>2, <3>1
  <2> QED
    BY <1>1, <1>2, <2>1, <2>2, <2>3
<1>4. ASSUME NEW m \in 1 .. k
      PROVE  \E n \in 1 .. Len(s) : s[n] = new[m]
  <2>1. (i - 1) + m \in 1 .. Len(s)
    BY <1>1, <1>2
  <2> QED
    BY <1>2, <2>1
<1>5. ASSUME NEW m \in 1 .. L, m \notin i .. j
      PROVE  \E n \in 1 .. Len(s) : s[n] = entries[m]
  <2>1. CASE m < i
    <3>1. m \in 1 .. i - 1 /\ m \in 1 .. Len(s)
      BY <1>1, <1>2, <2>1
    <3> QED
      BY <1>2, <3>1
  <2>2. CASE m > j
    <3> DEFINE n == m + by
    <3>1. n \in (i + k) .. Len(s) /\ n \in 1 .. Len(s) /\ n - by = m
      BY <1>1, <1>2, <2>2
    <3> HIDE DEF n
    <3> QED
      BY <1>2, <3>1
  <2> QED
    BY <1>1, <1>5, <2>1, <2>2
<1> HIDE DEF k, L
<1>6. ASSUME NEW e, e \in Used(s)
      PROVE  \/ e \in Used(new)
             \/ \E n \in 1 .. L : n \notin i .. j /\ ~entries[n].free /\ e = entries[n]
  <2>1. PICK n \in 1 .. Len(s) : e = s[n] /\ ~s[n].free
    BY <1>6 DEF Used
  <2> QED
    BY <1>3, <2>1 DEF Used, k
<1>7. ASSUME NEW e \in Used(new)
      PROVE  e \in Used(s)
  <2>1. PICK m \in 1 .. k : e = new[m] /\ ~new[m].free
    BY DEF Used, k
  <2>2. PICK n \in 1 .. Len(s) : s[n] = new[m]
    BY <1>4, <2>1
  <2> QED
    BY <2>1, <2>2 DEF Used
<1>8. ASSUME NEW e, NEW m \in 1 .. L, m \notin i .. j, ~entries[m].free, e = entries[m]
      PROVE  e \in Used(s)
  <2>1. PICK n \in 1 .. Len(s) : s[n] = entries[m]
    BY <1>5, <1>8
  <2> QED
    BY <1>8, <2>1 DEF Used
<1> QED
  BY <1>6, <1>7, <1>8 DEF s, L

-----------------------------------------------------------------------------
(* Headers                                                                 *)

LEMMA Seals ==
  ASSUME NEW e \in Entry
  PROVE  LET f == update_prot(e) IN
         /\ f \in Entry /\ f.at = e.at /\ f.size = e.size /\ f.free = e.free
         /\ get_prot(f) = 0
<1> DEFINE f == update_prot(e)
<1>1. e.at \in Nat /\ e.size \in Nat /\ e.at + e.size \in Nat
  BY EntryFacts
<1>2. f \in Entry /\ f.at = e.at /\ f.size = e.size /\ f.free = e.free /\ f.prot = e.at + e.size
  BY <1>1 DEF update_prot, Entry
<1> HIDE DEF f
<1>3. get_prot(f) = 0
  BY <1>1, <1>2 DEF get_prot
<1> QED
  BY <1>2, <1>3 DEF f

LEMMA Fresh ==
  ASSUME NEW at \in Nat, NEW size \in Nat, NEW free \in BOOLEAN
  PROVE  LET f == update_prot(Unsealed(at, size, free)) IN
         f \in Entry /\ f.at = at /\ f.size = size /\ f.free = free /\ get_prot(f) = 0
<1> DEFINE u == Unsealed(at, size, free)
<1>1. u \in Entry /\ u.at = at /\ u.size = size /\ u.free = free
  BY DEF Unsealed, Entry
<1> HIDE DEF u
<1>2. /\ update_prot(u) \in Entry /\ update_prot(u).at = u.at /\ update_prot(u).size = u.size
      /\ update_prot(u).free = u.free /\ get_prot(update_prot(u)) = 0
  BY <1>1, Seals
<1> QED
  BY <1>1, <1>2 DEF u

LEMMA Resized ==
  ASSUME NEW e \in Entry, NEW size \in Nat
  PROVE  LET f == update_prot([e EXCEPT !.size = size]) IN
         f \in Entry /\ f.at = e.at /\ f.size = size /\ f.free = e.free /\ get_prot(f) = 0
<1> DEFINE u == [e EXCEPT !.size = size]
<1>1. u \in Entry /\ u.at = e.at /\ u.size = size /\ u.free = e.free
  BY DEF Entry
<1> HIDE DEF u
<1>2. /\ update_prot(u) \in Entry /\ update_prot(u).at = u.at /\ update_prot(u).size = u.size
      /\ update_prot(u).free = u.free /\ get_prot(update_prot(u)) = 0
  BY <1>1, Seals
<1> QED
  BY <1>1, <1>2 DEF u

LEMMA Marked ==
  ASSUME NEW e \in Entry, NEW free \in BOOLEAN
  PROVE  LET f == [e EXCEPT !.free = free] IN
         /\ f \in Entry /\ f.at = e.at /\ f.size = e.size /\ f.free = free
         /\ get_prot(f) = get_prot(e)
  BY DEF Entry, get_prot

(* One entry, and two.                                                     *)
LEMMA OneFills ==
  ASSUME NEW e \in Entry, get_prot(e) = 0
  PROVE  /\ Fills(<<e>>, e.at, EndOf(e)) /\ Len(<<e>>) = 1 /\ <<e>>[1] = e
<1>1. <<e>> \in Seq(Entry) /\ Len(<<e>>) = 1 /\ <<e>>[1] = e
  OBVIOUS
<1> QED
  BY <1>1 DEF Fills, Tiles, Merged, Sealed

LEMMA TwoFill ==
  ASSUME NEW e \in Entry, NEW f \in Entry, get_prot(e) = 0, get_prot(f) = 0,
         EndOf(e) = f.at, ~(e.free /\ f.free)
  PROVE  /\ Fills(<<e, f>>, e.at, EndOf(f)) /\ Len(<<e, f>>) = 2
         /\ <<e, f>>[1] = e /\ <<e, f>>[2] = f
<1>1. <<e, f>> \in Seq(Entry) /\ Len(<<e, f>>) = 2 /\ <<e, f>>[1] = e /\ <<e, f>>[2] = f
  OBVIOUS
<1>2. \A i \in 1 .. 2 - 1 : i = 1
  OBVIOUS
<1>3. \A i \in 1 .. 2 : i = 1 \/ i = 2
  OBVIOUS
<1> QED
  BY <1>1, <1>2, <1>3 DEF Fills, Tiles, Merged, Sealed

-----------------------------------------------------------------------------
(* Allocation                                                              *)

(* The entry a block is cut from begins with the block's own.              *)
LEMMA Cutting ==
  ASSUME NEW b \in Entry, b.free, get_prot(b) = 0, NEW n \in Nat, n <= b.size
  PROVE  LET c == Cut(b, n) IN
         /\ Fills(c, b.at, EndOf(b))
         /\ ~c[1].free /\ Data(c[1]) = Data(b) /\ c[1].size >= n
         /\ \A i \in 1 .. Len(c) : i # 1 => c[i].free
<1>1. /\ b.at \in Nat /\ b.size \in Nat /\ HEADER \in Nat \ {0} /\ MIN_ENTRY_SIZE \in Nat
      /\ Data(b) \in Nat /\ Data(b) = b.at + HEADER /\ EndOf(b) = b.at + HEADER + b.size
  BY EntryFacts, HeapAssumption
<1> DEFINE used == [b EXCEPT !.free = FALSE]
<1>2. /\ used \in Entry /\ used.at = b.at /\ used.size = b.size /\ ~used.free
      /\ get_prot(used) = 0
  BY Marked
<1> HIDE DEF used
<1>3. CASE ~HasOverflow(b.size, n)
  <2>1. Cut(b, n) = <<used>>
    BY <1>3 DEF Cut, used
  <2>2. Data(used) = Data(b) /\ EndOf(used) = EndOf(b)
    BY <1>2 DEF Data, EndOf
  <2>3. Fills(<<used>>, used.at, EndOf(used)) /\ Len(<<used>>) = 1 /\ <<used>>[1] = used
    BY <1>2, OneFills
  <2>4. \A i \in 1 .. 1 : i = 1
    OBVIOUS
  <2> QED
    BY <1>1, <1>2, <2>1, <2>2, <2>3, <2>4
<1>4. CASE HasOverflow(b.size, n)
  <2> DEFINE e == update_prot([used EXCEPT !.size = n])
             f == update_prot(Unsealed(Data(b) + n, b.size - n - HEADER, TRUE))
  <2>1. Cut(b, n) = <<e, f>>
    BY <1>4 DEF Cut, used
  <2>2. e \in Entry /\ e.at = used.at /\ e.size = n /\ e.free = used.free /\ get_prot(e) = 0
    BY <1>2, Resized
  <2>3. Data(b) + n \in Nat /\ b.size - n - HEADER \in Nat
    BY <1>1, <1>4 DEF HasOverflow
  <2>4. /\ f \in Entry /\ f.at = Data(b) + n /\ f.size = b.size - n - HEADER /\ f.free = TRUE
        /\ get_prot(f) = 0
    BY <2>3, Fresh
  <2> HIDE DEF e, f
  <2>5. Data(e) = Data(b) /\ EndOf(e) = f.at /\ EndOf(f) = EndOf(b) /\ ~e.free
    BY <1>1, <1>2, <2>2, <2>4 DEF Data, EndOf
  <2>6. /\ Fills(<<e, f>>, e.at, EndOf(f)) /\ Len(<<e, f>>) = 2
        /\ <<e, f>>[1] = e /\ <<e, f>>[2] = f
    BY <2>2, <2>4, <2>5, TwoFill
  <2>7. \A i \in 1 .. 2 : i = 1 \/ i = 2
    OBVIOUS
  <2> QED
    BY <1>1, <1>2, <2>1, <2>2, <2>4, <2>5, <2>6, <2>7
<1> QED
  BY <1>3, <1>4

(* A free entry in front of one that is not.                               *)
LEMMA InFront ==
  ASSUME NEW f \in Entry, f.free, get_prot(f) = 0,
         NEW c, NEW to, Fills(c, EndOf(f), to), ~c[1].free
  PROVE  /\ Fills(<<f>> \o c, f.at, to)
         /\ Len(<<f>> \o c) = Len(c) + 1
         /\ (<<f>> \o c)[1] = f
         /\ \A i \in 1 .. Len(c) : (<<f>> \o c)[i + 1] = c[i]
<1> DEFINE s == <<f>> \o c
           k == Len(c)
<1>1. c \in Seq(Entry) /\ k \in Nat /\ k > 0 /\ <<f>> \in Seq(Entry) /\ Len(<<f>>) = 1 /\ <<f>>[1] = f
  BY LenProperties DEF Fills
<1>2. /\ s \in Seq(Entry) /\ Len(s) = 1 + k
      /\ \A i \in 1 .. 1 + k : s[i] = IF i <= 1 THEN <<f>>[i] ELSE c[i - 1]
  <2>1. /\ s \in Seq(Entry) /\ Len(s) = Len(<<f>>) + Len(c)
        /\ \A i \in 1 .. Len(<<f>>) + Len(c) :
             s[i] = IF i <= Len(<<f>>) THEN <<f>>[i] ELSE c[i - Len(<<f>>)]
    BY ONLY <1>1, ConcatProperties
  <2> HIDE DEF s
  <2> QED
    BY <1>1, <2>1
<1>3. /\ \A i \in 1 .. k - 1 : c[i + 1].at = EndOf(c[i]) /\ ~(c[i].free /\ c[i + 1].free)
      /\ \A i \in 1 .. k : get_prot(c[i]) = 0
      /\ c[1].at = EndOf(f) /\ EndOf(c[k]) = to
  BY DEF Fills, Tiles, Merged, Sealed
<1> HIDE DEF s, k
<1>4. s[1] = f /\ \A i \in 1 .. k : s[i + 1] = c[i]
  <2>1. 1 \in 1 .. 1 + k
    BY <1>1
  <2>2. s[1] = f
    BY <1>1, <1>2, <2>1
  <2>3. ASSUME NEW i \in 1 .. k
        PROVE  s[i + 1] = c[i]
    <3>1. i + 1 \in 1 .. 1 + k /\ ~(i + 1 <= 1) /\ (i + 1) - 1 = i
      BY <1>1
    <3>2. s[i + 1] = c[(i + 1) - 1]
      BY <1>2, <3>1
    <3> QED
      BY <3>1, <3>2
  <2> QED
    BY <2>2, <2>3
<1>5. ASSUME NEW i \in 1 .. Len(s) - 1
      PROVE  s[i + 1].at = EndOf(s[i]) /\ ~(s[i].free /\ s[i + 1].free)
  <2>1. CASE i = 1
    <3>1. s[i + 1] = c[1] /\ s[i] = f
      BY <1>1, <1>4, <2>1
    <3> QED
      BY <1>3, <3>1
  <2>2. CASE i # 1
    <3> DEFINE j == i - 1
    <3>1. j \in 1 .. k - 1 /\ j \in 1 .. k /\ j + 1 \in 1 .. k /\ j + 1 = i
      BY <1>1, <1>2, <2>2
    <3> HIDE DEF j
    <3>2. s[j + 1] = c[j] /\ s[(j + 1) + 1] = c[j + 1]
      BY <1>4, <3>1
    <3> QED
      BY <1>3, <3>1, <3>2
  <2> QED
    BY <2>1, <2>2
<1>6. ASSUME NEW i \in 1 .. Len(s)
      PROVE  get_prot(s[i]) = 0
  <2>1. CASE i = 1
    BY <1>4, <2>1
  <2>2. CASE i # 1
    <3> DEFINE j == i - 1
    <3>1. j \in 1 .. k /\ j + 1 = i
      BY <1>1, <1>2, <2>2
    <3> HIDE DEF j
    <3>2. s[j + 1] = c[j]
      BY <1>4, <3>1
    <3> QED
      BY <1>3, <3>1, <3>2
  <2> QED
    BY <2>1, <2>2
<1>7. Len(s) = k + 1 /\ Len(s) > 0 /\ s[Len(s)] = c[k]
  <2>1. Len(s) = k + 1 /\ k \in 1 .. k
    BY <1>1, <1>2
  <2>2. s[k + 1] = c[k]
    BY <1>4, <2>1
  <2> QED
    BY <1>1, <2>1, <2>2
<1>8. Fills(s, f.at, to)
  BY <1>2, <1>3, <1>4, <1>5, <1>6, <1>7 DEF Fills, Tiles, Merged, Sealed
<1> QED
  BY <1>4, <1>7, <1>8 DEF s, k

(* What a free entry becomes when a block is taken from it: as much        *)
(* memory, and one used entry, the block's.                                *)
LEMMA Serving ==
  ASSUME NEW e \in Entry, e.free, get_prot(e) = 0, NEW n \in Nat, NEW o \in Nat,
         o = 0 \/ o >= HEADER + MIN_ENTRY_SIZE, o + n <= e.size
  PROVE  LET new == Front(e, o) \o Cut(Body(e, o), n) IN
         /\ Fills(new, e.at, EndOf(e))
         /\ \E u : /\ Data(u) = Data(e) + o /\ u.size >= n
                   /\ \A x : x \in Used(new) <=> x = u
<1> DEFINE b == Body(e, o)
           c == Cut(b, n)
           new == Front(e, o) \o c
<1>1. /\ e.at \in Nat /\ e.size \in Nat /\ HEADER \in Nat \ {0} /\ MIN_ENTRY_SIZE \in Nat
      /\ Data(e) = e.at + HEADER /\ EndOf(e) = e.at + HEADER + e.size
  BY EntryFacts, HeapAssumption
<1>2. /\ b \in Entry /\ b.free /\ get_prot(b) = 0 /\ b.at = e.at + o /\ b.size = e.size - o
  <2>1. CASE o = 0
    <3>1. b = e
      BY <2>1 DEF Body
    <3> HIDE DEF b
    <3> QED
      BY <1>1, <2>1, <3>1
  <2>2. CASE o # 0
    <3> DEFINE at == e.at + o
               size == e.size - o
    <3>1. at \in Nat /\ size \in Nat /\ TRUE \in BOOLEAN
      <4>1. e.at \in Nat /\ e.size \in Nat /\ o \in Nat /\ n \in Nat /\ o + n <= e.size
        BY <1>1
      <4> QED
        BY ONLY <4>1
    <3>2. b = update_prot(Unsealed(at, size, TRUE))
      BY <2>2 DEF Body
    <3> HIDE DEF at, size, b
    <3>3. b \in Entry /\ b.at = at /\ b.size = size /\ b.free = TRUE /\ get_prot(b) = 0
      <4>1. LET f == update_prot(Unsealed(at, size, TRUE)) IN
            f \in Entry /\ f.at = at /\ f.size = size /\ f.free = TRUE /\ get_prot(f) = 0
        BY ONLY <3>1, Fresh
      <4> QED
        BY ONLY <3>2, <4>1
    <3>4. b.at = e.at + o /\ b.size = e.size - o
      BY <3>3 DEF at, size
    <3> QED
      BY <3>3, <3>4
  <2> QED
    BY <2>1, <2>2
<1>3. n <= b.size /\ Data(b) = Data(e) + o /\ EndOf(b) = EndOf(e)
  <2> HIDE DEF b
  <2> QED
    BY <1>1, <1>2 DEF Data, EndOf
<1> HIDE DEF b
<1>4. /\ Fills(c, b.at, EndOf(b))
      /\ ~c[1].free /\ Data(c[1]) = Data(b) /\ c[1].size >= n
      /\ \A i \in 1 .. Len(c) : i # 1 => c[i].free
  BY <1>2, <1>3, Cutting
<1> HIDE DEF c
<1>5. c \in Seq(Entry) /\ Len(c) \in Nat /\ Len(c) > 0 /\ 1 \in 1 .. Len(c)
  BY <1>4, LenProperties DEF Fills
<1>6. \A x : x \in Used(c) <=> x = c[1]
  BY <1>4, <1>5 DEF Used
<1>7. ASSUME o = 0
      PROVE  /\ Fills(new, e.at, EndOf(e))
             /\ \E u : /\ Data(u) = Data(e) + o /\ u.size >= n
                       /\ \A x : x \in Used(new) <=> x = u
  <2>1. <<>> \o c = c
    BY <1>5, ConcatEmptySeq
  <2>2. new = c
    BY <1>7, <2>1 DEF Front
  <2> HIDE DEF new
  <2>3. b.at = e.at
    BY <1>1, <1>2, <1>7
  <2>4. Fills(new, e.at, EndOf(e))
    BY <1>3, <1>4, <2>2, <2>3
  <2> QED
    BY <1>3, <1>4, <1>6, <2>2, <2>4
<1>8. ASSUME o # 0
      PROVE  /\ Fills(new, e.at, EndOf(e))
             /\ \E u : /\ Data(u) = Data(e) + o /\ u.size >= n
                       /\ \A x : x \in Used(new) <=> x = u
  <2> DEFINE size == o - HEADER
             f == update_prot([e EXCEPT !.size = size])
  <2>1. size \in Nat /\ size + HEADER = o
    BY <1>1, <1>8
  <2>2. new = <<f>> \o c
    BY <1>8 DEF Front
  <2> HIDE DEF size
  <2>3. f \in Entry /\ f.at = e.at /\ f.size = size /\ f.free = e.free /\ get_prot(f) = 0
    BY <2>1, Resized
  <2> HIDE DEF f, new
  <2>4. EndOf(f) = b.at /\ f.free
    BY <1>1, <1>2, <2>1, <2>3 DEF EndOf
  <2>5. Fills(c, EndOf(f), EndOf(b))
    BY <1>4, <2>4
  <2>6. /\ Fills(new, f.at, EndOf(b))
        /\ Len(new) = Len(c) + 1
        /\ new[1] = f
        /\ \A i \in 1 .. Len(c) : new[i + 1] = c[i]
    BY <1>4, <2>2, <2>3, <2>4, <2>5, InFront
  <2>7. ASSUME NEW x, x \in Used(new)
        PROVE  x \in Used(c)
    <3>1. PICK i \in 1 .. Len(new) : x = new[i] /\ ~new[i].free
      BY <2>7 DEF Used
    <3> DEFINE j == i - 1
    <3>2. j \in 1 .. Len(c) /\ j + 1 = i
      BY <1>5, <2>4, <2>6, <3>1
    <3> HIDE DEF j
    <3>3. new[j + 1] = c[j]
      BY <2>6, <3>2
    <3> QED
      BY <3>1, <3>2, <3>3 DEF Used
  <2>8. c[1] \in Used(new)
    <3>1. 1 + 1 \in 1 .. Len(new) /\ new[1 + 1] = c[1]
      BY <1>5, <2>6
    <3> QED
      BY <1>4, <3>1 DEF Used
  <2>9. \A x : x \in Used(new) <=> x = c[1]
    BY <1>6, <2>7, <2>8
  <2>10. Fills(new, e.at, EndOf(e))
    BY <1>3, <2>3, <2>6
  <2> QED
    BY <1>3, <1>4, <2>9, <2>10
<1> QED
  BY <1>7, <1>8 DEF c, b

(* Where a block fits, it fits behind the smallest offset.                 *)
LEMMA Offsetting ==
  ASSUME NEW e \in Entry, NEW r \in Requests, Fits(e, r)
  PROVE  LET o == Offset(e, r.alignment) IN
         /\ o \in Nat /\ (Data(e) + o) % r.alignment = 0
         /\ o = 0 \/ o >= HEADER + MIN_ENTRY_SIZE
         /\ o + r.size <= e.size
<1> DEFINE T == Offsets(e, r.alignment)
           o == Offset(e, r.alignment)
<1>1. e.size \in Nat /\ r.size \in Nat
  BY EntryFacts, HeapAssumption
<1>2. PICK x \in T : e.size >= x + r.size
  BY DEF Fits
<1>3. T \in SUBSET Nat
  BY <1>1 DEF Offsets
<1>4. \E y \in T : \A z \in T : y <= z
  BY <1>2, <1>3, Least
<1>5. o \in T /\ \A z \in T : o <= z
  BY <1>4 DEF Offset
<1>6. o \in Nat /\ x \in Nat /\ o <= x
  BY <1>2, <1>3, <1>5
<1> HIDE DEF o
<1>7. o + r.size <= e.size
  BY <1>1, <1>2, <1>6
<1> QED
  BY <1>5, <1>6, <1>7 DEF Offsets, o

-----------------------------------------------------------------------------
(* The list and its neighbours                                             *)

LEMMA Neighbours ==
  ASSUME NEW lo, NEW hi, Fills(entries, lo, hi), NEW i \in 1 .. Len(entries), entries[i].free
  PROVE  /\ i = 1 \/ ~entries[i - 1].free
         /\ i = Len(entries) \/ ~entries[i + 1].free
<1>1. Len(entries) \in Nat
  BY LenProperties DEF Fills
<1>2. \A n \in 1 .. Len(entries) - 1 : ~(entries[n].free /\ entries[n + 1].free)
  BY DEF Fills, Merged
<1>3. i = 1 \/ ~entries[i - 1].free
  <2> SUFFICES ASSUME i # 1
               PROVE  ~entries[i - 1].free
    OBVIOUS
  <2>1. i - 1 \in 1 .. Len(entries) - 1 /\ (i - 1) + 1 = i
    BY <1>1
  <2>2. ~(entries[i - 1].free /\ entries[(i - 1) + 1].free)
    BY <1>2, <2>1
  <2> QED
    BY <2>1, <2>2
<1>4. i = Len(entries) \/ ~entries[i + 1].free
  BY <1>1, <1>2
<1> QED
  BY <1>3, <1>4

(* Data of other entries begin outside an entry.                           *)
LEMMA Apart ==
  ASSUME NEW s \in Seq(Entry), Tiles(s), NEW i \in 1 .. Len(s), NEW n \in 1 .. Len(s), n # i
  PROVE  Data(s[n]) <= s[i].at \/ EndOf(s[i]) < Data(s[n])
<1> DEFINE e == s[i]
           f == s[n]
<1>1. e \in Entry /\ f \in Entry /\ Len(s) \in Nat
  BY LenProperties, ElementOfSeq
<1>2. n < i => EndOf(f) <= e.at
  BY Ordered
<1>3. i < n => EndOf(e) <= f.at
  BY Ordered
<1> HIDE DEF e, f
<1>4. /\ EndOf(e) \in Nat /\ EndOf(f) \in Nat /\ Data(f) \in Nat /\ e.at \in Nat /\ f.at \in Nat
  BY <1>1, EntryFacts
<1>5. Data(f) <= EndOf(f) /\ f.at < Data(f)
  BY <1>1, EntryFacts
<1>6. n < i => Data(f) <= e.at
  BY <1>2, <1>4, <1>5
<1>7. i < n => EndOf(e) < Data(f)
  BY <1>3, <1>4, <1>5
<1>8. n < i \/ i < n
  BY <1>1
<1> QED
  BY <1>6, <1>7, <1>8 DEF e, f

LEMMA UsedFacts ==
  ASSUME NEW s \in Seq(Entry), Tiles(s)
  PROVE  /\ \A e \in Used(s) : e \in Entry /\ \E i \in 1 .. Len(s) : e = s[i] /\ ~s[i].free
         /\ \A e \in Used(s) : \A i \in 1 .. Len(s) : Data(s[i]) = Data(e) => s[i] = e /\ ~s[i].free
<1>1. ASSUME NEW e \in Used(s)
      PROVE  e \in Entry /\ \E i \in 1 .. Len(s) : e = s[i] /\ ~s[i].free
  <2>1. PICK i \in 1 .. Len(s) : e = s[i] /\ ~s[i].free
    BY DEF Used
  <2> QED
    BY <2>1, ElementOfSeq
<1>2. ASSUME NEW e \in Used(s), NEW i \in 1 .. Len(s), Data(s[i]) = Data(e)
      PROVE  s[i] = e /\ ~s[i].free
  <2>1. PICK j \in 1 .. Len(s) : e = s[j] /\ ~s[j].free
    BY <1>1
  <2>2. i = j
    BY <1>2, <2>1, Distinct
  <2> QED
    BY <2>1, <2>2
<1> QED
  BY <1>1, <1>2

-----------------------------------------------------------------------------
(* The steps                                                               *)

(* A refusal: every free entry is too small, and no two of them touch.     *)
LEMMA RefusedStep ==
  ASSUME IInv, NEW r \in Requests, refused = 0,
         \A i \in DOMAIN entries : ~(entries[i].free /\ Fits(entries[i], r)),
         refused' = r.size, UNCHANGED <<entries, live>>
  PROVE  IInv'
<1>1. /\ Fills(entries, BASE, BASE + SIZE) /\ Paired(Used(entries), live)
      /\ entries \in Seq(Entry) /\ Len(entries) \in Nat /\ Len(entries) > 0
      /\ DOMAIN entries = 1 .. Len(entries)
      /\ \A i \in 1 .. Len(entries) : entries[i] \in Entry
  BY LenProperties, ElementOfSeq DEF IInv, Fills
<1>2. r.size \in Nat \ {0} /\ BASE \in Nat /\ SIZE \in Nat /\ HEADER \in Nat \ {0}
  BY HeapAssumption
<1>3. ASSUME r.alignment = 1, NEW i \in 1 .. Len(entries), entries[i].free
      PROVE  entries[i].size < r.size
  <2> DEFINE e == entries[i]
  <2>1. e \in Entry /\ e.size \in Nat /\ Data(e) \in Nat
    BY <1>1, EntryFacts
  <2>2. ~Fits(e, r)
    BY <1>1, <1>3
  <2> HIDE DEF e
  <2>3. 0 \in Offsets(e, r.alignment)
    BY <1>3, <2>1 DEF Offsets
  <2>4. ~(e.size >= 0 + r.size)
    BY <2>2, <2>3 DEF Fits
  <2> QED
    BY <1>2, <2>1, <2>4 DEF e
<1>4. RefusedOnlyWhenFull'
  <2> DEFINE n == r.size
  <2> SUFFICES ASSUME r.alignment = 1,
                      NEW x \in BASE .. (BASE + SIZE) - (HEADER + n)
               PROVE  \E i \in DOMAIN entries :
                        /\ ~entries[i].free
                        /\ entries[i].at < x + HEADER + n /\ x < EndOf(entries[i])
    BY DEF RefusedOnlyWhenFull
  <2>1. n \in Nat /\ x \in Nat /\ x >= BASE /\ x + HEADER + n <= BASE + SIZE
    BY <1>2
  <2> HIDE DEF n
  <2> DEFINE T == {i \in 1 .. Len(entries) : x < EndOf(entries[i])}
  <2>2. entries[1].at = BASE /\ EndOf(entries[Len(entries)]) = BASE + SIZE
    BY <1>1 DEF Fills
  <2>3. Len(entries) \in T /\ T \in SUBSET Nat
    BY <1>1, <1>2, <2>1, <2>2
  <2>4. PICK i \in T : \A j \in T : i <= j
    BY <2>3, Least
  <2>5. i \in 1 .. Len(entries) /\ x < EndOf(entries[i]) /\ entries[i] \in Entry
    BY <1>1, <2>4
  <2>6. entries[i].at <= x
    <3>1. CASE i = 1
      BY <2>1, <2>2, <3>1
    <3>2. CASE i # 1
      <4>1. i - 1 \in 1 .. Len(entries) - 1 /\ i - 1 \in 1 .. Len(entries) /\ (i - 1) + 1 = i
        BY <1>1, <2>5, <3>2
      <4>2. i - 1 \notin T
        BY <2>4, <2>5
      <4>3. ~(x < EndOf(entries[i - 1]))
        BY <4>1, <4>2
      <4>4. entries[(i - 1) + 1].at = EndOf(entries[i - 1])
        BY <1>1, <4>1 DEF Fills, Tiles
      <4>5. entries[i].at \in Nat
        BY <2>5, EntryFacts
      <4> QED
        BY <2>1, <4>1, <4>3, <4>4, <4>5
    <3> QED
      BY <3>1, <3>2
  <2>7. entries[i].at \in Nat /\ EndOf(entries[i]) \in Nat
    BY <2>5, EntryFacts
  <2>8. CASE ~entries[i].free
    BY <1>1, <1>2, <2>1, <2>5, <2>6, <2>7, <2>8
  <2>9. CASE entries[i].free
    <3>1. EndOf(entries[i]) < x + HEADER + n
      <4>1. entries[i].size \in Nat /\ EndOf(entries[i]) = entries[i].at + HEADER + entries[i].size
        BY <2>5, EntryFacts
      <4>2. entries[i].size < n
        BY <1>3, <2>5, <2>9 DEF n
      <4> QED
        BY <1>2, <2>1, <2>6, <2>7, <4>1, <4>2
    <3>2. i # Len(entries)
      <4> SUFFICES ASSUME i = Len(entries)
                   PROVE  FALSE
        OBVIOUS
      <4>1. EndOf(entries[i]) = BASE + SIZE
        BY <2>2
      <4>2. BASE + SIZE < x + HEADER + n
        BY <3>1, <4>1
      <4>3. BASE + SIZE \in Nat /\ x + HEADER + n \in Nat
        BY <1>2, <2>1
      <4> QED
        BY ONLY <2>1, <4>2, <4>3
    <3>3. i + 1 \in 1 .. Len(entries) /\ i \in 1 .. Len(entries) - 1
      <4>1. Len(entries) \in Nat /\ i \in 1 .. Len(entries)
        BY <1>1, <2>5
      <4> QED
        BY ONLY <3>2, <4>1
    <3>4. ~entries[i + 1].free
      BY <1>1, <2>5, <2>9, <3>2, Neighbours
    <3>5. entries[i + 1].at = EndOf(entries[i]) /\ entries[i + 1] \in Entry
      BY <1>1, <3>3 DEF Fills, Tiles
    <3>6. entries[i + 1].at < EndOf(entries[i + 1]) /\ EndOf(entries[i + 1]) \in Nat
      BY <3>5, EntryFacts
    <3>7. entries[i + 1].at < x + HEADER + n /\ x < EndOf(entries[i + 1])
      BY <2>1, <2>5, <2>7, <3>1, <3>5, <3>6
    <3> QED
      BY <1>1, <3>3, <3>4, <3>7
  <2> QED
    BY <2>8, <2>9
<1> QED
  BY <1>1, <1>2, <1>4 DEF IInv

(* A block is taken from a free entry.                                     *)
LEMMA ServedStep ==
  ASSUME IInv, NEW r \in Requests, NEW i \in 1 .. Len(entries), entries[i].free,
         Fits(entries[i], r), refused = 0, refused' = 0,
         LET e == entries[i]
             o == Offset(e, r.alignment)
         IN /\ entries' = Splice(i, i, Front(e, o) \o Cut(Body(e, o), r.size))
            /\ live' = live \cup {[address |-> Data(e) + o, size |-> r.size,
                                   alignment |-> r.alignment]}
  PROVE  IInv' /\ Used(entries) \subseteq Used(entries')
<1> DEFINE e == entries[i]
           o == Offset(e, r.alignment)
           new == Front(e, o) \o Cut(Body(e, o), r.size)
           block == [address |-> Data(e) + o, size |-> r.size, alignment |-> r.alignment]
<1>1. /\ Fills(entries, BASE, BASE + SIZE) /\ Paired(Used(entries), live)
      /\ entries \in Seq(Entry) /\ Tiles(entries) /\ Len(entries) \in Nat
      /\ i \in i .. Len(entries)
      /\ entries' = Splice(i, i, new) /\ live' = live \cup {block}
  BY LenProperties DEF IInv, Fills
<1>2. e \in Entry /\ e.free /\ get_prot(e) = 0
  BY <1>1, ElementOfSeq DEF Fills, Sealed
<1>3. /\ r.size \in Nat /\ r.alignment \in Nat
      /\ e.at \in Nat /\ e.size \in Nat /\ Data(e) \in Nat /\ EndOf(e) \in Nat
      /\ Data(e) = e.at + HEADER /\ EndOf(e) = e.at + HEADER + e.size /\ HEADER \in Nat \ {0}
  <2>1. r.size \in Nat /\ r.alignment \in Nat
    BY HeapAssumption
  <2> HIDE DEF e
  <2> QED
    BY <1>2, <2>1, EntryFacts
<1>4. /\ o \in Nat /\ (Data(e) + o) % r.alignment = 0
      /\ o = 0 \/ o >= HEADER + MIN_ENTRY_SIZE
      /\ o + r.size <= e.size
  <2> HIDE DEF e
  <2>1. Fits(e, r)
    BY DEF e
  <2> QED
    BY <1>2, <2>1, Offsetting
<1>5. /\ i = 1 \/ ~entries[i - 1].free
      /\ i = Len(entries) \/ ~entries[i + 1].free
  BY <1>1, Neighbours
<1> HIDE DEF o
<1>6. /\ Fills(new, e.at, EndOf(e))
      /\ \E u : /\ Data(u) = Data(e) + o /\ u.size >= r.size
                /\ \A x : x \in Used(new) <=> x = u
  <2> HIDE DEF e
  <2> QED
    BY <1>2, <1>3, <1>4, Serving
<1>7. PICK u : /\ Data(u) = Data(e) + o /\ u.size >= r.size
               /\ \A x : x \in Used(new) <=> x = u
  BY <1>6
<1> HIDE DEF new
<1>8. Fills(entries', BASE, BASE + SIZE)
  BY <1>1, <1>5, <1>6, Replaced
<1>9. \A x : x \in Used(entries') <=> x = u \/ x \in Used(entries)
  <2>1. \A x : x \in Used(entries') <=>
                  \/ x \in Used(new)
                  \/ \E n \in 1 .. Len(entries) : n \notin i .. i /\ ~entries[n].free /\ x = entries[n]
    <3>1. new \in Seq(Entry)
      BY <1>6 DEF Fills
    <3> QED
      BY <1>1, <3>1, UsedAfter
  <2>2. \A n \in 1 .. Len(entries) : n \notin i .. i <=> n # i
    OBVIOUS
  <2>3. \A x : x \in Used(entries) <=>
                  \E n \in 1 .. Len(entries) : n # i /\ ~entries[n].free /\ x = entries[n]
    BY DEF Used
  <2> QED
    BY <1>7, <2>1, <2>2, <2>3
<1>10. \A x \in Used(entries) : Data(x) # Data(u)
  <2> SUFFICES ASSUME NEW x \in Used(entries)
               PROVE  Data(x) # Data(u)
    OBVIOUS
  <2>1. PICK n \in 1 .. Len(entries) : x = entries[n] /\ ~entries[n].free
    BY DEF Used
  <2>2. n # i
    BY <2>1
  <2>3. Data(x) <= e.at \/ EndOf(e) < Data(x)
    BY <1>1, <2>1, <2>2, Apart
  <2>4. x \in Entry /\ Data(x) \in Nat
    BY <1>1, <2>1, ElementOfSeq, EntryFacts
  <2> HIDE DEF e
  <2>5. e.at < Data(e) + o /\ Data(e) + o <= EndOf(e)
    <3>1. /\ e.at \in Nat /\ e.size \in Nat /\ HEADER \in Nat \ {0} /\ r.size \in Nat
          /\ Data(e) = e.at + HEADER /\ EndOf(e) = e.at + HEADER + e.size
      BY <1>3
    <3>2. o + r.size <= e.size /\ o \in Nat
      BY <1>4
    <3> QED
      BY ONLY <3>1, <3>2
  <2>6. e.at \in Nat /\ EndOf(e) \in Nat /\ Data(e) + o \in Nat /\ Data(u) = Data(e) + o
    BY <1>3, <1>4, <1>7, EntryFacts
  <2> QED
    BY ONLY <2>3, <2>4, <2>5, <2>6
<1>11. block \in Block /\ block.address = Data(u) /\ block.size = r.size /\ block.alignment = r.alignment
  <2> HIDE DEF e
  <2>1. Data(e) + o \in Nat /\ r.size \in Nat /\ r.alignment \in Nat
    BY <1>3, <1>4
  <2>2. Data(u) = Data(e) + o
    BY <1>7
  <2> QED
    BY ONLY <2>1, <2>2 DEF Block
<1>12. block.address % block.alignment = 0
  BY <1>4
<1> HIDE DEF block, e
<1>13. Paired(Used(entries'), live')
  <2>1. ASSUME NEW b \in live'
        PROVE  /\ b \in Block /\ b.address % b.alignment = 0
               /\ \E x \in Used(entries') : Data(x) = b.address /\ x.size >= b.size
    <3>1. CASE b = block
      BY <1>7, <1>9, <1>11, <1>12, <3>1
    <3>2. CASE b \in live
      BY <1>1, <1>9, <3>2 DEF Paired
    <3> QED
      BY <1>1, <3>1, <3>2
  <2>2. ASSUME NEW x \in Used(entries')
        PROVE  \E b \in live' : b.address = Data(x)
    <3>1. CASE x = u
      BY <1>1, <1>11, <3>1
    <3>2. CASE x \in Used(entries)
      BY <1>1, <3>2 DEF Paired
    <3> QED
      BY <1>9, <3>1, <3>2
  <2>3. ASSUME NEW b \in live
        PROVE  b.address # block.address
    <3>1. PICK x \in Used(entries) : Data(x) = b.address
      BY <1>1 DEF Paired
    <3> QED
      BY <1>10, <1>11, <3>1
  <2>4. ASSUME NEW b \in live', NEW c \in live', b.address = c.address
        PROVE  b = c
    BY <1>1, <2>3, <2>4 DEF Paired
  <2> QED
    BY <2>1, <2>2, <2>4 DEF Paired
<1>14. RefusedOnlyWhenFull' /\ refused' \in Nat
  BY DEF RefusedOnlyWhenFull
<1> QED
  BY <1>8, <1>9, <1>13, <1>14 DEF IInv

(* An entry takes over the one behind it.                                  *)
LEMMA Joining ==
  ASSUME NEW e \in Entry, NEW f \in Entry, f.at = EndOf(e)
  PROVE  LET g == Joined(e, f) IN
         /\ g \in Entry /\ g.at = e.at /\ EndOf(g) = EndOf(f) /\ g.free = e.free
         /\ get_prot(g) = 0
<1> DEFINE size == e.size + HEADER + f.size
           g == Joined(e, f)
<1>1. /\ e.at \in Nat /\ e.size \in Nat /\ f.at \in Nat /\ f.size \in Nat /\ HEADER \in Nat
      /\ EndOf(e) = e.at + HEADER + e.size /\ EndOf(f) = f.at + HEADER + f.size
  <2>1. e.at \in Nat /\ e.size \in Nat /\ HEADER \in Nat /\ EndOf(e) = e.at + HEADER + e.size
    BY EntryFacts
  <2>2. f.at \in Nat /\ f.size \in Nat /\ EndOf(f) = f.at + HEADER + f.size
    BY EntryFacts
  <2> QED
    BY <2>1, <2>2
<1>2. size \in Nat
  BY <1>1
<1>3. g = update_prot([e EXCEPT !.size = size])
  BY DEF Joined
<1> HIDE DEF size, g
<1>4. g \in Entry /\ g.at = e.at /\ g.size = size /\ g.free = e.free /\ get_prot(g) = 0
  BY <1>2, <1>3, Resized
<1>5. EndOf(g) = EndOf(f)
  <2>1. EndOf(g) = g.at + HEADER + g.size
    BY DEF EndOf
  <2>2. EndOf(g) = e.at + HEADER + (e.size + HEADER + f.size)
    BY <1>4, <2>1 DEF size
  <2> QED
    BY <1>1, <2>2
<1> QED
  BY <1>4, <1>5 DEF g

(* A block is given back: its entry and its free neighbours become one.    *)
LEMMA FreeStep ==
  ASSUME IInv, NEW b \in live, heap_free(b)
  PROVE  IInv' /\ \A e \in Used(entries) : Data(e) = b.address \/ e \in Used(entries')
<1>1. /\ Fills(entries, BASE, BASE + SIZE) /\ Paired(Used(entries), live)
      /\ entries \in Seq(Entry) /\ Tiles(entries) /\ Len(entries) \in Nat
      /\ DOMAIN entries = 1 .. Len(entries)
      /\ \A n \in 1 .. Len(entries) : entries[n] \in Entry
      /\ live' = live \ {b} /\ refused = 0 /\ refused' = 0
  BY LenProperties, ElementOfSeq DEF IInv, Fills, heap_free
<1>2. PICK i \in 1 .. Len(entries) :
        LET first == IF MergesPrevious(i) THEN i - 1 ELSE i
            last == IF MergesNext(i) THEN i + 1 ELSE i
            own == [entries[i] EXCEPT !.free = TRUE]
            grown == IF last > i THEN Joined(own, entries[last]) ELSE own
            all == IF first < i THEN Joined(entries[first], grown) ELSE grown
        IN /\ Data(entries[i]) = b.address
           /\ get_prot(entries[i]) = 0
           /\ entries' = Splice(first, last, <<all>>)
  BY <1>1 DEF heap_free
<1> DEFINE first == IF MergesPrevious(i) THEN i - 1 ELSE i
           last == IF MergesNext(i) THEN i + 1 ELSE i
           own == [entries[i] EXCEPT !.free = TRUE]
           grown == IF last > i THEN Joined(own, entries[last]) ELSE own
           all == IF first < i THEN Joined(entries[first], grown) ELSE grown
<1>3. Data(entries[i]) = b.address /\ get_prot(entries[i]) = 0 /\ entries' = Splice(first, last, <<all>>)
  BY <1>2
<1> DEFINE L == Len(entries)
<1>4. L \in Nat /\ i \in Nat /\ 1 <= i /\ i <= L
  BY <1>1
<1>5. \/ first = i /\ (i = 1 \/ ~entries[i - 1].free)
      \/ first = i - 1 /\ i > 1 /\ entries[i - 1].free
  <2>1. CASE i > 1 /\ entries[i - 1].free
    BY <2>1 DEF MergesPrevious
  <2>2. CASE ~(i > 1 /\ entries[i - 1].free)
    <3>1. first = i
      BY <2>2 DEF MergesPrevious
    <3>2. i > 1 \/ i = 1
      BY ONLY <1>4
    <3> QED
      BY ONLY <3>1, <3>2, <2>2
  <2> QED
    BY <2>1, <2>2
<1>6. \/ last = i /\ (i = L \/ ~entries[i + 1].free)
      \/ last = i + 1 /\ i < L /\ entries[i + 1].free
  <2>1. CASE i < L /\ entries[i + 1].free
    BY <2>1 DEF MergesNext
  <2>2. CASE ~(i < L /\ entries[i + 1].free)
    <3>1. last = i
      BY <2>2 DEF MergesNext
    <3>2. i < L \/ i = L
      BY ONLY <1>4
    <3> QED
      BY ONLY <3>1, <3>2, <2>2
  <2> QED
    BY <2>1, <2>2
<1> HIDE DEF first, last
<1>7. first \in Nat /\ last \in Nat /\ 1 <= first /\ first <= i /\ i <= last /\ last <= L
  BY ONLY <1>4, <1>5, <1>6
<1>8. /\ first \in 1 .. L /\ last \in first .. L /\ last \in 1 .. L /\ i \in first .. last
      /\ first = i \/ (first = i - 1 /\ i > 1 /\ entries[first].free)
      /\ last = i \/ (last = i + 1 /\ i < L /\ entries[last].free)
      /\ first = i => i = 1 \/ ~entries[i - 1].free
      /\ last = i => i = L \/ ~entries[i + 1].free
  <2>1. /\ first \in 1 .. L /\ last \in first .. L /\ last \in 1 .. L /\ i \in first .. last
    BY ONLY <1>4, <1>7
  <2>2. i - 1 # i /\ i + 1 # i
    BY ONLY <1>4
  <2> HIDE DEF L
  <2>3. first = i \/ (first = i - 1 /\ i > 1 /\ entries[first].free)
    BY ONLY <1>5
  <2>4. last = i \/ (last = i + 1 /\ i < L /\ entries[last].free)
    BY ONLY <1>6
  <2>5. first = i => i = 1 \/ ~entries[i - 1].free
    BY ONLY <1>5, <2>2
  <2>6. last = i => i = L \/ ~entries[i + 1].free
    BY ONLY <1>6, <2>2
  <2> QED
    BY ONLY <2>1, <2>3, <2>4, <2>5, <2>6
<1>9. \A n \in first .. last : n # i => entries[n].free
  <2> SUFFICES ASSUME NEW n \in first .. last, n # i
               PROVE  entries[n].free
    OBVIOUS
  <2>1. (n = first /\ first = i - 1) \/ (n = last /\ last = i + 1)
    <3>1. first = i \/ first = i - 1
      BY ONLY <1>5
    <3>2. last = i \/ last = i + 1
      BY ONLY <1>6
    <3>3. n \in first .. last /\ n # i
      OBVIOUS
    <3> QED
      BY ONLY <1>4, <1>7, <3>1, <3>2, <3>3
  <2>2. i - 1 # i /\ i + 1 # i
    BY ONLY <1>4
  <2> QED
    BY ONLY <1>8, <2>1, <2>2
<1>10. /\ first = 1 \/ ~entries[first - 1].free
       /\ last = L \/ ~entries[last + 1].free
  <2>1. \A n \in 1 .. L : entries[n].free =>
          /\ n = 1 \/ ~entries[n - 1].free
          /\ n = L \/ ~entries[n + 1].free
    BY <1>1, Neighbours
  <2> QED
    BY ONLY <1>8, <2>1
<1>11. /\ entries[i] \in Entry /\ entries[first] \in Entry /\ entries[last] \in Entry
       /\ last # i => entries[last].at = EndOf(entries[i])
       /\ first # i => entries[i].at = EndOf(entries[first])
  <2>1. \A n \in 1 .. L - 1 : entries[n + 1].at = EndOf(entries[n])
    BY <1>1 DEF Tiles
  <2>2. last # i => entries[last].at = EndOf(entries[i])
    <3> SUFFICES ASSUME last # i
                 PROVE  entries[last].at = EndOf(entries[i])
      OBVIOUS
    <3>1. last = i + 1
      BY ONLY <1>8, last # i
    <3>2. i \in 1 .. L - 1
      BY ONLY <1>4, <1>7, <3>1
    <3> QED
      BY ONLY <2>1, <3>1, <3>2
  <2>3. first # i => entries[i].at = EndOf(entries[first])
    <3> SUFFICES ASSUME first # i
                 PROVE  entries[i].at = EndOf(entries[first])
      OBVIOUS
    <3>1. first = i - 1
      BY ONLY <1>8, first # i
    <3>2. first \in 1 .. L - 1 /\ first + 1 = i
      BY ONLY <1>4, <1>7, <3>1
    <3>3. entries[first + 1].at = EndOf(entries[first])
      BY ONLY <2>1, <3>2
    <3> QED
      BY ONLY <3>2, <3>3
  <2>4. \A n \in 1 .. L : entries[n] \in Entry
    BY <1>1
  <2>5. entries[i] \in Entry /\ entries[first] \in Entry /\ entries[last] \in Entry
    <3>1. i \in 1 .. L
      BY ONLY <1>4
    <3> QED
      BY ONLY <1>8, <2>4, <3>1
  <2> QED
    BY ONLY <2>2, <2>3, <2>5
<1>12. /\ own \in Entry /\ own.at = entries[i].at /\ EndOf(own) = EndOf(entries[i]) /\ own.free
       /\ get_prot(own) = 0
  <2>1. /\ own \in Entry /\ own.at = entries[i].at /\ own.size = entries[i].size /\ own.free
        /\ get_prot(own) = 0
    BY <1>3, <1>11, Marked
  <2> QED
    BY <2>1 DEF EndOf
<1>13. (last > i <=> last # i) /\ (first < i <=> first # i)
  BY ONLY <1>4, <1>7
<1> HIDE DEF own
<1>14. /\ grown \in Entry /\ grown.at = entries[i].at /\ EndOf(grown) = EndOf(entries[last])
       /\ grown.free /\ get_prot(grown) = 0
  <2>1. CASE last = i
    BY <1>12, <1>13, <2>1
  <2>2. CASE last # i
    <3>1. grown = Joined(own, entries[last])
      BY <1>13, <2>2
    <3> HIDE DEF grown
    <3>2. entries[last].at = EndOf(own)
      BY <1>11, <1>12, <2>2
    <3> QED
      BY <1>11, <1>12, <3>1, <3>2, Joining
  <2> QED
    BY <2>1, <2>2
<1> HIDE DEF grown
<1>15. /\ all \in Entry /\ all.at = entries[first].at /\ EndOf(all) = EndOf(entries[last])
       /\ all.free /\ get_prot(all) = 0
  <2>1. CASE first = i
    BY <1>13, <1>14, <2>1
  <2>2. CASE first # i
    <3>1. all = Joined(entries[first], grown) /\ entries[first].free
      BY <1>8, <1>13, <2>2
    <3> HIDE DEF all
    <3>2. grown.at = EndOf(entries[first])
      BY <1>11, <1>14, <2>2
    <3> QED
      BY <1>11, <1>14, <3>1, <3>2, Joining
  <2> QED
    BY <2>1, <2>2
<1> HIDE DEF all
<1>16. /\ Fills(<<all>>, entries[first].at, EndOf(entries[last]))
       /\ Len(<<all>>) = 1 /\ <<all>>[1] = all /\ <<all>> \in Seq(Entry)
  <2>1. Fills(<<all>>, all.at, EndOf(all)) /\ Len(<<all>>) = 1 /\ <<all>>[1] = all
    BY <1>15, OneFills
  <2> QED
    BY <1>15, <2>1 DEF Fills
<1>17. /\ entries \in Seq(Entry) /\ first \in 1 .. Len(entries) /\ last \in first .. Len(entries)
       /\ entries' = Splice(first, last, <<all>>)
  BY ONLY <1>1, <1>3, <1>8
<1>18. Fills(entries', BASE, BASE + SIZE)
  <2>1. /\ Fills(entries, BASE, BASE + SIZE) /\ Fills(<<all>>, entries[first].at, EndOf(entries[last]))
        /\ first = 1 \/ ~entries[first - 1].free
        /\ last = Len(entries) \/ ~entries[last + 1].free
    BY <1>1, <1>10, <1>16
  <2> QED
    BY <1>17, <2>1, Replaced
<1>19. ~entries[i].free
  <2>1. PICK e \in Used(entries) : Data(e) = b.address
    BY <1>1 DEF Paired
  <2> QED
    BY <1>1, <1>3, <2>1, UsedFacts
<1>20. \A e : e \in Used(entries') <=> e \in Used(entries) /\ e # entries[i]
  <2>1. \A e : e \in Used(entries') <=>
                  \/ e \in Used(<<all>>)
                  \/ \E n \in 1 .. Len(entries) : n \notin first .. last /\ ~entries[n].free /\ e = entries[n]
    <3> DEFINE new == <<all>>
    <3>1. new \in Seq(Entry)
      BY <1>16
    <3>2. entries \in Seq(Entry) /\ first \in 1 .. Len(entries) /\ last \in first .. Len(entries)
      BY <1>17
    <3> HIDE DEF new
    <3>3. \A e : e \in Used(Splice(first, last, new)) <=>
                    \/ e \in Used(new)
                    \/ \E n \in 1 .. Len(entries) : n \notin first .. last /\ ~entries[n].free /\ e = entries[n]
      BY <3>1, <3>2, UsedAfter
    <3>4. entries' = Splice(first, last, new)
      BY <1>17 DEF new
    <3>5. Used(entries') = Used(Splice(first, last, new))
      BY <3>4 DEF Used
    <3> QED
      BY ONLY <3>3, <3>5 DEF new
  <2>2. \A e : e \notin Used(<<all>>)
    <3>1. \A n \in 1 .. 1 : n = 1
      OBVIOUS
    <3> QED
      BY <1>15, <1>16, <3>1 DEF Used
  <2>3. \A n \in 1 .. Len(entries) : ~entries[n].free => (n \notin first .. last <=> n # i)
    BY ONLY <1>8, <1>9
  <2>4. \A n \in 1 .. Len(entries) : n # i => entries[n] # entries[i]
    BY <1>1, Distinct
  <2>5. \A e : e \in Used(entries) <=> \E n \in 1 .. Len(entries) : ~entries[n].free /\ e = entries[n]
    BY DEF Used
  <2> QED
    BY <2>1, <2>2, <2>3, <2>4, <2>5
<1>21. \A e \in Used(entries) : Data(e) = b.address <=> e = entries[i]
  BY <1>1, <1>3, UsedFacts
<1>22. Paired(Used(entries'), live')
  <2>1. ASSUME NEW c \in live'
        PROVE  /\ c \in Block /\ c.address % c.alignment = 0
               /\ \E e \in Used(entries') : Data(e) = c.address /\ e.size >= c.size
    <3>1. c \in live /\ c.address # b.address /\ c \in Block /\ c.address % c.alignment = 0
      BY <1>1 DEF Paired
    <3>2. PICK e \in Used(entries) : Data(e) = c.address /\ e.size >= c.size
      BY <1>1, <3>1 DEF Paired
    <3>3. e \in Used(entries')
      BY <1>20, <1>21, <3>1, <3>2
    <3> QED
      BY <3>1, <3>2, <3>3
  <2>2. ASSUME NEW e \in Used(entries')
        PROVE  \E c \in live' : c.address = Data(e)
    <3>1. e \in Used(entries) /\ e # entries[i]
      BY <1>20
    <3>2. PICK c \in live : c.address = Data(e)
      BY <1>1, <3>1 DEF Paired
    <3>3. c # b
      BY <1>21, <3>1, <3>2
    <3> QED
      BY <1>1, <3>2, <3>3
  <2>3. \A c, d \in live' : c.address = d.address => c = d
    BY <1>1 DEF Paired
  <2> QED
    BY <2>1, <2>2, <2>3 DEF Paired
<1>23. RefusedOnlyWhenFull' /\ refused' \in Nat
  BY <1>1 DEF RefusedOnlyWhenFull
<1> QED
  BY <1>18, <1>20, <1>21, <1>22, <1>23 DEF IInv

-----------------------------------------------------------------------------
(* The invariant                                                           *)

LEMMA InitStep == Init => IInv
<1> SUFFICES ASSUME Init
             PROVE  IInv
  OBVIOUS
<1> DEFINE e == update_prot(Unsealed(BASE, SIZE - HEADER, TRUE))
<1>1. entries = <<e>> /\ live = {} /\ refused = 0
  BY DEF Init
<1>2. BASE \in Nat /\ SIZE \in Nat /\ HEADER \in Nat /\ SIZE - HEADER \in Nat
  BY HeapAssumption
<1>3. e \in Entry /\ e.at = BASE /\ e.size = SIZE - HEADER /\ e.free /\ get_prot(e) = 0
  BY <1>2, Fresh
<1> HIDE DEF e
<1>4. Fills(<<e>>, e.at, EndOf(e)) /\ Len(<<e>>) = 1 /\ <<e>>[1] = e
  BY <1>3, OneFills
<1>5. EndOf(e) = BASE + SIZE
  BY <1>2, <1>3 DEF EndOf
<1>6. \A n \in 1 .. 1 : n = 1
  OBVIOUS
<1>7. Used(<<e>>) = {}
  BY <1>3, <1>4, <1>6 DEF Used
<1>8. Paired(Used(entries), live)
  BY <1>1, <1>7 DEF Paired
<1>9. Fills(entries, BASE, BASE + SIZE)
  BY <1>1, <1>3, <1>4, <1>5
<1>10. refused \in Nat /\ RefusedOnlyWhenFull
  BY <1>1 DEF RefusedOnlyWhenFull
<1> QED
  BY <1>8, <1>9, <1>10 DEF IInv

(* An allocation serves the request or stops the kernel.                   *)
LEMMA AllocStep ==
  ASSUME IInv, NEW r \in Requests, heap_alloc_align(r)
  PROVE  IInv' /\ Used(entries) \subseteq Used(entries')
<1> DEFINE fits == {i \in DOMAIN entries : entries[i].free /\ Fits(entries[i], r)}
           seen == {i \in DOMAIN entries : entries[i].free /\ \A j \in fits : i <= j}
<1>1. refused = 0 /\ DOMAIN entries = 1 .. Len(entries)
  BY LenProperties DEF heap_alloc_align, IInv, Fills
<1>2. CASE fits = {}
  <2>1. refused' = r.size /\ UNCHANGED <<entries, live>>
    BY <1>2 DEF heap_alloc_align
  <2>2. \A i \in DOMAIN entries : ~(entries[i].free /\ Fits(entries[i], r))
    BY <1>2
  <2>3. Used(entries') = Used(entries)
    BY <2>1
  <2> HIDE DEF fits, seen
  <2>4. IInv'
    BY <1>1, <2>1, <2>2, RefusedStep
  <2> QED
    BY <2>3, <2>4
<1>3. CASE fits # {}
  <2>1. PICK i \in fits \cap seen :
          LET e == entries[i]
              o == Offset(e, r.alignment)
          IN /\ entries' = Splice(i, i, Front(e, o) \o Cut(Body(e, o), r.size))
             /\ live' = live \cup {[address |-> Data(e) + o, size |-> r.size,
                                    alignment |-> r.alignment]}
             /\ UNCHANGED refused
    BY <1>3 DEF heap_alloc_align
  <2>2. i \in 1 .. Len(entries) /\ entries[i].free /\ Fits(entries[i], r)
    BY <1>1
  <2> HIDE DEF fits, seen
  <2>3. refused' = 0
    BY <1>1, <2>1
  <2> QED
    BY <1>1, <2>1, <2>2, <2>3, ServedStep
<1> QED
  BY <1>2, <1>3

LEMMA Invariance == IInv /\ [Next]_vars => IInv'
<1> SUFFICES ASSUME IInv, [Next]_vars
             PROVE  IInv'
  OBVIOUS
<1>1. ASSUME NEW r \in Requests, heap_alloc_align(r)
      PROVE  IInv'
  BY <1>1, AllocStep
<1>2. ASSUME NEW b \in live, heap_free(b)
      PROVE  IInv'
  BY <1>2, FreeStep
<1>3. CASE UNCHANGED vars
  BY <1>3 DEF IInv, vars, RefusedOnlyWhenFull
<1> QED
  BY <1>1, <1>2, <1>3 DEF Next

(* The invariant implies what the runs check.                              *)
LEMMA Soundness ==
  ASSUME IInv
  PROVE  HeapSound
<1>1. /\ Fills(entries, BASE, BASE + SIZE) /\ Paired(Used(entries), live) /\ refused \in Nat
      /\ entries \in Seq(Entry) /\ Len(entries) \in Nat /\ DOMAIN entries = 1 .. Len(entries)
      /\ Len(entries) > 0
  BY LenProperties DEF IInv, Fills
<1>2. TypeOK
  BY <1>1 DEF TypeOK, Paired
<1>3. EntriesTile
  BY <1>1 DEF EntriesTile, Fills, Tiles
<1>4. SealsValid
  BY <1>1 DEF SealsValid, Fills, Sealed
<1>5. \A i \in 1 .. Len(entries) - 1 : ~(entries[i].free /\ entries[i + 1].free)
  BY <1>1 DEF Fills, Merged
<1>6. live = {} => Len(entries) = 1
  <2> SUFFICES ASSUME live = {}, Len(entries) # 1
               PROVE  FALSE
    OBVIOUS
  <2>1. Used(entries) = {}
    BY <1>1 DEF Paired
  <2>2. 1 \in 1 .. Len(entries) - 1 /\ 1 \in 1 .. Len(entries) /\ 1 + 1 \in 1 .. Len(entries)
    BY ONLY <1>1, Len(entries) # 1
  <2>3. \A n \in 1 .. Len(entries) : entries[n].free
    BY <2>1 DEF Used
  <2> QED
    BY ONLY <1>5, <2>2, <2>3
<1> QED
  BY <1>2, <1>3, <1>4, <1>5, <1>6 DEF HeapSound, FreeMerged

(* There are as many blocks as entries in use: each entry has its block.   *)
LEMMA Service ==
  ASSUME IInv
  PROVE  BlocksServed
<1> DEFINE U == {i \in DOMAIN entries : ~entries[i].free}
           f == [i \in U |-> CHOOSE b \in live : b.address = Data(entries[i])]
<1>1. /\ Paired(Used(entries), live) /\ entries \in Seq(Entry) /\ Tiles(entries)
      /\ Len(entries) \in Nat /\ DOMAIN entries = 1 .. Len(entries)
  BY LenProperties DEF IInv, Fills
<1>2. \A i \in U : entries[i] \in Used(entries) /\ i \in 1 .. Len(entries)
  BY <1>1 DEF Used
<1>3. \A e \in Used(entries) : \E i \in U : e = entries[i]
  BY <1>1 DEF Used
<1>4. \A i \in U : \E b \in live : b.address = Data(entries[i])
  BY <1>1, <1>2 DEF Paired
<1>5. \A i \in U : f[i] \in live /\ f[i].address = Data(entries[i])
  BY <1>4
<1>6. IsFiniteSet(U)
  <2>1. IsFiniteSet(1 .. Len(entries))
    BY <1>1, FS_Interval
  <2>2. U \subseteq 1 .. Len(entries)
    BY <1>2
  <2> QED
    BY <2>1, <2>2, FS_Subset
<1>7. f \in [U -> live] /\ DOMAIN f = U
  BY <1>5
<1> HIDE DEF U, f
<1>8. \A i, j \in U : f[i] = f[j] => i = j
  <2> SUFFICES ASSUME NEW i \in U, NEW j \in U, f[i] = f[j]
               PROVE  i = j
    OBVIOUS
  <2>1. Data(entries[i]) = Data(entries[j])
    BY <1>5
  <2> QED
    BY <1>1, <1>2, <2>1, Distinct
<1>9. \A b \in live : \E i \in U : f[i] = b
  <2> SUFFICES ASSUME NEW b \in live
               PROVE  \E i \in U : f[i] = b
    OBVIOUS
  <2>1. PICK e \in Used(entries) : Data(e) = b.address
    BY <1>1 DEF Paired
  <2>2. PICK i \in U : e = entries[i]
    BY <1>3
  <2>3. f[i] \in live /\ f[i].address = b.address
    BY <1>5, <2>1, <2>2
  <2> QED
    BY <1>1, <2>3 DEF Paired
<1>10. f \in Bijection(U, live)
  <2>1. f \in Injection(U, live)
    BY <1>7, <1>8 DEF Injection, IsInjective
  <2>2. f \in Surjection(U, live)
    BY <1>7, <1>9 DEF Surjection
  <2> QED
    BY <2>1, <2>2 DEF Bijection
<1>11. Cardinality(live) = Cardinality(U)
  <2>1. ExistsBijection(U, live)
    BY <1>10 DEF ExistsBijection
  <2> QED
    BY <1>6, <2>1, FS_Bijection
<1>12. ASSUME NEW b \in live
       PROVE  /\ b.address % b.alignment = 0
              /\ \E i \in DOMAIN entries :
                   /\ Data(entries[i]) = b.address /\ entries[i].size >= b.size
                   /\ ~entries[i].free
  <2>1. PICK e \in Used(entries) : Data(e) = b.address /\ e.size >= b.size
    BY <1>1 DEF Paired
  <2>2. PICK i \in 1 .. Len(entries) : e = entries[i] /\ ~entries[i].free
    BY <1>1, <2>1, UsedFacts
  <2>3. b.address % b.alignment = 0
    BY <1>1 DEF Paired
  <2> QED
    BY <1>1, <2>1, <2>2, <2>3
<1>13. \A b, c \in live : b.address = c.address => b = c
  BY <1>1 DEF Paired
<1> QED
  BY <1>11, <1>12, <1>13 DEF BlocksServed, U

-----------------------------------------------------------------------------
(* The theorems                                                            *)

LEMMA Invariant == Spec => []IInv
<1>1. Init => IInv
  BY InitStep
<1>2. IInv /\ [Next]_vars => IInv'
  BY Invariance
<1> QED
  BY <1>1, <1>2, PTL DEF Spec

(* heap.c:71-155: whatever is allocated and freed, the entries are the     *)
(* whole heap, in order, sealed, and no two free ones touch.               *)
THEOREM HeapAlwaysSound == Spec => []HeapSound
<1>1. IInv => HeapSound
  BY Soundness
<1> QED
  BY <1>1, Invariant, PTL

(* heap.c:71-131: every block that was handed out is aligned, large enough *)
(* and the only one in its entry, and no other entry is in use.            *)
THEOREM BlocksAlwaysServed == Spec => []BlocksServed
<1>1. IInv => BlocksServed
  BY Service
<1> QED
  BY <1>1, Invariant, PTL

(* heap.c:71-133: the panic for want of memory comes only when no gap      *)
(* between the blocks in use could hold the request.                       *)
THEOREM RefusalsJustified == Spec => []RefusedOnlyWhenFull
<1>1. IInv => RefusedOnlyWhenFull
  BY DEF IInv
<1> QED
  BY <1>1, Invariant, PTL

(* heap.c:71-155: allocating and freeing leave every other caller's entry  *)
(* as it is, header and all.                                               *)
THEOREM BlocksAlwaysStay == Spec => BlocksStay
<1> DEFINE A == \A b \in live \cap live' : \A i \in DOMAIN entries :
                  Data(entries[i]) = b.address =>
                    \E j \in DOMAIN entries' : entries'[j] = entries[i]
<1>1. IInv /\ IInv' /\ [Next]_vars => [A]_vars
  <2> SUFFICES ASSUME IInv, IInv', Next,
                      NEW b \in live \cap live', NEW i \in DOMAIN entries,
                      Data(entries[i]) = b.address
               PROVE  \E j \in DOMAIN entries' : entries'[j] = entries[i]
    OBVIOUS
  <2>1. /\ Paired(Used(entries), live) /\ entries \in Seq(Entry) /\ Tiles(entries)
        /\ i \in 1 .. Len(entries)
    BY LenProperties DEF IInv, Fills
  <2>2. DOMAIN entries' = 1 .. Len(entries')
    BY LenProperties DEF IInv, Fills
  <2>3. entries[i] \in Used(entries)
    <3>1. PICK e \in Used(entries) : Data(e) = b.address
      BY <2>1 DEF Paired
    <3> QED
      BY <2>1, <3>1, UsedFacts
  <2>4. entries[i] \in Used(entries')
    <3>1. ASSUME NEW r \in Requests, heap_alloc_align(r)
          PROVE  Used(entries) \subseteq Used(entries')
      BY <3>1, AllocStep
    <3>2. ASSUME NEW c \in live, heap_free(c)
          PROVE  entries[i] \in Used(entries')
      <4>1. Data(entries[i]) = c.address \/ entries[i] \in Used(entries')
        BY <2>3, <3>2, FreeStep
      <4>2. c # b
        BY <3>2 DEF heap_free
      <4>3. c.address # b.address
        BY <2>1, <4>2 DEF Paired
      <4> QED
        BY <4>1, <4>3
    <3> QED
      BY <2>3, <3>1, <3>2 DEF Next
  <2> QED
    BY <2>2, <2>4 DEF Used
<1> QED
  BY <1>1, Invariant, PTL DEF BlocksStay, Spec

================================================================================
