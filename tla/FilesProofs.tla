------------------------------ MODULE FilesProofs ------------------------------
(***************************************************************************)
(* What the files promise, for every disk, set of modules, table size and  *)
(* calls: an exclusive open makes its file, the whole implements FileStore,*)
(* and what is mounted is one tree in which paths name nodes.  And for     *)
(* every tree packed into a RAM disk: its tables are sound, and the driver *)
(* finds, reads and lists in it what the host had.                         *)
(***************************************************************************)
EXTENDS Files, Rdsk, SequenceTheorems, FiniteSetTheorems, FunctionTheorems, WellFoundedInduction,
        NaturalsInduction, TLAPS

-----------------------------------------------------------------------------
(* The inductive invariant *)

IsNode(n) ==
  n = [fs |-> n.fs, parent |-> n.parent, name |-> n.name, type |-> n.type, data |-> n.data]

Mount == [ops : {"rdsk", "tmpfs", "stdio"}, mount_node : Nat, root : Nat]
Resource == [node : Nat, offset : 0 .. 2 * HALF - 1, mode : Modes]

(* Nodes of n file systems and of one that may be about to be mounted. *)
WellFormed(ns, n) ==
  /\ IsSequence(ns)
  /\ \A i \in DOMAIN ns :
       /\ IsNode(ns[i])
       /\ ns[i].fs \in 1 .. n + 1
       /\ ns[i].parent \in 0 .. i - 1
       /\ ns[i].type \in {"DIR", "FILE"}
       /\ ns[i].data = NULL \/ ns[i].data \in Data

(* Every state's types. *)
Form ==
  /\ WellFormed(nodes, Len(mounts))
  /\ mounts \in Seq(Mount)
  /\ \A m \in DOMAIN mounts :
       mounts[m].mount_node \in 0 .. Len(nodes) /\ mounts[m].root \in DOMAIN nodes
  /\ table \in [Id -> {NULL} \cup Resource]
  /\ \A id \in Id : table[id] # NULL => table[id].node \in DOMAIN nodes
  /\ buffer \in Data
  /\ halted \in BOOLEAN

(* Directories and streams hold no bytes, and every other node does. *)
Kinds(ns, ms) ==
  \A i \in DOMAIN ns :
    /\ ns[i].fs \in DOMAIN ms
    /\ IF ns[i].type = "DIR" \/ ms[ns[i].fs].ops = "stdio" THEN ns[i].data = NULL
       ELSE ns[i].data \in Data /\ Len(ns[i].data) < HALF

(* Where the boot has put what a lookup of /tmp/stdio passes, k calls on:  *)
(* the disk's nodes come first, then the roots of /modules and /tmp, then  *)
(* /tmp/stdio and the root it is mounted over with.                        *)
D == Len(Disk)
Layout(k) ==
  /\ k = 0 => nodes = <<>> /\ mounts = <<>>
  /\ k = 1 => Len(nodes) = D /\ Len(mounts) = 1
  /\ k = 2 => Len(nodes) = D + 1 /\ Len(mounts) = 2
  /\ k = 3 => Len(nodes) = D + 2 /\ Len(mounts) = 3
  /\ k = 4 => Len(nodes) = D + 3 /\ Len(mounts) = 3
  /\ k >= 5 => Len(nodes) >= D + 7 /\ Len(mounts) = 4
  /\ k >= 1 => /\ mounts[1] = [ops |-> "rdsk", mount_node |-> 0, root |-> 1]
               /\ nodes[1].fs = 1 /\ IsDir(1)
               /\ \A i, j \in Named(1, "modules") : i = j
               /\ \A i, j \in Named(1, "tmp") : i = j
  /\ k >= 2 => /\ mounts[2].ops = "tmpfs" /\ mounts[2].mount_node \in Named(1, "modules")
               /\ mounts[2].root = D + 1
  /\ k >= 3 => /\ mounts[3].ops = "tmpfs" /\ mounts[3].mount_node \in Named(1, "tmp")
               /\ mounts[3].root = D + 2
               /\ nodes[D + 2].fs = 3 /\ IsDir(D + 2)
  /\ k = 3 => Named(D + 2, "stdio") = {}
  /\ k >= 4 => Named(D + 2, "stdio") = {D + 3}
  /\ k >= 5 => /\ mounts[4] = [ops |-> "stdio", mount_node |-> D + 3, root |-> D + 4]
               /\ nodes[D + 4].fs = 4 /\ IsDir(D + 4)
               /\ Named(D + 4, "stdin") = {D + 5} /\ Named(D + 4, "stdout") = {D + 6}
               /\ Named(D + 4, "stderr") = {D + 7}
               /\ \A i \in D + 5 .. D + 7 : nodes[i].fs = 4

(* The calls of the boot still to be made are all but the first k. *)
Left(k) == SubSeq(BootCalls, k + 1, Len(BootCalls))
Booted ==
  \E k \in 0 .. Len(BootCalls) :
    /\ boot = Left(k)
    /\ k < Len(BootCalls) => /\ table = [id \in Id |-> NULL] /\ buffer = <<>>
                             /\ Layout(k)
    /\ k = Len(BootCalls) => mounts # <<>>

IInv == Form /\ (~halted => Kinds(nodes, mounts) /\ Booted)

-----------------------------------------------------------------------------
(* Sequences and numbers *)

(* A set of natural numbers with an element has a least one. *)
LEMMA Least ==
  ASSUME NEW T \in SUBSET Nat, T # {}
  PROVE  \E x \in T : \A y \in T : x <= y
<1> DEFINE R == {ss \in Nat \X Nat : ss[1] < ss[2]}
<1>1. OpToRel(<, Nat) = R
  BY DEF OpToRel
<1>2. \A x, y \in T : y < x => <<y, x>> \in R
  OBVIOUS
<1> HIDE DEF R
<1>3. IsWellFoundedOn(R, Nat)
  BY NatLessThanWellFounded, <1>1
<1>4. PICK x \in T : \A y \in T : <<y, x>> \notin R
  BY <1>3, WFMin
<1>5. \A y \in T : ~(y < x)
  BY <1>2, <1>4
<1> QED
  BY <1>5

(* IsSequence says what Seq says of the set of a sequence's elements. *)
LEMMA SequenceIsSeq ==
  ASSUME NEW s, IsSequence(s)
  PROVE  /\ DOMAIN s = 1 .. Len(s) /\ Len(s) \in Nat
         /\ s \in Seq({s[i] : i \in 1 .. Len(s)})
<1> DEFINE R == {s[i] : i \in 1 .. Len(s)}
<1>1. s = [i \in 1 .. Len(s) |-> s[i]] /\ Len(s) \in Nat
  BY DEF IsSequence
<1>2. s \in [1 .. Len(s) -> R]
  <2>1. \A i \in 1 .. Len(s) : s[i] \in R
    OBVIOUS
  <2> HIDE DEF R
  <2> QED
    BY <1>1, <2>1
<1>3. DOMAIN s = 1 .. Len(s)
  BY <1>2
<1> HIDE DEF R
<1>4. s \in Seq(R)
  BY <1>1, <1>2
<1> QED
  BY <1>1, <1>3, <1>4 DEF R

(* And what Seq says, IsSequence does. *)
LEMMA SeqIsSequence ==
  ASSUME NEW S, NEW s \in Seq(S)
  PROVE  IsSequence(s)
<1>1. s \in [1 .. Len(s) -> S] /\ Len(s) \in Nat
  BY LenProperties
<1> QED
  BY <1>1 DEF IsSequence

(* A sequence has the length of its domain. *)
LEMMA Enumerated ==
  ASSUME NEW n \in Nat, NEW s, s = [i \in 1 .. n |-> s[i]]
  PROVE  IsSequence(s) /\ Len(s) = n
<1> DEFINE R == {s[i] : i \in 1 .. n}
<1>1. \A i \in 1 .. n : s[i] \in R
  OBVIOUS
<1> HIDE DEF R
<1>2. s \in [1 .. n -> R]
  BY <1>1
<1>3. s \in Seq(R)
  BY <1>2
<1>4. Len(s) = n
  BY <1>2, <1>3
<1> QED
  BY <1>4 DEF IsSequence

(* Two sequences, one after the other. *)
LEMMA Concatenated ==
  ASSUME NEW s, NEW t, IsSequence(s), IsSequence(t)
  PROVE  /\ IsSequence(s \o t)
         /\ Len(s \o t) = Len(s) + Len(t)
         /\ \A i \in 1 .. Len(s) : (s \o t)[i] = s[i]
         /\ \A i \in 1 .. Len(t) : (s \o t)[Len(s) + i] = t[i]
<1> DEFINE S == {s[i] : i \in 1 .. Len(s)}
           T == {t[i] : i \in 1 .. Len(t)}
<1>1. s \in Seq(S) /\ t \in Seq(T) /\ Len(s) \in Nat /\ Len(t) \in Nat
  BY SequenceIsSeq
<1> HIDE DEF S, T
<1>2. s \in Seq(S \cup T) /\ t \in Seq(S \cup T)
  BY <1>1, SeqMonotonic
<1>3. /\ s \o t \in Seq(S \cup T)
      /\ Len(s \o t) = Len(s) + Len(t)
      /\ \A i \in 1 .. Len(s) + Len(t) :
           (s \o t)[i] = IF i <= Len(s) THEN s[i] ELSE t[i - Len(s)]
  BY <1>2, ConcatProperties
<1>4. IsSequence(s \o t)
  BY <1>3, SeqIsSequence
<1>5. ASSUME NEW i \in 1 .. Len(s) PROVE (s \o t)[i] = s[i]
  <2>1. i \in 1 .. Len(s) + Len(t) /\ i <= Len(s)
    BY <1>1, <1>5
  <2> QED
    BY <1>3, <2>1
<1>6. ASSUME NEW i \in 1 .. Len(t) PROVE (s \o t)[Len(s) + i] = t[i]
  <2>1. Len(s) + i \in 1 .. Len(s) + Len(t) /\ ~(Len(s) + i <= Len(s)) /\ Len(s) + i - Len(s) = i
    BY <1>1, <1>6
  <2> QED
    BY <1>3, <2>1
<1> QED
  BY <1>3, <1>4, <1>5, <1>6

(* One element more. *)
LEMMA Appended ==
  ASSUME NEW s, NEW e, IsSequence(s)
  PROVE  /\ IsSequence(Append(s, e))
         /\ Len(Append(s, e)) = Len(s) + 1
         /\ \A i \in 1 .. Len(s) : Append(s, e)[i] = s[i]
         /\ Append(s, e)[Len(s) + 1] = e
<1> DEFINE S == {s[i] : i \in 1 .. Len(s)} \cup {e}
<1>1. s \in Seq(S) /\ Len(s) \in Nat
  <2>1. s \in Seq({s[i] : i \in 1 .. Len(s)}) /\ Len(s) \in Nat
    BY SequenceIsSeq
  <2> QED
    BY <2>1, SeqMonotonic
<1>2. e \in S
  OBVIOUS
<1> HIDE DEF S
<1>3. /\ Append(s, e) \in Seq(S)
      /\ Len(Append(s, e)) = Len(s) + 1
      /\ \A i \in 1 .. Len(s) : Append(s, e)[i] = s[i]
      /\ Append(s, e)[Len(s) + 1] = e
  BY <1>1, <1>2, AppendProperties
<1> QED
  BY <1>3, SeqIsSequence

-----------------------------------------------------------------------------
(* Walking a path *)

(* The recursive function of Walk, on 0 .. n. *)
WalkTo(f, path, dir, exclusive, n) ==
  f = [k \in 0 .. n |-> IF k = 0 THEN Start(path, dir) ELSE Onward(f[k - 1], path, k, exclusive)]

(* A walk of n components exists for every n. *)
LEMMA WalkToExists ==
  ASSUME NEW path, NEW dir, NEW exclusive, NEW n \in Nat
  PROVE  \E f : WalkTo(f, path, dir, exclusive, n)
<1> DEFINE P(k) == \E f : WalkTo(f, path, dir, exclusive, k)
           T == {k \in Nat : ~P(k)}
<1>1. SUFFICES ASSUME T # {}
               PROVE  FALSE
  OBVIOUS
<1>2. PICK k \in T : \A l \in T : k <= l
  BY <1>1, Least
<1>3. CASE k = 0
  <2> DEFINE f == [m \in 0 .. 0 |-> Start(path, dir)]
  <2>1. WalkTo(f, path, dir, exclusive, 0)
    BY DEF WalkTo
  <2> QED
    BY <1>2, <1>3, <2>1
<1>4. CASE k # 0
  <2>1. k \in Nat /\ k - 1 \in Nat /\ k - 1 \notin T
    BY <1>2, <1>4
  <2>2. PICK g : WalkTo(g, path, dir, exclusive, k - 1)
    BY <2>1
  <2> DEFINE f == [m \in 0 .. k |-> IF m = 0 THEN Start(path, dir)
                                    ELSE Onward(g[m - 1], path, m, exclusive)]
  <2>3. \A m \in 0 .. k - 1 : f[m] = g[m]
    BY <2>1, <2>2 DEF WalkTo
  <2>4. ASSUME NEW m \in 0 .. k, m # 0 PROVE f[m - 1] = g[m - 1]
    <3>1. m - 1 \in 0 .. k - 1
      BY <2>1, <2>4
    <3> QED
      BY <2>3, <3>1
  <2>5. WalkTo(f, path, dir, exclusive, k)
    BY <2>4 DEF WalkTo
  <2> QED
    BY <1>2, <2>5
<1> QED
  BY <1>3, <1>4

(* Walk goes from Start by its components, one Onward each. *)
LEMMA WalkIs ==
  ASSUME NEW path, NEW dir, NEW exclusive, Len(path.comps) \in Nat
  PROVE  \E f : /\ f[0] = Start(path, dir)
                /\ \A k \in 1 .. Len(path.comps) : f[k] = Onward(f[k - 1], path, k, exclusive)
                /\ Walk(path, dir, exclusive) = f[Len(path.comps)]
<1> DEFINE last == Len(path.comps)
           f == CHOOSE f : WalkTo(f, path, dir, exclusive, last)
<1>1. last \in Nat
  OBVIOUS
<1>2. WalkTo(f, path, dir, exclusive, last)
  BY <1>1, WalkToExists
<1>3. Walk(path, dir, exclusive) = f[last]
  BY DEF Walk, WalkTo
<1> HIDE DEF f, last
<1>5. f = [k \in 0 .. last |-> IF k = 0 THEN Start(path, dir) ELSE Onward(f[k - 1], path, k, exclusive)]
  BY <1>2 DEF WalkTo
<1>6. \A k \in 0 .. last :
        f[k] = IF k = 0 THEN Start(path, dir) ELSE Onward(f[k - 1], path, k, exclusive)
  BY <1>5, Zenon
<1>7. 0 \in 0 .. last /\ \A k \in 1 .. last : k \in 0 .. last /\ k # 0
  BY <1>1
<1>4. f[0] = Start(path, dir) /\ \A k \in 1 .. last : f[k] = Onward(f[k - 1], path, k, exclusive)
  BY <1>6, <1>7
<1> QED
  BY <1>3, <1>4 DEF last

-----------------------------------------------------------------------------
(* Lookups *)

(* A lookup that succeeds finds a node, or the null parent of a root. *)
LEMMA LookupFinds ==
  ASSUME Form, NEW n \in DOMAIN nodes, NEW name, lookup(n, name).err = "OK"
  PROVE  lookup(n, name).node \in DOMAIN nodes \cup {0}
<1>1. /\ DOMAIN nodes = 1 .. Len(nodes) /\ Len(nodes) \in Nat
      /\ nodes[n].parent \in 0 .. n - 1
  BY SequenceIsSeq DEF Form, WellFormed
<1>2. nodes[n].parent \in DOMAIN nodes \cup {0}
  BY <1>1
<1>3. Named(n, name) # {} => (CHOOSE i \in Named(n, name) : TRUE) \in DOMAIN nodes
  BY DEF Named
<1> QED
  BY <1>2, <1>3 DEF lookup, Found, Failed

(* What a node is covered with is a node. *)
LEMMA CrossFinds ==
  ASSUME Form, NEW n \in DOMAIN nodes
  PROVE  Cross(n) \in DOMAIN nodes
<1> DEFINE on == {m \in DOMAIN mounts : mounts[m].mount_node = n}
<1>1. on # {} => (CHOOSE m \in on : TRUE) \in DOMAIN mounts
  OBVIOUS
<1>2. \A m \in DOMAIN mounts : mounts[m].root \in DOMAIN nodes
  BY DEF Form
<1> QED
  BY <1>1, <1>2 DEF Cross

(* A walk leads to a node, or to one that lacks the last component. *)
LEMMA WalkFinds ==
  ASSUME Form, NEW path, NEW dir \in DOMAIN nodes \cup {0}, NEW exclusive,
         Len(path.comps) \in Nat
  PROVE  LET w == Walk(path, dir, exclusive)
         IN /\ w.err \in {"OK", "MISSING"} => w.node \in DOMAIN nodes
            /\ w.err = "MISSING" => Len(path.comps) >= 1
<1> DEFINE last == Len(path.comps)
           Good(w) == w.err \in {"OK", "MISSING"} => w.node \in DOMAIN nodes
<1>1. PICK f : /\ f[0] = Start(path, dir)
               /\ \A k \in 1 .. last : f[k] = Onward(f[k - 1], path, k, exclusive)
               /\ Walk(path, dir, exclusive) = f[last]
  BY WalkIs
<1>2. Good(f[0]) /\ f[0].err # "MISSING"
  <2>1. mounts # <<>> => mounts[1].root \in DOMAIN nodes
    <3>1. mounts \in Seq(Mount) /\ \A m \in DOMAIN mounts : mounts[m].root \in DOMAIN nodes
      BY DEF Form
    <3> QED
      BY <3>1
  <2>2. 0 \notin DOMAIN nodes
    BY SequenceIsSeq DEF Form, WellFormed
  <2>3. mounts # <<>> => Cross(mounts[1].root) \in DOMAIN nodes
    BY <2>1, CrossFinds
  <2>4. dir # 0 => Cross(dir) \in DOMAIN nodes
    BY CrossFinds
  <2> QED
    BY <1>1, <2>3, <2>4 DEF Start, Found, Failed
<1>3. ASSUME NEW k \in 1 .. last, Good(f[k - 1])
      PROVE  Good(f[k])
  <2> DEFINE at == f[k - 1]
             name == path.comps[k]
  <2>1. f[k] = Onward(at, path, k, exclusive)
    BY <1>1
  <2>2. CASE at.err # "OK"
    BY <1>3, <2>1, <2>2 DEF Onward
  <2>3. CASE at.err = "OK"
    <3>1. at.node \in DOMAIN nodes
      BY <1>3, <2>3
    <3> HIDE DEF at, name
    <3>2. lookup(at.node, name).err = "OK" =>
            LET n == lookup(at.node, name).node
            IN Cross(IF n = 0 THEN at.node ELSE n) \in DOMAIN nodes
      <4>1. ASSUME lookup(at.node, name).err = "OK"
            PROVE  (IF lookup(at.node, name).node = 0 THEN at.node ELSE lookup(at.node, name).node)
                     \in DOMAIN nodes
        BY <3>1, <4>1, LookupFinds
      <4> QED
        BY <4>1, CrossFinds
    <3>3. Step(at.node, name, exclusive).err = "OK" => Step(at.node, name, exclusive).node \in DOMAIN nodes
      BY <3>2 DEF Step, Found, Failed
    <3>4. Step(at.node, name, exclusive).err # "MISSING"
      BY DEF Step, Found, Failed, lookup
    <3> QED
      BY <2>1, <2>3, <3>1, <3>3, <3>4 DEF Onward, name
  <2> QED
    BY <2>2, <2>3
<1> DEFINE T == {k \in 0 .. last : ~Good(f[k])}
<1>4. T = {}
  <2>1. T \in SUBSET Nat
    OBVIOUS
  <2>2. ASSUME NEW k \in T, \A l \in T : k <= l
        PROVE  FALSE
    <3>1. k \in 0 .. last /\ ~Good(f[k])
      BY <2>2
    <3>2. k # 0
      BY <1>2, <3>1
    <3>3. k \in 1 .. last /\ k - 1 \in 0 .. last /\ ~(k <= k - 1)
      BY <3>1, <3>2
    <3>4. k - 1 \notin T
      BY <2>2, <3>3
    <3>5. Good(f[k - 1])
      BY <3>3, <3>4
    <3> QED
      BY <1>3, <3>1, <3>3, <3>5
  <2> HIDE DEF T
  <2> QED
    BY <2>1, <2>2, Least
<1>5. Good(f[last])
  BY <1>4
<1>6. last = 0 => f[last].err # "MISSING"
  BY <1>2
<1> QED
  BY <1>1, <1>5, <1>6

-----------------------------------------------------------------------------
(* New nodes and new bytes *)

(* A node added to well-formed nodes. *)
LEMMA Grown ==
  ASSUME NEW ns, NEW m \in Nat, WellFormed(ns, m), NEW new, IsNode(new), new.fs \in 1 .. m + 1,
         new.parent \in 0 .. Len(ns), new.type \in {"DIR", "FILE"},
         new.data = NULL \/ new.data \in Data
  PROVE  /\ WellFormed(Append(ns, new), m)
         /\ DOMAIN Append(ns, new) = DOMAIN ns \cup {Len(ns) + 1}
         /\ Len(ns) + 1 \notin DOMAIN ns
         /\ \A i \in DOMAIN ns : Append(ns, new)[i] = ns[i]
         /\ Append(ns, new)[Len(ns) + 1] = new
<1> DEFINE after == Append(ns, new)
<1>1. IsSequence(ns) /\ DOMAIN ns = 1 .. Len(ns) /\ Len(ns) \in Nat
  BY SequenceIsSeq DEF WellFormed
<1>2. /\ IsSequence(after) /\ Len(after) = Len(ns) + 1
      /\ \A i \in 1 .. Len(ns) : after[i] = ns[i]
      /\ after[Len(ns) + 1] = new
  BY <1>1, Appended
<1> HIDE DEF after
<1>3. DOMAIN after = 1 .. Len(ns) + 1
  BY <1>2, SequenceIsSeq
<1>4. DOMAIN after = DOMAIN ns \cup {Len(ns) + 1} /\ Len(ns) + 1 \notin DOMAIN ns
  BY <1>1, <1>3
<1>5. WellFormed(after, m)
  <2> SUFFICES ASSUME NEW i \in DOMAIN after
               PROVE  /\ IsNode(after[i])
                      /\ after[i].fs \in 1 .. m + 1
                      /\ after[i].parent \in 0 .. i - 1
                      /\ after[i].type \in {"DIR", "FILE"}
                      /\ after[i].data = NULL \/ after[i].data \in Data
    BY <1>2 DEF WellFormed
  <2>1. CASE i \in DOMAIN ns
    <3>1. after[i] = ns[i]
      BY <1>1, <1>2, <2>1
    <3> QED
      BY <2>1, <3>1 DEF WellFormed
  <2>2. CASE i = Len(ns) + 1
    <3>1. after[i] = new /\ i - 1 = Len(ns)
      BY <1>1, <1>2, <2>2
    <3> QED
      BY <3>1
  <2> QED
    BY <1>4, <2>1, <2>2
<1> QED
  BY <1>1, <1>2, <1>4, <1>5 DEF after

(* Bytes written into a node of well-formed nodes. *)
Rewrites(after, ns, n, bytes) == after = [ns EXCEPT ![n].data = bytes]

LEMMA Rewritten ==
  ASSUME NEW ns, NEW m, WellFormed(ns, m), NEW n \in DOMAIN ns, NEW bytes \in Data,
         NEW after, Rewrites(after, ns, n, bytes)
  PROVE  /\ WellFormed(after, m)
         /\ DOMAIN after = DOMAIN ns /\ Len(after) = Len(ns)
         /\ \A i \in DOMAIN ns \ {n} : after[i] = ns[i]
         /\ after[n].data = bytes
         /\ \A i \in DOMAIN ns : /\ after[i].fs = ns[i].fs /\ after[i].parent = ns[i].parent
                                 /\ after[i].name = ns[i].name /\ after[i].type = ns[i].type
<1>1. IsSequence(ns) /\ DOMAIN ns = 1 .. Len(ns) /\ Len(ns) \in Nat /\ IsNode(ns[n])
  BY SequenceIsSeq DEF WellFormed
<1>2. /\ DOMAIN after = DOMAIN ns
      /\ \A i \in DOMAIN ns \ {n} : after[i] = ns[i]
      /\ after[n] = [ns[n] EXCEPT !.data = bytes]
  BY DEF Rewrites
<1>3. after[n] = [fs |-> ns[n].fs, parent |-> ns[n].parent, name |-> ns[n].name,
                  type |-> ns[n].type, data |-> bytes]
  BY <1>1, <1>2 DEF IsNode
<1>4. after = [i \in 1 .. Len(ns) |-> after[i]]
  BY <1>1 DEF Rewrites
<1>5. IsSequence(after) /\ Len(after) = Len(ns)
  BY <1>1, <1>4, Enumerated
<1>6. \A i \in DOMAIN ns : /\ after[i].fs = ns[i].fs /\ after[i].parent = ns[i].parent
                           /\ after[i].name = ns[i].name /\ after[i].type = ns[i].type
  BY <1>2, <1>3
<1>7. WellFormed(after, m)
  <2>1. \A i \in DOMAIN ns : IsNode(after[i]) /\ (after[i].data = NULL \/ after[i].data \in Data)
    BY <1>2, <1>3 DEF WellFormed, IsNode
  <2> QED
    BY <1>2, <1>5, <1>6, <2>1 DEF WellFormed
<1> QED
  BY <1>2, <1>3, <1>5, <1>6, <1>7

(* What create and mkdir do: they refuse, or a tmpfs has a node more. *)
Made(r, type) ==
  /\ r.err = "OK" /\ r.node = Len(nodes) + 1
  /\ \E n \in DOMAIN nodes : \E name :
       /\ IsDir(n) /\ Ops(n) = "tmpfs" /\ Named(n, name) = {}
       /\ r.nodes = Append(nodes, NewNode(n, name, type))

LEMMA MakeIs ==
  ASSUME Form, Kinds(nodes, mounts), NEW n \in DOMAIN nodes, NEW name, NEW type
  PROVE  LET r == make(n, name, type)
         IN \/ r.err # "OK" /\ r.nodes = nodes
            \/ /\ r.err = "OK" /\ r.node = Len(nodes) + 1
               /\ IsDir(n) /\ Ops(n) = "tmpfs" /\ Named(n, name) = {}
               /\ r.nodes = Append(nodes, NewNode(n, name, type))
<1>1. Ops(n) \in {"rdsk", "tmpfs", "stdio"}
  <2>1. nodes[n].fs \in DOMAIN mounts /\ mounts \in Seq(Mount)
    BY DEF Kinds, Form
  <2>2. mounts[nodes[n].fs] \in Mount
    BY <2>1
  <2> QED
    BY <2>2 DEF Ops, Mount
<1> QED
  BY <1>1 DEF make

(* vfs_lookup_ext fails, finds a node or makes one. *)
LEMMA LookupExtIs ==
  ASSUME Form, Kinds(nodes, mounts), NEW path, NEW dir \in DOMAIN nodes \cup {0}, NEW create,
         NEW exclusive, Len(path.comps) \in Nat
  PROVE  LET r == vfs_lookup_ext(path, dir, create, exclusive)
         IN \/ r.err # "OK" /\ r.nodes = nodes
            \/ r.err = "OK" /\ r.nodes = nodes /\ r.node \in DOMAIN nodes
            \/ create # "NONE" /\ Made(r, create)
<1> DEFINE w == Walk(path, dir, exclusive)
           name == path.comps[Len(path.comps)]
<1>1. w.err \in {"OK", "MISSING"} => w.node \in DOMAIN nodes
  BY WalkFinds
<1>2. CASE w.err # "MISSING"
  BY <1>1, <1>2 DEF vfs_lookup_ext
<1>3. CASE w.err = "MISSING" /\ create = "NONE"
  BY <1>3 DEF vfs_lookup_ext
<1>4. CASE w.err = "MISSING" /\ create # "NONE"
  <2>1. vfs_lookup_ext(path, dir, create, exclusive) = make(w.node, name, create)
    BY <1>4 DEF vfs_lookup_ext
  <2>2. w.node \in DOMAIN nodes
    BY <1>1, <1>4
  <2> HIDE DEF w, name
  <2>3. \/ make(w.node, name, create).err # "OK" /\ make(w.node, name, create).nodes = nodes
        \/ Made(make(w.node, name, create), create)
    BY <2>2, MakeIs DEF Made
  <2> QED
    BY <1>4, <2>1, <2>3
<1> QED
  BY <1>2, <1>3, <1>4

(* A node made by create or mkdir keeps the tree's form and adds a file    *)
(* with no bytes, or a directory.                                          *)
LEMMA MadeKeeps ==
  ASSUME Form, Kinds(nodes, mounts), NEW r, NEW type \in {"FILE", "DIR"}, Made(r, type)
  PROVE  /\ WellFormed(r.nodes, Len(mounts)) /\ Kinds(r.nodes, mounts)
         /\ DOMAIN r.nodes = DOMAIN nodes \cup {r.node} /\ r.node \notin DOMAIN nodes
         /\ Len(nodes) <= Len(r.nodes)
         /\ \A i \in DOMAIN nodes : r.nodes[i] = nodes[i]
         /\ r.nodes[r.node].type = type
         /\ r.nodes[r.node].data = IF type = "FILE" THEN <<>> ELSE NULL
         /\ mounts[r.nodes[r.node].fs].ops = "tmpfs"
<1>1. PICK n \in DOMAIN nodes : \E name : /\ IsDir(n) /\ Ops(n) = "tmpfs"
                                          /\ r.nodes = Append(nodes, NewNode(n, name, type))
  BY DEF Made
<1>11. PICK name : IsDir(n) /\ Ops(n) = "tmpfs" /\ r.nodes = Append(nodes, NewNode(n, name, type))
  BY <1>1
<1> DEFINE new == NewNode(n, name, type)
<1>2. /\ new.fs = nodes[n].fs /\ new.parent = n /\ new.type = type
      /\ new.data = IF type = "FILE" THEN <<>> ELSE NULL
      /\ IsNode(new)
  BY DEF NewNode, IsNode
<1>3. DOMAIN nodes = 1 .. Len(nodes) /\ Len(nodes) \in Nat /\ Len(mounts) \in Nat
  BY SequenceIsSeq DEF Form, WellFormed
<1>4. <<>> \in Data /\ Len(<<>>) < HALF
  BY FilesAssumption DEF Data
<1> HIDE DEF new
<1>5. /\ new.fs \in 1 .. Len(mounts) + 1 /\ new.parent \in 0 .. Len(nodes)
      /\ new.type \in {"DIR", "FILE"} /\ (new.data = NULL \/ new.data \in Data)
  BY <1>2, <1>3, <1>4 DEF Form, WellFormed
<1>6. /\ WellFormed(Append(nodes, new), Len(mounts))
      /\ DOMAIN Append(nodes, new) = DOMAIN nodes \cup {Len(nodes) + 1}
      /\ Len(nodes) + 1 \notin DOMAIN nodes
      /\ \A i \in DOMAIN nodes : Append(nodes, new)[i] = nodes[i]
      /\ Append(nodes, new)[Len(nodes) + 1] = new
  BY <1>2, <1>3, <1>5, Grown DEF Form
<1>7. r.nodes = Append(nodes, new) /\ r.node = Len(nodes) + 1
  BY <1>11 DEF new, Made
<1>8. new.fs \in DOMAIN mounts /\ mounts[new.fs].ops = "tmpfs"
  BY <1>11, <1>2 DEF Ops, Kinds
<1>9. Kinds(r.nodes, mounts)
  BY <1>2, <1>4, <1>6, <1>7, <1>8 DEF Kinds
<1>10. Len(nodes) <= Len(r.nodes)
  <2>1. DOMAIN r.nodes = 1 .. Len(r.nodes) /\ Len(r.nodes) \in Nat
    BY <1>6, <1>7, SequenceIsSeq DEF WellFormed
  <2> QED
    BY <1>3, <1>6, <1>7, <2>1
<1> QED
  BY <1>2, <1>6, <1>7, <1>8, <1>9, <1>10

-----------------------------------------------------------------------------
(* The calls of the boot *)

(* The calls in their order. *)
LEMMA BootCallsAre ==
  /\ IsSequence(BootCalls) /\ Len(Modules) \in Nat /\ Len(BootCalls) = 6 + Len(Modules)
  /\ BootCalls[1] = MountCall("rdsk", NULL)
  /\ BootCalls[2] = MountCall("tmpfs", Absolute(<<"modules">>))
  /\ BootCalls[3] = MountCall("tmpfs", Absolute(<<"tmp">>))
  /\ BootCalls[4].call = "mkdir"
  /\ BootCalls[5] = MountCall("stdio", Absolute(<<"tmp", "stdio">>))
  /\ \A k \in 6 .. 5 + Len(Modules) :
       /\ BootCalls[k].call = "module" /\ BootCalls[k].data = Modules[k - 5].data
       /\ BootCalls[k].name = Modules[k - 5].name
  /\ BootCalls[6 + Len(Modules)].call = "start"
<1> DEFINE S == <<MountCall("rdsk", NULL), MountCall("tmpfs", Absolute(<<"modules">>)),
                  MountCall("tmpfs", Absolute(<<"tmp">>)), [call |-> "mkdir"],
                  MountCall("stdio", Absolute(<<"tmp", "stdio">>))>>
           M == [i \in DOMAIN Modules |->
                   [call |-> "module", name |-> Modules[i].name, data |-> Modules[i].data]]
           start == <<[call |-> "start"]>>
<1>1. BootCalls = (S \o M) \o start
  BY DEF BootCalls
<1>2. /\ IsSequence(S) /\ Len(S) = 5
      /\ S[1] = MountCall("rdsk", NULL) /\ S[2] = MountCall("tmpfs", Absolute(<<"modules">>))
      /\ S[3] = MountCall("tmpfs", Absolute(<<"tmp">>)) /\ S[4].call = "mkdir"
      /\ S[5] = MountCall("stdio", Absolute(<<"tmp", "stdio">>))
  BY DEF IsSequence
<1>3. IsSequence(start) /\ Len(start) = 1 /\ start[1].call = "start"
  BY DEF IsSequence
<1>4. /\ IsSequence(M) /\ Len(M) = Len(Modules) /\ Len(Modules) \in Nat
      /\ \A i \in 1 .. Len(Modules) : M[i].call = "module" /\ M[i].data = Modules[i].data /\ M[i].name = Modules[i].name
  <2>1. DOMAIN Modules = 1 .. Len(Modules) /\ Len(Modules) \in Nat
    BY BootAssumption, SequenceIsSeq
  <2>2. M = [i \in 1 .. Len(Modules) |-> M[i]]
    BY <2>1
  <2>3. \A i \in 1 .. Len(Modules) : M[i].call = "module" /\ M[i].data = Modules[i].data /\ M[i].name = Modules[i].name
    BY <2>1
  <2> HIDE DEF M
  <2> QED
    BY <2>1, <2>2, <2>3, Enumerated
<1> HIDE DEF S, M, start
<1>5. /\ IsSequence(S \o M) /\ Len(S \o M) = 5 + Len(Modules)
      /\ \A i \in 1 .. 5 : (S \o M)[i] = S[i]
      /\ \A i \in 1 .. Len(Modules) : (S \o M)[5 + i] = M[i]
  <2>1. IsSequence(S) /\ IsSequence(M)
    BY <1>2, <1>4
  <2>2. /\ IsSequence(S \o M) /\ Len(S \o M) = Len(S) + Len(M)
        /\ \A i \in 1 .. Len(S) : (S \o M)[i] = S[i]
        /\ \A i \in 1 .. Len(M) : (S \o M)[Len(S) + i] = M[i]
    BY <2>1, Concatenated
  <2>3. Len(S) = 5 /\ Len(M) = Len(Modules)
    BY <1>2, <1>4
  <2> QED
    BY <2>2, <2>3
<1>6. /\ IsSequence(BootCalls) /\ Len(BootCalls) = 5 + Len(Modules) + 1
      /\ \A i \in 1 .. 5 + Len(Modules) : BootCalls[i] = (S \o M)[i]
      /\ BootCalls[5 + Len(Modules) + 1] = start[1]
  <2> DEFINE front == S \o M
  <2>1. IsSequence(front) /\ IsSequence(start) /\ Len(front) = 5 + Len(Modules) /\ Len(start) = 1
    BY <1>3, <1>5
  <2> HIDE DEF front
  <2>2. /\ IsSequence(front \o start) /\ Len(front \o start) = Len(front) + Len(start)
        /\ \A i \in 1 .. Len(front) : (front \o start)[i] = front[i]
        /\ \A i \in 1 .. Len(start) : (front \o start)[Len(front) + i] = start[i]
    <3>1. IsSequence(front) /\ IsSequence(start)
      BY <2>1
    <3> QED
      BY <3>1, Concatenated
  <2>3. BootCalls = front \o start
    BY <1>1 DEF front
  <2>4. (front \o start)[Len(front) + 1] = start[1]
    BY <2>1, <2>2
  <2>5. /\ IsSequence(BootCalls) /\ Len(BootCalls) = 5 + Len(Modules) + 1
        /\ \A i \in 1 .. 5 + Len(Modules) : BootCalls[i] = front[i]
        /\ BootCalls[5 + Len(Modules) + 1] = start[1]
    BY <2>1, <2>2, <2>3, <2>4
  <2> QED
    BY <2>5 DEF front
<1>7. ASSUME NEW k \in 6 .. 5 + Len(Modules)
      PROVE  /\ BootCalls[k].call = "module" /\ BootCalls[k].data = Modules[k - 5].data
             /\ BootCalls[k].name = Modules[k - 5].name
  <2>1. k - 5 \in 1 .. Len(Modules) /\ 5 + (k - 5) = k /\ k \in 1 .. 5 + Len(Modules)
    BY <1>4, <1>7
  <2>2. BootCalls[k] = M[k - 5]
    BY <1>5, <1>6, <2>1
  <2> QED
    BY <1>4, <2>1, <2>2
<1>8. ASSUME NEW i \in 1 .. 5
      PROVE  BootCalls[i] = S[i]
  <2>1. i \in 1 .. 5 + Len(Modules)
    BY <1>4
  <2> QED
    BY <1>5, <1>6, <2>1
<1>9. 5 + Len(Modules) + 1 = 6 + Len(Modules)
  BY <1>4
<1>10. /\ BootCalls[1] = S[1] /\ BootCalls[2] = S[2] /\ BootCalls[3] = S[3]
       /\ BootCalls[4] = S[4] /\ BootCalls[5] = S[5]
  BY <1>8
<1>11. BootCalls[6 + Len(Modules)].call = "start"
  BY <1>3, <1>6, <1>9
<1> QED
  BY <1>2, <1>4, <1>6, <1>7, <1>9, <1>10, <1>11

(* Which call comes next, and what is left after it. *)
LEMMA LeftIs ==
  /\ Left(0) = BootCalls /\ Left(Len(BootCalls)) = <<>>
  /\ \A k \in 0 .. Len(BootCalls) - 1 :
       Left(k) # <<>> /\ Head(Left(k)) = BootCalls[k + 1] /\ Tail(Left(k)) = Left(k + 1)
<1> DEFINE S == {BootCalls[i] : i \in 1 .. Len(BootCalls)}
           n == Len(BootCalls)
<1>1. BootCalls \in Seq(S) /\ n \in Nat
  BY BootCallsAre, SequenceIsSeq
<1> HIDE DEF S
<1>2. Left(0) = BootCalls
  BY <1>1, SubSeqFull DEF Left
<1>3. Left(n) = <<>>
  <2>1. n + 1 \in Int /\ n \in Int /\ n < n + 1
    BY <1>1
  <2> QED
    BY <2>1, SubSeqEmpty DEF Left
<1>4. ASSUME NEW k \in 0 .. n - 1
      PROVE  Left(k) # <<>> /\ Head(Left(k)) = BootCalls[k + 1] /\ Tail(Left(k)) = Left(k + 1)
  <2>1. k + 1 \in 1 .. n /\ n \in k + 1 .. n
    BY <1>1, <1>4
  <2>2. /\ Head(SubSeq(BootCalls, k + 1, n)) = BootCalls[k + 1]
        /\ Tail(SubSeq(BootCalls, k + 1, n)) = SubSeq(BootCalls, k + 1 + 1, n)
    BY <1>1, <2>1, HeadTailOfSubSeq
  <2>3. SubSeq(BootCalls, k + 1, n) # <<>>
    <3>1. Len(SubSeq(BootCalls, k + 1, n)) = n - (k + 1) + 1
      <4>1. \A i \in k + 1 .. n : BootCalls[i] \in S
        BY <1>1, <2>1
      <4>2. k + 1 \in Int /\ n \in Int /\ k + 1 <= n
        BY <1>1, <2>1
      <4> HIDE DEF n
      <4> QED
        BY <4>1, <4>2, SubSeqProperties
    <3>2. n - (k + 1) + 1 # 0
      BY <1>1, <2>1
    <3> QED
      BY <3>1, <3>2
  <2> QED
    BY <2>2, <2>3 DEF Left
<1> QED
  BY <1>2, <1>3, <1>4

(* The call that is made says how far the boot is. *)
LEMMA StageOf ==
  ASSUME Booted, boot # <<>>
  PROVE  \E k \in 0 .. Len(BootCalls) - 1 :
           /\ boot = Left(k) /\ Tail(boot) = Left(k + 1) /\ Head(boot) = BootCalls[k + 1]
           /\ table = [id \in Id |-> NULL] /\ buffer = <<>> /\ Layout(k)
           /\ Head(boot).call = "mount" => k \in {0, 1, 2, 4}
           /\ Head(boot).call = "mkdir" => k = 3
           /\ Head(boot).call = "module" => k >= 5 /\ k <= 4 + Len(Modules)
           /\ Head(boot).call = "start" => k + 1 = Len(BootCalls) /\ k >= 5
<1>1. PICK k \in 0 .. Len(BootCalls) :
        /\ boot = Left(k)
        /\ k < Len(BootCalls) => table = [id \in Id |-> NULL] /\ buffer = <<>> /\ Layout(k)
  BY DEF Booted
<1>2. Len(Modules) \in Nat /\ Len(BootCalls) = 6 + Len(Modules)
  BY BootCallsAre
<1>3. k # Len(BootCalls)
  BY <1>1, LeftIs
<1>4. k \in 0 .. Len(BootCalls) - 1 /\ k < Len(BootCalls)
  BY <1>2, <1>3
<1>5. Tail(boot) = Left(k + 1) /\ Head(boot) = BootCalls[k + 1]
  BY <1>1, <1>4, LeftIs
<1>6. \/ k \in {0, 1, 2, 4} /\ BootCalls[k + 1].call = "mount"
      \/ k = 3 /\ BootCalls[k + 1].call = "mkdir"
      \/ k >= 5 /\ k <= 4 + Len(Modules) /\ BootCalls[k + 1].call = "module"
      \/ k = 5 + Len(Modules) /\ BootCalls[k + 1].call = "start"
  <2>1. CASE k \in {0, 1, 2, 4}
    BY <2>1, BootCallsAre DEF MountCall
  <2>2. CASE k = 3
    BY <2>2, BootCallsAre
  <2>3. CASE k \in 5 .. 4 + Len(Modules)
    <3>1. k + 1 \in 6 .. 5 + Len(Modules)
      BY <1>2, <2>3
    <3> QED
      BY <1>2, <2>3, <3>1, BootCallsAre
  <2>4. CASE k = 5 + Len(Modules)
    <3>1. k + 1 = 6 + Len(Modules)
      BY <1>2, <2>4
    <3> QED
      BY <2>4, <3>1, BootCallsAre
  <2> QED
    BY <1>2, <1>4, <2>1, <2>2, <2>3, <2>4
<1> QED
  BY <1>1, <1>2, <1>4, <1>5, <1>6

-----------------------------------------------------------------------------
(* Where lookups lead while the system boots *)

(* The nodes a walk that succeeds has passed. *)
LEMMA WalkTrail ==
  ASSUME NEW path, NEW dir, NEW exclusive, Len(path.comps) \in Nat,
         Walk(path, dir, exclusive).err = "OK"
  PROVE  \E t : /\ Start(path, dir).err = "OK" /\ t[0] = Start(path, dir).node
                /\ \A k \in 1 .. Len(path.comps) :
                     LET r == lookup(t[k - 1], path.comps[k])
                     IN r.err = "OK" /\ t[k] = Cross(IF r.node = 0 THEN t[k - 1] ELSE r.node)
                /\ Walk(path, dir, exclusive).node = t[Len(path.comps)]
<1> DEFINE last == Len(path.comps)
<1>1. PICK f : /\ f[0] = Start(path, dir)
               /\ \A k \in 1 .. last : f[k] = Onward(f[k - 1], path, k, exclusive)
               /\ Walk(path, dir, exclusive) = f[last]
  BY WalkIs
<1>2. \A k \in 1 .. last : f[k - 1].err # "OK" => f[k] = f[k - 1]
  BY <1>1 DEF Onward
<1>3. \A k \in 0 .. last : f[k].err = "OK"
  <2> SUFFICES ASSUME NEW k \in 0 .. last, f[k].err # "OK"
               PROVE  FALSE
    OBVIOUS
  <2> DEFINE T == {l \in k .. last : f[l].err = "OK"}
  <2>1. last \in T
    BY <1>1
  <2>2. T \in SUBSET Nat
    OBVIOUS
  <2>3. ASSUME NEW l \in T, \A m \in T : l <= m
        PROVE  FALSE
    <3>1. l \in k .. last /\ f[l].err = "OK"
      BY <2>3
    <3>2. l # k
      BY <3>1
    <3>3. l - 1 \in k .. last /\ l \in 1 .. last /\ ~(l <= l - 1)
      BY <3>1, <3>2
    <3>4. l - 1 \notin T
      BY <2>3, <3>3
    <3>5. f[l - 1].err # "OK"
      BY <3>3, <3>4
    <3> QED
      BY <1>2, <3>1, <3>3, <3>5
  <2> HIDE DEF T
  <2> QED
    BY <2>1, <2>2, <2>3, Least
<1> DEFINE t == [k \in 0 .. last |-> f[k].node]
<1>4. t[0] = Start(path, dir).node /\ Start(path, dir).err = "OK" /\ t[last] = f[last].node
  BY <1>1, <1>3
<1>5. ASSUME NEW k \in 1 .. last
      PROVE  LET r == lookup(t[k - 1], path.comps[k])
             IN r.err = "OK" /\ t[k] = Cross(IF r.node = 0 THEN t[k - 1] ELSE r.node)
  <2>1. k - 1 \in 0 .. last /\ k \in 0 .. last
    BY <1>5
  <2>2. t[k] = f[k].node /\ t[k - 1] = f[k - 1].node
    BY <2>1
  <2>3. f[k].err = "OK" /\ f[k - 1].err = "OK" /\ f[k] = Onward(f[k - 1], path, k, exclusive)
    BY <1>1, <1>3, <2>1
  <2> DEFINE at == f[k - 1]
             name == path.comps[k]
  <2> HIDE DEF at, name, t
  <2>4. f[k] = Step(at.node, name, exclusive)
    BY <2>3 DEF Onward, at, name
  <2>5. lookup(at.node, name).err = "OK"
        /\ f[k].node = Cross(IF lookup(at.node, name).node = 0 THEN at.node
                             ELSE lookup(at.node, name).node)
    BY <2>3, <2>4 DEF Step, Found, Failed
  <2> QED
    BY <2>2, <2>5 DEF at, name
<1> HIDE DEF t
<1> QED
  BY <1>1, <1>4, <1>5

(* What a successful lookup of a name finds has that name. *)
LEMMA LookupNamed ==
  ASSUME Form, NEW n, NEW name, name \notin {".", ".."}, lookup(n, name).err = "OK"
  PROVE  lookup(n, name).node \in Named(n, name) /\ lookup(n, name).node # 0
<1>1. 0 \notin DOMAIN nodes
  BY SequenceIsSeq DEF Form, WellFormed
<1>2. Named(n, name) # {} /\ lookup(n, name) = Found(CHOOSE i \in Named(n, name) : TRUE)
  BY DEF lookup, Found, Failed
<1>3. (CHOOSE i \in Named(n, name) : TRUE) \in Named(n, name)
  BY <1>2
<1>4. lookup(n, name).node \in Named(n, name)
  BY <1>2, <1>3 DEF Found
<1> QED
  BY <1>1, <1>4 DEF Named

(* A node that nothing is mounted on, and one that one file system is. *)
LEMMA CrossUncovered ==
  ASSUME NEW n, \A m \in DOMAIN mounts : mounts[m].mount_node # n
  PROVE  Cross(n) = n
  BY DEF Cross

(* Covered, it leads to the root mounted there. *)
LEMMA CrossCovered ==
  ASSUME NEW m \in DOMAIN mounts, \A o \in DOMAIN mounts \ {m} : mounts[o].mount_node # mounts[m].mount_node
  PROVE  Cross(mounts[m].mount_node) = mounts[m].root
<1> DEFINE on == {o \in DOMAIN mounts : mounts[o].mount_node = mounts[m].mount_node}
<1>1. on = {m}
  OBVIOUS
<1>2. (CHOOSE o \in on : TRUE) = m
  BY <1>1
<1> QED
  BY <1>1, <1>2 DEF Cross

(* The lookups of the boot: names from the root, over mount points. *)
LEMMA AbsoluteTrail ==
  ASSUME NEW comps, Len(comps) \in Nat, mounts # <<>>,
         vfs_lookup(Absolute(comps), 0).err = "OK"
  PROVE  \E t : /\ t[0] = Cross(mounts[1].root)
                /\ \A k \in 1 .. Len(comps) :
                     LET r == lookup(t[k - 1], comps[k])
                     IN r.err = "OK" /\ t[k] = Cross(IF r.node = 0 THEN t[k - 1] ELSE r.node)
                /\ vfs_lookup(Absolute(comps), 0).node = t[Len(comps)]
<1> DEFINE path == Absolute(comps)
           exclusive == FALSE
           none == 0
<1>1. path.comps = comps /\ path.abs = TRUE
  BY DEF Absolute
<1> HIDE DEF path, none, exclusive
<1>2. Walk(path, none, exclusive).err = "OK" /\ vfs_lookup(path, 0).node = Walk(path, none, exclusive).node
  <2>1. vfs_lookup(path, 0).err = "OK"
    BY DEF path
  <2> QED
    BY <2>1 DEF vfs_lookup, vfs_lookup_ext, none, exclusive
<1>3. Start(path, none).node = Cross(mounts[1].root)
  BY <1>1 DEF Start, Found
<1>4. PICK t : /\ Start(path, none).err = "OK" /\ t[0] = Start(path, none).node
               /\ \A k \in 1 .. Len(path.comps) :
                    LET r == lookup(t[k - 1], path.comps[k])
                    IN r.err = "OK" /\ t[k] = Cross(IF r.node = 0 THEN t[k - 1] ELSE r.node)
               /\ Walk(path, none, exclusive).node = t[Len(path.comps)]
  <2>1. Len(path.comps) \in Nat
    BY <1>1
  <2> QED
    <3>1. Walk(path, none, exclusive).err = "OK"
      BY <1>2
    <3> QED
      BY <2>1, <3>1, WalkTrail
<1>5. \A k \in 1 .. Len(comps) :
        LET r == lookup(t[k - 1], comps[k])
        IN r.err = "OK" /\ t[k] = Cross(IF r.node = 0 THEN t[k - 1] ELSE r.node)
  BY <1>1, <1>4
<1>6. vfs_lookup(path, 0).node = t[Len(comps)]
  BY <1>1, <1>2, <1>4
<1> QED
  BY <1>3, <1>4, <1>5, <1>6 DEF path

(* A lookup of /a, of /a/b and of /a/b/e. *)
LEMMA LookupOne ==
  ASSUME Form, mounts # <<>>, NEW a, a \notin {".", ".."},
         vfs_lookup(Absolute(<<a>>), 0).err = "OK"
  PROVE  \E c \in Named(Cross(mounts[1].root), a) : vfs_lookup(Absolute(<<a>>), 0).node = Cross(c)
<1> DEFINE comps == <<a>>
<1>1. Len(comps) = 1 /\ comps[1] = a
  OBVIOUS
<1> HIDE DEF comps
<1>2. PICK t : /\ t[0] = Cross(mounts[1].root)
               /\ \A k \in 1 .. Len(comps) :
                    LET r == lookup(t[k - 1], comps[k])
                    IN r.err = "OK" /\ t[k] = Cross(IF r.node = 0 THEN t[k - 1] ELSE r.node)
               /\ vfs_lookup(Absolute(comps), 0).node = t[Len(comps)]
  BY <1>1, AbsoluteTrail DEF comps
<1>3. /\ lookup(t[0], a).err = "OK"
      /\ t[1] = Cross(IF lookup(t[0], a).node = 0 THEN t[0] ELSE lookup(t[0], a).node)
  BY <1>1, <1>2
<1>4. lookup(t[0], a).node \in Named(t[0], a) /\ lookup(t[0], a).node # 0
  BY <1>3, LookupNamed
<1> QED
  BY <1>1, <1>2, <1>3, <1>4 DEF comps

LEMMA LookupTwo ==
  ASSUME Form, mounts # <<>>, NEW a, a \notin {".", ".."}, NEW b, b \notin {".", ".."},
         vfs_lookup(Absolute(<<a, b>>), 0).err = "OK"
  PROVE  \E c \in Named(Cross(mounts[1].root), a) : \E d \in Named(Cross(c), b) :
           vfs_lookup(Absolute(<<a, b>>), 0).node = Cross(d)
<1> DEFINE comps == <<a, b>>
<1>1. Len(comps) = 2 /\ comps[1] = a /\ comps[2] = b
  OBVIOUS
<1> HIDE DEF comps
<1>2. PICK t : /\ t[0] = Cross(mounts[1].root)
               /\ \A k \in 1 .. Len(comps) :
                    LET r == lookup(t[k - 1], comps[k])
                    IN r.err = "OK" /\ t[k] = Cross(IF r.node = 0 THEN t[k - 1] ELSE r.node)
               /\ vfs_lookup(Absolute(comps), 0).node = t[Len(comps)]
  BY <1>1, AbsoluteTrail DEF comps
<1>3. /\ lookup(t[0], a).err = "OK"
      /\ t[1] = Cross(IF lookup(t[0], a).node = 0 THEN t[0] ELSE lookup(t[0], a).node)
      /\ lookup(t[1], b).err = "OK"
      /\ t[2] = Cross(IF lookup(t[1], b).node = 0 THEN t[1] ELSE lookup(t[1], b).node)
  BY <1>1, <1>2
<1>4. /\ lookup(t[0], a).node \in Named(t[0], a) /\ lookup(t[0], a).node # 0
      /\ lookup(t[1], b).node \in Named(t[1], b) /\ lookup(t[1], b).node # 0
  BY <1>3, LookupNamed
<1> QED
  BY <1>1, <1>2, <1>3, <1>4 DEF comps

LEMMA LookupThree ==
  ASSUME Form, mounts # <<>>, NEW a, a \notin {".", ".."}, NEW b, b \notin {".", ".."},
         NEW e, e \notin {".", ".."}, vfs_lookup(Absolute(<<a, b, e>>), 0).err = "OK"
  PROVE  \E c \in Named(Cross(mounts[1].root), a) : \E d \in Named(Cross(c), b) :
           \E f \in Named(Cross(d), e) : vfs_lookup(Absolute(<<a, b, e>>), 0).node = Cross(f)
<1> DEFINE comps == <<a, b, e>>
<1>1. Len(comps) = 3 /\ comps[1] = a /\ comps[2] = b /\ comps[3] = e
  OBVIOUS
<1> HIDE DEF comps
<1>2. PICK t : /\ t[0] = Cross(mounts[1].root)
               /\ \A k \in 1 .. Len(comps) :
                    LET r == lookup(t[k - 1], comps[k])
                    IN r.err = "OK" /\ t[k] = Cross(IF r.node = 0 THEN t[k - 1] ELSE r.node)
               /\ vfs_lookup(Absolute(comps), 0).node = t[Len(comps)]
  BY <1>1, AbsoluteTrail DEF comps
<1>3. /\ lookup(t[0], a).err = "OK"
      /\ t[1] = Cross(IF lookup(t[0], a).node = 0 THEN t[0] ELSE lookup(t[0], a).node)
      /\ lookup(t[1], b).err = "OK"
      /\ t[2] = Cross(IF lookup(t[1], b).node = 0 THEN t[1] ELSE lookup(t[1], b).node)
      /\ lookup(t[2], e).err = "OK"
      /\ t[3] = Cross(IF lookup(t[2], e).node = 0 THEN t[2] ELSE lookup(t[2], e).node)
  BY <1>1, <1>2
<1>4. /\ lookup(t[0], a).node \in Named(t[0], a) /\ lookup(t[0], a).node # 0
      /\ lookup(t[1], b).node \in Named(t[1], b) /\ lookup(t[1], b).node # 0
      /\ lookup(t[2], e).node \in Named(t[2], e) /\ lookup(t[2], e).node # 0
  BY <1>3, LookupNamed
<1> QED
  BY <1>1, <1>2, <1>3, <1>4 DEF comps

(* The mount points there are k calls on. *)
LEMMA Points ==
  ASSUME Form, NEW k \in Nat, k >= 1, Layout(k)
  PROVE  /\ mounts # <<>> /\ mounts[1].root = 1 /\ Cross(1) = 1
         /\ D \in Nat /\ Len(nodes) \in Nat /\ DOMAIN nodes = 1 .. Len(nodes)
         /\ DOMAIN mounts = 1 .. (IF k >= 5 THEN 4 ELSE IF k >= 3 THEN 3 ELSE k)
         /\ \A m \in DOMAIN mounts :
              \/ m = 1 /\ mounts[m].mount_node = 0
              \/ m = 2 /\ mounts[m].mount_node \in Named(1, "modules")
              \/ m = 3 /\ mounts[m].mount_node \in Named(1, "tmp") /\ mounts[m].root = D + 2
              \/ m = 4 /\ mounts[m].mount_node = D + 3 /\ mounts[m].root = D + 4
         /\ \A name : \A c \in Named(1, name) : c # 1 /\ nodes[c].parent = 1
<1>1. DOMAIN nodes = 1 .. Len(nodes) /\ Len(nodes) \in Nat
  BY SequenceIsSeq DEF Form, WellFormed
<1>2. D \in Nat
  BY BootAssumption, SequenceIsSeq DEF D
<1>3. Len(mounts) = (IF k >= 5 THEN 4 ELSE IF k >= 3 THEN 3 ELSE k)
  <2>1. k = 1 \/ k = 2 \/ k = 3 \/ k = 4 \/ k >= 5
    OBVIOUS
  <2>2. /\ k = 1 => Len(mounts) = 1
        /\ k = 2 => Len(mounts) = 2
        /\ k = 3 => Len(mounts) = 3
        /\ k = 4 => Len(mounts) = 3
        /\ k >= 5 => Len(mounts) = 4
    BY Zenon DEF Layout
  <2>3. CASE k >= 5
    BY <2>2, <2>3
  <2>4. CASE k = 1
    BY <2>2, <2>4
  <2>5. CASE k = 2
    BY <2>2, <2>5
  <2>6. CASE k = 3
    BY <2>2, <2>6
  <2>7. CASE k = 4
    BY <2>2, <2>7
  <2> QED
    BY <2>1, <2>3, <2>4, <2>5, <2>6, <2>7
<1>4. DOMAIN mounts = 1 .. Len(mounts)
  BY DEF Form
<1>5. mounts[1] = [ops |-> "rdsk", mount_node |-> 0, root |-> 1]
  BY DEF Layout
<1>6. ASSUME NEW name, NEW c \in Named(1, name)
      PROVE  c # 1 /\ nodes[c].parent = 1
  <2>1. c \in DOMAIN nodes /\ nodes[c].parent = 1
    BY <1>6 DEF Named
  <2>2. nodes[c].parent \in 0 .. c - 1
    BY <2>1 DEF Form, WellFormed
  <2> QED
    BY <1>1, <2>1, <2>2
<1>7. ASSUME NEW m \in DOMAIN mounts
      PROVE  \/ m = 1 /\ mounts[m].mount_node = 0
             \/ m = 2 /\ mounts[m].mount_node \in Named(1, "modules")
             \/ m = 3 /\ mounts[m].mount_node \in Named(1, "tmp") /\ mounts[m].root = D + 2
             \/ m = 4 /\ mounts[m].mount_node = D + 3 /\ mounts[m].root = D + 4
  <2>1. m \in 1 .. Len(mounts)
    BY <1>4, <1>7
  <2>2. m = 1 \/ (m = 2 /\ k >= 2) \/ (m = 3 /\ k >= 3) \/ (m = 4 /\ k >= 5)
    BY <1>3, <2>1
  <2> QED
    BY <1>5, <2>2 DEF Layout
<1>8. Cross(1) = 1
  <2>1. \A m \in DOMAIN mounts : mounts[m].mount_node # 1
    BY <1>2, <1>6, <1>7
  <2> QED
    BY <2>1, CrossUncovered
<1> QED
  BY <1>1, <1>2, <1>3, <1>4, <1>5, <1>6, <1>7, <1>8

(* From /tmp on a lookup is in the tmpfs mounted there. *)
LEMMA AtTmp ==
  ASSUME Form, NEW k \in Nat, k >= 3, Layout(k), NEW c \in Named(1, "tmp")
  PROVE  Cross(c) = D + 2
<1>1. /\ D \in Nat /\ DOMAIN mounts = 1 .. (IF k >= 5 THEN 4 ELSE IF k >= 3 THEN 3 ELSE k)
      /\ \A m \in DOMAIN mounts :
           \/ m = 1 /\ mounts[m].mount_node = 0
           \/ m = 2 /\ mounts[m].mount_node \in Named(1, "modules")
           \/ m = 3 /\ mounts[m].mount_node \in Named(1, "tmp") /\ mounts[m].root = D + 2
           \/ m = 4 /\ mounts[m].mount_node = D + 3 /\ mounts[m].root = D + 4
      /\ DOMAIN nodes = 1 .. Len(nodes) /\ Len(nodes) \in Nat
  BY Points
<1>2. /\ \A i, j \in Named(1, "tmp") : i = j
      /\ k >= 4 => Named(D + 2, "stdio") = {D + 3}
  BY DEF Layout
<1>3. 3 \in DOMAIN mounts /\ mounts[3].mount_node \in Named(1, "tmp") /\ mounts[3].root = D + 2
  BY <1>1
<1>4. mounts[3].mount_node = c
  BY <1>2, <1>3
<1>5. c # 0 /\ c \notin Named(1, "modules") /\ nodes[c].parent = 1
  BY <1>1 DEF Named
<1>6. 4 \in DOMAIN mounts => c # D + 3
  <2>1. 4 \in DOMAIN mounts => k >= 4
    BY <1>1
  <2>2. D + 3 \in Named(D + 2, "stdio") => nodes[D + 3].parent = D + 2
    BY DEF Named
  <2>3. D + 2 # 1
    BY <1>1
  <2> QED
    BY <1>2, <1>5, <2>1, <2>2, <2>3
<1>7. \A o \in DOMAIN mounts \ {3} : mounts[o].mount_node # mounts[3].mount_node
  BY <1>1, <1>4, <1>5, <1>6
<1> QED
  BY <1>3, <1>4, <1>7, CrossCovered

(* /tmp/stdio is a directory of that tmpfs, later covered by the streams. *)
LEMMA AtStdio ==
  ASSUME Form, NEW k \in Nat, k >= 4, Layout(k)
  PROVE  Cross(D + 3) = IF k >= 5 THEN D + 4 ELSE D + 3
<1>1. /\ D \in Nat /\ DOMAIN mounts = 1 .. (IF k >= 5 THEN 4 ELSE IF k >= 3 THEN 3 ELSE k)
      /\ \A m \in DOMAIN mounts :
           \/ m = 1 /\ mounts[m].mount_node = 0
           \/ m = 2 /\ mounts[m].mount_node \in Named(1, "modules")
           \/ m = 3 /\ mounts[m].mount_node \in Named(1, "tmp") /\ mounts[m].root = D + 2
           \/ m = 4 /\ mounts[m].mount_node = D + 3 /\ mounts[m].root = D + 4
  BY Points
<1>2. Named(D + 2, "stdio") = {D + 3}
  BY DEF Layout
<1>3. nodes[D + 3].parent = D + 2 /\ D + 2 # 1 /\ D + 3 # 0
  <2>1. D + 3 \in Named(D + 2, "stdio")
    BY <1>2
  <2>2. nodes[D + 3].parent = D + 2
    BY <2>1 DEF Named
  <2> QED
    BY <1>1, <2>2
<1>4. D + 3 \notin Named(1, "modules") /\ D + 3 \notin Named(1, "tmp")
  BY <1>3 DEF Named
<1>5. \A m \in DOMAIN mounts \ {4} : mounts[m].mount_node # D + 3
  BY <1>1, <1>3, <1>4
<1>6. CASE k >= 5
  <2>1. 4 \in DOMAIN mounts
    BY <1>1, <1>6
  <2>2. mounts[4].mount_node = D + 3 /\ mounts[4].root = D + 4
    BY <1>1, <2>1
  <2>3. Cross(mounts[4].mount_node) = mounts[4].root
    BY <1>5, <2>1, <2>2, CrossCovered
  <2> QED
    BY <1>6, <2>2, <2>3
<1>7. CASE ~(k >= 5)
  <2>1. 4 \notin DOMAIN mounts
    BY <1>1, <1>7
  <2>2. Cross(D + 3) = D + 3
    BY <1>5, <2>1, CrossUncovered
  <2> QED
    BY <1>7, <2>2
<1> QED
  BY <1>6, <1>7

(* The lookups of the streams find nodes of the file system of streams. *)
LEMMA StreamsAre ==
  ASSUME Form, Kinds(nodes, mounts), NEW k \in Nat, k >= 5, Layout(k),
         NEW n \in {"stdin", "stdout", "stderr"},
         vfs_lookup(Absolute(<<"tmp", "stdio", n>>), 0).err = "OK"
  PROVE  LET i == vfs_lookup(Absolute(<<"tmp", "stdio", n>>), 0).node
         IN i \in DOMAIN nodes /\ nodes[i].data = NULL
<1>1. /\ D \in Nat /\ DOMAIN nodes = 1 .. Len(nodes) /\ Len(nodes) \in Nat
      /\ mounts # <<>> /\ mounts[1].root = 1 /\ Cross(1) = 1
      /\ \A m \in DOMAIN mounts :
           \/ m = 1 /\ mounts[m].mount_node = 0
           \/ m = 2 /\ mounts[m].mount_node \in Named(1, "modules")
           \/ m = 3 /\ mounts[m].mount_node \in Named(1, "tmp") /\ mounts[m].root = D + 2
           \/ m = 4 /\ mounts[m].mount_node = D + 3 /\ mounts[m].root = D + 4
  BY Points
<1>2. n \notin {".", ".."}
  OBVIOUS
<1>3. PICK c \in Named(1, "tmp") : \E d \in Named(Cross(c), "stdio") : \E f \in Named(Cross(d), n) :
        vfs_lookup(Absolute(<<"tmp", "stdio", n>>), 0).node = Cross(f)
  <2> DEFINE a == "tmp"
             b == "stdio"
  <2>1. a \notin {".", ".."} /\ b \notin {".", ".."} /\ vfs_lookup(Absolute(<<a, b, n>>), 0).err = "OK"
    OBVIOUS
  <2> HIDE DEF a, b
  <2>2. \E c \in Named(Cross(mounts[1].root), a) : \E d \in Named(Cross(c), b) :
          \E f \in Named(Cross(d), n) : vfs_lookup(Absolute(<<a, b, n>>), 0).node = Cross(f)
    <3>1. mounts # <<>>
      BY <1>1
    <3> QED
      BY <1>2, <2>1, <3>1, LookupThree, Zenon
  <2>3. Cross(mounts[1].root) = 1
    BY <1>1
  <2> QED
    BY <2>2, <2>3, Zenon DEF a, b
<1>4. Cross(c) = D + 2
  <2>1. k >= 3
    OBVIOUS
  <2> QED
    BY <2>1, AtTmp
<1>5. /\ Named(D + 2, "stdio") = {D + 3}
      /\ Named(D + 4, "stdin") = {D + 5} /\ Named(D + 4, "stdout") = {D + 6}
      /\ Named(D + 4, "stderr") = {D + 7}
      /\ \A i \in D + 5 .. D + 7 : nodes[i].fs = 4
      /\ mounts[4].ops = "stdio"
  BY DEF Layout
<1>6. Cross(D + 3) = D + 4
  <2>1. k >= 4
    OBVIOUS
  <2> QED
    BY <2>1, AtStdio
<1>7. PICK f \in Named(D + 4, n) : vfs_lookup(Absolute(<<"tmp", "stdio", n>>), 0).node = Cross(f)
  BY <1>3, <1>4, <1>5, <1>6
<1>8. f \in DOMAIN nodes /\ nodes[f].parent = D + 4 /\ f \in D + 5 .. D + 7
  <2>1. f \in DOMAIN nodes /\ nodes[f].parent = D + 4
    BY DEF Named
  <2>2. f = D + 5 \/ f = D + 6 \/ f = D + 7
    BY <1>5
  <2> QED
    BY <1>1, <2>1, <2>2
<1>9. Cross(f) = f
  <2>1. f \notin Named(1, "modules") /\ f \notin Named(1, "tmp") /\ f # 0 /\ f # D + 3
    <3>1. D + 4 # 1
      BY <1>1
    <3>2. nodes[f].parent # 1
      BY <1>8, <3>1
    <3> QED
      BY <1>1, <1>8, <3>2 DEF Named
  <2>2. \A m \in DOMAIN mounts : mounts[m].mount_node # f
    BY <1>1, <2>1
  <2> QED
    BY <2>2, CrossUncovered
<1>10. nodes[f].data = NULL
  <2>1. nodes[f].fs = 4
    BY <1>5, <1>8
  <2> QED
    BY <1>5, <1>8, <2>1 DEF Kinds
<1> QED
  BY <1>7, <1>8, <1>9, <1>10

-----------------------------------------------------------------------------
(* Mounting *)

(* The nodes of a fresh file system of each kind. *)
Root == [parent |-> 0, name |-> NULL, type |-> "DIR", data |-> NULL]
Stream(n) == [parent |-> 1, name |-> n, type |-> "FILE", data |-> NULL]

(* The nodes a file system comes with. *)
LEMMA FreshIs ==
  /\ Fresh("rdsk") = Disk
  /\ Fresh("tmpfs") = <<Root>>
  /\ Fresh("stdio") = <<Root, Stream("stdin"), Stream("stdout"), Stream("stderr")>>
BY DEF Fresh, Root, Stream

LEMMA FreshKinds ==
  ASSUME NEW ops \in {"rdsk", "tmpfs", "stdio"}
  PROVE  /\ IsSequence(Fresh(ops)) /\ Len(Fresh(ops)) >= 1
         /\ \A j \in 1 .. Len(Fresh(ops)) :
              LET f == Fresh(ops)[j]
              IN /\ f.parent \in 0 .. j - 1 /\ f.type \in {"DIR", "FILE"}
                 /\ IF f.type = "DIR" \/ ops = "stdio" THEN f.data = NULL
                    ELSE f.data \in Data /\ Len(f.data) < HALF
<1>1. CASE ops = "rdsk"
  <2>1. IsSequence(Disk) /\ Len(Disk) >= 1 /\ Len(Disk) \in Nat
    BY BootAssumption DEF IsSequence
  <2>2. ASSUME NEW j \in 1 .. Len(Disk)
        PROVE  /\ Disk[j].parent \in 0 .. j - 1 /\ Disk[j].type \in {"DIR", "FILE"}
               /\ IF Disk[j].type = "DIR" THEN Disk[j].data = NULL
                  ELSE Disk[j].data \in Data /\ Len(Disk[j].data) < HALF
    <3>1. CASE j = 1
      BY <3>1, BootAssumption
    <3>2. CASE j # 1
      <4>1. j \in 2 .. Len(Disk)
        BY <2>1, <3>2
      <4>2. /\ Disk[j].parent \in 1 .. j - 1
            /\ \/ Disk[j].type = "DIR" /\ Disk[j].data = NULL
               \/ Disk[j].type = "FILE" /\ Disk[j].data \in Seq(Byte) /\ Len(Disk[j].data) < HALF
        BY <4>1, BootAssumption
      <4>3. Disk[j].parent \in 0 .. j - 1
        BY <2>1, <4>1, <4>2
      <4>4. Disk[j].data \in Seq(Byte) => Disk[j].data \in Data
        BY SeqMonotonic DEF Data
      <4> QED
        BY <4>2, <4>3, <4>4
    <3> QED
      BY <3>1, <3>2
  <2> QED
    BY <1>1, <2>1, <2>2, FreshIs
<1>2. CASE ops = "tmpfs"
  <2> DEFINE f == <<Root>>
  <2>1. /\ IsSequence(f) /\ Len(f) = 1
        /\ f[1].parent = 0 /\ f[1].type = "DIR" /\ f[1].data = NULL
    BY DEF IsSequence, Root
  <2>2. Fresh(ops) = f
    BY <1>2, FreshIs
  <2> HIDE DEF f
  <2>3. \A j \in 1 .. 1 : j = 1
    OBVIOUS
  <2>4. ASSUME NEW j \in 1 .. 1
        PROVE  f[j].parent \in 0 .. j - 1 /\ f[j].type = "DIR" /\ f[j].data = NULL
    BY <2>1, <2>3
  <2>5. /\ IsSequence(f) /\ Len(f) >= 1
        /\ \A j \in 1 .. Len(f) :
             /\ f[j].parent \in 0 .. j - 1 /\ f[j].type \in {"DIR", "FILE"}
             /\ IF f[j].type = "DIR" \/ ops = "stdio" THEN f[j].data = NULL
                ELSE f[j].data \in Data /\ Len(f[j].data) < HALF
    BY <2>1, <2>4
  <2> QED
    BY <2>2, <2>5
<1>3. CASE ops = "stdio"
  <2> DEFINE f == <<Root, Stream("stdin"), Stream("stdout"), Stream("stderr")>>
  <2>1. /\ IsSequence(f) /\ Len(f) = 4
        /\ f[1].parent = 0 /\ f[1].type = "DIR" /\ f[1].data = NULL
        /\ f[2].parent = 1 /\ f[2].type = "FILE" /\ f[2].data = NULL
        /\ f[3].parent = 1 /\ f[3].type = "FILE" /\ f[3].data = NULL
        /\ f[4].parent = 1 /\ f[4].type = "FILE" /\ f[4].data = NULL
    BY DEF IsSequence, Root, Stream
  <2>2. Fresh(ops) = f
    BY <1>3, FreshIs
  <2> HIDE DEF f
  <2>3. \A j \in 1 .. 4 : j = 1 \/ j = 2 \/ j = 3 \/ j = 4
    OBVIOUS
  <2>4. ASSUME NEW j \in 1 .. 4
        PROVE  f[j].parent \in 0 .. j - 1 /\ f[j].type \in {"DIR", "FILE"} /\ f[j].data = NULL
    BY <2>1, <2>3
  <2>5. /\ IsSequence(f) /\ Len(f) >= 1
        /\ \A j \in 1 .. Len(f) :
             /\ f[j].parent \in 0 .. j - 1 /\ f[j].type \in {"DIR", "FILE"}
             /\ IF f[j].type = "DIR" \/ ops = "stdio" THEN f[j].data = NULL
                ELSE f[j].data \in Data /\ Len(f[j].data) < HALF
    BY <1>3, <2>1, <2>4
  <2> QED
    BY <2>2, <2>5
<1> QED
  BY <1>1, <1>2, <1>3

(* The nodes there are once they have been added. *)
LEMMA Placing ==
  ASSUME Form, Kinds(nodes, mounts) \/ nodes = <<>>, NEW ops \in {"rdsk", "tmpfs", "stdio"}
  PROVE  LET new == Fresh(ops)
             after == nodes \o Placed(new)
         IN /\ WellFormed(after, Len(mounts)) /\ WellFormed(after, Len(mounts) + 1)
            /\ Len(after) = Len(nodes) + Len(new) /\ DOMAIN after = 1 .. Len(nodes) + Len(new)
            /\ \A i \in DOMAIN nodes : after[i] = nodes[i]
            /\ \A j \in 1 .. Len(new) :
                 after[Len(nodes) + j] =
                   [fs |-> Len(mounts) + 1, name |-> new[j].name, type |-> new[j].type,
                    data |-> new[j].data,
                    parent |-> IF new[j].parent = 0 THEN 0 ELSE Len(nodes) + new[j].parent]
<1> DEFINE new == Fresh(ops)
           placed == Placed(new)
           after == nodes \o placed
           rec(j) == [fs |-> Len(mounts) + 1, name |-> new[j].name, type |-> new[j].type,
                      data |-> new[j].data,
                      parent |-> IF new[j].parent = 0 THEN 0 ELSE Len(nodes) + new[j].parent]
<1>1. /\ IsSequence(nodes) /\ DOMAIN nodes = 1 .. Len(nodes) /\ Len(nodes) \in Nat
      /\ Len(mounts) \in Nat
  BY SequenceIsSeq DEF Form, WellFormed
<1>2. /\ IsSequence(new) /\ DOMAIN new = 1 .. Len(new) /\ Len(new) \in Nat
      /\ \A j \in 1 .. Len(new) :
           /\ new[j].parent \in 0 .. j - 1 /\ new[j].type \in {"DIR", "FILE"}
           /\ new[j].data = NULL \/ new[j].data \in Data
  BY FreshKinds, SequenceIsSeq
<1> HIDE DEF new
<1>3. placed = [j \in 1 .. Len(new) |-> placed[j]] /\ \A j \in 1 .. Len(new) : placed[j] = rec(j)
  BY <1>2 DEF Placed
<1> HIDE DEF placed
<1>4. IsSequence(placed) /\ Len(placed) = Len(new)
  BY <1>2, <1>3, Enumerated
<1>5. /\ IsSequence(after) /\ Len(after) = Len(nodes) + Len(new)
      /\ \A i \in 1 .. Len(nodes) : after[i] = nodes[i]
      /\ \A j \in 1 .. Len(new) : after[Len(nodes) + j] = placed[j]
  <2>1. /\ IsSequence(after) /\ Len(after) = Len(nodes) + Len(placed)
        /\ \A i \in 1 .. Len(nodes) : after[i] = nodes[i]
        /\ \A j \in 1 .. Len(placed) : after[Len(nodes) + j] = placed[j]
    BY <1>1, <1>4, Concatenated
  <2> QED
    BY <1>4, <2>1
<1> HIDE DEF after
<1>6. DOMAIN after = 1 .. Len(nodes) + Len(new)
  BY <1>5, SequenceIsSeq
<1>7. \A j \in 1 .. Len(new) : after[Len(nodes) + j] = rec(j)
  BY <1>3, <1>5
<1>8. ASSUME NEW i \in DOMAIN after
      PROVE  /\ IsNode(after[i])
             /\ after[i].fs \in 1 .. Len(mounts) + 1
             /\ after[i].parent \in 0 .. i - 1
             /\ after[i].type \in {"DIR", "FILE"}
             /\ after[i].data = NULL \/ after[i].data \in Data
  <2>1. CASE i \in 1 .. Len(nodes)
    BY <1>1, <1>5, <2>1 DEF Form, WellFormed
  <2>2. CASE i \notin 1 .. Len(nodes)
    <3> DEFINE j == i - Len(nodes)
    <3>1. j \in 1 .. Len(new) /\ i = Len(nodes) + j
      BY <1>1, <1>2, <1>6, <2>2
    <3> HIDE DEF j
    <3>2. after[i] = rec(j)
      BY <1>7, <3>1
    <3>3. /\ new[j].parent \in 0 .. j - 1 /\ new[j].type \in {"DIR", "FILE"}
          /\ new[j].data = NULL \/ new[j].data \in Data
      BY <1>2, <3>1
    <3>4. (IF new[j].parent = 0 THEN 0 ELSE Len(nodes) + new[j].parent) \in 0 .. i - 1
      BY <1>1, <3>1, <3>3
    <3> QED
      BY <1>1, <3>2, <3>3, <3>4 DEF IsNode
  <2> QED
    BY <2>1, <2>2
<1>9. WellFormed(after, Len(mounts))
  BY <1>5, <1>8 DEF WellFormed
<1>10. WellFormed(after, Len(mounts) + 1)
  <2>1. \A i \in DOMAIN after : after[i].fs \in 1 .. Len(mounts) + 1 + 1
    BY <1>1, <1>8
  <2> QED
    BY <1>5, <1>8, <2>1 DEF WellFormed
<1> QED
  BY <1>1, <1>5, <1>6, <1>7, <1>9, <1>10 DEF after, placed, new

(* A mount that succeeds makes a file system of its kind. *)
LEMMA Mounted ==
  ASSUME Form, Kinds(nodes, mounts), NEW ops \in {"rdsk", "tmpfs", "stdio"},
         NEW p \in 0 .. Len(nodes)
  PROVE  LET after == nodes \o Placed(Fresh(ops))
             over == Append(mounts, [ops |-> ops, mount_node |-> p, root |-> Len(nodes) + 1])
         IN /\ over \in Seq(Mount) /\ Len(over) = Len(mounts) + 1
            /\ \A m \in DOMAIN mounts : over[m] = mounts[m]
            /\ over[Len(mounts) + 1] = [ops |-> ops, mount_node |-> p, root |-> Len(nodes) + 1]
            /\ \A m \in DOMAIN over :
                 over[m].mount_node \in 0 .. Len(after) /\ over[m].root \in DOMAIN after
            /\ Kinds(after, over)
<1> DEFINE new == Fresh(ops)
           after == nodes \o Placed(new)
           mount == [ops |-> ops, mount_node |-> p, root |-> Len(nodes) + 1]
           over == Append(mounts, mount)
<1>1. /\ DOMAIN nodes = 1 .. Len(nodes) /\ Len(nodes) \in Nat
      /\ mounts \in Seq(Mount) /\ Len(mounts) \in Nat /\ DOMAIN mounts = 1 .. Len(mounts)
  BY SequenceIsSeq DEF Form, WellFormed
<1>2. mount \in Mount
  BY <1>1 DEF Mount
<1>3. /\ over \in Seq(Mount) /\ Len(over) = Len(mounts) + 1
      /\ \A m \in 1 .. Len(mounts) : over[m] = mounts[m]
      /\ over[Len(mounts) + 1] = mount
  BY <1>1, <1>2, AppendProperties
<1>4. DOMAIN over = 1 .. Len(mounts) + 1
  BY <1>3
<1>5. mount.ops = ops /\ mount.mount_node = p /\ mount.root = Len(nodes) + 1
  OBVIOUS
<1> HIDE DEF over, mount
<1>6. /\ Len(after) = Len(nodes) + Len(new) /\ DOMAIN after = 1 .. Len(nodes) + Len(new)
      /\ \A i \in DOMAIN nodes : after[i] = nodes[i]
      /\ \A j \in 1 .. Len(new) :
           after[Len(nodes) + j] =
             [fs |-> Len(mounts) + 1, name |-> new[j].name, type |-> new[j].type,
              data |-> new[j].data,
              parent |-> IF new[j].parent = 0 THEN 0 ELSE Len(nodes) + new[j].parent]
  BY Placing
<1>7. /\ Len(new) \in Nat /\ Len(new) >= 1
      /\ \A j \in 1 .. Len(new) :
           IF new[j].type = "DIR" \/ ops = "stdio" THEN new[j].data = NULL
           ELSE new[j].data \in Data /\ Len(new[j].data) < HALF
  BY FreshKinds DEF IsSequence
<1> HIDE DEF new, after
<1>8. ASSUME NEW m \in DOMAIN over
      PROVE  over[m].mount_node \in 0 .. Len(after) /\ over[m].root \in DOMAIN after
  <2>1. CASE m \in 1 .. Len(mounts)
    <3>1. over[m] = mounts[m]
      BY <1>3, <2>1
    <3>2. mounts[m].mount_node \in 0 .. Len(nodes) /\ mounts[m].root \in DOMAIN nodes
      BY <1>1, <2>1 DEF Form
    <3> QED
      BY <1>1, <1>6, <1>7, <3>1, <3>2
  <2>2. CASE m = Len(mounts) + 1
    <3>1. over[m] = mount
      BY <1>3, <2>2
    <3> QED
      BY <1>1, <1>5, <1>6, <1>7, <3>1
  <2> QED
    BY <1>1, <1>4, <2>1, <2>2
<1>9. ASSUME NEW i \in DOMAIN after
      PROVE  /\ after[i].fs \in DOMAIN over
             /\ IF after[i].type = "DIR" \/ over[after[i].fs].ops = "stdio" THEN after[i].data = NULL
                ELSE after[i].data \in Data /\ Len(after[i].data) < HALF
  <2>1. CASE i \in DOMAIN nodes
    <3>1. after[i] = nodes[i]
      BY <1>6, <2>1
    <3>2. /\ nodes[i].fs \in DOMAIN mounts
          /\ IF nodes[i].type = "DIR" \/ mounts[nodes[i].fs].ops = "stdio" THEN nodes[i].data = NULL
             ELSE nodes[i].data \in Data /\ Len(nodes[i].data) < HALF
      BY <2>1 DEF Kinds
    <3>3. over[nodes[i].fs] = mounts[nodes[i].fs] /\ nodes[i].fs \in DOMAIN over
      BY <1>1, <1>3, <1>4, <3>2
    <3> QED
      BY <3>1, <3>2, <3>3
  <2>2. CASE i \notin DOMAIN nodes
    <3> DEFINE j == i - Len(nodes)
    <3>1. j \in 1 .. Len(new) /\ i = Len(nodes) + j
      BY <1>1, <1>6, <1>7, <2>2
    <3> HIDE DEF j
    <3>4. after[i] = [fs |-> Len(mounts) + 1, name |-> new[j].name, type |-> new[j].type,
                      data |-> new[j].data,
                      parent |-> IF new[j].parent = 0 THEN 0 ELSE Len(nodes) + new[j].parent]
      BY <1>6, <3>1
    <3>2. after[i].fs = Len(mounts) + 1 /\ after[i].type = new[j].type /\ after[i].data = new[j].data
      BY <3>4
    <3>3. over[after[i].fs].ops = ops /\ after[i].fs \in DOMAIN over
      BY <1>1, <1>3, <1>4, <1>5, <3>2
    <3> QED
      BY <1>7, <3>1, <3>2, <3>3
  <2> QED
    BY <2>1, <2>2
<1>10. Kinds(after, over)
  BY <1>9 DEF Kinds
<1> QED
  BY <1>1, <1>3, <1>8, <1>10 DEF over, mount, after, new

(* What a mount of ops over p adds. *)
Adds(ops, p) ==
  LET new == Fresh(ops) IN
  /\ Len(mounts') = Len(mounts) + 1
  /\ \A m \in DOMAIN mounts : mounts'[m] = mounts[m]
  /\ mounts'[Len(mounts) + 1] = [ops |-> ops, mount_node |-> p, root |-> Len(nodes) + 1]
  /\ Len(nodes') = Len(nodes) + Len(new) /\ DOMAIN nodes' = 1 .. Len(nodes) + Len(new)
  /\ \A i \in DOMAIN nodes : nodes'[i] = nodes[i]
  /\ \A j \in 1 .. Len(new) :
       nodes'[Len(nodes) + j] =
         [fs |-> Len(mounts) + 1, name |-> new[j].name, type |-> new[j].type,
          data |-> new[j].data,
          parent |-> IF new[j].parent = 0 THEN 0 ELSE Len(nodes) + new[j].parent]

Point == IF mounts = <<>> THEN 0 ELSE vfs_lookup(Head(boot).path, 0).node

(* What a mount that succeeds leaves behind. *)
LEMMA MountSucceeds ==
  ASSUME IInv, vfs_mount, ~halted', Head(boot).ops \in {"rdsk", "tmpfs", "stdio"},
         mounts # <<>> => Len(Head(boot).path.comps) \in Nat
  PROVE  /\ Adds(Head(boot).ops, Point)
         /\ mounts' \in Seq(Mount)
         /\ WellFormed(nodes', Len(mounts')) /\ Kinds(nodes', mounts')
         /\ \A m \in DOMAIN mounts' :
              mounts'[m].mount_node \in 0 .. Len(nodes') /\ mounts'[m].root \in DOMAIN nodes'
         /\ mounts # <<>> => vfs_lookup(Head(boot).path, 0).err = "OK"
<1> DEFINE ops == Head(boot).ops
           path == Head(boot).path
<1>1. Form /\ Kinds(nodes, mounts) /\ ops \in {"rdsk", "tmpfs", "stdio"}
  BY DEF IInv, vfs_mount, Booting
<1>2. /\ nodes' = nodes \o Placed(Fresh(ops))
      /\ mounts' = Append(mounts, [ops |-> ops, mount_node |-> Point, root |-> Len(nodes) + 1])
      /\ mount_error(path) = "OK"
  BY DEF vfs_mount, Point
<1>3. mounts # <<>> => vfs_lookup(path, 0).err = "OK"
  BY <1>2 DEF mount_error
<1>4. DOMAIN nodes = 1 .. Len(nodes) /\ Len(nodes) \in Nat /\ Len(mounts) \in Nat
  BY <1>1, SequenceIsSeq DEF Form, WellFormed
<1>5. Point \in 0 .. Len(nodes)
  <2>1. CASE mounts = <<>>
    BY <1>4, <2>1 DEF Point
  <2>2. CASE mounts # <<>>
    <3> DEFINE none == 0
               exclusive == FALSE
               create == "NONE"
    <3>1. none \in DOMAIN nodes \cup {0} /\ Len(path.comps) \in Nat
          /\ vfs_lookup_ext(path, none, create, exclusive).err = "OK"
      BY <1>3, <2>2 DEF vfs_lookup
    <3>2. create = "NONE" /\ Point = vfs_lookup_ext(path, none, create, exclusive).node
      BY <2>2 DEF Point, vfs_lookup
    <3> HIDE DEF none, exclusive, create, path
    <3>3. vfs_lookup_ext(path, none, create, exclusive).node \in DOMAIN nodes
      BY <1>1, <3>1, <3>2, LookupExtIs
    <3> QED
      BY <1>4, <3>2, <3>3
  <2> QED
    BY <2>1, <2>2
<1> HIDE DEF ops, path
<1>6. /\ mounts' \in Seq(Mount) /\ Len(mounts') = Len(mounts) + 1
      /\ \A m \in DOMAIN mounts : mounts'[m] = mounts[m]
      /\ mounts'[Len(mounts) + 1] = [ops |-> ops, mount_node |-> Point, root |-> Len(nodes) + 1]
      /\ \A m \in DOMAIN mounts' :
           mounts'[m].mount_node \in 0 .. Len(nodes') /\ mounts'[m].root \in DOMAIN nodes'
      /\ Kinds(nodes', mounts')
  BY <1>1, <1>2, <1>5, Mounted
<1>7. /\ WellFormed(nodes', Len(mounts) + 1)
      /\ Len(nodes') = Len(nodes) + Len(Fresh(ops)) /\ DOMAIN nodes' = 1 .. Len(nodes) + Len(Fresh(ops))
      /\ \A i \in DOMAIN nodes : nodes'[i] = nodes[i]
      /\ \A j \in 1 .. Len(Fresh(ops)) :
           nodes'[Len(nodes) + j] =
             [fs |-> Len(mounts) + 1, name |-> Fresh(ops)[j].name, type |-> Fresh(ops)[j].type,
              data |-> Fresh(ops)[j].data,
              parent |-> IF Fresh(ops)[j].parent = 0 THEN 0 ELSE Len(nodes) + Fresh(ops)[j].parent]
  BY <1>1, <1>2, Placing
<1>8. WellFormed(nodes', Len(mounts'))
  BY <1>6, <1>7
<1> QED
  BY <1>3, <1>6, <1>7, <1>8 DEF ops, path, Adds

(* The children of the nodes there were are those there were. *)
LEMMA SameChildren ==
  ASSUME Form, NEW ops \in {"rdsk", "tmpfs", "stdio"}, NEW p, Adds(ops, p),
         NEW n \in DOMAIN nodes, NEW name
  PROVE  {i \in DOMAIN nodes' : nodes'[i].parent = n /\ nodes'[i].name = name} = Named(n, name)
<1> DEFINE new == Fresh(ops)
<1>1. DOMAIN nodes = 1 .. Len(nodes) /\ Len(nodes) \in Nat
  BY SequenceIsSeq DEF Form, WellFormed
<1>2. Len(new) \in Nat /\ \A j \in 1 .. Len(new) : new[j].parent \in 0 .. j - 1
  BY FreshKinds DEF IsSequence
<1>3. /\ DOMAIN nodes' = 1 .. Len(nodes) + Len(new)
      /\ \A i \in DOMAIN nodes : nodes'[i] = nodes[i]
      /\ \A j \in 1 .. Len(new) :
           nodes'[Len(nodes) + j].parent =
             IF new[j].parent = 0 THEN 0 ELSE Len(nodes) + new[j].parent
  <2>1. /\ DOMAIN nodes' = 1 .. Len(nodes) + Len(new)
        /\ \A i \in DOMAIN nodes : nodes'[i] = nodes[i]
        /\ \A j \in 1 .. Len(new) :
             nodes'[Len(nodes) + j] =
               [fs |-> Len(mounts) + 1, name |-> new[j].name, type |-> new[j].type,
                data |-> new[j].data,
                parent |-> IF new[j].parent = 0 THEN 0 ELSE Len(nodes) + new[j].parent]
    BY DEF Adds
  <2> HIDE DEF new
  <2>2. ASSUME NEW j \in 1 .. Len(new)
        PROVE  nodes'[Len(nodes) + j].parent =
                 IF new[j].parent = 0 THEN 0 ELSE Len(nodes) + new[j].parent
    <3>1. nodes'[Len(nodes) + j] =
               [fs |-> Len(mounts) + 1, name |-> new[j].name, type |-> new[j].type,
                data |-> new[j].data,
                parent |-> IF new[j].parent = 0 THEN 0 ELSE Len(nodes) + new[j].parent]
      BY <2>1
    <3> QED
      BY <3>1
  <2> QED
    BY <2>1, <2>2
<1> HIDE DEF new
<1>4. ASSUME NEW i \in DOMAIN nodes', i \notin DOMAIN nodes
      PROVE  nodes'[i].parent # n
  <2> DEFINE j == i - Len(nodes)
  <2>1. j \in 1 .. Len(new) /\ i = Len(nodes) + j
    BY <1>1, <1>2, <1>3, <1>4
  <2> HIDE DEF j
  <2>2. nodes'[i].parent = 0 \/ nodes'[i].parent > Len(nodes)
    <3>1. nodes'[i].parent = IF new[j].parent = 0 THEN 0 ELSE Len(nodes) + new[j].parent
      BY <1>3, <2>1
    <3>2. new[j].parent \in Nat
      BY <1>2, <2>1
    <3> QED
      BY <1>1, <3>1, <3>2
  <2>3. n \in 1 .. Len(nodes)
    BY <1>1
  <2> QED
    BY <1>1, <2>2, <2>3
<1>5. DOMAIN nodes \subseteq DOMAIN nodes'
  BY <1>1, <1>2, <1>3
<1> QED
  BY <1>3, <1>4, <1>5 DEF Named

(* The disk is mounted. *)
LEMMA DiskLaidOut ==
  ASSUME Form, Layout(0), Adds("rdsk", 0)
  PROVE  Layout(1)'
<1>1. nodes = <<>> /\ mounts = <<>> /\ Len(nodes) = 0 /\ Len(mounts) = 0
  BY DEF Layout
<1>2. IsSequence(Disk) /\ Len(Disk) \in Nat /\ Len(Disk) >= 1 /\ Fresh("rdsk") = Disk
  BY BootAssumption, FreshIs DEF IsSequence
<1>3. /\ Len(mounts') = 1 /\ mounts'[1] = [ops |-> "rdsk", mount_node |-> 0, root |-> 1]
      /\ Len(nodes') = D /\ DOMAIN nodes' = 1 .. D
      /\ \A j \in 1 .. D : nodes'[j] =
            [fs |-> 1, name |-> Disk[j].name, type |-> Disk[j].type, data |-> Disk[j].data,
             parent |-> IF Disk[j].parent = 0 THEN 0 ELSE Disk[j].parent]
  <2>1. /\ Len(mounts') = 0 + 1 /\ mounts'[0 + 1] = [ops |-> "rdsk", mount_node |-> 0, root |-> 0 + 1]
        /\ Len(nodes') = 0 + D /\ DOMAIN nodes' = 1 .. 0 + D
        /\ \A j \in 1 .. D : nodes'[0 + j] =
            [fs |-> 0 + 1, name |-> Disk[j].name, type |-> Disk[j].type, data |-> Disk[j].data,
             parent |-> IF Disk[j].parent = 0 THEN 0 ELSE 0 + Disk[j].parent]
    BY <1>1, <1>2 DEF Adds, D
  <2>2. \A j \in 1 .. D : Disk[j].parent \in Nat
    <3>1. \A j \in 1 .. Len(Disk) : Disk[j].parent \in 0 .. j - 1
      BY <1>2, FreshKinds
    <3> QED
      BY <1>2, <3>1 DEF D
  <2>3. ASSUME NEW j \in 1 .. D
        PROVE  0 + j = j /\ 0 + Disk[j].parent = Disk[j].parent
    BY <2>2, <2>3
  <2> QED
    BY <1>2, <2>1, <2>3 DEF D
<1>4. 1 \in 1 .. D
  BY <1>2 DEF D
<1>5. nodes'[1].fs = 1 /\ nodes'[1].type = "DIR"
  <2>1. nodes'[1].fs = 1 /\ nodes'[1].type = Disk[1].type
    BY <1>3, <1>4
  <2> QED
    BY <2>1, BootAssumption
<1>6. ASSUME NEW name, NEW i \in DOMAIN nodes', NEW j \in DOMAIN nodes',
             nodes'[i].parent = 1, nodes'[j].parent = 1, nodes'[i].name = name, nodes'[j].name = name
      PROVE  i = j
  <2>1. /\ i \in 1 .. D /\ j \in 1 .. D
        /\ nodes'[i].name = Disk[i].name /\ nodes'[j].name = Disk[j].name
        /\ nodes'[i].parent = IF Disk[i].parent = 0 THEN 0 ELSE Disk[i].parent
        /\ nodes'[j].parent = IF Disk[j].parent = 0 THEN 0 ELSE Disk[j].parent
    BY <1>3
  <2>2. Disk[i].parent = 1 /\ Disk[j].parent = 1 /\ Disk[i].name = Disk[j].name
    BY <1>6, <2>1
  <2>3. i # 1 /\ j # 1
    BY <2>2, BootAssumption
  <2>4. i \in 2 .. Len(Disk) /\ j \in 2 .. Len(Disk)
    BY <1>2, <2>1, <2>3 DEF D
  <2> QED
    BY <2>2, <2>4, BootAssumption
<1>7. /\ \A i, j \in Named(1, "modules")' : i = j
      /\ \A i, j \in Named(1, "tmp")' : i = j
  BY <1>6 DEF Named
<1> QED
  BY <1>3, <1>5, <1>7 DEF Layout, IsDir

(* A tmpfs is mounted: over /modules, then over /tmp. *)
LEMMA TmpfsAdds ==
  ASSUME Form, NEW p, Adds("tmpfs", p)
  PROVE  /\ Len(nodes') = Len(nodes) + 1 /\ DOMAIN nodes' = 1 .. Len(nodes) + 1
         /\ nodes'[Len(nodes) + 1] =
              [fs |-> Len(mounts) + 1, name |-> NULL, type |-> "DIR", data |-> NULL, parent |-> 0]
<1> DEFINE new == Fresh("tmpfs")
<1>1. Len(new) = 1 /\ new[1] = Root
  BY FreshIs
<1>2. /\ Len(nodes') = Len(nodes) + Len(new) /\ DOMAIN nodes' = 1 .. Len(nodes) + Len(new)
      /\ \A j \in 1 .. Len(new) : nodes'[Len(nodes) + j] =
           [fs |-> Len(mounts) + 1, name |-> new[j].name, type |-> new[j].type,
            data |-> new[j].data,
            parent |-> IF new[j].parent = 0 THEN 0 ELSE Len(nodes) + new[j].parent]
  BY DEF Adds
<1> HIDE DEF new
<1>3. nodes'[Len(nodes) + 1] =
           [fs |-> Len(mounts) + 1, name |-> new[1].name, type |-> new[1].type,
            data |-> new[1].data,
            parent |-> IF new[1].parent = 0 THEN 0 ELSE Len(nodes) + new[1].parent]
  BY <1>1, <1>2
<1>4. new[1].name = NULL /\ new[1].type = "DIR" /\ new[1].data = NULL /\ new[1].parent = 0
  BY <1>1 DEF Root
<1> QED
  BY <1>1, <1>2, <1>3, <1>4

LEMMA ModulesLaidOut ==
  ASSUME Form, Layout(1), NEW p \in Named(1, "modules"), Adds("tmpfs", p)
  PROVE  Layout(2)'
<1>1. /\ Len(nodes) = D /\ Len(mounts) = 1 /\ D \in Nat /\ D >= 1
      /\ mounts[1] = [ops |-> "rdsk", mount_node |-> 0, root |-> 1]
      /\ nodes[1].fs = 1 /\ nodes[1].type = "DIR"
      /\ \A i, j \in Named(1, "modules") : i = j
      /\ \A i, j \in Named(1, "tmp") : i = j
  BY BootAssumption DEF Layout, IsDir, IsSequence, D
<1>2. DOMAIN nodes = 1 .. Len(nodes) /\ DOMAIN mounts = 1 .. Len(mounts)
  BY SequenceIsSeq DEF Form, WellFormed
<1>3. 1 \in DOMAIN nodes /\ 1 \in DOMAIN mounts
  BY <1>1, <1>2
<1>4. Named(1, "modules")' = Named(1, "modules") /\ Named(1, "tmp")' = Named(1, "tmp")
  BY <1>3, SameChildren DEF Named
<1>5. Len(nodes') = D + 1 /\ Len(mounts') = 2
  BY <1>1, TmpfsAdds DEF Adds
<1>6. mounts'[1] = mounts[1] /\ nodes'[1] = nodes[1]
      /\ mounts'[2] = [ops |-> "tmpfs", mount_node |-> p, root |-> D + 1]
  <2>1. /\ \A m \in DOMAIN mounts : mounts'[m] = mounts[m]
        /\ mounts'[Len(mounts) + 1] = [ops |-> "tmpfs", mount_node |-> p, root |-> Len(nodes) + 1]
        /\ \A i \in DOMAIN nodes : nodes'[i] = nodes[i]
    BY DEF Adds
  <2>2. Len(mounts) + 1 = 2
    BY <1>1
  <2> QED
    BY <1>1, <1>3, <2>1, <2>2
<1> QED
  BY <1>1, <1>4, <1>5, <1>6 DEF Layout, IsDir

LEMMA TmpLaidOut ==
  ASSUME Form, Layout(2), NEW p \in Named(1, "tmp"), Adds("tmpfs", p)
  PROVE  Layout(3)'
<1>1. /\ Len(nodes) = D + 1 /\ Len(mounts) = 2 /\ D \in Nat /\ D >= 1
      /\ mounts[1] = [ops |-> "rdsk", mount_node |-> 0, root |-> 1]
      /\ nodes[1].fs = 1 /\ nodes[1].type = "DIR"
      /\ \A i, j \in Named(1, "modules") : i = j
      /\ \A i, j \in Named(1, "tmp") : i = j
      /\ mounts[2].ops = "tmpfs" /\ mounts[2].mount_node \in Named(1, "modules")
      /\ mounts[2].root = D + 1
  BY BootAssumption DEF Layout, IsDir, IsSequence, D
<1>2. DOMAIN nodes = 1 .. Len(nodes) /\ DOMAIN mounts = 1 .. Len(mounts)
  BY SequenceIsSeq DEF Form, WellFormed
<1>3. 1 \in DOMAIN nodes /\ 1 \in DOMAIN mounts /\ 2 \in DOMAIN mounts
  BY <1>1, <1>2
<1>4. Named(1, "modules")' = Named(1, "modules") /\ Named(1, "tmp")' = Named(1, "tmp")
  BY <1>3, SameChildren DEF Named
<1>5. /\ Len(nodes') = D + 2 /\ Len(mounts') = 3 /\ DOMAIN nodes' = 1 .. D + 2
      /\ nodes'[D + 2].fs = 3 /\ nodes'[D + 2].type = "DIR" /\ nodes'[D + 2].parent = 0
  <2>1. /\ Len(nodes') = Len(nodes) + 1 /\ DOMAIN nodes' = 1 .. Len(nodes) + 1
        /\ nodes'[Len(nodes) + 1] =
              [fs |-> Len(mounts) + 1, name |-> NULL, type |-> "DIR", data |-> NULL, parent |-> 0]
        /\ Len(mounts') = Len(mounts) + 1
    BY TmpfsAdds DEF Adds
  <2>2. Len(nodes) + 1 = D + 2 /\ Len(mounts) + 1 = 3
    BY <1>1
  <2> QED
    BY <2>1, <2>2
<1>6. /\ mounts'[1] = mounts[1] /\ mounts'[2] = mounts[2] /\ nodes'[1] = nodes[1]
      /\ mounts'[3] = [ops |-> "tmpfs", mount_node |-> p, root |-> D + 2]
      /\ \A i \in DOMAIN nodes : nodes'[i] = nodes[i]
  <2>1. /\ \A m \in DOMAIN mounts : mounts'[m] = mounts[m]
        /\ mounts'[Len(mounts) + 1] = [ops |-> "tmpfs", mount_node |-> p, root |-> Len(nodes) + 1]
        /\ \A i \in DOMAIN nodes : nodes'[i] = nodes[i]
    BY DEF Adds
  <2>2. Len(mounts) + 1 = 3 /\ Len(nodes) + 1 = D + 2
    BY <1>1
  <2> QED
    BY <1>3, <2>1, <2>2
<1>7. Named(D + 2, "stdio")' = {}
  <2>1. ASSUME NEW i \in DOMAIN nodes'
        PROVE  nodes'[i].parent # D + 2
    <3>1. CASE i \in DOMAIN nodes
      <4>1. nodes[i].parent \in 0 .. i - 1 /\ i \in 1 .. D + 1
        BY <1>1, <1>2, <3>1 DEF Form, WellFormed
      <4>2. nodes[i].parent # D + 2
        BY <1>1, <4>1
      <4> QED
        BY <1>6, <3>1, <4>2
    <3>2. CASE i = D + 2
      BY <1>1, <1>5, <3>2
    <3> QED
      BY <1>1, <1>2, <1>5, <3>1, <3>2
  <2> QED
    BY <2>1 DEF Named
<1> QED
  BY <1>1, <1>4, <1>5, <1>6, <1>7 DEF Layout, IsDir

(* /tmp/stdio is made. *)
LEMMA StdioMade ==
  ASSUME Form, Layout(3), nodes' = Append(nodes, NewNode(D + 2, "stdio", "DIR")),
         mounts' = mounts
  PROVE  Layout(4)'
<1>1. /\ Len(nodes) = D + 2 /\ Len(mounts) = 3 /\ D \in Nat /\ D >= 1
      /\ mounts[1] = [ops |-> "rdsk", mount_node |-> 0, root |-> 1]
      /\ nodes[1].fs = 1 /\ nodes[1].type = "DIR"
      /\ \A i, j \in Named(1, "modules") : i = j
      /\ \A i, j \in Named(1, "tmp") : i = j
      /\ mounts[2].ops = "tmpfs" /\ mounts[2].mount_node \in Named(1, "modules")
      /\ mounts[2].root = D + 1
      /\ mounts[3].ops = "tmpfs" /\ mounts[3].mount_node \in Named(1, "tmp")
      /\ mounts[3].root = D + 2
      /\ nodes[D + 2].fs = 3 /\ nodes[D + 2].type = "DIR"
      /\ Named(D + 2, "stdio") = {}
  BY BootAssumption DEF Layout, IsDir, IsSequence, D
<1>2. IsSequence(nodes) /\ DOMAIN nodes = 1 .. Len(nodes)
  BY SequenceIsSeq DEF Form, WellFormed
<1> DEFINE new == NewNode(D + 2, "stdio", "DIR")
<1>3. new.parent = D + 2 /\ new.name = "stdio"
  BY DEF NewNode
<1> HIDE DEF new
<1>4. /\ Len(nodes') = Len(nodes) + 1 /\ IsSequence(nodes')
      /\ \A i \in 1 .. Len(nodes) : nodes'[i] = nodes[i]
      /\ nodes'[Len(nodes) + 1] = new
  BY <1>2, Appended DEF new
<1>5. Len(nodes) + 1 = D + 3 /\ DOMAIN nodes' = 1 .. D + 3 /\ DOMAIN nodes = 1 .. D + 2
  BY <1>1, <1>2, <1>4, SequenceIsSeq
<1>6. \A i \in DOMAIN nodes' : i \in DOMAIN nodes \/ i = D + 3
  BY <1>1, <1>5
<1>7. DOMAIN nodes \subseteq DOMAIN nodes' /\ D + 3 \in DOMAIN nodes'
  BY <1>1, <1>5
<1>8. Named(1, "modules")' = Named(1, "modules") /\ Named(1, "tmp")' = Named(1, "tmp")
  <2>1. D + 2 # 1
    BY <1>1
  <2>2. \A i \in DOMAIN nodes' : nodes'[i].parent = 1 => i \in DOMAIN nodes
    BY <1>3, <1>4, <1>5, <1>6, <2>1
  <2> QED
    BY <1>2, <1>4, <1>7, <2>2 DEF Named
<1>9. Named(D + 2, "stdio")' = {D + 3}
  <2>1. nodes'[D + 3] = new
    BY <1>4, <1>5
  <2>2. ASSUME NEW i \in DOMAIN nodes', nodes'[i].parent = D + 2, nodes'[i].name = "stdio"
        PROVE  i = D + 3
    <3>1. CASE i \in DOMAIN nodes
      <4>1. nodes'[i] = nodes[i]
        BY <1>2, <1>4, <3>1
      <4>2. i \in Named(D + 2, "stdio")
        BY <2>2, <3>1, <4>1 DEF Named
      <4> QED
        BY <1>1, <4>2
    <3> QED
      BY <1>6, <3>1
  <2> QED
    BY <1>3, <1>7, <2>1, <2>2 DEF Named
<1>10. nodes'[1] = nodes[1] /\ nodes'[D + 2] = nodes[D + 2] /\ Len(nodes') = D + 3
  BY <1>1, <1>4
<1> QED
  BY <1>1, <1>8, <1>9, <1>10 DEF Layout, IsDir

(* The streams are mounted over it. *)
LEMMA StdioLaidOut ==
  ASSUME Form, Layout(4), Adds("stdio", D + 3)
  PROVE  Layout(5)'
<1>1. /\ Len(nodes) = D + 3 /\ Len(mounts) = 3 /\ D \in Nat /\ D >= 1
      /\ mounts[1] = [ops |-> "rdsk", mount_node |-> 0, root |-> 1]
      /\ nodes[1].fs = 1 /\ nodes[1].type = "DIR"
      /\ \A i, j \in Named(1, "modules") : i = j
      /\ \A i, j \in Named(1, "tmp") : i = j
      /\ mounts[2].ops = "tmpfs" /\ mounts[2].mount_node \in Named(1, "modules")
      /\ mounts[2].root = D + 1
      /\ mounts[3].ops = "tmpfs" /\ mounts[3].mount_node \in Named(1, "tmp")
      /\ mounts[3].root = D + 2
      /\ nodes[D + 2].fs = 3 /\ nodes[D + 2].type = "DIR"
      /\ Named(D + 2, "stdio") = {D + 3}
  BY BootAssumption DEF Layout, IsDir, IsSequence, D
<1>2. DOMAIN nodes = 1 .. Len(nodes) /\ DOMAIN mounts = 1 .. Len(mounts)
  BY SequenceIsSeq DEF Form, WellFormed
<1>3. 1 \in DOMAIN nodes /\ D + 2 \in DOMAIN nodes
  BY <1>1, <1>2
<1>4. /\ Named(1, "modules")' = Named(1, "modules") /\ Named(1, "tmp")' = Named(1, "tmp")
      /\ Named(D + 2, "stdio")' = {D + 3}
  <2>1. \A n \in DOMAIN nodes : \A name :
          {i \in DOMAIN nodes' : nodes'[i].parent = n /\ nodes'[i].name = name} = Named(n, name)
    BY SameChildren
  <2>2. Named(D + 2, "stdio") =
          {i \in DOMAIN nodes' : nodes'[i].parent = D + 2 /\ nodes'[i].name = "stdio"}
    BY <1>3, <2>1
  <2>3. /\ Named(1, "tmp") = {i \in DOMAIN nodes' : nodes'[i].parent = 1 /\ nodes'[i].name = "tmp"}
        /\ Named(1, "modules") =
             {i \in DOMAIN nodes' : nodes'[i].parent = 1 /\ nodes'[i].name = "modules"}
    BY <1>3, <2>1
  <2>4. Named(D + 2, "stdio")' = {i \in DOMAIN nodes' : nodes'[i].parent = D + 2 /\ nodes'[i].name = "stdio"}
    BY DEF Named, D
  <2>5. /\ Named(1, "tmp")' = {i \in DOMAIN nodes' : nodes'[i].parent = 1 /\ nodes'[i].name = "tmp"}
        /\ Named(1, "modules")' =
             {i \in DOMAIN nodes' : nodes'[i].parent = 1 /\ nodes'[i].name = "modules"}
    BY DEF Named
  <2> QED
    BY <1>1, <2>2, <2>3, <2>4, <2>5
<1> DEFINE new == Fresh("stdio")
<1>5. /\ Len(new) = 4 /\ new[1] = Root
      /\ new[2] = Stream("stdin") /\ new[3] = Stream("stdout") /\ new[4] = Stream("stderr")
  BY FreshIs
<1>6. /\ Len(mounts') = Len(mounts) + 1
      /\ \A m \in DOMAIN mounts : mounts'[m] = mounts[m]
      /\ mounts'[Len(mounts) + 1] = [ops |-> "stdio", mount_node |-> D + 3, root |-> Len(nodes) + 1]
      /\ Len(nodes') = Len(nodes) + Len(new) /\ DOMAIN nodes' = 1 .. Len(nodes) + Len(new)
      /\ \A i \in DOMAIN nodes : nodes'[i] = nodes[i]
      /\ \A j \in 1 .. Len(new) :
           nodes'[Len(nodes) + j] =
             [fs |-> Len(mounts) + 1, name |-> new[j].name, type |-> new[j].type,
              data |-> new[j].data,
              parent |-> IF new[j].parent = 0 THEN 0 ELSE Len(nodes) + new[j].parent]
  BY DEF Adds
<1> HIDE DEF new
<1>7. /\ Len(mounts) + 1 = 4 /\ Len(nodes) + 1 = D + 4 /\ Len(nodes) + Len(new) = D + 7
      /\ Len(nodes) + 2 = D + 5 /\ Len(nodes) + 3 = D + 6 /\ Len(nodes) + 4 = D + 7
  BY <1>1, <1>5
<1>8. /\ Len(mounts') = 4 /\ Len(nodes') = D + 7 /\ DOMAIN nodes' = 1 .. D + 7
      /\ mounts'[1] = mounts[1] /\ mounts'[2] = mounts[2] /\ mounts'[3] = mounts[3]
      /\ mounts'[4] = [ops |-> "stdio", mount_node |-> D + 3, root |-> D + 4]
      /\ nodes'[1] = nodes[1] /\ nodes'[D + 2] = nodes[D + 2]
  <2>1. 1 \in DOMAIN mounts /\ 2 \in DOMAIN mounts /\ 3 \in DOMAIN mounts
    BY <1>1, <1>2
  <2>2. Len(mounts') = 4 /\ mounts'[4] = [ops |-> "stdio", mount_node |-> D + 3, root |-> D + 4]
    BY <1>6, <1>7
  <2>3. Len(nodes') = D + 7 /\ DOMAIN nodes' = 1 .. D + 7
    BY <1>6, <1>7
  <2> QED
    BY <1>3, <1>6, <2>1, <2>2, <2>3
<1>9. /\ nodes'[D + 4].fs = 4 /\ nodes'[D + 4].type = "DIR" /\ nodes'[D + 4].parent = 0
      /\ nodes'[D + 5].fs = 4 /\ nodes'[D + 5].name = "stdin" /\ nodes'[D + 5].parent = D + 4
      /\ nodes'[D + 6].fs = 4 /\ nodes'[D + 6].name = "stdout" /\ nodes'[D + 6].parent = D + 4
      /\ nodes'[D + 7].fs = 4 /\ nodes'[D + 7].name = "stderr" /\ nodes'[D + 7].parent = D + 4
  <2>1. \A j \in 1 .. 4 :
           nodes'[Len(nodes) + j] =
             [fs |-> 4, name |-> new[j].name, type |-> new[j].type, data |-> new[j].data,
              parent |-> IF new[j].parent = 0 THEN 0 ELSE Len(nodes) + new[j].parent]
    BY <1>5, <1>6, <1>7
  <2>2. nodes'[D + 4] = [fs |-> 4, name |-> NULL, type |-> "DIR", data |-> NULL, parent |-> 0]
    <3>1. nodes'[Len(nodes) + 1] =
             [fs |-> 4, name |-> new[1].name, type |-> new[1].type, data |-> new[1].data,
              parent |-> IF new[1].parent = 0 THEN 0 ELSE Len(nodes) + new[1].parent]
      BY <2>1
    <3>2. /\ new[1].name = NULL /\ new[1].type = "DIR" /\ new[1].data = NULL
          /\ new[1].parent = 0
      BY <1>5 DEF Root
    <3> QED
      BY <1>7, <3>1, <3>2
  <2>3. nodes'[D + 5] = [fs |-> 4, name |-> "stdin", type |-> "FILE", data |-> NULL, parent |-> D + 4]
    <3>1. nodes'[Len(nodes) + 2] =
             [fs |-> 4, name |-> new[2].name, type |-> new[2].type, data |-> new[2].data,
              parent |-> IF new[2].parent = 0 THEN 0 ELSE Len(nodes) + new[2].parent]
      BY <2>1
    <3>2. /\ new[2].name = "stdin" /\ new[2].type = "FILE" /\ new[2].data = NULL
          /\ new[2].parent = 1
      BY <1>5 DEF Stream
    <3> QED
      BY <1>7, <3>1, <3>2
  <2>4. nodes'[D + 6] = [fs |-> 4, name |-> "stdout", type |-> "FILE", data |-> NULL, parent |-> D + 4]
    <3>1. nodes'[Len(nodes) + 3] =
             [fs |-> 4, name |-> new[3].name, type |-> new[3].type, data |-> new[3].data,
              parent |-> IF new[3].parent = 0 THEN 0 ELSE Len(nodes) + new[3].parent]
      BY <2>1
    <3>2. /\ new[3].name = "stdout" /\ new[3].type = "FILE" /\ new[3].data = NULL
          /\ new[3].parent = 1
      BY <1>5 DEF Stream
    <3> QED
      BY <1>7, <3>1, <3>2
  <2>5. nodes'[D + 7] = [fs |-> 4, name |-> "stderr", type |-> "FILE", data |-> NULL, parent |-> D + 4]
    <3>1. nodes'[Len(nodes) + 4] =
             [fs |-> 4, name |-> new[4].name, type |-> new[4].type, data |-> new[4].data,
              parent |-> IF new[4].parent = 0 THEN 0 ELSE Len(nodes) + new[4].parent]
      BY <2>1
    <3>2. /\ new[4].name = "stderr" /\ new[4].type = "FILE" /\ new[4].data = NULL
          /\ new[4].parent = 1
      BY <1>5 DEF Stream
    <3> QED
      BY <1>7, <3>1, <3>2
  <2> QED
    BY <2>2, <2>3, <2>4, <2>5
<1>10. ASSUME NEW i \in DOMAIN nodes', nodes'[i].parent = D + 4
       PROVE  i = D + 5 \/ i = D + 6 \/ i = D + 7
  <2>1. CASE i \in DOMAIN nodes
    <3>1. nodes[i].parent \in 0 .. i - 1 /\ i \in 1 .. D + 3
      BY <1>1, <1>2, <2>1 DEF Form, WellFormed
    <3>2. nodes[i].parent # D + 4
      BY <1>1, <3>1
    <3> QED
      BY <1>6, <1>10, <2>1, <3>2
  <2>2. CASE i = D + 4
    BY <1>1, <1>9, <1>10, <2>2
  <2> QED
    BY <1>1, <1>2, <1>8, <2>1, <2>2
<1>11. D + 5 \in DOMAIN nodes' /\ D + 6 \in DOMAIN nodes' /\ D + 7 \in DOMAIN nodes'
  BY <1>1, <1>8
<1>12. /\ Named(D + 4, "stdin")' = {D + 5} /\ Named(D + 4, "stdout")' = {D + 6}
       /\ Named(D + 4, "stderr")' = {D + 7}
  BY <1>9, <1>10, <1>11 DEF Named
<1>13. \A i \in D + 5 .. D + 7 : nodes'[i].fs = 4
  <2>1. \A i \in D + 5 .. D + 7 : i = D + 5 \/ i = D + 6 \/ i = D + 7
    BY <1>1
  <2> QED
    BY <1>9, <2>1
<1>14. D + 7 >= D + 7
  BY <1>1
<1>15. nodes'[1].type = "DIR" /\ nodes'[D + 2].type = "DIR"
  BY <1>1, <1>8
<1> QED
  BY <1>1, <1>4, <1>8, <1>9, <1>12, <1>13, <1>14, <1>15 DEF Layout, IsDir

(* Nodes only come, as children of a tmpfs that had none of that name. *)
Extended ==
  /\ Len(nodes) <= Len(nodes') /\ DOMAIN nodes \subseteq DOMAIN nodes' /\ Len(nodes') \in Nat
  /\ \A i \in DOMAIN nodes :
       /\ nodes'[i].fs = nodes[i].fs /\ nodes'[i].parent = nodes[i].parent
       /\ nodes'[i].name = nodes[i].name /\ nodes'[i].type = nodes[i].type
  /\ \A i \in DOMAIN nodes' \ DOMAIN nodes :
       Ops(nodes'[i].parent) = "tmpfs" /\ Named(nodes'[i].parent, nodes'[i].name) = {}

LEMMA ModuleLaidOut ==
  ASSUME Form, NEW k \in Nat, k >= 5, Layout(k), Extended, mounts' = mounts
  PROVE  Layout(k + 1)'
<1>1. /\ Len(nodes) >= D + 7 /\ Len(mounts) = 4 /\ D \in Nat /\ D >= 1
      /\ mounts[1] = [ops |-> "rdsk", mount_node |-> 0, root |-> 1]
      /\ nodes[1].fs = 1 /\ nodes[1].type = "DIR"
      /\ \A i, j \in Named(1, "modules") : i = j
      /\ \A i, j \in Named(1, "tmp") : i = j
      /\ mounts[2].ops = "tmpfs" /\ mounts[2].mount_node \in Named(1, "modules")
      /\ mounts[2].root = D + 1
      /\ mounts[3].ops = "tmpfs" /\ mounts[3].mount_node \in Named(1, "tmp")
      /\ mounts[3].root = D + 2
      /\ nodes[D + 2].fs = 3 /\ nodes[D + 2].type = "DIR"
      /\ Named(D + 2, "stdio") = {D + 3}
      /\ mounts[4] = [ops |-> "stdio", mount_node |-> D + 3, root |-> D + 4]
      /\ nodes[D + 4].fs = 4 /\ nodes[D + 4].type = "DIR"
      /\ Named(D + 4, "stdin") = {D + 5} /\ Named(D + 4, "stdout") = {D + 6}
      /\ Named(D + 4, "stderr") = {D + 7}
      /\ \A i \in D + 5 .. D + 7 : nodes[i].fs = 4
  BY BootAssumption DEF Layout, IsDir, IsSequence, D
<1>2. DOMAIN nodes = 1 .. Len(nodes) /\ Len(nodes) \in Nat
  BY SequenceIsSeq DEF Form, WellFormed
<1>3. /\ 1 \in DOMAIN nodes /\ D + 2 \in DOMAIN nodes /\ D + 4 \in DOMAIN nodes
      /\ \A i \in D + 5 .. D + 7 : i \in DOMAIN nodes
  BY <1>1, <1>2
<1>4. Ops(1) # "tmpfs" /\ Ops(D + 4) # "tmpfs"
  BY <1>1 DEF Ops
<1>5. ASSUME NEW n, NEW name, Ops(n) # "tmpfs" \/ Named(n, name) # {}
      PROVE  {i \in DOMAIN nodes' : nodes'[i].parent = n /\ nodes'[i].name = name} = Named(n, name)
  <2>1. ASSUME NEW i \in DOMAIN nodes', nodes'[i].parent = n, nodes'[i].name = name
        PROVE  i \in DOMAIN nodes
    BY <1>5, <2>1 DEF Extended
  <2> QED
    BY <2>1 DEF Extended, Named
<1>6. /\ Named(1, "modules")' = Named(1, "modules") /\ Named(1, "tmp")' = Named(1, "tmp")
      /\ Named(D + 2, "stdio")' = Named(D + 2, "stdio")
      /\ Named(D + 4, "stdin")' = Named(D + 4, "stdin")
      /\ Named(D + 4, "stdout")' = Named(D + 4, "stdout")
      /\ Named(D + 4, "stderr")' = Named(D + 4, "stderr")
  <2>1. /\ Named(1, "modules")' = {i \in DOMAIN nodes' : nodes'[i].parent = 1 /\ nodes'[i].name = "modules"}
        /\ Named(1, "tmp")' = {i \in DOMAIN nodes' : nodes'[i].parent = 1 /\ nodes'[i].name = "tmp"}
    BY DEF Named
  <2>2. /\ Named(D + 2, "stdio")' =
             {i \in DOMAIN nodes' : nodes'[i].parent = D + 2 /\ nodes'[i].name = "stdio"}
        /\ Named(D + 4, "stdin")' =
             {i \in DOMAIN nodes' : nodes'[i].parent = D + 4 /\ nodes'[i].name = "stdin"}
        /\ Named(D + 4, "stdout")' =
             {i \in DOMAIN nodes' : nodes'[i].parent = D + 4 /\ nodes'[i].name = "stdout"}
        /\ Named(D + 4, "stderr")' =
             {i \in DOMAIN nodes' : nodes'[i].parent = D + 4 /\ nodes'[i].name = "stderr"}
    BY DEF Named, D
  <2>3. Named(D + 2, "stdio") # {}
    BY <1>1
  <2>4. /\ Named(1, "modules")' = Named(1, "modules") /\ Named(1, "tmp")' = Named(1, "tmp")
    BY <1>4, <1>5, <2>1
  <2>5. Named(D + 2, "stdio")' = Named(D + 2, "stdio")
    BY <1>5, <2>2, <2>3
  <2> QED
    BY <1>4, <1>5, <2>2, <2>4, <2>5
<1>7. /\ nodes'[1].fs = 1 /\ nodes'[1].type = "DIR"
      /\ nodes'[D + 2].fs = 3 /\ nodes'[D + 2].type = "DIR"
      /\ nodes'[D + 4].fs = 4 /\ nodes'[D + 4].type = "DIR"
      /\ \A i \in D + 5 .. D + 7 : nodes'[i].fs = 4
  BY <1>1, <1>3 DEF Extended
<1>8. Len(nodes') >= D + 7
  BY <1>1, <1>2 DEF Extended
<1>9. /\ k + 1 # 0 /\ k + 1 # 1 /\ k + 1 # 2 /\ k + 1 # 3 /\ k + 1 # 4
      /\ k + 1 >= 1 /\ k + 1 >= 2 /\ k + 1 >= 3 /\ k + 1 >= 4 /\ k + 1 >= 5
  OBVIOUS
<1> DEFINE n == k + 1
<1> HIDE DEF n
<1>10. /\ n # 0 /\ n # 1 /\ n # 2 /\ n # 3 /\ n # 4
       /\ n >= 1 /\ n >= 2 /\ n >= 3 /\ n >= 4 /\ n >= 5
  BY <1>9 DEF n
<1>11. Layout(n)'
  BY <1>1, <1>6, <1>7, <1>8, <1>10 DEF Layout, IsDir
<1> QED
  BY <1>11 DEF n

(* What is left of Form when the nodes are extended and nothing else. *)
LEMMA ExtendedForm ==
  ASSUME Form, Extended, WellFormed(nodes', Len(mounts)), mounts' = mounts,
         table' \in [Id -> {NULL} \cup Resource],
         \A id \in Id : table'[id] # NULL => table'[id].node \in DOMAIN nodes',
         buffer' \in Data, halted' \in BOOLEAN
  PROVE  Form'
<1>1. Len(nodes) \in Nat
  BY SequenceIsSeq DEF Form, WellFormed
<1>2. \A m \in DOMAIN mounts :
        mounts[m].mount_node \in 0 .. Len(nodes') /\ mounts[m].root \in DOMAIN nodes'
  BY <1>1 DEF Form, Extended
<1>3. WellFormed(nodes', Len(mounts'))
  OBVIOUS
<1> QED
  BY <1>2, <1>3 DEF Form

-----------------------------------------------------------------------------
(* The invariant holds at first and is kept by the boot *)

LEMMA InitHolds ==
  Init => IInv
<1> SUFFICES ASSUME Init
             PROVE  IInv
  OBVIOUS
<1>1. IsSequence(<<>>) /\ Len(<<>>) = 0 /\ DOMAIN <<>> = {} /\ <<>> \in Data /\ <<>> \in Seq(Mount)
  <2>1. IsSequence(<<>>)
    BY DEF IsSequence
  <2> QED
    BY <2>1 DEF Data
<1>2. table \in [Id -> {NULL} \cup Resource] /\ \A id \in Id : table[id] = NULL
  BY DEF Init
<1>3. Form
  BY <1>1, <1>2 DEF Init, Form, WellFormed
<1>4. Kinds(nodes, mounts)
  BY <1>1 DEF Init, Kinds
<1>5. Len(BootCalls) \in Nat /\ 0 < Len(BootCalls)
  BY BootCallsAre
<1>6. Layout(0)
  BY DEF Init, Layout
<1>7. Booted
  BY <1>5, <1>6, LeftIs DEF Init, Booted
<1> QED
  BY <1>3, <1>4, <1>7 DEF IInv

(* Nodes come, and those there are keep what they hold. *)
Grows == \A i \in DOMAIN nodes : i \in DOMAIN nodes' /\ nodes'[i].data = nodes[i].data

(* One call of the boot on. *)
LEMMA BootedNext ==
  ASSUME NEW n \in 0 .. Len(BootCalls), n < Len(BootCalls), n # Len(BootCalls),
         boot' = Left(n), Layout(n)', table' = [id \in Id |-> NULL], buffer' = <<>>
  PROVE  Booted'
<1> SUFFICES \E j \in 0 .. Len(BootCalls) :
               /\ boot' = Left(j)
               /\ j < Len(BootCalls) => table' = [id \in Id |-> NULL] /\ buffer' = <<>> /\ Layout(j)'
               /\ j = Len(BootCalls) => mounts' # <<>>
  BY Zenon DEF Booted, Layout, Named, IsDir
<1> WITNESS n \in 0 .. Len(BootCalls)
<1> QED
  OBVIOUS

(* Where vfs_mount mounts, at each of its four calls. *)
LEMMA PointIs ==
  ASSUME IInv, vfs_mount
  PROVE  \E k \in {0, 1, 2, 4} :
           /\ Tail(boot) = Left(k + 1) /\ table = [id \in Id |-> NULL] /\ buffer = <<>> /\ Layout(k)
           /\ Head(boot).ops = IF k = 0 THEN "rdsk" ELSE IF k = 4 THEN "stdio" ELSE "tmpfs"
           /\ mounts = <<>> <=> k = 0
           /\ mounts # <<>> => Len(Head(boot).path.comps) \in Nat
           /\ ~halted' => /\ k = 0 => Point = 0
                          /\ k = 1 => Point \in Named(1, "modules")
                          /\ k = 2 => Point \in Named(1, "tmp")
                          /\ k = 4 => Point = D + 3
<1>1. Form /\ Kinds(nodes, mounts) /\ Booted /\ boot # <<>> /\ Head(boot).call = "mount"
  BY DEF IInv, vfs_mount, Booting
<1>2. PICK k \in {0, 1, 2, 4} :
        /\ boot = Left(k) /\ Tail(boot) = Left(k + 1) /\ Head(boot) = BootCalls[k + 1]
        /\ table = [id \in Id |-> NULL] /\ buffer = <<>> /\ Layout(k)
  BY <1>1, StageOf
<1>3. /\ k = 0 => Head(boot).ops = "rdsk"
      /\ k = 1 => Head(boot).ops = "tmpfs" /\ Head(boot).path = Absolute(<<"modules">>)
      /\ k = 2 => Head(boot).ops = "tmpfs" /\ Head(boot).path = Absolute(<<"tmp">>)
      /\ k = 4 => Head(boot).ops = "stdio" /\ Head(boot).path = Absolute(<<"tmp", "stdio">>)
  <2>1. CASE k = 0
    BY <1>2, <2>1, BootCallsAre DEF MountCall
  <2>2. CASE k = 1
    BY <1>2, <2>2, BootCallsAre DEF MountCall
  <2>3. CASE k = 2
    BY <1>2, <2>3, BootCallsAre DEF MountCall
  <2>4. CASE k = 4
    BY <1>2, <2>4, BootCallsAre DEF MountCall
  <2> QED
    BY <2>1, <2>2, <2>3, <2>4
<1>4. Head(boot).ops \in {"rdsk", "tmpfs", "stdio"}
  BY <1>3
<1>5. mounts = <<>> <=> k = 0
  <2>1. k = 0 => mounts = <<>>
    BY <1>2 DEF Layout
  <2>2. CASE k # 0
    <3>1. k \in Nat /\ k >= 1
      BY <2>2
    <3> QED
      BY <1>1, <1>2, <2>2, <3>1, Points
  <2> QED
    BY <2>1, <2>2
<1>6. mounts # <<>> => Len(Head(boot).path.comps) \in Nat
  <2>1. k # 0 => Len(Head(boot).path.comps) \in Nat
    BY <1>3 DEF Absolute
  <2> QED
    BY <1>5, <2>1
<1>7. ASSUME ~halted'
      PROVE  /\ k = 0 => Point = 0
             /\ k = 1 => Point \in Named(1, "modules")
             /\ k = 2 => Point \in Named(1, "tmp")
             /\ k = 4 => Point = D + 3
  <2>1. mounts # <<>> => vfs_lookup(Head(boot).path, 0).err = "OK"
    BY <1>4, <1>6, <1>7, MountSucceeds
  <2>2. CASE k = 0
    BY <1>5, <2>2 DEF Point
  <2>3. CASE k = 1
    <3> DEFINE a == "modules"
    <3>1. /\ vfs_lookup(Absolute(<<a>>), 0).err = "OK" /\ a \notin {".", ".."}
          /\ Point = vfs_lookup(Absolute(<<a>>), 0).node
      BY <1>3, <1>5, <2>1, <2>3 DEF Point
    <3>2. mounts # <<>> /\ mounts[1].root = 1 /\ Cross(1) = 1
      BY <1>1, <1>2, <2>3, Points
    <3> HIDE DEF a
    <3>3. PICK c \in Named(1, a) : Point = Cross(c)
      BY <1>1, <3>1, <3>2, LookupOne
    <3>4. Cross(c) = c
      <4>1. \A m \in DOMAIN mounts : mounts[m].mount_node # c
        BY <1>1, <1>2, <2>3, Points, SequenceIsSeq DEF Named, Layout, Form, WellFormed
      <4> QED
        BY <4>1, CrossUncovered
    <3> QED
      BY <2>3, <3>3, <3>4 DEF a
  <2>4. CASE k = 2
    <3> DEFINE a == "tmp"
    <3>1. /\ vfs_lookup(Absolute(<<a>>), 0).err = "OK" /\ a \notin {".", ".."}
          /\ Point = vfs_lookup(Absolute(<<a>>), 0).node
      BY <1>3, <1>5, <2>1, <2>4 DEF Point
    <3>2. /\ mounts # <<>> /\ mounts[1].root = 1 /\ Cross(1) = 1
          /\ DOMAIN mounts = 1 .. 2 /\ DOMAIN nodes = 1 .. Len(nodes)
          /\ \A m \in DOMAIN mounts :
               \/ m = 1 /\ mounts[m].mount_node = 0
               \/ m = 2 /\ mounts[m].mount_node \in Named(1, "modules")
               \/ m = 3 \/ m = 4
      <4>1. k \in Nat /\ k >= 1 /\ Layout(k)
        BY <1>2, <2>4
      <4>2. /\ mounts # <<>> /\ mounts[1].root = 1 /\ Cross(1) = 1
            /\ DOMAIN nodes = 1 .. Len(nodes)
            /\ DOMAIN mounts = 1 .. (IF k >= 5 THEN 4 ELSE IF k >= 3 THEN 3 ELSE k)
            /\ \A m \in DOMAIN mounts :
                 \/ m = 1 /\ mounts[m].mount_node = 0
                 \/ m = 2 /\ mounts[m].mount_node \in Named(1, "modules")
                 \/ m = 3 /\ mounts[m].mount_node \in Named(1, "tmp") /\ mounts[m].root = D + 2
                 \/ m = 4 /\ mounts[m].mount_node = D + 3 /\ mounts[m].root = D + 4
        BY <1>1, <4>1, Points
      <4>3. (IF k >= 5 THEN 4 ELSE IF k >= 3 THEN 3 ELSE k) = 2
        BY <2>4
      <4> QED
        BY <4>2, <4>3
    <3> HIDE DEF a
    <3>3. PICK c \in Named(1, a) : Point = Cross(c)
      BY <1>1, <3>1, <3>2, LookupOne
    <3>4. Cross(c) = c
      <4>1. c # 0 /\ c \notin Named(1, "modules")
        BY <3>2 DEF Named, a
      <4>2. \A m \in DOMAIN mounts : mounts[m].mount_node # c
        BY <3>2, <4>1
      <4> QED
        BY <4>2, CrossUncovered
    <3> QED
      BY <2>4, <3>3, <3>4 DEF a
  <2>5. CASE k = 4
    <3> DEFINE a == "tmp"
               b == "stdio"
    <3>1. /\ vfs_lookup(Absolute(<<a, b>>), 0).err = "OK" /\ a \notin {".", ".."}
          /\ b \notin {".", ".."} /\ Point = vfs_lookup(Absolute(<<a, b>>), 0).node
      BY <1>3, <1>5, <2>1, <2>5 DEF Point
    <3>2. mounts # <<>> /\ mounts[1].root = 1 /\ Cross(1) = 1
      BY <1>1, <1>2, <2>5, Points
    <3> HIDE DEF a, b
    <3>3. PICK c \in Named(1, a) : \E d \in Named(Cross(c), b) : Point = Cross(d)
      <4>1. \E c \in Named(Cross(mounts[1].root), a) : \E d \in Named(Cross(c), b) :
              vfs_lookup(Absolute(<<a, b>>), 0).node = Cross(d)
        BY <1>1, <3>1, <3>2, LookupTwo
      <4> QED
        BY <3>1, <3>2, <4>1
    <3>4. k \in Nat /\ k >= 3 /\ k >= 4 /\ ~(k >= 5) /\ Layout(k)
      BY <1>2, <2>5
    <3>5. Cross(c) = D + 2
      BY <1>1, <3>3, <3>4, AtTmp DEF a
    <3>6. Cross(D + 3) = D + 3
      BY <1>1, <3>4, AtStdio
    <3>7. Named(D + 2, "stdio") = {D + 3}
      BY <3>4 DEF Layout
    <3>8. Point = D + 3
      BY <3>3, <3>5, <3>6, <3>7 DEF b
    <3> QED
      BY <2>5, <3>8
  <2> QED
    BY <1>2, <2>2, <2>3, <2>4, <2>5
<1> QED
  BY <1>2, <1>3, <1>5, <1>6, <1>7

(* vfs_mount, at each of its four calls. *)
LEMMA MountKeeps ==
  ASSUME IInv, vfs_mount
  PROVE  IInv' /\ Grows
<1>1. Form /\ Kinds(nodes, mounts) /\ Booted /\ boot # <<>> /\ Head(boot).call = "mount"
  BY DEF IInv, vfs_mount, Booting
<1>2. PICK k \in {0, 1, 2, 4} :
        /\ Tail(boot) = Left(k + 1) /\ table = [id \in Id |-> NULL] /\ buffer = <<>> /\ Layout(k)
        /\ Head(boot).ops = IF k = 0 THEN "rdsk" ELSE IF k = 4 THEN "stdio" ELSE "tmpfs"
        /\ mounts # <<>> => Len(Head(boot).path.comps) \in Nat
        /\ ~halted' => /\ k = 0 => Point = 0
                       /\ k = 1 => Point \in Named(1, "modules")
                       /\ k = 2 => Point \in Named(1, "tmp")
                       /\ k = 4 => Point = D + 3
  BY PointIs
<1>4. Head(boot).ops \in {"rdsk", "tmpfs", "stdio"}
  BY <1>2
<1>7. /\ table' = table /\ buffer' = buffer /\ boot' = Left(k + 1)
      /\ halted' \in BOOLEAN
      /\ nodes' = nodes \o Placed(Fresh(Head(boot).ops))
      /\ halted' => mounts' = mounts
  BY <1>2 DEF vfs_mount
<1>10. Grows
  <2>1. /\ Len(Fresh(Head(boot).ops)) \in Nat
        /\ Len(nodes) \in Nat /\ DOMAIN nodes = 1 .. Len(nodes)
    BY <1>1, <1>4, FreshKinds, SequenceIsSeq DEF Form, WellFormed, IsSequence
  <2>2. /\ DOMAIN nodes' = 1 .. Len(nodes) + Len(Fresh(Head(boot).ops))
        /\ \A i \in DOMAIN nodes : nodes'[i] = nodes[i]
    BY <1>1, <1>4, <1>7, Placing
  <2> QED
    BY <2>1, <2>2 DEF Grows
<1>8. CASE halted'
  <2>1. /\ WellFormed(nodes', Len(mounts'))
        /\ Len(nodes') = Len(nodes) + Len(Fresh(Head(boot).ops))
        /\ DOMAIN nodes' = 1 .. Len(nodes) + Len(Fresh(Head(boot).ops))
    BY <1>1, <1>4, <1>7, <1>8, Placing
  <2>2. /\ Len(Fresh(Head(boot).ops)) \in Nat
        /\ Len(nodes) \in Nat /\ DOMAIN nodes = 1 .. Len(nodes)
    BY <1>1, <1>4, FreshKinds, SequenceIsSeq DEF Form, WellFormed, IsSequence
  <2>3. \A m \in DOMAIN mounts' :
          mounts'[m].mount_node \in 0 .. Len(nodes') /\ mounts'[m].root \in DOMAIN nodes'
    BY <1>1, <1>7, <1>8, <2>1, <2>2 DEF Form
  <2>4. Form'
    BY <1>1, <1>2, <1>7, <1>8, <2>1, <2>3 DEF Form
  <2> QED
    BY <1>8, <1>10, <2>4 DEF IInv
<1>9. CASE ~halted'
  <2>1. /\ Adds(Head(boot).ops, Point)
        /\ mounts' \in Seq(Mount)
        /\ WellFormed(nodes', Len(mounts')) /\ Kinds(nodes', mounts')
        /\ \A m \in DOMAIN mounts' :
             mounts'[m].mount_node \in 0 .. Len(nodes') /\ mounts'[m].root \in DOMAIN nodes'
        /\ mounts # <<>> => vfs_lookup(Head(boot).path, 0).err = "OK"
    BY <1>4, <1>2, <1>9, MountSucceeds
  <2>2. Form'
    BY <1>1, <1>2, <1>7, <2>1 DEF Form
  <2>3. Layout(k + 1)'
    <3>1. CASE k = 0
      <4>1. Adds("rdsk", 0) /\ Layout(0)
        BY <1>2, <1>9, <2>1, <3>1
      <4>2. Layout(1)'
        BY <1>1, <4>1, DiskLaidOut
      <4> QED
        BY <3>1, <4>2
    <3>2. CASE k = 1
      <4>1. Point \in Named(1, "modules") /\ Adds("tmpfs", Point) /\ Layout(1)
        BY <1>2, <1>9, <2>1, <3>2
      <4>2. Layout(2)'
        BY <1>1, <4>1, ModulesLaidOut
      <4> QED
        BY <3>2, <4>2
    <3>3. CASE k = 2
      <4>1. Point \in Named(1, "tmp") /\ Adds("tmpfs", Point) /\ Layout(2)
        BY <1>2, <1>9, <2>1, <3>3
      <4>2. Layout(3)'
        BY <1>1, <4>1, TmpLaidOut
      <4> QED
        BY <3>3, <4>2
    <3>4. CASE k = 4
      <4>1. Adds("stdio", D + 3) /\ Layout(4)
        BY <1>2, <1>9, <2>1, <3>4
      <4>2. Layout(5)'
        BY <1>1, <4>1, StdioLaidOut
      <4> QED
        BY <3>4, <4>2
    <3> QED
      BY <3>1, <3>2, <3>3, <3>4
  <2>4. k + 1 \in 0 .. Len(BootCalls) /\ k + 1 < Len(BootCalls)
    BY BootCallsAre
  <2>5. Booted'
    <3> DEFINE n == k + 1
    <3>1. /\ n \in 0 .. Len(BootCalls) /\ n < Len(BootCalls) /\ n # Len(BootCalls)
          /\ boot' = Left(n) /\ Layout(n)'
      BY <1>7, <2>3, <2>4
    <3>2. table' = [id \in Id |-> NULL] /\ buffer' = <<>>
      BY <1>2, <1>7
    <3> HIDE DEF n
    <3> QED
      BY <3>1, <3>2, BootedNext
  <2> QED
    BY <1>9, <1>10, <2>1, <2>2, <2>5 DEF IInv
<1> QED
  BY <1>8, <1>9

(* vfs_mkdir makes /tmp/stdio. *)
LEMMA MkdirKeeps ==
  ASSUME IInv, vfs_mkdir
  PROVE  IInv' /\ Grows
<1>1. Form /\ Kinds(nodes, mounts) /\ Booted /\ boot # <<>> /\ Head(boot).call = "mkdir"
  BY DEF IInv, vfs_mkdir, Booting
<1>2. /\ boot = Left(3) /\ Tail(boot) = Left(4)
      /\ table = [id \in Id |-> NULL] /\ buffer = <<>> /\ Layout(3)
  <2>1. PICK k \in 0 .. Len(BootCalls) - 1 :
          /\ boot = Left(k) /\ Tail(boot) = Left(k + 1)
          /\ table = [id \in Id |-> NULL] /\ buffer = <<>> /\ Layout(k)
          /\ k = 3
    BY <1>1, StageOf
  <2> QED
    BY <2>1
<1> DEFINE a == "tmp"
           name == "stdio"
           type == "DIR"
           l == vfs_lookup(Absolute(<<a>>), 0)
           r == make_at(Absolute(<<a>>), name, type)
<1>3. /\ halted' = (r.err # "OK") /\ nodes' = r.nodes /\ boot' = Left(4)
      /\ mounts' = mounts /\ table' = table /\ buffer' = buffer
  BY <1>2 DEF vfs_mkdir
<1>4. r = IF l.err # "OK" THEN l ELSE make(l.node, name, type)
  BY DEF make_at
<1>5. l.err # "OK" => l.nodes = nodes
  <2>1. 0 \in DOMAIN nodes \cup {0} /\ Len(Absolute(<<a>>).comps) \in Nat
    BY DEF Absolute
  <2> DEFINE path == Absolute(<<a>>)
             none == "NONE"
             no == FALSE
  <2>2. l = vfs_lookup_ext(path, 0, none, no)
    BY DEF vfs_lookup
  <2>3. Len(path.comps) \in Nat /\ none = "NONE"
    BY <2>1
  <2> HIDE DEF path, l, none, no
  <2>4. \/ l.err # "OK" /\ l.nodes = nodes
        \/ l.err = "OK"
        \/ none # "NONE" /\ Made(l, none)
    BY <1>1, <2>1, <2>2, <2>3, LookupExtIs
  <2> QED
    BY <2>3, <2>4
<1>6. l.err = "OK" => l.node = D + 2
  <2>1. SUFFICES ASSUME l.err = "OK"
                 PROVE  l.node = D + 2
    OBVIOUS
  <2>2. mounts # <<>> /\ mounts[1].root = 1 /\ Cross(1) = 1
    BY <1>1, <1>2, Points
  <2>3. a \notin {".", ".."} /\ vfs_lookup(Absolute(<<a>>), 0).err = "OK"
    BY <2>1
  <2>4. l = vfs_lookup(Absolute(<<a>>), 0) /\ a = "tmp"
    OBVIOUS
  <2> HIDE DEF a, l
  <2>5. PICK c \in Named(1, a) : l.node = Cross(c)
    BY <1>1, <2>2, <2>3, <2>4, LookupOne
  <2>6. c \in Named(1, "tmp") /\ 3 \in Nat /\ 3 >= 3
    BY <2>4
  <2> QED
    BY <1>1, <1>2, <2>5, <2>6, AtTmp
<1>7. D + 2 \in DOMAIN nodes
  BY <1>1, <1>2, Points DEF Layout
<1>8. \/ r.err # "OK" /\ r.nodes = nodes
      \/ r.err = "OK" /\ r.nodes = Append(nodes, NewNode(D + 2, name, type)) /\ Made(r, type)
  <2> HIDE DEF r, l, a, name, type
  <2>1. CASE l.err # "OK"
    BY <1>4, <1>5, <2>1
  <2>2. CASE l.err = "OK"
    <3> DEFINE n == D + 2
    <3>1. r = make(n, name, type) /\ n \in DOMAIN nodes
      BY <1>4, <1>6, <1>7, <2>2
    <3> HIDE DEF n
    <3>2. \/ r.err # "OK" /\ r.nodes = nodes
          \/ /\ r.err = "OK" /\ r.node = Len(nodes) + 1
             /\ IsDir(n) /\ Ops(n) = "tmpfs" /\ Named(n, name) = {}
             /\ r.nodes = Append(nodes, NewNode(n, name, type))
      BY <1>1, <3>1, MakeIs
    <3> QED
      BY <3>1, <3>2 DEF Made, n
  <2> QED
    BY <2>1, <2>2
<1>9. WellFormed(nodes', Len(mounts)) /\ DOMAIN nodes \subseteq DOMAIN nodes'
      /\ Len(nodes) <= Len(nodes') /\ Kinds(nodes', mounts) /\ Grows
  <2>1. type \in {"FILE", "DIR"} /\ Len(nodes) \in Nat
    BY <1>1, SequenceIsSeq DEF Form, WellFormed
  <2> HIDE DEF r, type, name
  <2>2. CASE r.err # "OK"
    BY <1>1, <1>3, <1>8, <2>1, <2>2 DEF Form, Grows
  <2>3. CASE r.err = "OK"
    BY <1>1, <1>3, <1>8, <2>1, <2>3, MadeKeeps DEF Grows
  <2> QED
    BY <2>2, <2>3
<1>10. Form'
  <2>1. Len(nodes) \in Nat /\ Len(nodes') \in Nat /\ mounts \in Seq(Mount)
    BY <1>1, <1>9, SequenceIsSeq DEF Form, WellFormed
  <2>2. halted' \in BOOLEAN
    BY <1>3
  <2>3. \A m \in DOMAIN mounts :
          mounts[m].mount_node \in 0 .. Len(nodes') /\ mounts[m].root \in DOMAIN nodes'
    BY <1>1, <1>9, <2>1 DEF Form
  <2>4. \A id \in Id : table[id] # NULL => table[id].node \in DOMAIN nodes'
    BY <1>1, <1>9 DEF Form
  <2>5. WellFormed(nodes', Len(mounts'))
    BY <1>3, <1>9
  <2> QED
    BY <1>1, <1>3, <2>2, <2>3, <2>4, <2>5 DEF Form
<1>11. ~halted' => Booted'
  <2>1. SUFFICES ASSUME ~halted'
                 PROVE  Booted'
    OBVIOUS
  <2>2. nodes' = Append(nodes, NewNode(D + 2, "stdio", "DIR"))
    BY <1>3, <1>8, <2>1
  <2> DEFINE n == 4
  <2>3. Layout(n)'
    BY <1>1, <1>2, <1>3, <2>2, StdioMade
  <2>4. n \in 0 .. Len(BootCalls) /\ n < Len(BootCalls) /\ n # Len(BootCalls) /\ boot' = Left(n)
    BY <1>3, BootCallsAre
  <2>5. table' = [id \in Id |-> NULL] /\ buffer' = <<>>
    BY <1>2, <1>3
  <2> HIDE DEF n
  <2> QED
    BY <2>3, <2>4, <2>5, BootedNext
<1>12. Kinds(nodes', mounts')
  BY <1>3, <1>9
<1> QED
  BY <1>9, <1>10, <1>11, <1>12 DEF IInv

(* What Written leaves in a file. *)
LEMMA WrittenIs ==
  ASSUME NEW old \in Data, NEW o \in Nat, NEW bytes \in Data
  PROVE  LET new == Written(old, o, bytes)
         IN /\ new \in Data
            /\ Len(new) = IF o + Len(bytes) > Len(old) THEN o + Len(bytes) ELSE Len(old)
            /\ \A k \in 1 .. Len(new) :
                 IF k > o /\ k <= o + Len(bytes) THEN new[k] = bytes[k - o]
                 ELSE k <= Len(old) => new[k] = old[k]
<1> DEFINE new == Written(old, o, bytes)
           n == Max(Len(old), o + Len(bytes))
           S == Byte \cup {Junk}
<1>1. /\ Len(old) \in Nat /\ Len(bytes) \in Nat /\ n \in Nat
      /\ n = IF o + Len(bytes) > Len(old) THEN o + Len(bytes) ELSE Len(old)
  <2>1. old \in Seq(S) /\ bytes \in Seq(S)
    BY DEF Data
  <2>2. Len(old) \in Nat /\ Len(bytes) \in Nat
    BY <2>1, LenProperties
  <2> QED
    BY <2>2 DEF Max
<1>2. old \in [1 .. Len(old) -> S] /\ bytes \in [1 .. Len(bytes) -> S] /\ Junk \in S
  BY LenProperties DEF Data
<1>3. new = [k \in 1 .. n |->
               IF k \in o + 1 .. o + Len(bytes) THEN bytes[k - o]
               ELSE IF k <= Len(old) THEN old[k] ELSE Junk]
  BY DEF Written
<1> HIDE DEF n, S, new
<1>4. ASSUME NEW k \in 1 .. n
      PROVE  /\ new[k] \in S
             /\ IF k > o /\ k <= o + Len(bytes) THEN new[k] = bytes[k - o]
                ELSE k <= Len(old) => new[k] = old[k]
  <2>1. new[k] = IF k \in o + 1 .. o + Len(bytes) THEN bytes[k - o]
                 ELSE IF k <= Len(old) THEN old[k] ELSE Junk
    BY <1>3
  <2>2. CASE k > o /\ k <= o + Len(bytes)
    <3>1. k \in o + 1 .. o + Len(bytes) /\ k - o \in 1 .. Len(bytes)
      BY <1>1, <2>2
    <3> QED
      BY <1>2, <2>1, <2>2, <3>1
  <2>3. CASE ~(k > o /\ k <= o + Len(bytes))
    <3>1. k \notin o + 1 .. o + Len(bytes) /\ (k <= Len(old) => k \in 1 .. Len(old))
      BY <1>1, <2>3
    <3> QED
      BY <1>2, <2>1, <2>3, <3>1
  <2> QED
    BY <2>2, <2>3
<1>5. new \in [1 .. n -> S]
  BY <1>3, <1>4
<1>6. new \in Seq(S) /\ Len(new) = n
  BY <1>1, <1>5
<1> QED
  BY <1>1, <1>4, <1>6 DEF S, new, Data

(* CreateModule makes a file in /modules, or none. *)
LEMMA ModuleKeeps ==
  ASSUME IInv, CreateModule
  PROVE  IInv' /\ Grows
<1>1. /\ Form /\ Kinds(nodes, mounts) /\ Booted /\ boot # <<>> /\ ~halted
      /\ Head(boot).call = "module"
  BY DEF IInv, CreateModule, Booting
<1>2. PICK k \in 0 .. Len(BootCalls) - 1 :
        /\ boot = Left(k) /\ Tail(boot) = Left(k + 1) /\ Head(boot) = BootCalls[k + 1]
        /\ table = [id \in Id |-> NULL] /\ buffer = <<>> /\ Layout(k)
        /\ k >= 5 /\ k <= 4 + Len(Modules)
  BY <1>1, StageOf
<1> DEFINE path == Absolute(<<"modules">>)
           type == "FILE"
           l == vfs_lookup(path, 0)
           r == make_at(path, Head(boot).name, type)
           content == Head(boot).data
<1>3. /\ nodes' = IF r.err # "OK" THEN nodes ELSE [r.nodes EXCEPT ![r.node].data = Written(<<>>, 0, content)]
      /\ boot' = Left(k + 1)
      /\ mounts' = mounts /\ table' = table /\ buffer' = buffer /\ halted' = halted
  BY <1>2 DEF CreateModule
<1>4. content \in Data /\ Len(content) < HALF /\ Len(content) \in Nat
  <2>1. k + 1 \in 6 .. 5 + Len(Modules) /\ k - 4 \in 1 .. Len(Modules) /\ (k + 1) - 5 = k - 4
    BY <1>2, BootCallsAre
  <2>2. content = Modules[k - 4].data
    BY <1>2, <2>1, BootCallsAre
  <2>3. k - 4 \in DOMAIN Modules
    BY <2>1, BootAssumption, SequenceIsSeq
  <2> DEFINE i == k - 4
  <2>4. i \in DOMAIN Modules /\ content = Modules[i].data
    BY <2>2, <2>3
  <2> HIDE DEF i, content
  <2>5. content \in Seq(Byte) /\ Len(content) <= HEAP
    BY <2>4, BootAssumption
  <2>6. Seq(Byte) \subseteq Seq(Byte \cup {Junk})
    BY SeqMonotonic
  <2>7. Len(content) \in Nat
    BY <2>5, LenProperties
  <2> QED
    BY <2>5, <2>6, <2>7, FilesAssumption DEF Data
<1>5. r.err # "OK" \/ Made(r, type)
  <2> DEFINE none == "NONE"
             no == FALSE
             name == Head(boot).name
  <2>1. Len(path.comps) \in Nat /\ 0 \in DOMAIN nodes \cup {0} /\ none = "NONE"
    BY DEF Absolute
  <2>2. l = vfs_lookup_ext(path, 0, none, no)
    BY DEF vfs_lookup
  <2>3. r = IF l.err # "OK" THEN l ELSE make(l.node, name, type)
    BY DEF make_at
  <2> HIDE DEF path, l, none, no, r, name, type
  <2>4. l.err = "OK" => l.nodes = nodes /\ l.node \in DOMAIN nodes
    <3>1. \/ l.err # "OK" /\ l.nodes = nodes
          \/ l.err = "OK" /\ l.nodes = nodes /\ l.node \in DOMAIN nodes
          \/ none # "NONE" /\ Made(l, none)
      BY <1>1, <2>1, <2>2, LookupExtIs
    <3> QED
      BY <2>1, <3>1
  <2>5. ASSUME l.err = "OK"
        PROVE  r.err # "OK" \/ Made(r, type)
    <3> DEFINE n == l.node
    <3>1. n \in DOMAIN nodes /\ r = make(n, name, type)
      BY <2>3, <2>4, <2>5
    <3> HIDE DEF n
    <3> QED
      BY <1>1, <3>1, MakeIs DEF Made
  <2> QED
    BY <2>3, <2>5
<1>6. /\ WellFormed(nodes', Len(mounts)) /\ Kinds(nodes', mounts) /\ Extended /\ Grows
  <2>0. Len(nodes) \in Nat /\ DOMAIN nodes = 1 .. Len(nodes) /\ type = "FILE"
    BY <1>1, SequenceIsSeq DEF Form, WellFormed
  <2> HIDE DEF r, type, content
  <2>1. CASE r.err # "OK"
    <3>1. nodes' = nodes
      BY <1>3, <2>1
    <3> QED
      BY <1>1, <2>0, <3>1 DEF Form, Extended, Grows
  <2>2. CASE r.err = "OK"
    <3> DEFINE bytes == Written(<<>>, 0, content)
               m == r.node
               ns == r.nodes
    <3>1. bytes \in Data /\ Len(bytes) < HALF
      <4>1. <<>> \in Data /\ Len(<<>>) = 0 /\ 0 \in Nat
        BY DEF Data
      <4>2. Len(bytes) = IF 0 + Len(content) > 0 THEN 0 + Len(content) ELSE 0
        BY <1>4, <4>1, WrittenIs
      <4>3. bytes \in Data
        BY <1>4, <4>1, WrittenIs
      <4> QED
        BY <1>4, <4>2, <4>3, FilesAssumption
    <3>2. /\ WellFormed(ns, Len(mounts)) /\ Kinds(ns, mounts)
          /\ DOMAIN ns = DOMAIN nodes \cup {m} /\ m \notin DOMAIN nodes
          /\ Len(nodes) <= Len(ns)
          /\ \A i \in DOMAIN nodes : ns[i] = nodes[i]
          /\ ns[m].type = type
          /\ mounts[ns[m].fs].ops = "tmpfs"
      <4>1. Made(r, type) /\ type \in {"FILE", "DIR"}
        BY <1>5, <2>0, <2>2
      <4> QED
        BY <1>1, <4>1, MadeKeeps
    <3>3. PICK n \in DOMAIN nodes : \E name :
            /\ IsDir(n) /\ Ops(n) = "tmpfs" /\ Named(n, name) = {}
            /\ ns = Append(nodes, NewNode(n, name, type))
      BY <1>5, <2>2 DEF Made
    <3>4. PICK name : /\ Ops(n) = "tmpfs" /\ Named(n, name) = {}
                      /\ ns = Append(nodes, NewNode(n, name, type))
      BY <3>3
    <3>5. m = Len(nodes) + 1
      BY <1>5, <2>2 DEF Made
    <3>6. ns[m].parent = n /\ ns[m].name = name
      <4> DEFINE new == NewNode(n, name, type)
      <4>1. new.parent = n /\ new.name = name
        BY DEF NewNode
      <4> HIDE DEF new
      <4>2. Append(nodes, new)[Len(nodes) + 1] = new
        BY <1>1, Appended DEF Form, WellFormed
      <4>3. ns[m] = new
        BY <3>4, <3>5, <4>2 DEF new
      <4> QED
        BY <4>1, <4>3
    <3>7. nodes' = [ns EXCEPT ![m].data = bytes]
      BY <1>3, <2>2
    <3> HIDE DEF ns, m, bytes
    <3>8. /\ WellFormed(nodes', Len(mounts))
          /\ DOMAIN nodes' = DOMAIN ns /\ Len(nodes') = Len(ns)
          /\ \A i \in DOMAIN ns \ {m} : nodes'[i] = ns[i]
          /\ nodes'[m].data = bytes
          /\ \A i \in DOMAIN ns : /\ nodes'[i].fs = ns[i].fs /\ nodes'[i].parent = ns[i].parent
                                  /\ nodes'[i].name = ns[i].name /\ nodes'[i].type = ns[i].type
      <4> DEFINE count == Len(mounts)
      <4>1. WellFormed(ns, count) /\ m \in DOMAIN ns
        BY <3>2
      <4> HIDE DEF count
      <4> DEFINE after == nodes'
      <4>2. Rewrites(after, ns, m, bytes)
        BY <3>7 DEF Rewrites
      <4> HIDE DEF after
      <4>3. /\ WellFormed(after, count)
            /\ DOMAIN after = DOMAIN ns /\ Len(after) = Len(ns)
            /\ \A i \in DOMAIN ns \ {m} : after[i] = ns[i]
            /\ after[m].data = bytes
            /\ \A i \in DOMAIN ns : /\ after[i].fs = ns[i].fs /\ after[i].parent = ns[i].parent
                                    /\ after[i].name = ns[i].name /\ after[i].type = ns[i].type
        BY <3>1, <4>1, <4>2, Rewritten
      <4> QED
        BY <4>3 DEF after, count
    <3>9. Kinds(nodes', mounts)
      <4>1. ASSUME NEW i \in DOMAIN nodes', i # m
            PROVE  nodes'[i] = ns[i] /\ i \in DOMAIN ns
        BY <3>8, <4>1
      <4>2. /\ nodes'[m].type = "FILE" /\ nodes'[m].fs = ns[m].fs
            /\ mounts[nodes'[m].fs].ops # "stdio" /\ nodes'[m].fs \in DOMAIN mounts
        BY <2>0, <3>2, <3>8 DEF Kinds
      <4> QED
        BY <3>1, <3>2, <3>8, <4>1, <4>2 DEF Kinds
    <3>10. Extended
      <4>1. Len(nodes') \in Nat
        BY <3>8, SequenceIsSeq DEF WellFormed
      <4>2. nodes'[m].parent = n /\ nodes'[m].name = name
        BY <3>2, <3>6, <3>8
      <4>3. \A i \in DOMAIN nodes' \ DOMAIN nodes : i = m
        BY <3>2, <3>8
      <4>4. \A i \in DOMAIN nodes' \ DOMAIN nodes :
              Ops(nodes'[i].parent) = "tmpfs" /\ Named(nodes'[i].parent, nodes'[i].name) = {}
        BY <3>4, <4>2, <4>3
      <4>5. \A i \in DOMAIN nodes :
              /\ nodes'[i].fs = nodes[i].fs /\ nodes'[i].parent = nodes[i].parent
              /\ nodes'[i].name = nodes[i].name /\ nodes'[i].type = nodes[i].type
        BY <3>2, <3>8
      <4> QED
        BY <3>2, <3>8, <4>1, <4>4, <4>5 DEF Extended
    <3>11. Grows
      BY <3>2, <3>8 DEF Grows
    <3> QED
      BY <3>8, <3>9, <3>10, <3>11
  <2> QED
    BY <2>1, <2>2
<1>7. Form'
  <2>1. /\ table' \in [Id -> {NULL} \cup Resource]
        /\ \A id \in Id : table'[id] # NULL => table'[id].node \in DOMAIN nodes'
        /\ buffer' \in Data /\ halted' \in BOOLEAN
    BY <1>1, <1>3, <1>6 DEF Form, Extended
  <2> QED
    BY <1>1, <1>3, <1>6, <2>1, ExtendedForm
<1>8. Booted'
  <2> DEFINE n == k + 1
  <2>1. k \in Nat /\ k >= 5 /\ Layout(k)
    BY <1>2, BootCallsAre
  <2>2. Layout(n)'
    BY <1>1, <1>3, <1>6, <2>1, ModuleLaidOut
  <2>3. n \in 0 .. Len(BootCalls) /\ n < Len(BootCalls) /\ n # Len(BootCalls) /\ boot' = Left(n)
    BY <1>2, <1>3, BootCallsAre
  <2>4. table' = [id \in Id |-> NULL] /\ buffer' = <<>>
    BY <1>2, <1>3
  <2> HIDE DEF n
  <2> QED
    BY <2>2, <2>3, <2>4, BootedNext
<1> QED
  BY <1>3, <1>6, <1>7, <1>8 DEF IInv

(* The table of the init process: its streams, which hold no bytes. *)
LEMMA StartIs ==
  ASSUME IInv, StartInit
  PROVE  /\ boot' = <<>> /\ mounts # <<>> /\ buffer = <<>>
         /\ table = [id \in Id |-> NULL] /\ table' \in [Id -> {NULL} \cup Resource]
         /\ \A id \in Id : table'[id] # NULL =>
              /\ table'[id].node \in DOMAIN nodes /\ nodes[table'[id].node].data = NULL
              /\ table'[id].offset = 0 /\ table'[id].mode = "READ_WRITE"
<1>1. /\ Form /\ Kinds(nodes, mounts) /\ Booted /\ boot # <<>> /\ ~halted
      /\ Head(boot).call = "start"
  BY DEF IInv, StartInit, Booting
<1>2. PICK k \in 0 .. Len(BootCalls) - 1 :
        /\ boot = Left(k) /\ Tail(boot) = Left(k + 1)
        /\ table = [id \in Id |-> NULL] /\ buffer = <<>> /\ Layout(k)
        /\ k + 1 = Len(BootCalls) /\ k >= 5
  BY <1>1, StageOf
<1>3. k \in Nat /\ k >= 1 /\ k >= 5
  BY <1>2, BootCallsAre
<1>4. boot' = <<>> /\ mounts # <<>>
  <2>1. boot' = Tail(boot)
    BY DEF StartInit
  <2>2. mounts # <<>>
    BY <1>1, <1>2, <1>3, Points
  <2> QED
    BY <1>2, <2>1, <2>2, LeftIs
<1> DEFINE stream(n) == vfs_lookup(Absolute(<<"tmp", "stdio", n>>), 0)
           open(n) == [node |-> stream(n).node, offset |-> 0, mode |-> "READ_WRITE"]
           Good(x) == x \in Resource /\ x.node \in DOMAIN nodes /\ nodes[x.node].data = NULL
                      /\ x.offset = 0 /\ x.mode = "READ_WRITE"
<1>5. ASSUME NEW n \in {"stdin", "stdout", "stderr"}, stream(n).err = "OK"
      PROVE  Good(open(n))
  <2> DEFINE i == stream(n).node
  <2>1. i \in DOMAIN nodes /\ nodes[i].data = NULL
    BY <1>1, <1>2, <1>3, <1>5, StreamsAre
  <2> HIDE DEF i
  <2>2. i \in Nat /\ 0 \in 0 .. 2 * HALF - 1
    BY <1>1, <2>1, FilesAssumption, SequenceIsSeq DEF Form, WellFormed
  <2>3. [node |-> i, offset |-> 0, mode |-> "READ_WRITE"] \in Resource
    BY <2>2 DEF Resource, Modes
  <2> QED
    BY <2>1, <2>3 DEF i
<1>6. /\ halted' = (\E n \in {"stdin", "stdout", "stderr"} : stream(n).err # "OK")
      /\ table' = IF halted' THEN table
                  ELSE [table EXCEPT ![0] = open("stdin"), ![1] = open("stdout"), ![2] = open("stderr")]
  BY DEF StartInit
<1>7. CASE halted'
  <2>1. table' = table /\ table \in [Id -> {NULL} \cup Resource] /\ \A id \in Id : table[id] = NULL
    BY <1>1, <1>2, <1>6, <1>7 DEF Form
  <2> QED
    BY <1>2, <1>4, <2>1
<1>8. CASE ~halted'
  <2>1. Good(open("stdin")) /\ Good(open("stdout")) /\ Good(open("stderr"))
    BY <1>5, <1>6, <1>8
  <2>2. table' = [table EXCEPT ![0] = open("stdin"), ![1] = open("stdout"), ![2] = open("stderr")]
    BY <1>6, <1>8
  <2> DEFINE in == open("stdin")
             out == open("stdout")
             err == open("stderr")
  <2>3. table' = [table EXCEPT ![0] = in, ![1] = out, ![2] = err]
    BY <2>2
  <2>4. in \in Resource /\ out \in Resource /\ err \in Resource
    BY <2>1
  <2>5. Good(in) /\ Good(out) /\ Good(err)
    BY <2>1
  <2> HIDE DEF in, out, err
  <2>6. table \in [Id -> {NULL} \cup Resource] /\ \A id \in Id : table[id] = NULL
    BY <1>1, <1>2 DEF Form
  <2>7. table' \in [Id -> {NULL} \cup Resource]
    BY <2>3, <2>4, <2>6
  <2>8. \A id \in Id : table'[id] = in \/ table'[id] = out \/ table'[id] = err \/ table'[id] = NULL
    BY <2>3, <2>6
  <2>9. \A id \in Id : table'[id] # NULL => Good(table'[id])
    BY <2>5, <2>8
  <2> QED
    BY <1>2, <1>4, <2>7, <2>9
<1> QED
  BY <1>7, <1>8

(* When the boot is over nothing of it is left to make, and mounts stay. *)
LEMMA BootOver ==
  ASSUME Booted, boot = <<>>
  PROVE  mounts # <<>>
<1>1. PICK k \in 0 .. Len(BootCalls) : boot = Left(k) /\ (k = Len(BootCalls) => mounts # <<>>)
  BY DEF Booted
<1>2. k = Len(BootCalls)
  <2>1. k # Len(BootCalls) => k \in 0 .. Len(BootCalls) - 1
    BY BootCallsAre
  <2> QED
    BY <1>1, <2>1, LeftIs
<1> QED
  BY <1>1, <1>2

LEMMA StaysOver ==
  ASSUME boot' = <<>>, mounts' # <<>>
  PROVE  Booted'
<1> DEFINE n == Len(BootCalls)
<1>1. n \in 0 .. n /\ ~(n < n) /\ Left(n) = <<>>
  BY BootCallsAre, LeftIs
<1> SUFFICES \E j \in 0 .. n :
               /\ boot' = Left(j)
               /\ j < n => table' = [id \in Id |-> NULL] /\ buffer' = <<>> /\ Layout(j)'
               /\ j = n => mounts' # <<>>
  BY Zenon DEF Booted, Layout, Named, IsDir
<1> HIDE DEF n
<1> USE <1>1
<1> WITNESS n \in 0 .. n
<1> QED
  OBVIOUS

(* What a step without mounts keeps, once it keeps the tree and the table. *)
LEMMA CallKeeps ==
  ASSUME Form, Kinds(nodes', mounts), WellFormed(nodes', Len(mounts)),
         DOMAIN nodes \subseteq DOMAIN nodes',
         mounts' = mounts, mounts # <<>>, boot' = <<>>,
         table' \in [Id -> {NULL} \cup Resource],
         \A id \in Id : table'[id] # NULL => table'[id].node \in DOMAIN nodes',
         buffer' \in Data, halted' \in BOOLEAN
  PROVE  IInv'
<1>1. Booted'
  BY StaysOver
<1>2. /\ Len(nodes) \in Nat /\ Len(nodes') \in Nat /\ DOMAIN nodes = 1 .. Len(nodes)
      /\ DOMAIN nodes' = 1 .. Len(nodes')
  BY SequenceIsSeq DEF Form, WellFormed
<1>3. Len(nodes) <= Len(nodes')
  BY <1>2
<1>4. \A m \in DOMAIN mounts :
        mounts[m].mount_node \in 0 .. Len(nodes') /\ mounts[m].root \in DOMAIN nodes'
  BY <1>2, <1>3 DEF Form
<1>5. WellFormed(nodes', Len(mounts')) /\ mounts' \in Seq(Mount) /\ Kinds(nodes', mounts')
  BY DEF Form
<1>6. Form'
  BY <1>4, <1>5 DEF Form
<1> QED
  BY <1>1, <1>5, <1>6 DEF IInv

(* The init process starts with its three streams, or not at all. *)
LEMMA StartKeeps ==
  ASSUME IInv, StartInit
  PROVE  IInv'
<1>1. Form /\ Kinds(nodes, mounts)
  BY DEF IInv, StartInit, Booting
<1>2. /\ boot' = <<>> /\ mounts # <<>> /\ table' \in [Id -> {NULL} \cup Resource]
      /\ \A id \in Id : table'[id] # NULL => table'[id].node \in DOMAIN nodes
  BY StartIs
<1>3. nodes' = nodes /\ mounts' = mounts /\ buffer' = buffer /\ halted' \in BOOLEAN
  BY DEF StartInit
<1>4. WellFormed(nodes, Len(mounts)) /\ buffer \in Data
  BY <1>1 DEF Form
<1> QED
  BY <1>1, <1>2, <1>3, <1>4, CallKeeps

-----------------------------------------------------------------------------
(* The system calls *)

(* Nodes stay, and so does whether they hold bytes. *)
SameKind ==
  \A i \in DOMAIN nodes : i \in DOMAIN nodes' /\ (nodes'[i].data = NULL <=> nodes[i].data = NULL)

(* What an open that is not refused does to the nodes: it reaches n, which *)
(* it may have made, and it may empty it (e is n then, and 0 otherwise).   *)
Reaches(n, e) ==
  /\ WellFormed(nodes', Len(mounts)) /\ Kinds(nodes', mounts)
  /\ DOMAIN nodes \subseteq DOMAIN nodes'
  /\ n \in DOMAIN nodes' /\ e \in {0, n} /\ SameKind
  /\ \A i \in DOMAIN nodes : nodes'[i].data = IF i = e THEN <<>> ELSE nodes[i].data

(* And to the table: an id that was free is for n now. *)
Hands(n, mode, id) ==
  /\ table[id] = NULL
  /\ table' \in [Id -> {NULL} \cup Resource] /\ table'[id] # NULL
  /\ \A other \in Id \ {id} : table'[other] = table[other]
  /\ table'[id].node = n /\ table'[id].mode = mode
  /\ table'[id].offset \in {0, IF nodes'[n].data = NULL THEN 0 ELSE Len(nodes'[n].data)}

(* The lowest free id is free. *)
LEMMA LowestIsFree ==
  ASSUME Unused # {}
  PROVE  Lowest(Unused) \in Id /\ table[Lowest(Unused)] = NULL
<1> DEFINE T == Unused
<1>1. T \in SUBSET Nat
  BY FilesAssumption DEF Unused, Id
<1>2. T # {}
  OBVIOUS
<1>3. \A id \in T : id \in Id /\ table[id] = NULL
  BY DEF Unused
<1> HIDE DEF T
<1>4. \E x \in T : \A y \in T : x <= y
  BY <1>1, <1>2, Least
<1>5. Lowest(T) \in T
  BY <1>4 DEF Lowest
<1> QED
  BY <1>3, <1>5 DEF T

(* The directory a call begins at is one. *)
LEMMA DirectoryFinds ==
  ASSUME Form, mounts # <<>>, NEW d, d # AT_FDCWD => Open(d)
  PROVE  Directory(d) \in DOMAIN nodes
<1>1. mounts[1].root \in DOMAIN nodes
  <2>1. 1 \in DOMAIN mounts
    BY DEF Form
  <2> QED
    BY <2>1 DEF Form
<1>2. d # AT_FDCWD => d \in Id /\ table[d] # NULL
  BY DEF Open, resource_get
<1> QED
  BY <1>1, <1>2 DEF Directory, cwd, Form

(* What open does. *)
LEMMA OpenIs ==
  ASSUME Form, Kinds(nodes, mounts), mounts # <<>>,
         NEW d, NEW path \in Paths \cup {NULL}, NEW flags, NEW mode,
         syscall_fs_open(d, path, flags, mode)
  PROVE  \/ nodes' = nodes /\ table' = table
         \/ \E n, e : /\ Reaches(n, e) /\ mode \in Modes /\ (e # 0 => mode \in Writes)
                      /\ \/ Unused = {} /\ table' = table
                         \/ \E id \in Id : Hands(n, mode, id)
<1>1. CASE OpenRefused(d, path, flags, mode) # "OK"
  BY <1>1 DEF syscall_fs_open
<1>2. CASE OpenRefused(d, path, flags, mode) = "OK"
  <2> DEFINE create == IF "CREAT" \in flags THEN "FILE" ELSE "NONE"
             excl == "EXCL" \in flags
             dir == Directory(d)
             r == vfs_lookup_ext(path, dir, create, excl)
             m == r.node
             ns == r.nodes
             truncates == "TRUNC" \in flags /\ mode \in Writes /\ ns[m].type = "FILE"
             error == IF r.err # "OK" THEN r.err
                      ELSE IF "DIRECTORY" \in flags /\ ns[m].type # "DIR" THEN "ENOTDIR"
                      ELSE IF truncates /\ m \in DOMAIN nodes THEN truncate_error(m)
                      ELSE "OK"
             after == IF error = "OK" /\ truncates THEN [ns EXCEPT ![m].data = <<>>] ELSE ns
             size == IF after[m].data = NULL THEN 0 ELSE Len(after[m].data)
             id == Lowest(Unused)
             new == [node |-> m, offset |-> IF "APPEND" \in flags THEN size ELSE 0, mode |-> mode]
  <2>1. /\ nodes' = after
        /\ error # "OK" => table' = table
        /\ error = "OK" /\ Unused = {} => table' = table
        /\ error = "OK" /\ Unused # {} => resource_create_at(id, new)
    BY <1>2 DEF syscall_fs_open
  <2>2. /\ path \in Paths /\ mode \in Modes /\ (d # AT_FDCWD => Open(d))
        /\ ~("CREAT" \in flags /\ "DIRECTORY" \in flags)
    BY <1>2 DEF OpenRefused
  <2>3. \/ r.err # "OK" /\ ns = nodes
        \/ r.err = "OK" /\ ns = nodes /\ m \in DOMAIN nodes
        \/ create # "NONE" /\ Made(r, create)
    <3>1. Len(path.comps) \in Nat
      BY <2>2, FilesAssumption DEF IsSequence
    <3>2. dir \in DOMAIN nodes \cup {0}
      BY <2>2, DirectoryFinds
    <3> HIDE DEF create, excl, dir
    <3> QED
      BY <3>1, <3>2, LookupExtIs
  <2>4. create # "NONE" => create = "FILE" /\ "DIRECTORY" \notin flags
    BY <2>2
  <2> DEFINE made == create # "NONE" /\ Made(r, create)
  <2>5. made => /\ WellFormed(ns, Len(mounts)) /\ Kinds(ns, mounts)
                /\ DOMAIN ns = DOMAIN nodes \cup {m} /\ m \notin DOMAIN nodes
                /\ \A i \in DOMAIN nodes : ns[i] = nodes[i]
                /\ ns[m].type = "FILE" /\ ns[m].data = <<>>
                /\ mounts[ns[m].fs].ops = "tmpfs" /\ r.err = "OK"
    <3>1. SUFFICES ASSUME made
                   PROVE  /\ WellFormed(ns, Len(mounts)) /\ Kinds(ns, mounts)
                          /\ DOMAIN ns = DOMAIN nodes \cup {m} /\ m \notin DOMAIN nodes
                          /\ \A i \in DOMAIN nodes : ns[i] = nodes[i]
                          /\ ns[m].type = "FILE" /\ ns[m].data = <<>>
                          /\ mounts[ns[m].fs].ops = "tmpfs" /\ r.err = "OK"
      OBVIOUS
    <3>2. create = "FILE" /\ create \in {"FILE", "DIR"} /\ Made(r, create)
      BY <2>4, <3>1
    <3> HIDE DEF r, create
    <3>3. r.err = "OK"
      BY <3>2 DEF Made
    <3> QED
      BY <3>2, <3>3, MadeKeeps
  <2>6. CASE error # "OK"
    <3>1. ns = nodes
      <4>1. made => error = "OK"
        <5>1. SUFFICES ASSUME made
                       PROVE  error = "OK"
          OBVIOUS
        <5>2. r.err = "OK" /\ "DIRECTORY" \notin flags /\ m \notin DOMAIN nodes
          BY <2>4, <2>5, <5>1
        <5> QED
          BY <5>2
      <4> QED
        BY <2>3, <2>6, <4>1
    <3> QED
      BY <2>1, <2>6, <3>1
  <2>7. CASE error = "OK"
    <3>1. r.err = "OK"
      BY <2>7
    <3> DEFINE cut == truncates
               e == IF cut THEN m ELSE 0
    <3>2. /\ WellFormed(ns, Len(mounts)) /\ Kinds(ns, mounts)
          /\ DOMAIN nodes \subseteq DOMAIN ns /\ m \in DOMAIN ns
          /\ \A i \in DOMAIN nodes : ns[i] = nodes[i]
      <4>1. CASE made
        BY <2>5, <4>1
      <4>2. CASE ~made
        <5>1. ns = nodes /\ m \in DOMAIN nodes
          BY <2>3, <3>1, <4>2
        <5> HIDE DEF ns, m
        <5> QED
          BY <5>1 DEF Form
      <4> QED
        BY <4>1, <4>2
    <3>3. cut => /\ mode \in Writes /\ ns[m].type = "FILE" /\ mounts[ns[m].fs].ops # "stdio"
      <4>1. SUFFICES ASSUME cut
                     PROVE  mounts[ns[m].fs].ops # "stdio"
        OBVIOUS
      <4>2. CASE made
        BY <2>5, <4>2
      <4>3. CASE ~made
        <5>1. ns = nodes /\ m \in DOMAIN nodes
          BY <2>3, <3>1, <4>3
        <5>2. truncate_error(m) = "OK"
          BY <2>7, <3>1, <4>1, <5>1
        <5>3. mounts[nodes[m].fs].ops # "stdio"
          BY <5>2 DEF truncate_error, Ops
        <5> QED
          BY <5>1, <5>3
      <4> QED
        BY <4>2, <4>3
    <3>4. nodes' = IF cut THEN [ns EXCEPT ![m].data = <<>>] ELSE ns
      BY <2>1, <2>7
    <3>5. \/ table' = table /\ Unused = {}
          \/ Unused # {} /\ table' = [i \in Id \cup {id} |-> IF i = id THEN new ELSE table[i]]
      BY <2>1, <2>7 DEF resource_create_at
    <3> DEFINE append == "APPEND" \in flags
    <3>6. new = [node |-> m, mode |-> mode,
                 offset |-> IF append THEN (IF nodes'[m].data = NULL THEN 0 ELSE Len(nodes'[m].data)) ELSE 0]
      BY <2>1
    <3> HIDE DEF r, m, ns, cut, id, new, append
    <3>7. Reaches(m, e)
      <4>1. CASE ~cut
        <5>1. nodes' = ns /\ e = 0
          BY <3>4, <4>1
        <5>2. \A i \in DOMAIN nodes : i # 0
          BY SequenceIsSeq DEF Form, WellFormed
        <5> QED
          BY <3>2, <5>1, <5>2 DEF Reaches, SameKind
      <4>2. CASE cut
        <5> DEFINE new2 == nodes'
                   empty == <<>>
                   count == Len(mounts)
        <5>1. Rewrites(new2, ns, m, empty) /\ e = m
          BY <3>4, <4>2 DEF Rewrites
        <5>2. empty \in Data /\ Len(empty) < HALF
          BY FilesAssumption DEF Data
        <5>3. WellFormed(ns, count) /\ m \in DOMAIN ns
          BY <3>2
        <5> HIDE DEF e, new2, empty, count
        <5>4. /\ WellFormed(new2, count)
              /\ DOMAIN new2 = DOMAIN ns /\ Len(new2) = Len(ns)
              /\ \A i \in DOMAIN ns \ {m} : new2[i] = ns[i]
              /\ new2[m].data = empty
              /\ \A i \in DOMAIN ns : /\ new2[i].fs = ns[i].fs /\ new2[i].parent = ns[i].parent
                                      /\ new2[i].name = ns[i].name /\ new2[i].type = ns[i].type
          BY <5>1, <5>2, <5>3, Rewritten
        <5>5. Kinds(new2, mounts)
          <6>1. /\ new2[m].type = "FILE" /\ new2[m].fs \in DOMAIN mounts
                /\ mounts[new2[m].fs].ops # "stdio"
            BY <3>2, <3>3, <4>2, <5>4 DEF Kinds
          <6>2. \A i \in DOMAIN new2 \ {m} : new2[i] = ns[i] /\ i \in DOMAIN ns
            BY <5>4
          <6> QED
            BY <3>2, <5>2, <5>4, <6>1, <6>2 DEF Kinds
        <5>6. \A i \in DOMAIN nodes : new2[i].data = IF i = m THEN <<>> ELSE nodes[i].data
          BY <3>2, <5>4 DEF empty
        <5>7. ASSUME NEW i \in DOMAIN nodes
              PROVE  i \in DOMAIN new2 /\ (new2[i].data = NULL <=> nodes[i].data = NULL)
          <6>1. CASE i = m
            <7>1. ns[m].data # NULL /\ empty # NULL
              BY <3>2, <3>3, <4>2, <5>2, FilesAssumption DEF Kinds
            <7> QED
              BY <3>2, <5>4, <6>1, <7>1
          <6>2. CASE i # m
            BY <3>2, <5>4, <6>2
          <6> QED
            BY <6>1, <6>2
        <5> QED
          BY <3>2, <5>1, <5>4, <5>5, <5>6, <5>7 DEF Reaches, SameKind, new2, count
      <4> QED
        BY <4>1, <4>2
    <3>8. e # 0 => mode \in Writes
      BY <3>3
    <3>9. ASSUME Unused # {}, table' = [i \in Id \cup {id} |-> IF i = id THEN new ELSE table[i]]
          PROVE  Hands(m, mode, id) /\ id \in Id
      <4>1. id \in Id /\ table[id] = NULL
        BY <3>9, LowestIsFree DEF id
      <4>2. new \in Resource
        <5>1. m \in Nat
          <6>1. IsSequence(nodes') /\ m \in DOMAIN nodes'
            BY <3>7 DEF Reaches, WellFormed
          <6>2. DOMAIN nodes' = 1 .. Len(nodes') /\ Len(nodes') \in Nat
            BY <6>1, SequenceIsSeq
          <6> QED
            BY <6>1, <6>2
        <5>2. new.offset \in 0 .. 2 * HALF - 1
          <6>1. nodes'[m].data # NULL => Len(nodes'[m].data) \in Nat /\ Len(nodes'[m].data) < HALF
            <7>1. nodes'[m].data # NULL => nodes'[m].data \in Data /\ Len(nodes'[m].data) < HALF
              BY <3>7 DEF Reaches, Kinds
            <7> QED
              BY <7>1, LenProperties DEF Data
          <6> DEFINE len == Len(nodes'[m].data)
                     null == nodes'[m].data = NULL
          <6>2. HALF \in Nat \ {0} /\ (new.offset = 0 \/ (~null /\ new.offset = len))
            BY <3>6, FilesAssumption
          <6>3. ~null => len \in Nat /\ len < HALF
            BY <6>1
          <6> HIDE DEF len, null
          <6> QED
            BY <6>2, <6>3
        <5>3. new.node = m /\ new.mode = mode
              /\ new = [node |-> new.node, offset |-> new.offset, mode |-> new.mode]
          BY <3>6
        <5> QED
          BY <2>2, <5>1, <5>2, <5>3 DEF Resource
      <4>3. /\ table \in [Id -> {NULL} \cup Resource] /\ Id \cup {id} = Id
        BY <4>1 DEF Form
      <4>4. /\ table' \in [Id -> {NULL} \cup Resource] /\ table'[id] = new
            /\ \A other \in Id \ {id} : table'[other] = table[other]
        BY <3>9, <4>1, <4>2, <4>3
      <4>5. NULL \notin Resource
        BY FilesAssumption DEF Resource
      <4> QED
        BY <3>6, <4>1, <4>2, <4>4, <4>5 DEF Hands
    <3> QED
      BY <2>2, <3>5, <3>7, <3>8, <3>9
  <2> QED
    BY <2>6, <2>7
<1> QED
  BY <1>1, <1>2

(* A call in a table of resources moves one of them. *)
Moves(id, offset) == table' = [table EXCEPT ![id].offset = offset]

LEMMA MovesIs ==
  ASSUME table \in [Id -> {NULL} \cup Resource], NEW id \in Id, table[id] # NULL,
         NEW offset \in 0 .. 2 * HALF - 1, Moves(id, offset)
  PROVE  /\ table' \in [Id -> {NULL} \cup Resource] /\ table'[id] # NULL
         /\ \A other \in Id \ {id} : table'[other] = table[other]
         /\ table'[id].node = table[id].node /\ table'[id].mode = table[id].mode
         /\ table'[id].offset = offset
<1> DEFINE new == [table[id] EXCEPT !.offset = offset]
<1>1. table[id] \in Resource
  OBVIOUS
<1>2. /\ new \in Resource /\ new.node = table[id].node /\ new.mode = table[id].mode
      /\ new.offset = offset
  BY <1>1 DEF Resource
<1>3. table' = [table EXCEPT ![id] = new]
  BY DEF Moves
<1>4. NULL \notin Resource
  BY FilesAssumption DEF Resource
<1> HIDE DEF new
<1>5. /\ table' \in [Id -> {NULL} \cup Resource] /\ table'[id] = new
      /\ \A other \in Id \ {id} : table'[other] = table[other]
  BY <1>2, <1>3
<1> QED
  BY <1>2, <1>4, <1>5

(* An open resource is of a node. *)
LEMMA OpenedIs ==
  ASSUME Form, NEW id, Open(id)
  PROVE  /\ id \in Id /\ table[id] # NULL /\ table[id] \in Resource
         /\ table[id].node \in DOMAIN nodes
         /\ table[id].offset \in 0 .. 2 * HALF - 1 /\ table[id].offset \in Nat
         /\ table[id].mode \in Modes
         /\ HALF \in Nat \ {0}
<1>1. id \in Id /\ table[id] # NULL
  BY DEF Open, resource_get
<1>2. table[id] \in Resource /\ table[id].node \in DOMAIN nodes
  BY <1>1 DEF Form
<1>3. HALF \in Nat \ {0}
  BY FilesAssumption
<1>4. table[id].offset \in 0 .. 2 * HALF - 1 /\ table[id].mode \in Modes
  BY <1>2 DEF Resource
<1> QED
  BY <1>1, <1>2, <1>3, <1>4

(* The bytes a read moves, of a file as far as it goes. *)
LEMMA BytesIs ==
  ASSUME Form, Kinds(nodes, mounts), NEW n \in DOMAIN nodes, NEW o \in Nat, NEW count \in Nat \ {0}
  PROVE  LET bytes == Bytes(n, o, count)
         IN /\ bytes \in Data /\ Len(bytes) \in Nat /\ DOMAIN bytes = 1 .. Len(bytes)
            /\ nodes[n].data = NULL => bytes = <<>>
            /\ nodes[n].data # NULL =>
                 /\ Len(nodes[n].data) \in Nat /\ Len(nodes[n].data) < HALF
                 /\ \A k \in DOMAIN bytes : o + k <= Len(nodes[n].data) /\ bytes[k] = nodes[n].data[o + k]
                 /\ Len(bytes) # 0 => o + Len(bytes) <= Len(nodes[n].data)
                 /\ bytes = <<>> => o >= Len(nodes[n].data)
<1> DEFINE bytes == Bytes(n, o, count)
           content == nodes[n].data
           S == Byte \cup {Junk}
           left == Len(content) - o
           many == IF left > count THEN count ELSE left
<1>1. <<>> \in Data /\ Len(<<>>) = 0 /\ DOMAIN <<>> = 1 .. 0
  BY DEF Data
<1>2. CASE content = NULL
  <2>1. bytes = <<>>
    BY <1>2 DEF Bytes
  <2> QED
    BY <1>1, <1>2, <2>1
<1>3. CASE content # NULL
  <2>1. /\ nodes[n].type # "DIR" /\ mounts[nodes[n].fs].ops # "stdio"
        /\ content \in Data /\ Len(content) < HALF
    BY <1>3 DEF Kinds
  <2>2. content \in Seq(S) /\ Len(content) \in Nat
    <3>1. content \in Seq(S)
      BY <2>1 DEF Data
    <3> QED
      BY <3>1, LenProperties
  <2>3. bytes = IF o >= Len(content) THEN <<>> ELSE SubSeq(content, o + 1, o + many)
    BY <1>3, <2>1 DEF Bytes, read_error, IsDir, Ops
  <2>4. CASE o >= Len(content)
    <3>1. bytes = <<>>
      BY <2>3, <2>4
    <3> QED
      BY <1>1, <2>1, <2>2, <2>4, <3>1
  <2>5. CASE o < Len(content)
    <3>1. many \in Nat /\ many >= 1 /\ o + many <= Len(content) /\ o + 1 \in Nat /\ o + many \in Nat
      BY <2>2, <2>5
    <3>2. bytes = SubSeq(content, o + 1, o + many)
      BY <2>2, <2>3, <2>5
    <3> HIDE DEF many, bytes, content, S
    <3> DEFINE first == o + 1
               last == o + many
    <3>3. /\ first \in 1 .. Len(content) + 1 /\ last \in first - 1 .. Len(content)
          /\ (IF first <= last THEN last - first + 1 ELSE 0) = many
      BY <2>2, <3>1
    <3>4. /\ bytes \in Seq(S) /\ Len(bytes) = many
          /\ \A k \in 1 .. many : bytes[k] = content[o + k]
      <4>1. bytes = SubSeq(content, first, last)
        BY <3>2
      <4>2. \A k \in 1 .. many : first + k - 1 = o + k
        BY <3>1
      <4> HIDE DEF first, last
      <4>3. /\ bytes \in Seq(S)
            /\ Len(bytes) = IF first <= last THEN last - first + 1 ELSE 0
            /\ \A k \in 1 .. last - first + 1 : bytes[k] = content[first + k - 1]
        BY <2>2, <3>3, <4>1, SubSeqProperties
      <4>4. last - first + 1 = many
        BY <3>1 DEF first, last
      <4> QED
        BY <3>3, <4>2, <4>3, <4>4
    <3>5. DOMAIN bytes = 1 .. many
      BY <3>4
    <3>6. bytes # <<>>
      BY <3>1, <3>4
    <3>7. \A k \in 1 .. many : o + k <= Len(content)
      BY <2>2, <3>1
    <3>8. bytes \in Data
      BY <3>4 DEF Data, S
    <3> QED
      BY <1>3, <2>1, <2>2, <3>1, <3>4, <3>5, <3>6, <3>7, <3>8 DEF content, bytes
  <2> QED
    BY <2>2, <2>4, <2>5
<1> QED
  BY <1>2, <1>3

(* A remainder is one of the divisor, and itself below it. *)
LEMMA Modulo ==
  ASSUME NEW x \in Int, NEW m \in Nat \ {0}
  PROVE  x % m \in 0 .. m - 1 /\ (0 <= x /\ x < m => x % m = x)
OBVIOUS

(* What a read does: it moves as far as it read, and the file stays. *)
LEMMA ReadIs ==
  ASSUME Form, Kinds(nodes, mounts), NEW id, NEW count \in Nat, syscall_fs_read(id, count)
  PROVE  /\ nodes' = nodes
         /\ \/ table' = table /\ buffer' = buffer /\ halted' \in BOOLEAN
            \/ /\ Open(id) /\ table[id].mode \in Reads /\ count # 0 /\ halted' = halted
               /\ buffer' = Bytes(table[id].node, table[id].offset, count)
               /\ \E offset \in 0 .. 2 * HALF - 1 :
                    /\ Moves(id, offset)
                    /\ nodes[table[id].node].data # NULL => offset = table[id].offset + Len(buffer')
<1>1. CASE ~Open(id) \/ table[id].mode \notin Reads
  BY <1>1 DEF syscall_fs_read, Form
<1>2. CASE Open(id) /\ table[id].mode \in Reads /\ count = 0
  BY <1>2 DEF syscall_fs_read, Panic
<1>3. CASE Open(id) /\ table[id].mode \in Reads /\ count # 0
  <2> DEFINE n == table[id].node
             o == table[id].offset
             bytes == Bytes(n, o, count)
             offset == (o + Len(bytes)) % (2 * HALF)
  <2>1. /\ nodes' = nodes /\ halted' = halted /\ buffer' = bytes
        /\ table' = [table EXCEPT ![id].offset = (@ + Len(bytes)) % (2 * HALF)]
    BY <1>3 DEF syscall_fs_read, Advance
  <2>2. Moves(id, offset)
    BY <2>1 DEF Moves
  <2>3. /\ n \in DOMAIN nodes /\ o \in Nat /\ o < 2 * HALF /\ HALF \in Nat /\ HALF \in Nat \ {0}
        /\ count \in Nat \ {0}
    BY <1>3, OpenedIs
  <2> HIDE DEF n, o, bytes
  <2>4. bytes = Bytes(n, o, count)
    BY DEF bytes
  <2>5. /\ Len(bytes) \in Nat
        /\ nodes[n].data = NULL => bytes = <<>>
        /\ nodes[n].data # NULL => /\ Len(nodes[n].data) < HALF /\ Len(nodes[n].data) \in Nat
                                   /\ Len(bytes) # 0 => o + Len(bytes) <= Len(nodes[n].data)
    BY <2>3, <2>4, BytesIs
  <2> DEFINE m == 2 * HALF
             x == o + Len(bytes)
  <2>6. m \in Nat \ {0} /\ x \in Int /\ (nodes[n].data # NULL => 0 <= x /\ x < m)
    BY <2>3, <2>5
  <2> HIDE DEF m, x
  <2>7. x % m \in 0 .. m - 1 /\ (0 <= x /\ x < m => x % m = x)
    BY <2>6, Modulo
  <2>8. offset \in 0 .. 2 * HALF - 1 /\ (nodes[n].data # NULL => offset = o + Len(bytes))
    BY <2>6, <2>7 DEF m, x
  <2> QED
    BY <1>3, <2>1, <2>2, <2>4, <2>8 DEF n, o
<1> QED
  BY <1>1, <1>2, <1>3

(* What a write does: nothing, or bytes of a stream are gone, or those of  *)
(* a file are in it.                                                       *)
LEMMA WriteIs ==
  ASSUME Form, Kinds(nodes, mounts), NEW id, NEW bytes \in {NULL} \cup Seq(Byte),
         syscall_fs_write(id, bytes)
  PROVE  \/ nodes' = nodes /\ table' = table /\ buffer' = buffer /\ halted' \in BOOLEAN
         \/ /\ Open(id) /\ table[id].mode \in Writes /\ halted' = halted
            /\ \/ nodes' = nodes /\ table' = table /\ buffer' = <<>>
               \/ /\ nodes[table[id].node].data = NULL /\ nodes' = nodes
                  /\ buffer' \in Data
                  /\ \E offset \in 0 .. 2 * HALF - 1 : Moves(id, offset)
               \/ /\ nodes[table[id].node].data # NULL /\ buffer' \in Data
                  /\ Rewrites(nodes', nodes, table[id].node,
                              Written(nodes[table[id].node].data, table[id].offset, buffer'))
                  /\ table[id].offset + Len(buffer') < HALF
                  /\ Moves(id, table[id].offset + Len(buffer'))
<1>1. CASE ~Open(id) \/ table[id].mode \notin Writes \/ bytes = NULL
  BY <1>1 DEF syscall_fs_write, Form
<1>2. CASE Open(id) /\ table[id].mode \in Writes /\ bytes # NULL
  <2> DEFINE n == table[id].node
             o == table[id].offset
             error == write_error(n)
             grows == error = "OK" /\ nodes[n].data # NULL /\ o + Len(bytes) > HEAP
             offset == (o + Len(bytes)) % (2 * HALF)
  <2>1. CASE bytes = <<>> \/ grows
    BY <1>2, <2>1 DEF syscall_fs_write, Panic
  <2>2. CASE ~(bytes = <<>> \/ grows)
    <3>1. /\ nodes' = IF error = "OK" /\ nodes[n].data # NULL
                      THEN [nodes EXCEPT ![n].data = Written(@, o, bytes)] ELSE nodes
          /\ IF error = "OK" THEN Advance(id, Len(bytes)) ELSE UNCHANGED table
          /\ buffer' = IF error = "OK" THEN bytes ELSE <<>>
          /\ halted' = halted
      BY <1>2, <2>2 DEF syscall_fs_write
    <3>2. CASE error # "OK"
      BY <1>2, <3>1, <3>2
    <3>3. CASE error = "OK"
      <4>1. /\ n \in DOMAIN nodes /\ o \in Nat /\ HALF \in Nat /\ HALF \in Nat \ {0}
        BY <1>2, OpenedIs
      <4>2. bytes \in Data /\ Len(bytes) \in Nat
        <5>1. bytes \in Seq(Byte)
          BY <1>2
        <5>2. Seq(Byte) \subseteq Seq(Byte \cup {Junk})
          BY SeqMonotonic
        <5> QED
          BY <5>1, <5>2, LenProperties DEF Data
      <4>3. buffer' = bytes /\ Moves(id, offset)
        BY <3>1, <3>3 DEF Moves, Advance
      <4>4. /\ nodes[n].data = NULL => nodes' = nodes
            /\ nodes[n].data # NULL => nodes' = [nodes EXCEPT ![n].data = Written(@, o, bytes)]
        BY <3>1, <3>3
      <4>5. nodes[n].data # NULL => Rewrites(nodes', nodes, n, Written(nodes[n].data, o, bytes))
        BY <4>4 DEF Rewrites
      <4>6. nodes[n].data # NULL => o + Len(bytes) <= HEAP /\ HEAP < HALF /\ HEAP \in Nat
        <5>1. nodes[n].data # NULL => ~(o + Len(bytes) > HEAP)
          BY <2>2, <3>3
        <5>2. HEAP < HALF /\ HEAP \in Nat
          BY FilesAssumption
        <5> DEFINE null == nodes[n].data = NULL
        <5>3. ~null => ~(o + Len(bytes) > HEAP)
          BY <5>1
        <5> HIDE DEF null, n, o
        <5> QED
          BY <4>1, <4>2, <5>2, <5>3 DEF null
      <4> DEFINE m == 2 * HALF
                 x == o + Len(bytes)
      <4> HIDE DEF n, o
      <4>7. m \in Nat \ {0} /\ x \in Int /\ (nodes[n].data # NULL => 0 <= x /\ x < m /\ x < HALF)
        BY <4>1, <4>2, <4>6
      <4> HIDE DEF m, x
      <4>8. x % m \in 0 .. m - 1 /\ (0 <= x /\ x < m => x % m = x)
        BY <4>7, Modulo
      <4>9. /\ offset \in 0 .. 2 * HALF - 1
            /\ nodes[n].data # NULL => offset = o + Len(bytes) /\ o + Len(bytes) < HALF
        BY <4>7, <4>8 DEF m, x
      <4> HIDE DEF offset
      <4>10. CASE nodes[n].data = NULL
        BY <1>2, <3>1, <4>2, <4>3, <4>4, <4>9, <4>10 DEF n, o
      <4>11. CASE nodes[n].data # NULL
        BY <1>2, <3>1, <4>2, <4>3, <4>5, <4>9, <4>11 DEF n, o
      <4> QED
        BY <4>10, <4>11
    <3> QED
      BY <3>2, <3>3
  <2> QED
    BY <2>1, <2>2
<1> QED
  BY <1>1, <1>2

(* What a seek does. *)
LEMMA SeekIs ==
  ASSUME Form, Kinds(nodes, mounts), NEW id, NEW offset \in Offsets,
         NEW whence \in Whences, syscall_fs_seek(id, offset, whence)
  PROVE  /\ nodes' = nodes /\ buffer' = buffer /\ halted' \in BOOLEAN
         /\ \/ table' = table
            \/ /\ Open(id) /\ table[id].mode # "REFERENCE"
               /\ \E to \in 0 .. 2 * HALF - 1 : Moves(id, to)
<1>1. CASE ~Open(id) \/ table[id].mode = "REFERENCE" \/ whence = NULL
  BY <1>1 DEF syscall_fs_seek, Form
<1>2. CASE Open(id) /\ table[id].mode # "REFERENCE" /\ whence # NULL
  <2>0. whence \in {"CUR", "END", "SET"}
    BY <1>2 DEF Whences
  <2> DEFINE sum == CASE whence = "CUR" -> Signed(table[id].offset) + offset
                      [] whence = "END" -> offset + attr_size(table[id].node)
                      [] whence = "SET" -> offset
             new == Signed(sum)
  <2>1. \/ nodes' = nodes /\ table' = table /\ buffer' = buffer /\ halted' = TRUE
        \/ /\ \/ table' = table
              \/ ~(new < 0) /\ table' = [table EXCEPT ![id].offset = new]
           /\ nodes' = nodes /\ buffer' = buffer /\ halted' = halted
    BY <1>2 DEF syscall_fs_seek, Panic
  <2>2. HALF \in Nat \ {0} /\ table[id].offset \in Nat /\ table[id].node \in DOMAIN nodes
    BY <1>2, OpenedIs
  <2>3. \A x \in Int : Signed(x) \in -HALF .. HALF - 1 /\ Signed(x) \in Int
    <3>1. SUFFICES ASSUME NEW x \in Int
                   PROVE  Signed(x) \in -HALF .. HALF - 1
      BY <2>2
    <3> DEFINE m == 2 * HALF
    <3>2. m \in Nat \ {0} /\ m = HALF + HALF
      BY <2>2
    <3> HIDE DEF m
    <3>3. x % m \in 0 .. m - 1
      BY <3>2, Modulo
    <3>4. Signed(x) = IF x % m < HALF THEN x % m ELSE (x % m) - m
      BY DEF Signed, m
    <3> QED
      BY <2>2, <3>2, <3>3, <3>4
  <2>4. sum \in Int
    <3>1. offset \in Int
      BY <2>2, FilesAssumption
    <3>2. Signed(table[id].offset) \in Int
      BY <2>2, <2>3
    <3>3. attr_size(table[id].node) \in Int
      <4> DEFINE n == table[id].node
      <4>1. nodes[n].data # NULL => nodes[n].data \in Data
        BY <2>2 DEF Kinds
      <4>2. nodes[n].data # NULL => Len(nodes[n].data) \in Nat
        BY <4>1, LenProperties DEF Data
      <4> QED
        BY <4>2 DEF attr_size
    <3> QED
      BY <2>0, <3>1, <3>2, <3>3
  <2> HIDE DEF sum
  <2>5. new \in -HALF .. HALF - 1
    BY <2>3, <2>4
  <2>6. ~(new < 0) => new \in 0 .. 2 * HALF - 1
    <3> HIDE DEF new
    <3> QED
      BY <2>2, <2>5
  <2> QED
    BY <1>2, <2>1, <2>6 DEF Moves, Form
<1> QED
  BY <1>1, <1>2

-----------------------------------------------------------------------------
(* Every step keeps the invariant *)

LEMMA OpenKeeps ==
  ASSUME IInv, NEW d, NEW path \in Paths \cup {NULL}, NEW flags, NEW mode,
         syscall_fs_open(d, path, flags, mode)
  PROVE  IInv'
<1>1. boot = <<>> /\ ~halted /\ boot' = <<>> /\ mounts' = mounts /\ halted' = halted /\ buffer' = buffer
  BY DEF syscall_fs_open, Calls
<1>2. Form /\ Kinds(nodes, mounts) /\ mounts # <<>>
  BY <1>1, BootOver DEF IInv
<1>3. /\ WellFormed(nodes, Len(mounts)) /\ table \in [Id -> {NULL} \cup Resource]
      /\ \A id \in Id : table[id] # NULL => table[id].node \in DOMAIN nodes
      /\ buffer' \in Data /\ halted' \in BOOLEAN
  BY <1>1, <1>2 DEF Form
<1>4. CASE nodes' = nodes /\ table' = table
  BY <1>1, <1>2, <1>3, <1>4, CallKeeps
<1>5. CASE ~(nodes' = nodes /\ table' = table)
  <2>1. PICK n : \E e : /\ Reaches(n, e)
                        /\ \/ table' = table
                           \/ \E id \in Id : Hands(n, mode, id)
    BY <1>2, <1>5, OpenIs
  <2>2. /\ WellFormed(nodes', Len(mounts)) /\ Kinds(nodes', mounts)
        /\ DOMAIN nodes \subseteq DOMAIN nodes' /\ n \in DOMAIN nodes'
    BY <2>1 DEF Reaches
  <2>3. CASE table' = table
    <3>1. \A id \in Id : table[id] # NULL => table[id].node \in DOMAIN nodes'
      BY <1>3, <2>2
    <3> QED
      BY <1>1, <1>2, <1>3, <2>2, <2>3, <3>1, CallKeeps
  <2>4. CASE \E id \in Id : Hands(n, mode, id)
    <3>1. PICK id \in Id : Hands(n, mode, id)
      BY <2>4
    <3>2. table' \in [Id -> {NULL} \cup Resource]
      BY <3>1 DEF Hands
    <3>3. \A i \in Id : table'[i] # NULL => table'[i].node \in DOMAIN nodes'
      BY <1>3, <2>2, <3>1 DEF Hands
    <3> QED
      BY <1>1, <1>2, <1>3, <2>2, <3>2, <3>3, CallKeeps
  <2> QED
    BY <2>1, <2>3, <2>4
<1> QED
  BY <1>4, <1>5

(* The other calls leave the tree as it is but for the bytes of a file. *)
LEMMA OthersKeep ==
  ASSUME IInv, NEW id,
         \/ syscall_fs_close(id)
         \/ \E count \in 0 .. HEAP : syscall_fs_read(id, count)
         \/ \E bytes \in {NULL} \cup Seq(Byte) : syscall_fs_write(id, bytes)
         \/ \E offset \in Offsets, whence \in Whences :
              syscall_fs_seek(id, offset, whence)
  PROVE  IInv'
<1>1. boot = <<>> /\ ~halted /\ boot' = <<>> /\ mounts' = mounts
  BY DEF syscall_fs_close, syscall_fs_read, syscall_fs_write, syscall_fs_seek, Calls
<1>2. Form /\ Kinds(nodes, mounts) /\ mounts # <<>>
  BY <1>1, BootOver DEF IInv
<1>3. /\ WellFormed(nodes, Len(mounts)) /\ table \in [Id -> {NULL} \cup Resource]
      /\ \A i \in Id : table[i] # NULL => table[i].node \in DOMAIN nodes
      /\ buffer \in Data /\ halted \in BOOLEAN
  BY <1>2 DEF Form
<1>4. ASSUME Open(id), NEW offset \in 0 .. 2 * HALF - 1, Moves(id, offset)
      PROVE  /\ table' \in [Id -> {NULL} \cup Resource]
             /\ \A i \in Id : table'[i] # NULL => table'[i].node \in DOMAIN nodes
  <2>1. id \in Id /\ table[id] # NULL
    BY <1>2, <1>4, OpenedIs
  <2>2. /\ table' \in [Id -> {NULL} \cup Resource] /\ table'[id].node = table[id].node
        /\ \A other \in Id \ {id} : table'[other] = table[other]
    BY <1>3, <1>4, <2>1, MovesIs
  <2> QED
    BY <1>3, <2>1, <2>2
<1>5. ASSUME nodes' = nodes, buffer' \in Data, halted' \in BOOLEAN,
             table' = table \/ (Open(id) /\ \E offset \in 0 .. 2 * HALF - 1 : Moves(id, offset))
      PROVE  IInv'
  <2>1. /\ table' \in [Id -> {NULL} \cup Resource]
        /\ \A i \in Id : table'[i] # NULL => table'[i].node \in DOMAIN nodes
    BY <1>3, <1>4, <1>5
  <2> QED
    BY <1>1, <1>2, <1>3, <1>5, <2>1, CallKeeps
<1>6. CASE syscall_fs_close(id)
  <2>1. /\ nodes' = nodes /\ buffer' = buffer /\ halted' = halted
        /\ table' = table \/ (Open(id) /\ table' = [table EXCEPT ![id] = NULL])
    BY <1>6 DEF syscall_fs_close
  <2>2. /\ table' \in [Id -> {NULL} \cup Resource]
        /\ \A i \in Id : table'[i] # NULL => table'[i].node \in DOMAIN nodes
    BY <1>3, <2>1
  <2> QED
    BY <1>1, <1>2, <1>3, <2>1, <2>2, CallKeeps
<1>7. CASE \E count \in 0 .. HEAP : syscall_fs_read(id, count)
  <2>1. PICK count \in 0 .. HEAP : syscall_fs_read(id, count)
    BY <1>7
  <2>2. count \in Nat
    BY FilesAssumption
  <2>3. /\ nodes' = nodes
        /\ \/ table' = table /\ buffer' = buffer /\ halted' \in BOOLEAN
           \/ /\ Open(id) /\ count # 0 /\ halted' = halted
              /\ buffer' = Bytes(table[id].node, table[id].offset, count)
              /\ \E offset \in 0 .. 2 * HALF - 1 : Moves(id, offset)
    BY <1>2, <2>1, <2>2, ReadIs
  <2>4. ASSUME Open(id), count # 0, buffer' = Bytes(table[id].node, table[id].offset, count)
        PROVE  buffer' \in Data
    <3> DEFINE n == table[id].node
               o == table[id].offset
    <3>1. n \in DOMAIN nodes /\ o \in Nat /\ count \in Nat \ {0}
      BY <1>2, <2>2, <2>4, OpenedIs
    <3>2. buffer' = Bytes(n, o, count)
      BY <2>4
    <3> HIDE DEF n, o
    <3> QED
      BY <1>2, <3>1, <3>2, BytesIs
  <2> QED
    BY <1>3, <1>5, <2>3, <2>4
<1>8. CASE \E bytes \in {NULL} \cup Seq(Byte) : syscall_fs_write(id, bytes)
  <2>1. PICK bytes \in {NULL} \cup Seq(Byte) : syscall_fs_write(id, bytes)
    BY <1>8
  <2> DEFINE n == table[id].node
             o == table[id].offset
             new == Written(nodes[n].data, o, buffer')
  <2>2. \/ /\ nodes' = nodes /\ buffer' \in Data /\ halted' \in BOOLEAN
           /\ table' = table \/ (Open(id) /\ \E offset \in 0 .. 2 * HALF - 1 : Moves(id, offset))
        \/ /\ Open(id) /\ halted' = halted
           /\ nodes[n].data # NULL /\ buffer' \in Data
           /\ Rewrites(nodes', nodes, n, new) /\ o + Len(buffer') < HALF
           /\ Moves(id, o + Len(buffer'))
    <3>1. <<>> \in Data
      BY DEF Data
    <3> QED
      BY <1>2, <1>3, <2>1, <3>1, WriteIs
  <2>3. ASSUME Open(id), halted' = halted, nodes[n].data # NULL, buffer' \in Data,
               Rewrites(nodes', nodes, n, new), o + Len(buffer') < HALF, Moves(id, o + Len(buffer'))
        PROVE  IInv'
    <3>1. n \in DOMAIN nodes /\ o \in Nat /\ HALF \in Nat
      BY <1>2, <2>3, OpenedIs
    <3>2. /\ nodes[n].data \in Data /\ Len(nodes[n].data) < HALF
          /\ nodes[n].type = "FILE" /\ mounts[nodes[n].fs].ops # "stdio"
      <4>1. nodes[n].type \in {"DIR", "FILE"}
        BY <1>3, <3>1 DEF WellFormed
      <4> QED
        BY <1>2, <2>3, <3>1, <4>1 DEF Kinds
    <3> DEFINE bytes2 == buffer'
               after == nodes'
               count == Len(mounts)
               old == nodes[n].data
    <3>3. Len(bytes2) \in Nat /\ Len(old) \in Nat
      BY <2>3, <3>2, LenProperties DEF Data
    <3>4. old \in Data /\ bytes2 \in Data /\ new = Written(old, o, bytes2)
      BY <2>3, <3>2
    <3> HIDE DEF n, o, new, bytes2, old
    <3>5. /\ new \in Data
          /\ Len(new) = IF o + Len(bytes2) > Len(old) THEN o + Len(bytes2) ELSE Len(old)
      BY <3>1, <3>4, WrittenIs
    <3>6. Len(new) < HALF
      <4>1. o + Len(bytes2) < HALF /\ Len(old) < HALF
        BY <2>3, <3>2 DEF bytes2, old
      <4> QED
        BY <3>1, <3>3, <3>5, <4>1
    <3>7. Rewrites(after, nodes, n, new) /\ WellFormed(nodes, count)
      BY <1>3, <2>3
    <3> HIDE DEF after, count
    <3>8. /\ WellFormed(after, count)
          /\ DOMAIN after = DOMAIN nodes
          /\ \A i \in DOMAIN nodes \ {n} : after[i] = nodes[i]
          /\ after[n].data = new
          /\ \A i \in DOMAIN nodes : after[i].fs = nodes[i].fs /\ after[i].type = nodes[i].type
      BY <3>1, <3>5, <3>7, Rewritten
    <3>9. Kinds(after, mounts)
      BY <1>2, <3>1, <3>2, <3>5, <3>6, <3>8 DEF Kinds
    <3>10. /\ table' \in [Id -> {NULL} \cup Resource]
           /\ \A i \in Id : table'[i] # NULL => table'[i].node \in DOMAIN nodes
      <4> DEFINE offset == o + Len(bytes2)
      <4>1. offset \in 0 .. 2 * HALF - 1
        <5>1. offset < HALF /\ offset \in Nat
          BY <2>3, <3>1, <3>3 DEF bytes2
        <5> HIDE DEF offset
        <5> QED
          BY <3>1, <5>1
      <4>2. Moves(id, offset)
        BY <2>3 DEF bytes2
      <4> HIDE DEF offset
      <4> QED
        BY <1>4, <2>3, <4>1, <4>2
    <3>11. WellFormed(nodes', Len(mounts)) /\ Kinds(nodes', mounts) /\ DOMAIN nodes' = DOMAIN nodes
      BY <3>8, <3>9 DEF after, count
    <3> QED
      BY <1>1, <1>2, <1>3, <2>3, <3>10, <3>11, CallKeeps
  <2> QED
    BY <1>5, <2>2, <2>3
<1>9. CASE \E offset \in Offsets, whence \in Whences : syscall_fs_seek(id, offset, whence)
  <2>1. PICK offset \in Offsets, whence \in Whences : syscall_fs_seek(id, offset, whence)
    BY <1>9
  <2>2. /\ nodes' = nodes /\ buffer' = buffer /\ halted' \in BOOLEAN
        /\ \/ table' = table
           \/ Open(id) /\ \E to \in 0 .. 2 * HALF - 1 : Moves(id, to)
    BY <1>2, <2>1, SeekIs
  <2> QED
    BY <1>3, <1>5, <2>2
<1> QED
  BY <1>6, <1>7, <1>8, <1>9

(* What a call of write is given. *)
LEMMA GivenBytes == UNION {[1 .. n -> Byte] : n \in 0 .. HEAP} \subseteq Seq(Byte)
<1>1. \A n \in 0 .. HEAP : n \in Nat /\ [1 .. n -> Byte] \subseteq Seq(Byte)
  BY FilesAssumption
<1> QED
  BY <1>1

LEMMA StepKeeps ==
  IInv /\ [Next]_vars => IInv'
<1> SUFFICES ASSUME IInv, [Next]_vars
             PROVE  IInv'
  OBVIOUS
<1>1. CASE Boot
  BY <1>1, MountKeeps, MkdirKeeps, ModuleKeeps, StartKeeps DEF Boot
<1>2. CASE \E o \in Opens : syscall_fs_open(o.dir, o.path, o.flags, o.mode)
  <2>1. PICK o \in Opens : syscall_fs_open(o.dir, o.path, o.flags, o.mode)
    BY <1>2
  <2> DEFINE d == o.dir
             path == o.path
             flags == o.flags
             mode == o.mode
  <2>2. path \in Paths \cup {NULL} /\ syscall_fs_open(d, path, flags, mode)
    BY <2>1, FilesAssumption
  <2> HIDE DEF d, path, flags, mode
  <2> QED
    BY <2>2, OpenKeeps
<1>3. CASE UNCHANGED <<nodes, mounts, boot, table, buffer, halted>>
  <2>1. Form' = Form
    BY <1>3 DEF Form
  <2>2. ASSUME Booted
        PROVE  Booted'
    <3>1. CASE boot = <<>>
      BY <1>3, <2>2, <3>1, BootOver, StaysOver
    <3>2. CASE boot # <<>>
      <4>1. PICK k \in 0 .. Len(BootCalls) - 1 :
              boot = Left(k) /\ table = [id \in Id |-> NULL] /\ buffer = <<>> /\ Layout(k)
        BY <2>2, <3>2, StageOf
      <4>2. k \in 0 .. Len(BootCalls) /\ k < Len(BootCalls) /\ k # Len(BootCalls)
        BY BootCallsAre
      <4>3. nodes' = nodes /\ mounts' = mounts
        BY <1>3
      <4>4. Layout(k)'
        BY <4>1, <4>3, SMTT(60) DEF Layout, Named, IsDir
      <4>5. boot' = Left(k) /\ table' = [id \in Id |-> NULL] /\ buffer' = <<>>
        BY <1>3, <4>1
      <4> QED
        BY <4>2, <4>4, <4>5, BootedNext
    <3> QED
      BY <3>1, <3>2
  <2>3. halted' = halted /\ Kinds(nodes', mounts') = Kinds(nodes, mounts)
    BY <1>3
  <2> QED
    BY <2>1, <2>2, <2>3 DEF IInv
<1>4. CASE \E at \in {<<o.dir, o.path>> : o \in Opens}, flags \in {{}, {"EMPTY_PATH"}} :
             syscall_fs_stat(at[1], at[2], flags)
  <2>1. UNCHANGED <<nodes, mounts, boot, table, buffer, halted>>
    BY <1>4 DEF syscall_fs_stat
  <2> QED
    BY <1>3, <2>1
<1>5. CASE \E id \in Ids : syscall_fs_close(id)
  BY <1>5, OthersKeep
<1>6. CASE \E id \in Ids \cup {COUNT} :
             \/ \E count \in 0 .. HEAP : syscall_fs_read(id, count)
             \/ \E bytes \in {NULL} \cup UNION {[1 .. n -> Byte] : n \in 0 .. HEAP} :
                  syscall_fs_write(id, bytes)
             \/ \E offset \in Offsets, whence \in Whences :
                  syscall_fs_seek(id, offset, whence)
  BY <1>6, GivenBytes, OthersKeep
<1>7. CASE UNCHANGED vars
  BY <1>3, <1>7 DEF vars
<1> QED
  BY <1>1, <1>2, <1>4, <1>5, <1>6, <1>7 DEF Next

(* The invariant holds in every state: nodes form a tree whose files hold  *)
(* bytes, and the boot (init.c) has laid out what it goes on to look up.   *)
THEOREM AlwaysIInv ==
  Spec => []IInv
BY InitHolds, StepKeeps, PTL DEF Spec

(* Trees, the table and the bytes in them have their types, and every      *)
(* resource is of a node there is (vfs.c, tmpfs.c, resource.c).            *)
THEOREM TypesAlways ==
  Spec => []TypeOK
<1>1. IInv => TypeOK
  <2>1. SUFFICES ASSUME Form
                 PROVE  TypeOK
    BY DEF IInv
  <2>2. /\ IsSequence(nodes) /\ DOMAIN table = Id /\ buffer \in Data /\ halted \in BOOLEAN
        /\ \A m \in DOMAIN mounts :
             mounts[m].mount_node \in 0 .. Len(nodes) /\ mounts[m].root \in DOMAIN nodes
    BY <2>1 DEF Form, WellFormed
  <2>3. \A i \in DOMAIN nodes :
          /\ nodes[i].fs \in 1 .. Len(mounts) + 1 /\ nodes[i].parent \in 0 .. i - 1
          /\ nodes[i].data = NULL \/ nodes[i].data \in Data
    BY <2>1 DEF Form, WellFormed
  <2>4. \A id \in Id : table[id] # NULL =>
          /\ table[id].node \in DOMAIN nodes
          /\ table[id].offset \in 0 .. 2 * HALF - 1
          /\ table[id].mode \in Modes
    BY <2>1 DEF Form, Resource
  <2> QED
    BY <2>2, <2>3, <2>4 DEF TypeOK
<1> QED
  BY <1>1, AlwaysIInv, PTL

(* An exclusive walk of a component or more never arrives; one that lacks *)
(* its last component has no other, and goes as it would anyhow.          *)
LEMMA ExclusiveWalks ==
  ASSUME NEW path, NEW dir, Len(path.comps) \in Nat, Len(path.comps) # 0
  PROVE  /\ Walk(path, dir, TRUE).err # "OK"
         /\ Walk(path, dir, TRUE).err = "MISSING" => Walk(path, dir, FALSE) = Walk(path, dir, TRUE)
<1> DEFINE last == Len(path.comps)
<1>1. PICK f : /\ f[0] = Start(path, dir)
               /\ \A k \in 1 .. last : f[k] = Onward(f[k - 1], path, k, TRUE)
               /\ Walk(path, dir, TRUE) = f[last]
  BY WalkIs
<1>2. PICK g : /\ g[0] = Start(path, dir)
               /\ \A k \in 1 .. last : g[k] = Onward(g[k - 1], path, k, FALSE)
               /\ Walk(path, dir, FALSE) = g[last]
  BY WalkIs
<1>3. last \in 1 .. last /\ 1 \in 1 .. last
  OBVIOUS
<1>4. \A at : Onward(at, path, last, TRUE).err # "OK"
  BY DEF Onward, Step, Failed
<1>5. f[0].err # "MISSING"
  BY <1>1 DEF Start, Found, Failed
<1>6. ASSUME last # 1
      PROVE  f[last].err # "MISSING"
  <2> DEFINE T == {k \in 1 .. last : f[k].err \in {"OK", "MISSING"}}
  <2>1. ASSUME NEW k \in T, \A l \in T : k <= l
        PROVE  FALSE
    <3>1. k \in 1 .. last /\ f[k].err \in {"OK", "MISSING"} /\ f[k] = Onward(f[k - 1], path, k, TRUE)
      BY <1>1, <2>1
    <3>2. CASE k = 1
      <4>1. k - 1 = 0
        BY <3>2
      <4>2. f[1] = Onward(f[0], path, 1, TRUE)
        BY Zenon, <3>1, <3>2, <4>1
      <4> QED
        BY <1>5, <1>6, <3>1, <3>2, <4>2 DEF Onward, Step, Failed
    <3>3. CASE k # 1
      <4>1. k - 1 \in 1 .. last /\ ~(k <= k - 1)
        BY <3>1, <3>3
      <4>2. f[k - 1].err \notin {"OK", "MISSING"}
        BY <2>1, <4>1
      <4> QED
        BY <3>1, <4>2 DEF Onward
    <3> QED
      BY <3>2, <3>3
  <2>2. T \in SUBSET Nat
    OBVIOUS
  <2>3. T = {}
    <3> HIDE DEF T
    <3> QED
      BY <2>1, <2>2, Least
  <2> QED
    BY <1>3, <2>3
<1>7. ASSUME last = 1, f[1].err = "MISSING"
      PROVE  g[1] = f[1]
  <2>1. /\ f[1] = Onward(f[1 - 1], path, 1, TRUE) /\ g[1] = Onward(g[1 - 1], path, 1, FALSE)
        /\ f[0] = g[0]
    BY Zenon, <1>1, <1>2, <1>3
  <2>2. 1 - 1 = 0
    OBVIOUS
  <2>3. f[1] = Onward(f[0], path, 1, TRUE) /\ g[1] = Onward(f[0], path, 1, FALSE)
    BY Zenon, <2>1, <2>2
  <2> QED
    BY <1>5, <1>7, <2>3 DEF Onward, Step, Failed
<1> QED
  BY <1>1, <1>2, <1>3, <1>4, <1>6, <1>7

(* A path of no component leads to where it begins, exclusive or not. *)
LEMMA NoComponentWalks ==
  ASSUME NEW path, NEW dir, NEW exclusive, Len(path.comps) = 0
  PROVE  Walk(path, dir, exclusive) = Start(path, dir)
<1>1. PICK f : f[0] = Start(path, dir) /\ Walk(path, dir, exclusive) = f[Len(path.comps)]
  BY WalkIs
<1> QED
  BY <1>1

(* An exclusive open that succeeds makes an empty file where no path led,  *)
(* or was of no name at all and got the root or the directory (vfs.c's     *)
(* exclusive lookup, which open with O_CREAT and O_EXCL relies on).        *)
THEOREM ExclusiveAlwaysCreates ==
  Spec => []ExclusiveCreates
<1>1. IInv => ExclusiveCreates
  <2>1. SUFFICES ASSUME Form, Kinds(nodes, mounts), NEW c \in Shown, NEW path \in Paths,
                        vfs_lookup_ext(path, c, "FILE", TRUE).err = "OK"
                 PROVE  LET r == vfs_lookup_ext(path, c, "FILE", TRUE) IN
                        /\ r = vfs_lookup_ext(path, c, "FILE", FALSE)
                        /\ IF path.comps = <<>> THEN r = vfs_lookup(path, c)
                           ELSE /\ vfs_lookup(path, c).err = "ENOENT"
                                /\ r.node \notin DOMAIN nodes /\ r.nodes[r.node].data = <<>>
    BY DEF IInv, ExclusiveCreates
  <2>2. Len(path.comps) \in Nat /\ (path.comps = <<>> <=> Len(path.comps) = 0)
    <3>1. IsSequence(path.comps)
      BY FilesAssumption
    <3> QED
      BY <3>1 DEF IsSequence
  <2>3. CASE path.comps = <<>>
    <3>1. \A exclusive : Walk(path, c, exclusive) = Start(path, c)
      BY <2>2, <2>3, NoComponentWalks
    <3>2. Start(path, c).err # "MISSING"
      BY DEF Start, Found, Failed
    <3>3. \A create, exclusive : vfs_lookup_ext(path, c, create, exclusive)
                                = [err |-> Start(path, c).err, node |-> Start(path, c).node, nodes |-> nodes]
      BY <3>1, <3>2, Zenon DEF vfs_lookup_ext
    <3> QED
      BY <2>3, <3>3 DEF vfs_lookup
  <2>4. CASE path.comps # <<>>
    <3> DEFINE exclusive == TRUE
               type == "FILE"
               w == Walk(path, c, exclusive)
               name == path.comps[Len(path.comps)]
               r == vfs_lookup_ext(path, c, type, exclusive)
    <3>1. /\ w.err # "OK"
          /\ w.err = "MISSING" => Walk(path, c, FALSE) = w
      BY <2>2, <2>4, ExclusiveWalks
    <3>2. r = IF w.err # "MISSING" THEN [err |-> w.err, node |-> w.node, nodes |-> nodes]
              ELSE make(w.node, name, type)
      BY DEF vfs_lookup_ext
    <3>3. type = "FILE" /\ type \in {"FILE", "DIR"} /\ r.err = "OK"
      BY <2>1
    <3>4. w.err \in {"OK", "MISSING"} => w.node \in DOMAIN nodes
      <4>1. c \in DOMAIN nodes \cup {0} /\ exclusive
        BY DEF Shown
      <4> QED
        BY <2>1, <2>2, <4>1, WalkFinds
    <3>5. vfs_lookup_ext(path, c, type, FALSE) = r /\ vfs_lookup(path, c).err = "ENOENT"
      <4>1. w.err = "MISSING" /\ Walk(path, c, FALSE) = w
        <5> HIDE DEF w, r, name, type
        <5>1. w.err # "MISSING" => r.err = w.err
          BY <3>2
        <5> QED
          BY <3>1, <3>3, <5>1
      <4> HIDE DEF w
      <4> QED
        BY <3>2, <4>1 DEF vfs_lookup_ext, vfs_lookup
    <3> HIDE DEF exclusive, type, name
    <3> DEFINE n == w.node
    <3>6. r = make(n, name, type) /\ n \in DOMAIN nodes
      <4> HIDE DEF w, r
      <4> QED
        BY <3>1, <3>2, <3>3, <3>4
    <3> HIDE DEF w, r, n
    <3>7. Made(r, type)
      BY <2>1, <3>3, <3>6, MakeIs DEF Made
    <3>8. r.node \notin DOMAIN nodes /\ r.nodes[r.node].data = <<>>
      BY <2>1, <3>3, <3>7, MadeKeeps
    <3> QED
      BY <2>4, <3>5, <3>8 DEF r, type, exclusive
  <2> QED
    BY <2>3, <2>4
<1> QED
  BY <1>1, AlwaysIInv, PTL

-----------------------------------------------------------------------------
(* The refinement *)

(* What FileStore's variables stand for, before and after a step. *)
LEMMA ContentIs ==
  /\ DOMAIN Content = Stored /\ \A n \in Stored : Content[n] = nodes[n].data
  /\ DOMAIN Content' = Stored' /\ \A n \in Stored' : Content'[n] = nodes'[n].data
BY DEF Content

FileOf(node) == IF node \in Stored THEN node ELSE 0
NewFileOf(node) == IF node \in Stored' THEN node ELSE 0

LEMMA HandlesAre ==
  ASSUME table \in [Id -> {NULL} \cup Resource]
  PROVE  /\ DOMAIN Handles = Id \ Unused
         /\ \A id \in Id : table[id] # NULL =>
              /\ id \in DOMAIN Handles
              /\ Handles[id] = [file |-> FileOf(table[id].node), pos |-> table[id].offset,
                                mode |-> table[id].mode]
              /\ Handles[id].file = FileOf(table[id].node) /\ Handles[id].pos = table[id].offset
              /\ Handles[id].mode = table[id].mode
<1>1. DOMAIN table = Id
  OBVIOUS
<1>2. DOMAIN Handles = {i \in Id : table[i] # NULL}
  BY <1>1 DEF Handles
<1>3. \A id \in DOMAIN Handles :
        Handles[id] = [file |-> FileOf(table[id].node), pos |-> table[id].offset, mode |-> table[id].mode]
  BY <1>1, <1>2 DEF Handles, FileOf
<1> QED
  BY <1>2, <1>3 DEF Unused

LEMMA HandlesWillBe ==
  ASSUME table' \in [Id -> {NULL} \cup Resource]
  PROVE  /\ DOMAIN Handles' = {id \in Id : table'[id] # NULL}
         /\ \A id \in Id : table'[id] # NULL =>
              /\ id \in DOMAIN Handles'
              /\ Handles'[id] = [file |-> NewFileOf(table'[id].node), pos |-> table'[id].offset,
                                 mode |-> table'[id].mode]
              /\ Handles'[id].file = NewFileOf(table'[id].node) /\ Handles'[id].pos = table'[id].offset
              /\ Handles'[id].mode = table'[id].mode
<1>1. DOMAIN table' = Id
  OBVIOUS
<1>2. DOMAIN Handles' = {i \in Id : table'[i] # NULL}
  BY <1>1 DEF Handles
<1>3. \A id \in DOMAIN Handles' :
        Handles'[id] = [file |-> NewFileOf(table'[id].node), pos |-> table'[id].offset,
                        mode |-> table'[id].mode]
  BY <1>1, <1>2 DEF Handles, NewFileOf
<1> QED
  BY <1>2, <1>3

(* A handle to a node that was there keeps its file. *)
LEMMA HandleStays ==
  ASSUME Form, SameKind, table' \in [Id -> {NULL} \cup Resource],
         NEW id \in Id, table[id] # NULL, table'[id] # NULL, table'[id].node = table[id].node
  PROVE  /\ Handles'[id].file = Handles[id].file
         /\ table'[id].mode = table[id].mode => Handles'[id].mode = Handles[id].mode
         /\ table'[id] = table[id] => Handles'[id] = Handles[id]
<1>1. table \in [Id -> {NULL} \cup Resource] /\ table[id].node \in DOMAIN nodes
  BY DEF Form
<1>2. NewFileOf(table'[id].node) = FileOf(table[id].node)
  BY <1>1 DEF FileOf, NewFileOf, Stored, SameKind
<1>3. /\ Handles[id] = [file |-> FileOf(table[id].node), pos |-> table[id].offset,
                         mode |-> table[id].mode]
      /\ Handles[id].file = FileOf(table[id].node) /\ Handles[id].mode = table[id].mode
  BY <1>1, HandlesAre
<1>4. /\ Handles'[id] = [file |-> NewFileOf(table'[id].node), pos |-> table'[id].offset,
                          mode |-> table'[id].mode]
      /\ Handles'[id].file = NewFileOf(table'[id].node) /\ Handles'[id].mode = table'[id].mode
  BY HandlesWillBe
<1>5. table'[id] = table[id] => Handles'[id] = Handles[id]
  <2>1. SUFFICES ASSUME table'[id] = table[id]
                 PROVE  Handles'[id] = Handles[id]
    OBVIOUS
  <2>2. NewFileOf(table'[id].node) = FileOf(table[id].node)
    BY <1>2
  <2>3. table'[id].offset = table[id].offset /\ table'[id].mode = table[id].mode
    BY <2>1
  <2> QED
    BY <1>3, <1>4, <2>2, <2>3, Zenon
<1> QED
  BY <1>2, <1>3, <1>4, <1>5

(* The null pointer is not a file. *)
LEMMA NoneStored ==
  ASSUME Form
  PROVE  0 \notin Stored
BY SequenceIsSeq DEF Form, WellFormed, Stored

(* Bytes stay, but for those of one file. *)
LEMMA KeptIs ==
  ASSUME Form, SameKind, NEW e,
         \A i \in DOMAIN nodes : nodes'[i].data = IF i = e THEN <<>> ELSE nodes[i].data
  PROVE  Store!Kept(e)
<1>1. Stored \subseteq Stored'
  BY DEF Stored, SameKind
<1>2. \A f \in Stored : Content'[f] = IF f = e THEN <<>> ELSE Content[f]
  BY <1>1, ContentIs DEF Stored
<1> QED
  BY <1>1, <1>2, ContentIs DEF Store!Kept, Store!Files

(* The same table of the same nodes. *)
LEMMA TableStays ==
  ASSUME Form, SameKind, table' = table
  PROVE  Handles' = Handles
<1>1. table' \in [Id -> {NULL} \cup Resource] /\ table \in [Id -> {NULL} \cup Resource]
  BY DEF Form
<1>2. DOMAIN Handles' = DOMAIN Handles
  BY <1>1, HandlesAre, HandlesWillBe DEF Unused
<1>3. \A id \in DOMAIN Handles : Handles'[id] = Handles[id]
  BY <1>1, HandlesAre, HandleStays DEF Unused
<1>4. /\ Handles = [id \in DOMAIN Handles |-> Handles[id]]
      /\ Handles' = [id \in DOMAIN Handles' |-> Handles'[id]]
  BY DEF Handles
<1> QED
  BY <1>2, <1>3, <1>4

LEMMA NodesStay ==
  ASSUME nodes' = nodes
  PROVE  SameKind /\ Content' = Content
BY DEF SameKind, Content, Stored

StoreVars == <<Content, Handles, buffer>>

(* A call that changes neither nodes nor table is not seen. *)
LEMMA NothingMoves ==
  ASSUME Form, nodes' = nodes, table' = table, buffer' = buffer
  PROVE  UNCHANGED StoreVars
BY NodesStay, TableStays DEF StoreVars

(* The boot makes files appear, then three handles to streams. *)
LEMMA BootAppears ==
  ASSUME IInv, Boot
  PROVE  Store!AbsNext
<1>1. IInv'
  BY MountKeeps, MkdirKeeps, ModuleKeeps, StartKeeps DEF Boot
<1>2. /\ Form /\ ~halted /\ Booted /\ boot # <<>>
  BY DEF IInv, Boot, vfs_mount, vfs_mkdir, CreateModule, StartInit, Booting
<1>3. buffer = <<>> /\ table = [id \in Id |-> NULL]
  BY <1>2, StageOf
<1>4. /\ Grows /\ buffer' = buffer
      /\ table' \in [Id -> {NULL} \cup Resource]
      /\ \A id \in Id : table'[id] # NULL =>
           /\ table'[id].node \in DOMAIN nodes /\ nodes[table'[id].node].data = NULL
           /\ table'[id].offset = 0 /\ table'[id].mode = "READ_WRITE"
  <2>1. CASE StartInit
    <3>1. nodes' = nodes /\ buffer' = buffer
      BY <2>1 DEF StartInit
    <3> QED
      BY <2>1, <3>1, StartIs DEF Grows
  <2>2. CASE ~StartInit
    <3>1. Grows /\ buffer' = buffer /\ table' = table
      BY <2>2, MountKeeps, MkdirKeeps, ModuleKeeps DEF Boot, vfs_mount, vfs_mkdir, CreateModule
    <3>2. table' \in [Id -> {NULL} \cup Resource] /\ \A id \in Id : table'[id] = NULL
      BY <1>2, <1>3, <3>1 DEF Form
    <3> QED
      BY <3>1, <3>2
  <2> QED
    BY <2>1, <2>2
<1>5. SameKind
  BY <1>4 DEF Grows, SameKind
<1>6. Store!Kept(0)
  <2> DEFINE e == 0
  <2>1. \A i \in DOMAIN nodes : i # e
    BY <1>2, SequenceIsSeq DEF Form, WellFormed
  <2> HIDE DEF e
  <2>2. \A i \in DOMAIN nodes : nodes'[i].data = IF i = e THEN <<>> ELSE nodes[i].data
    BY <1>4, <2>1 DEF Grows
  <2>3. Store!Kept(e)
    BY <1>2, <1>5, <2>2, KeptIs
  <2> QED
    BY <2>3 DEF e
<1>7. DOMAIN Handles = {}
  BY <1>2, <1>3, HandlesAre DEF Form, Unused
<1>8. \A id \in DOMAIN Handles' : Handles'[id] = [file |-> 0, pos |-> 0, mode |-> "READ_WRITE"]
  <2>1. SUFFICES ASSUME NEW id \in Id, table'[id] # NULL
                 PROVE  Handles'[id] = [file |-> 0, pos |-> 0, mode |-> "READ_WRITE"]
    BY <1>4, HandlesWillBe
  <2>2. NewFileOf(table'[id].node) = 0
    BY <1>4, <1>5, <2>1 DEF NewFileOf, Stored, SameKind
  <2> QED
    BY <1>4, <2>1, <2>2, HandlesWillBe
<1>9. Store!Appear
  BY <1>3, <1>4, <1>6, <1>7, <1>8 DEF Store!Appear, Store!Opened
<1> QED
  BY <1>9 DEF Store!AbsNext

(* open opens a file, makes or empties one in vain, or does nothing. *)
LEMMA OpenOpens ==
  ASSUME IInv, NEW d, NEW path \in Paths \cup {NULL}, NEW flags, NEW mode,
         syscall_fs_open(d, path, flags, mode)
  PROVE  Store!AbsNext \/ UNCHANGED StoreVars
<1>1. boot = <<>> /\ ~halted /\ buffer' = buffer
  BY DEF syscall_fs_open, Calls
<1>2. Form /\ Kinds(nodes, mounts) /\ mounts # <<>> /\ table \in [Id -> {NULL} \cup Resource]
  BY <1>1, BootOver DEF IInv, Form
<1>3. CASE nodes' = nodes /\ table' = table
  BY <1>1, <1>2, <1>3, NothingMoves
<1>4. CASE ~(nodes' = nodes /\ table' = table)
  <2>1. PICK n : \E e : /\ Reaches(n, e) /\ (e # 0 => mode \in Writes)
                        /\ \/ Unused = {} /\ table' = table
                           \/ \E id \in Id : Hands(n, mode, id)
    BY <1>2, <1>4, OpenIs
  <2>2. PICK e : /\ Reaches(n, e) /\ (e # 0 => mode \in Writes)
                 /\ \/ Unused = {} /\ table' = table
                    \/ \E id \in Id : Hands(n, mode, id)
    BY <2>1
  <2>3. /\ SameKind /\ n \in DOMAIN nodes' /\ e \in {0, n}
        /\ \A i \in DOMAIN nodes : nodes'[i].data = IF i = e THEN <<>> ELSE nodes[i].data
    BY <2>2 DEF Reaches
  <2> DEFINE none == 0
             f == IF e \in DOMAIN nodes THEN e ELSE none
  <2>4. none \notin DOMAIN nodes /\ none \notin Stored
    BY <1>2, SequenceIsSeq DEF Form, WellFormed, Stored
  <2>5. \A i \in DOMAIN nodes : nodes'[i].data = IF i = f THEN <<>> ELSE nodes[i].data
    BY <2>3, <2>4
  <2>6. f = none \/ (f = n /\ f \in Stored /\ f \in Stored' /\ mode \in Writes)
    <3>1. SUFFICES ASSUME e \in DOMAIN nodes, e # none
                   PROVE  e = n /\ e \in Stored /\ e \in Stored' /\ mode \in Writes
      BY <2>4
    <3>2. nodes'[e].data = <<>> /\ <<>> # NULL
      <4>1. <<>> \in Data
        BY DEF Data
      <4> QED
        BY <2>3, <3>1, <4>1, FilesAssumption
    <3> QED
      BY <2>2, <2>3, <3>1, <3>2 DEF Stored, SameKind
  <2> HIDE DEF f
  <2>7. Store!Kept(f)
    BY <1>2, <2>3, <2>5, KeptIs
  <2>8. CASE Unused = {} /\ table' = table
    <3>1. Handles' = Handles
      BY <1>2, <2>3, <2>8, TableStays
    <3>2. DOMAIN Handles = Id
      BY <1>2, <2>8, HandlesAre
    <3>3. f \in DOMAIN Content \cup {0}
      BY <2>6, ContentIs
    <3>4. Store!OpenInVain
      BY <1>1, <2>7, <3>1, <3>2, <3>3 DEF Store!OpenInVain, Store!Opened, Store!Files
    <3> QED
      BY <3>4 DEF Store!AbsNext
  <2>9. CASE \E id \in Id : Hands(n, mode, id)
    <3>1. PICK id \in Id : Hands(n, mode, id)
      BY <2>9
    <3>2. /\ table[id] = NULL /\ table' \in [Id -> {NULL} \cup Resource] /\ table'[id] # NULL
          /\ \A other \in Id \ {id} : table'[other] = table[other]
          /\ table'[id].node = n /\ table'[id].mode = mode
          /\ table'[id].offset \in {0, IF nodes'[n].data = NULL THEN 0 ELSE Len(nodes'[n].data)}
      BY <3>1 DEF Hands
    <3>3. DOMAIN Handles = Id \ Unused /\ id \notin DOMAIN Handles
      BY <1>2, <3>2, HandlesAre DEF Unused
    <3>4. DOMAIN Handles' = DOMAIN Handles \cup {id}
      BY <3>2, <3>3, HandlesWillBe DEF Unused
    <3>5. \A g \in DOMAIN Handles : Handles'[g] = Handles[g]
      <4>1. SUFFICES ASSUME NEW g \in DOMAIN Handles
                     PROVE  Handles'[g] = Handles[g]
        OBVIOUS
      <4>2. g \in Id /\ table[g] # NULL /\ table'[g] = table[g]
        BY <3>2, <3>3 DEF Unused
      <4> QED
        BY <1>2, <2>3, <3>2, <4>2, HandleStays
    <3>6. /\ Handles'[id].mode = mode /\ Handles'[id].file = NewFileOf(n)
          /\ Handles'[id].pos \in {0, IF nodes'[n].data = NULL THEN 0 ELSE Len(nodes'[n].data)}
      BY <3>2, HandlesWillBe
    <3>7. Store!Kept(0) \/ (Handles'[id].mode \in Writes /\ Store!Kept(Handles'[id].file))
      BY <2>6, <2>7, <3>6 DEF NewFileOf
    <3>8. \/ Handles'[id].pos = 0
          \/ Handles'[id].file # 0 /\ Handles'[id].pos = Len(Content'[Handles'[id].file])
      <4>1. SUFFICES ASSUME Handles'[id].pos # 0
                     PROVE  Handles'[id].file # 0 /\ Handles'[id].pos = Len(Content'[Handles'[id].file])
        OBVIOUS
      <4>2. nodes'[n].data # NULL /\ Handles'[id].pos = Len(nodes'[n].data)
        BY <3>6, <4>1
      <4>3. n \in Stored' /\ Handles'[id].file = n /\ Content'[n] = nodes'[n].data
        BY <2>3, <3>6, <4>2, ContentIs DEF NewFileOf, Stored
      <4>4. n # 0
        <5>1. IsSequence(nodes')
          BY <2>2 DEF Reaches, WellFormed
        <5> QED
          BY <2>3, <5>1, SequenceIsSeq
      <4> QED
        BY <4>2, <4>3, <4>4
    <3>9. Store!Open
      BY <1>1, <3>3, <3>4, <3>5, <3>7, <3>8 DEF Store!Open, Store!Opened, Store!Writable, Writes
    <3> QED
      BY <3>9 DEF Store!AbsNext
  <2> QED
    BY <2>2, <2>8, <2>9
<1> QED
  BY <1>3, <1>4

(* A call that moves one resource moves one handle. *)
LEMMA OneMoves ==
  ASSUME Form, SameKind, NEW id, Open(id), NEW offset \in 0 .. 2 * HALF - 1, Moves(id, offset)
  PROVE  /\ Store!OnlyMoves(id) /\ id \in DOMAIN Handles
         /\ Handles'[id].pos = offset
<1>1. /\ id \in Id /\ table[id] # NULL /\ table \in [Id -> {NULL} \cup Resource]
  BY OpenedIs DEF Form
<1>2. /\ table' \in [Id -> {NULL} \cup Resource] /\ table'[id] # NULL
      /\ \A other \in Id \ {id} : table'[other] = table[other]
      /\ table'[id].node = table[id].node /\ table'[id].mode = table[id].mode
      /\ table'[id].offset = offset
  BY <1>1, MovesIs
<1>3. DOMAIN Handles' = DOMAIN Handles /\ id \in DOMAIN Handles
  <2>1. DOMAIN Handles = {g \in Id : table[g] # NULL} /\ id \in DOMAIN Handles
    BY <1>1, HandlesAre DEF Unused
  <2>2. DOMAIN Handles' = {g \in Id : table'[g] # NULL}
    BY <1>2, HandlesWillBe
  <2>3. \A g \in Id : table'[g] # NULL <=> table[g] # NULL
    BY <1>1, <1>2
  <2> QED
    BY <2>1, <2>2, <2>3
<1>4. ASSUME NEW g \in DOMAIN Handles \ {id}
      PROVE  Handles'[g] = Handles[g]
  <2>1. g \in Id /\ table[g] # NULL /\ table'[g] = table[g]
    BY <1>1, <1>2, HandlesAre DEF Unused
  <2> QED
    BY <1>2, <2>1, HandleStays
<1>5. Handles'[id].file = Handles[id].file /\ Handles'[id].mode = Handles[id].mode
  BY <1>1, <1>2, HandleStays
<1>6. Handles'[id].pos = offset
  BY <1>1, <1>2, HandlesWillBe
<1> QED
  BY <1>3, <1>4, <1>5, <1>6 DEF Store!OnlyMoves, Store!Opened

(* What FileStore sees of an open resource. *)
LEMMA OneIs ==
  ASSUME Form, NEW id, Open(id)
  PROVE  /\ id \in DOMAIN Handles /\ Handles[id].mode = table[id].mode
         /\ Handles[id].pos = table[id].offset
         /\ nodes[table[id].node].data = NULL => Handles[id].file = 0
         /\ nodes[table[id].node].data # NULL =>
              /\ Handles[id].file = table[id].node /\ table[id].node \in Stored
              /\ Content[table[id].node] = nodes[table[id].node].data
<1>1. /\ id \in Id /\ table[id] # NULL /\ table[id].node \in DOMAIN nodes
      /\ table \in [Id -> {NULL} \cup Resource]
  BY OpenedIs DEF Form
<1>2. /\ id \in DOMAIN Handles /\ Handles[id].file = FileOf(table[id].node)
      /\ Handles[id].pos = table[id].offset /\ Handles[id].mode = table[id].mode
  BY <1>1, HandlesAre
<1> QED
  BY <1>1, <1>2, ContentIs DEF FileOf, Stored

(* close, seek, read and write do what FileStore says of them. *)
LEMMA CloseCloses ==
  ASSUME Form, NEW id, syscall_fs_close(id)
  PROVE  Store!AbsNext \/ UNCHANGED StoreVars
<1>1. /\ nodes' = nodes /\ buffer' = buffer
      /\ table' = table \/ (Open(id) /\ table' = [table EXCEPT ![id] = NULL])
  BY DEF syscall_fs_close
<1>2. CASE table' = table
  BY <1>1, <1>2, NothingMoves
<1>3. CASE Open(id) /\ table' = [table EXCEPT ![id] = NULL]
  <2>1. /\ id \in Id /\ table[id] # NULL /\ table \in [Id -> {NULL} \cup Resource]
    BY <1>3, OpenedIs DEF Form
  <2>2. /\ table' \in [Id -> {NULL} \cup Resource] /\ table'[id] = NULL
        /\ \A other \in Id \ {id} : table'[other] = table[other]
    BY <1>3, <2>1
  <2>3. SameKind /\ Content' = Content
    BY <1>1, NodesStay
  <2>4. DOMAIN Handles' = DOMAIN Handles \ {id} /\ id \in DOMAIN Handles
    BY <2>1, <2>2, HandlesAre, HandlesWillBe DEF Unused
  <2>5. ASSUME NEW g \in DOMAIN Handles'
        PROVE  Handles'[g] = Handles[g]
    <3>1. g \in Id /\ table[g] # NULL /\ table'[g] = table[g] /\ table'[g] # NULL
      BY <2>2, HandlesWillBe
    <3> QED
      BY <2>2, <2>3, <3>1, HandleStays
  <2>6. Store!Close(id)
    BY <1>1, <2>3, <2>4, <2>5 DEF Store!Close, Store!Opened
  <2> QED
    BY <2>4, <2>6 DEF Store!AbsNext, Store!Opened
<1> QED
  BY <1>1, <1>2, <1>3

LEMMA SeekSeeks ==
  ASSUME Form, Kinds(nodes, mounts), NEW id, NEW offset \in Offsets,
         NEW whence \in Whences, syscall_fs_seek(id, offset, whence)
  PROVE  Store!AbsNext \/ UNCHANGED StoreVars
<1>1. /\ nodes' = nodes /\ buffer' = buffer
      /\ \/ table' = table
         \/ /\ Open(id) /\ table[id].mode # "REFERENCE"
            /\ \E to \in 0 .. 2 * HALF - 1 : Moves(id, to)
  BY SeekIs
<1>2. CASE table' = table
  BY <1>1, <1>2, NothingMoves
<1>3. CASE table' # table
  <2>1. PICK to \in 0 .. 2 * HALF - 1 : Moves(id, to)
    BY <1>1, <1>3
  <2>2. Open(id) /\ table[id].mode # "REFERENCE" /\ SameKind /\ Content' = Content
    BY <1>1, <1>3, NodesStay
  <2>3. Store!OnlyMoves(id) /\ id \in DOMAIN Handles
    BY <2>1, <2>2, OneMoves
  <2>4. Handles[id].mode # "REFERENCE"
    BY <2>2, OneIs
  <2>5. Store!Seek(id)
    BY <1>1, <2>2, <2>3, <2>4 DEF Store!Seek
  <2> QED
    BY <2>3, <2>5 DEF Store!AbsNext, Store!Opened
<1> QED
  BY <1>2, <1>3

LEMMA ReadReads ==
  ASSUME Form, Kinds(nodes, mounts), NEW id, NEW count \in Nat, syscall_fs_read(id, count)
  PROVE  Store!AbsNext \/ UNCHANGED StoreVars
<1> DEFINE n == table[id].node
           o == table[id].offset
<1>1. /\ nodes' = nodes
      /\ \/ table' = table /\ buffer' = buffer
         \/ /\ Open(id) /\ table[id].mode \in Reads /\ count # 0
            /\ buffer' = Bytes(n, o, count)
            /\ \E offset \in 0 .. 2 * HALF - 1 :
                 /\ Moves(id, offset)
                 /\ nodes[n].data # NULL => offset = o + Len(buffer')
  BY ReadIs
<1>2. CASE table' = table /\ buffer' = buffer
  BY <1>1, <1>2, NothingMoves
<1>3. CASE ~(table' = table /\ buffer' = buffer)
  <2>1. /\ Open(id) /\ table[id].mode \in Reads /\ count # 0 /\ buffer' = Bytes(n, o, count)
        /\ SameKind /\ Content' = Content
    BY <1>1, <1>3, NodesStay
  <2>2. PICK offset \in 0 .. 2 * HALF - 1 :
          /\ Moves(id, offset)
          /\ nodes[n].data # NULL => offset = o + Len(buffer')
    BY <1>1, <1>3
  <2>3. Store!OnlyMoves(id) /\ id \in DOMAIN Handles /\ Handles'[id].pos = offset
    BY <2>1, <2>2, OneMoves
  <2>4. /\ Handles[id].mode = table[id].mode /\ Handles[id].pos = o
        /\ nodes[n].data = NULL => Handles[id].file = 0
        /\ nodes[n].data # NULL => Handles[id].file = n /\ Content[n] = nodes[n].data
    BY <2>1, OneIs
  <2>5. n \in DOMAIN nodes /\ o \in Nat /\ count \in Nat \ {0}
    BY <2>1, OpenedIs
  <2>6. ASSUME Handles[id].file # 0
        PROVE  LET bytes == Content[Handles[id].file]
               IN /\ \A k \in DOMAIN buffer' :
                       Handles[id].pos + k <= Len(bytes) /\ buffer'[k] = bytes[Handles[id].pos + k]
                  /\ buffer' = <<>> => Handles[id].pos >= Len(bytes)
                  /\ Handles'[id].pos = Handles[id].pos + Len(buffer')
    <3>1. /\ nodes[n].data # NULL /\ Handles[id].file = n /\ Content[n] = nodes[n].data
          /\ offset = o + Len(buffer')
      BY <2>2, <2>4, <2>6
    <3> HIDE DEF n, o
    <3>2. /\ \A k \in DOMAIN buffer' :
               o + k <= Len(nodes[n].data) /\ buffer'[k] = nodes[n].data[o + k]
          /\ buffer' = <<>> => o >= Len(nodes[n].data)
      BY <2>1, <2>5, <3>1, BytesIs
    <3> QED
      BY <2>3, <2>4, <3>1, <3>2
  <2>7. Handles[id].mode \in {"READ_ONLY", "READ_WRITE"}
    BY <2>1, <2>4 DEF Reads
  <2>8. Store!Read(id)
    BY <2>1, <2>3, <2>6, <2>7 DEF Store!Read, Store!Readable
  <2> QED
    BY <2>3, <2>8 DEF Store!AbsNext, Store!Opened
<1> QED
  BY <1>2, <1>3

LEMMA WriteWrites ==
  ASSUME Form, Kinds(nodes, mounts), NEW id, NEW bytes \in {NULL} \cup Seq(Byte),
         syscall_fs_write(id, bytes)
  PROVE  Store!AbsNext \/ UNCHANGED StoreVars
<1> DEFINE n == table[id].node
           o == table[id].offset
           new == Written(nodes[n].data, o, buffer')
           idle == nodes' = nodes /\ table' = table
           gone == /\ nodes[n].data = NULL /\ nodes' = nodes
                   /\ \E offset \in 0 .. 2 * HALF - 1 : Moves(id, offset)
           done == /\ nodes[n].data # NULL /\ buffer' \in Data
                   /\ Rewrites(nodes', nodes, n, new)
                   /\ o + Len(buffer') < HALF
                   /\ Moves(id, o + Len(buffer'))
<1>1. \/ idle /\ buffer' = buffer
      \/ /\ Open(id) /\ table[id].mode \in Writes
         /\ (idle /\ buffer' = <<>>) \/ gone \/ done
  BY WriteIs
<1>2. ASSUME Open(id), table[id].mode \in Writes
      PROVE  /\ id \in DOMAIN Handles /\ Handles[id].mode \in {"WRITE_ONLY", "READ_WRITE"}
             /\ Handles[id].pos = o
             /\ nodes[n].data = NULL => Handles[id].file = 0
             /\ nodes[n].data # NULL => Handles[id].file = n /\ n \in Stored
                                        /\ Content[n] = nodes[n].data
             /\ n \in DOMAIN nodes /\ o \in Nat /\ HALF \in Nat
  <2>1. /\ id \in DOMAIN Handles /\ Handles[id].mode = table[id].mode /\ Handles[id].pos = o
        /\ nodes[n].data = NULL => Handles[id].file = 0
        /\ nodes[n].data # NULL => Handles[id].file = n /\ n \in Stored
                                   /\ Content[n] = nodes[n].data
    BY <1>2, OneIs
  <2>2. n \in DOMAIN nodes /\ o \in Nat /\ HALF \in Nat
    BY <1>2, OpenedIs
  <2> QED
    BY <1>2, <2>1, <2>2 DEF Writes
<1>3. CASE idle /\ buffer' = buffer
  BY <1>3, NothingMoves
<1>4. CASE Open(id) /\ table[id].mode \in Writes /\ idle /\ buffer' = <<>>
  <2>1. SameKind /\ Content' = Content /\ Handles' = Handles
    BY <1>4, NodesStay, TableStays
  <2>2. Store!OnlyMoves(id)
    BY <2>1 DEF Store!OnlyMoves, Store!Opened
  <2>3. Store!Write(id)
    BY <1>2, <1>4, <2>1, <2>2 DEF Store!Write, Store!Writable
  <2> QED
    BY <1>2, <1>4, <2>3 DEF Store!AbsNext, Store!Opened
<1>5. CASE Open(id) /\ table[id].mode \in Writes /\ gone
  <2>1. SameKind /\ Content' = Content
    BY <1>5, NodesStay
  <2>2. Store!OnlyMoves(id)
    BY <1>5, <2>1, OneMoves
  <2>3. Store!Write(id)
    BY <1>2, <1>5, <2>1, <2>2 DEF Store!Write, Store!Writable
  <2> QED
    BY <1>2, <1>5, <2>3 DEF Store!AbsNext, Store!Opened
<1>6. CASE Open(id) /\ table[id].mode \in Writes /\ done
  <2> DEFINE moved == buffer'
             after == nodes'
             old == nodes[n].data
             count == Len(mounts)
  <2>1. old \in Data /\ moved \in Data /\ Len(old) \in Nat /\ Len(moved) \in Nat
    <3>1. old \in Data /\ moved \in Data
      BY <1>2, <1>6 DEF Kinds
    <3> QED
      BY <3>1, LenProperties DEF Data
  <2>2. /\ n \in DOMAIN nodes /\ o \in Nat /\ HALF \in Nat /\ o + Len(moved) < HALF
        /\ Rewrites(after, nodes, n, new) /\ new = Written(old, o, moved)
        /\ WellFormed(nodes, count)
    BY <1>2, <1>6 DEF Form
  <2> HIDE DEF n, o, new, moved, after, old, count
  <2>3. /\ new \in Data
        /\ Len(new) = IF o + Len(moved) > Len(old) THEN o + Len(moved) ELSE Len(old)
        /\ \A k \in 1 .. Len(new) :
             IF k > o /\ k <= o + Len(moved) THEN new[k] = moved[k - o]
             ELSE k <= Len(old) => new[k] = old[k]
    BY <2>1, <2>2, WrittenIs
  <2>4. /\ DOMAIN after = DOMAIN nodes /\ after[n].data = new
        /\ \A i \in DOMAIN nodes \ {n} : after[i] = nodes[i]
    BY <2>2, <2>3, Rewritten
  <2>5. new # NULL /\ old # NULL
    BY <2>1, <2>3, FilesAssumption
  <2>6. SameKind
    BY <2>2, <2>4, <2>5 DEF SameKind, after, old
  <2>7. Stored' = Stored /\ n \in Stored
    BY <2>2, <2>4, <2>5, <2>6 DEF Stored, SameKind, after, old
  <2>8. /\ DOMAIN Content' = DOMAIN Content /\ Content'[n] = new /\ Content[n] = old
        /\ \A g \in DOMAIN Content \ {n} : Content'[g] = Content[g]
    <3>1. \A g \in Stored \ {n} : nodes'[g].data = nodes[g].data
      BY <2>4 DEF Stored, after
    <3>2. nodes'[n].data = new /\ nodes[n].data = old
      BY <2>4 DEF after, old
    <3> QED
      BY <2>7, <3>1, <3>2, ContentIs
  <2>9. Store!OnlyMoves(id) /\ id \in DOMAIN Handles /\ Handles'[id].pos = o + Len(moved)
    <3> DEFINE offset == o + Len(moved)
    <3>1. offset \in 0 .. 2 * HALF - 1
      <4>1. offset \in Nat /\ offset < HALF
        BY <2>1, <2>2
      <4> HIDE DEF offset
      <4> QED
        BY <2>2, <4>1
    <3>2. Moves(id, offset) /\ Open(id)
      BY <1>6 DEF moved, o, n
    <3> HIDE DEF offset
    <3>3. Store!OnlyMoves(id) /\ id \in DOMAIN Handles /\ Handles'[id].pos = offset
      BY <2>6, <3>1, <3>2, OneMoves
    <3> QED
      BY <3>3 DEF offset
  <2>10. /\ Handles[id].mode \in {"WRITE_ONLY", "READ_WRITE"} /\ Handles[id].pos = o
         /\ Handles[id].file = n /\ n # 0
    <3>1. Handles[id].mode \in {"WRITE_ONLY", "READ_WRITE"} /\ Handles[id].pos = o
      BY <1>2, <1>6 DEF o
    <3>2. Handles[id].file = n
      BY <1>2, <1>6 DEF n
    <3> QED
      BY <2>7, <3>1, <3>2, NoneStored
  <2>11. Store!Write(id)
    BY <2>3, <2>8, <2>9, <2>10 DEF Store!Write, Store!Writable, Store!Files, moved
  <2> QED
    BY <2>9, <2>11 DEF Store!AbsNext, Store!Opened
<1> QED
  BY <1>1, <1>3, <1>4, <1>5, <1>6

LEMMA StepImplements ==
  IInv /\ [Next]_vars => [Store!AbsNext]_StoreVars
<1> SUFFICES ASSUME IInv, [Next]_vars
             PROVE  Store!AbsNext \/ UNCHANGED StoreVars
  OBVIOUS
<1>0. Form
  BY DEF IInv
<1>1. CASE Boot
  BY <1>1, BootAppears
<1>2. CASE \E o \in Opens : syscall_fs_open(o.dir, o.path, o.flags, o.mode)
  <2>1. PICK o \in Opens : syscall_fs_open(o.dir, o.path, o.flags, o.mode)
    BY <1>2
  <2> DEFINE d == o.dir
             path == o.path
             flags == o.flags
             mode == o.mode
  <2>2. path \in Paths \cup {NULL} /\ syscall_fs_open(d, path, flags, mode)
    BY <2>1, FilesAssumption
  <2> HIDE DEF d, path, flags, mode
  <2> QED
    BY <2>2, OpenOpens
<1>3. CASE UNCHANGED <<nodes, table, buffer>>
  BY <1>0, <1>3, NothingMoves
<1>4. CASE \E at \in {<<o.dir, o.path>> : o \in Opens}, flags \in {{}, {"EMPTY_PATH"}} :
             syscall_fs_stat(at[1], at[2], flags)
  <2>1. UNCHANGED <<nodes, table, buffer>>
    BY <1>4 DEF syscall_fs_stat
  <2> QED
    BY <1>3, <2>1
<1>5. CASE \E id \in Ids : syscall_fs_close(id)
  BY <1>0, <1>5, CloseCloses
<1>6. CASE \E id \in Ids \cup {COUNT} :
             \/ \E count \in 0 .. HEAP : syscall_fs_read(id, count)
             \/ \E bytes \in {NULL} \cup UNION {[1 .. n -> Byte] : n \in 0 .. HEAP} :
                  syscall_fs_write(id, bytes)
             \/ \E offset \in Offsets, whence \in Whences :
                  syscall_fs_seek(id, offset, whence)
  <2>1. UNION {[1 .. n -> Byte] : n \in 0 .. HEAP} \subseteq Seq(Byte)
    BY GivenBytes
  <2>2. Calls => Kinds(nodes, mounts)
    BY DEF IInv, Calls
  <2>3. 0 .. HEAP \subseteq Nat
    BY FilesAssumption
  <2>4. CASE \E id \in Ids \cup {COUNT}, count \in 0 .. HEAP : syscall_fs_read(id, count)
    <3>1. PICK id \in Ids \cup {COUNT}, count \in 0 .. HEAP : syscall_fs_read(id, count)
      BY <2>4
    <3>2. Calls
      BY <3>1 DEF syscall_fs_read
    <3> QED
      BY <1>0, <2>2, <2>3, <3>1, <3>2, ReadReads
  <2>5. CASE \E id \in Ids \cup {COUNT} :
               \E bytes \in {NULL} \cup UNION {[1 .. n -> Byte] : n \in 0 .. HEAP} :
                 syscall_fs_write(id, bytes)
    <3>1. PICK id \in Ids \cup {COUNT} :
                 \E bytes \in {NULL} \cup UNION {[1 .. n -> Byte] : n \in 0 .. HEAP} :
                   syscall_fs_write(id, bytes)
      BY <2>5, Zenon
    <3>2. PICK bytes \in {NULL} \cup UNION {[1 .. n -> Byte] : n \in 0 .. HEAP} :
                 syscall_fs_write(id, bytes)
      BY <3>1, Zenon
    <3>3. bytes \in {NULL} \cup Seq(Byte)
      BY <2>1
    <3>4. Calls
      BY <3>2 DEF syscall_fs_write
    <3> QED
      BY <1>0, <2>2, <3>2, <3>3, <3>4, WriteWrites
  <2>6. CASE \E id \in Ids \cup {COUNT}, offset \in Offsets, whence \in Whences :
               syscall_fs_seek(id, offset, whence)
    <3>1. PICK id \in Ids \cup {COUNT}, offset \in Offsets, whence \in Whences :
            syscall_fs_seek(id, offset, whence)
      BY <2>6
    <3>2. Calls
      BY <3>1 DEF syscall_fs_seek
    <3> QED
      BY <1>0, <2>2, <3>1, <3>2, SeekSeeks
  <2> QED
    BY <1>6, <2>4, <2>5, <2>6
<1>7. CASE UNCHANGED vars
  BY <1>3, <1>7 DEF vars
<1> QED
  BY <1>1, <1>2, <1>4, <1>5, <1>6, <1>7 DEF Next

(* However files are named, mounted, opened twice, truncated and seeked    *)
(* in, a read returns what was last written at its place (vfs.c, tmpfs.c,  *)
(* rdsk.c, resource.c and the system calls on files implement FileStore).  *)
THEOREM Refinement ==
  Spec => ImplementsFileStore
<1>1. Init => Store!AbsInit
  <2>1. SUFFICES ASSUME Init
                 PROVE  Store!AbsInit
    OBVIOUS
  <2>2. Stored = {} /\ {i \in DOMAIN table : table[i] # NULL} = {}
    BY <2>1 DEF Init, Stored
  <2>3. Content = << >> /\ Handles = << >>
    BY <2>2 DEF Content, Handles
  <2> QED
    BY <2>1, <2>3 DEF Store!AbsInit, Init
<1>2. IInv /\ [Next]_vars => [Store!AbsNext]_<<Content, Handles, buffer>>
  BY StepImplements DEF StoreVars
<1> QED
  BY <1>1, <1>2, AlwaysIInv, PTL DEF Spec, ImplementsFileStore, Store!AbsSpec

-----------------------------------------------------------------------------
(* The tree *)

(* Nodes are a tree over mounts: all but the roots have a name that no     *)
(* other in their directory has; and file system after file system is      *)
(* mounted on a node in the root of one before it.                         *)
NodesNamed(ns, ms) ==
  \A i \in DOMAIN ns :
    /\ ns[i].fs \in DOMAIN ms
    /\ IF ns[i].parent = 0 THEN i = ms[ns[i].fs].root
       ELSE /\ ns[i].parent \in DOMAIN ns /\ ns[ns[i].parent].type = "DIR"
            /\ ns[i].name \notin {NULL, ".", ".."}
NamesUnique(ns) ==
  \A i, j \in DOMAIN ns :
    ns[i].parent # 0 /\ ns[i].parent = ns[j].parent /\ ns[i].name = ns[j].name => i = j
RootOf(m, ns, ms) ==
  /\ ms[m].root \in DOMAIN ns
  /\ ns[ms[m].root].parent = 0 /\ ns[ms[m].root].name = NULL /\ ns[ms[m].root].fs = m
  /\ IF m = 1 THEN ms[m].mount_node = 0
     ELSE /\ ms[m].mount_node \in DOMAIN ns /\ ms[m].mount_node < ms[m].root
          /\ \E l \in 1 .. m - 1 : ns[ms[m].mount_node].parent = ms[l].root
MountsApart(ms) == \A m, l \in DOMAIN ms : ms[m].mount_node = ms[l].mount_node => m = l
Tree(ns, ms) ==
  /\ NodesNamed(ns, ms) /\ NamesUnique(ns)
  /\ \A m \in DOMAIN ms : RootOf(m, ns, ms)
  /\ MountsApart(ms)

(* Nodes that differ in what they hold at most. *)
Alike(ns, after) ==
  /\ DOMAIN after = DOMAIN ns
  /\ \A i \in DOMAIN ns : /\ after[i].fs = ns[i].fs /\ after[i].parent = ns[i].parent
                          /\ after[i].name = ns[i].name /\ after[i].type = ns[i].type

(* The tree does not depend on what nodes hold. *)
LEMMA TreeAlike ==
  ASSUME NEW ns, NEW ms, Tree(ns, ms), NEW after, Alike(ns, after)
  PROVE  Tree(after, ms)
<1>1. NodesNamed(after, ms) /\ NamesUnique(after)
  BY DEF Tree, Alike, NodesNamed, NamesUnique
<1>2. \A m \in DOMAIN ms : RootOf(m, after, ms)
  BY DEF Tree, Alike, RootOf
<1> QED
  BY <1>1, <1>2 DEF Tree

(* A file rewritten. *)
LEMMA RewrittenAlike ==
  ASSUME NEW ns, NEW n \in DOMAIN ns, IsNode(ns[n]), NEW bytes, NEW after,
         Rewrites(after, ns, n, bytes)
  PROVE  Alike(ns, after)
<1>1. /\ DOMAIN after = DOMAIN ns
      /\ \A i \in DOMAIN ns \ {n} : after[i] = ns[i]
      /\ after[n] = [ns[n] EXCEPT !.data = bytes]
  BY DEF Rewrites
<1>2. after[n] = [fs |-> ns[n].fs, parent |-> ns[n].parent, name |-> ns[n].name,
                  type |-> ns[n].type, data |-> bytes]
  BY <1>1 DEF IsNode
<1> QED
  BY <1>1, <1>2 DEF Alike

(* A node made in a directory that had none of its name. *)
Makes(ns, type) ==
  \E n \in DOMAIN nodes : \E name :
    /\ IsDir(n) /\ Named(n, name) = {} /\ name \notin {NULL, ".", ".."}
    /\ ns = Append(nodes, NewNode(n, name, type))

(* Such a node leaves a tree. *)
LEMMA TreeGrows ==
  ASSUME Form, Tree(nodes, mounts), NEW ns, NEW type, Makes(ns, type)
  PROVE  Tree(ns, mounts)
<1>0. PICK n \in DOMAIN nodes : \E name :
        /\ IsDir(n) /\ Named(n, name) = {} /\ name \notin {NULL, ".", ".."}
        /\ ns = Append(nodes, NewNode(n, name, type))
  BY DEF Makes
<1>1. PICK name : /\ IsDir(n) /\ Named(n, name) = {} /\ name \notin {NULL, ".", ".."}
                  /\ ns = Append(nodes, NewNode(n, name, type))
  BY <1>0
<1> DEFINE N == Len(nodes) + 1
           new == NewNode(n, name, type)
<1>2. /\ new.fs = nodes[n].fs /\ new.parent = n /\ new.name = name
  BY DEF NewNode
<1> HIDE DEF new
<1>3. /\ DOMAIN nodes = 1 .. Len(nodes) /\ Len(nodes) \in Nat /\ N \notin DOMAIN nodes /\ n # 0
      /\ DOMAIN ns = DOMAIN nodes \cup {N} /\ ns[N] = new
      /\ \A i \in DOMAIN nodes : ns[i] = nodes[i]
  <2>1. IsSequence(nodes) /\ DOMAIN nodes = 1 .. Len(nodes) /\ Len(nodes) \in Nat
    BY SequenceIsSeq DEF Form, WellFormed
  <2>2. /\ IsSequence(ns) /\ Len(ns) = Len(nodes) + 1
        /\ \A i \in 1 .. Len(nodes) : ns[i] = nodes[i]
        /\ ns[Len(nodes) + 1] = new
    BY <1>1, <2>1, Appended DEF new
  <2>3. DOMAIN ns = 1 .. Len(nodes) + 1
    BY <2>2, SequenceIsSeq
  <2> QED
    BY <2>1, <2>2, <2>3
<1>4. \A i \in DOMAIN nodes : nodes[i].parent # N
  BY <1>3 DEF Form, WellFormed
<1> HIDE DEF N
<1>5. NodesNamed(ns, mounts)
  <2>1. nodes[n].fs \in DOMAIN mounts /\ nodes[n].type = "DIR"
    BY <1>1 DEF Tree, NodesNamed, IsDir
  <2>2. \A i \in DOMAIN nodes :
          /\ ns[i].fs \in DOMAIN mounts
          /\ IF ns[i].parent = 0 THEN i = mounts[ns[i].fs].root
             ELSE /\ ns[i].parent \in DOMAIN ns /\ ns[ns[i].parent].type = "DIR"
                  /\ ns[i].name \notin {NULL, ".", ".."}
    BY <1>3 DEF Tree, NodesNamed
  <2>3. /\ ns[N].fs \in DOMAIN mounts /\ ns[N].parent # 0
        /\ ns[N].parent \in DOMAIN ns /\ ns[ns[N].parent].type = "DIR"
        /\ ns[N].name \notin {NULL, ".", ".."}
    BY <1>1, <1>2, <1>3, <2>1
  <2> QED
    BY <1>3, <2>2, <2>3 DEF NodesNamed
<1>6. NamesUnique(ns)
  <2>1. \A i \in DOMAIN nodes : ~ (nodes[i].parent = n /\ nodes[i].name = name)
    BY <1>1 DEF Named
  <2>2. ASSUME NEW i \in DOMAIN ns, NEW j \in DOMAIN ns,
               ns[i].parent # 0, ns[i].parent = ns[j].parent, ns[i].name = ns[j].name
        PROVE  i = j
    <3>1. CASE i \in DOMAIN nodes /\ j \in DOMAIN nodes
      BY <1>3, <2>2, <3>1 DEF Tree, NamesUnique
    <3>2. CASE i = N \/ j = N
      BY <1>2, <1>3, <2>1, <2>2, <3>2
    <3> QED
      BY <1>3, <3>1, <3>2
  <2> QED
    BY <2>2 DEF NamesUnique
<1>7. \A m \in DOMAIN mounts : RootOf(m, ns, mounts)
  BY <1>3 DEF Tree, RootOf
<1> QED
  BY <1>5, <1>6, <1>7 DEF Tree

(* What a lookup works in: the tree, once there is a root. *)
Rooted == Form /\ Tree(nodes, mounts) /\ mounts # <<>>

(* Where a node is seen, which for a root is where it is mounted; and the  *)
(* directory it is seen in, 0 for the root of all.                         *)
Place(n) == IF nodes[n].parent # 0 THEN n ELSE mounts[nodes[n].fs].mount_node
Up(n) == IF Place(n) = 0 THEN 0 ELSE nodes[Place(n)].parent
Label(n) == nodes[Place(n)].name

(* The directory a node is seen in is a node made before it. *)
LEMMA UpIs ==
  ASSUME Rooted, NEW n \in DOMAIN nodes
  PROVE  \/ Place(n) = 0 /\ Up(n) = 0 /\ n = mounts[1].root /\ nodes[n].name = NULL
            /\ nodes[n].parent = 0 /\ mounts[nodes[n].fs].mount_node = 0
         \/ /\ Place(n) \in DOMAIN nodes /\ Up(n) \in DOMAIN nodes
            /\ Up(n) = nodes[Place(n)].parent
            /\ n \in Nat /\ Up(n) \in Nat /\ Place(n) \in Nat /\ Up(n) # 0 /\ Place(n) # 0 /\ Up(n) < n
            /\ Place(n) <= n /\ IsDir(Up(n)) /\ Label(n) \notin {NULL, ".", ".."}
<1>1. /\ DOMAIN nodes = 1 .. Len(nodes) /\ Len(nodes) \in Nat
      /\ \A i \in DOMAIN nodes : nodes[i].parent \in 0 .. i - 1
      /\ DOMAIN mounts = 1 .. Len(mounts) /\ Len(mounts) \in Nat
  BY SequenceIsSeq DEF Rooted, Form, WellFormed
<1>2. /\ nodes[n].fs \in DOMAIN mounts
      /\ \A i \in DOMAIN nodes : nodes[i].parent # 0 =>
           /\ nodes[i].parent \in DOMAIN nodes /\ IsDir(nodes[i].parent)
           /\ nodes[i].name \notin {NULL, ".", ".."}
      /\ nodes[n].parent = 0 => n = mounts[nodes[n].fs].root
  BY DEF Rooted, Tree, NodesNamed, IsDir
<1>3. CASE nodes[n].parent # 0
  <2>1. Place(n) = n /\ Up(n) = nodes[n].parent /\ Label(n) = nodes[n].name
    BY <1>1, <1>3 DEF Place, Up, Label
  <2> QED
    BY <1>1, <1>2, <1>3, <2>1
<1>4. CASE nodes[n].parent = 0
  <2> DEFINE m == nodes[n].fs
             at == mounts[m].mount_node
  <2>1. n = mounts[m].root /\ Place(n) = at /\ RootOf(m, nodes, mounts)
    BY <1>2, <1>4 DEF Place, Rooted, Tree
  <2>2. nodes[n].name = NULL /\ m \in 1 .. Len(mounts)
    BY <1>1, <1>2, <2>1 DEF RootOf
  <2>3. CASE m = 1
    <3>1. at = 0
      BY <2>1, <2>3 DEF RootOf
    <3> QED
      BY <1>4, <2>1, <2>2, <2>3, <3>1 DEF Up
  <2>4. CASE m # 1
    <3>1. /\ at \in DOMAIN nodes /\ at < n
          /\ \E l \in 1 .. m - 1 : nodes[at].parent = mounts[l].root
      BY <2>1, <2>4 DEF RootOf
    <3>2. PICK l \in 1 .. m - 1 : nodes[at].parent = mounts[l].root
      BY <3>1
    <3>3. l \in DOMAIN mounts
      BY <1>1, <2>2, <3>2
    <3>4. mounts[l].root \in DOMAIN nodes
      BY <3>3 DEF Rooted, Tree, RootOf
    <3> HIDE DEF at, m
    <3>5. nodes[at].parent # 0 /\ at # 0 /\ nodes[at].parent \in 0 .. at - 1 /\ at \in Nat /\ n \in Nat
      BY <1>1, <3>1, <3>2, <3>4
    <3>6. Up(n) = nodes[at].parent /\ Label(n) = nodes[at].name
      BY <2>1, <3>5 DEF Up, Label
    <3> QED
      BY <1>2, <2>1, <3>1, <3>5, <3>6
  <2> QED
    BY <2>3, <2>4
<1> QED
  BY <1>3, <1>4

(* A root is where its file system says, and nothing is mounted on it. *)
LEMMA RootsUncovered ==
  ASSUME Rooted, NEW m \in DOMAIN mounts
  PROVE  /\ mounts[m].root \in DOMAIN nodes /\ ~Covered(mounts[m].root)
         /\ nodes[mounts[m].root].parent = 0 /\ nodes[mounts[m].root].fs = m
<1>1. RootOf(m, nodes, mounts) /\ \A l \in DOMAIN mounts : RootOf(l, nodes, mounts)
  BY DEF Rooted, Tree
<1>2. 0 \notin DOMAIN nodes /\ DOMAIN mounts = 1 .. Len(mounts) /\ Len(mounts) \in Nat
  BY SequenceIsSeq DEF Rooted, Form, WellFormed
<1>3. mounts[m].root \in DOMAIN nodes /\ nodes[mounts[m].root].parent = 0 /\ nodes[mounts[m].root].fs = m
  BY <1>1 DEF RootOf
<1>4. ASSUME NEW l \in DOMAIN mounts, mounts[l].mount_node = mounts[m].root
      PROVE  FALSE
  <2>1. CASE l = 1
    BY <1>1, <1>2, <1>3, <1>4, <2>1 DEF RootOf
  <2>2. CASE l # 1
    <3>1. PICK o \in 1 .. l - 1 : nodes[mounts[l].mount_node].parent = mounts[o].root
      BY <1>1, <2>2 DEF RootOf
    <3>2. o \in DOMAIN mounts
      BY <1>2, <3>1
    <3>3. mounts[o].root \in DOMAIN nodes
      BY <1>1, <3>2 DEF RootOf
    <3> QED
      BY <1>2, <1>3, <1>4, <3>1, <3>3
  <2> QED
    BY <2>1, <2>2
<1> QED
  BY <1>3, <1>4 DEF Covered

-----------------------------------------------------------------------------
(* The names of nodes *)

(* The recursive functions of Shown and of vfs_path, on 1 .. k. *)
WayTo(f, k) ==
  f = [n \in 1 .. k |->
         LET at == IF nodes[n].parent # 0 THEN n ELSE mounts[nodes[n].fs].mount_node
         IN {n} \cup (IF at = 0 \/ nodes[at].parent = 0 THEN {} ELSE f[nodes[at].parent])]
NameTo(f, k) ==
  f = [n \in 1 .. k |->
         IF nodes[n].name # NULL THEN Append(f[nodes[n].parent], nodes[n].name)
         ELSE IF mounts[nodes[n].fs].mount_node = 0 THEN <<>>
         ELSE f[mounts[nodes[n].fs].mount_node]]

(* There is such a function for Shown, *)
LEMMA WayToExists ==
  ASSUME Rooted, NEW n \in 0 .. Len(nodes)
  PROVE  \E f : WayTo(f, n)
<1>0. Len(nodes) \in Nat /\ DOMAIN nodes = 1 .. Len(nodes)
  BY SequenceIsSeq DEF Rooted, Form, WellFormed
<1> DEFINE Body(f, m) ==
             LET at == IF nodes[m].parent # 0 THEN m ELSE mounts[nodes[m].fs].mount_node
             IN {m} \cup (IF at = 0 \/ nodes[at].parent = 0 THEN {} ELSE f[nodes[at].parent])
           T == {k \in 0 .. Len(nodes) : ~ \E f : WayTo(f, k)}
<1>1. \A f, g, m : (Up(m) # 0 => f[Up(m)] = g[Up(m)]) => Body(f, m) = Body(g, m)
  BY DEF Up, Place
<1>2. SUFFICES ASSUME T # {}
               PROVE  FALSE
  OBVIOUS
<1>3. T \in SUBSET Nat
  BY <1>0
<1>4. PICK k \in T : \A l \in T : k <= l
  BY <1>2, <1>3, Least
<1>5. k # 0
  <2>1. \A f : f = [m \in 1 .. 0 |-> Body(f, m)] => WayTo(f, 0)
    BY Zenon DEF WayTo
  <2> HIDE DEF Body
  <2>2. \E f : f = [m \in 1 .. 0 |-> Body(f, m)]
    <3> WITNESS [m \in 1 .. 0 |-> Body(<<>>, m)]
    <3> QED
      OBVIOUS
  <2> QED
    BY <1>4, <2>1, <2>2
<1>6. k \in 1 .. Len(nodes) /\ k - 1 \in 0 .. Len(nodes) /\ ~ (k <= k - 1) /\ ~ \E f : WayTo(f, k)
  BY <1>0, <1>4, <1>5
<1>7. PICK g : WayTo(g, k - 1)
  BY <1>4, <1>6
<1> DEFINE f == [m \in 1 .. k |-> Body(g, m)]
<1>8. g = [m \in 1 .. k - 1 |-> Body(g, m)]
  BY <1>7, Zenon DEF WayTo
<1>9. \A m \in 1 .. k - 1 : f[m] = g[m]
  <2> HIDE DEF Body
  <2>1. \A m \in 1 .. k - 1 : m \in 1 .. k /\ g[m] = Body(g, m)
    BY <1>6, <1>8
  <2> QED
    BY <2>1
<1>10. ASSUME NEW m \in 1 .. k PROVE Body(g, m) = Body(f, m)
  <2>1. m \in DOMAIN nodes
    BY <1>0, <1>6
  <2>2. Up(m) # 0 => Up(m) \in 1 .. k - 1
    BY <1>0, <1>6, <2>1, UpIs
  <2>3. Up(m) # 0 => f[Up(m)] = g[Up(m)]
    BY <1>9, <2>2
  <2> HIDE DEF f, Body
  <2> QED
    BY <1>1, <2>3
<1>11. f = [m \in 1 .. k |-> Body(f, m)]
  <2> HIDE DEF Body
  <2> QED
    BY <1>10
<1>12. WayTo(f, k)
  BY <1>11, Zenon DEF WayTo
<1> QED
  BY <1>6, <1>12

(* and such a one for vfs_path. *)
LEMMA NameToExists ==
  ASSUME Rooted, NEW n \in 0 .. Len(nodes)
  PROVE  \E f : NameTo(f, n)
<1>0. Len(nodes) \in Nat /\ DOMAIN nodes = 1 .. Len(nodes)
  BY SequenceIsSeq DEF Rooted, Form, WellFormed
<1> DEFINE Prior(m) == IF nodes[m].name # NULL THEN nodes[m].parent ELSE mounts[nodes[m].fs].mount_node
           Body(f, m) ==
             IF nodes[m].name # NULL THEN Append(f[nodes[m].parent], nodes[m].name)
             ELSE IF mounts[nodes[m].fs].mount_node = 0 THEN <<>>
             ELSE f[mounts[nodes[m].fs].mount_node]
           T == {k \in 0 .. Len(nodes) : ~ \E f : NameTo(f, k)}
<1>1. \A f, g, m : (Prior(m) # 0 => f[Prior(m)] = g[Prior(m)]) /\ (nodes[m].name # NULL => nodes[m].parent # 0)
                     => Body(f, m) = Body(g, m)
  OBVIOUS
<1>2. SUFFICES ASSUME T # {}
               PROVE  FALSE
  OBVIOUS
<1>3. T \in SUBSET Nat
  BY <1>0
<1>4. PICK k \in T : \A l \in T : k <= l
  BY <1>2, <1>3, Least
<1>5. k # 0
  <2>1. NameTo([m \in 1 .. 0 |-> Body(<<>>, m)], 0)
    BY DEF NameTo
  <2> QED
    BY <1>4, <2>1
<1>6. k \in 1 .. Len(nodes) /\ k - 1 \in 0 .. Len(nodes) /\ ~ (k <= k - 1) /\ ~ \E f : NameTo(f, k)
  BY <1>0, <1>4, <1>5
<1>7. PICK g : NameTo(g, k - 1)
  BY <1>4, <1>6
<1> DEFINE f == [m \in 1 .. k |-> Body(g, m)]
<1>8. g = [m \in 1 .. k - 1 |-> Body(g, m)]
  BY <1>7, Zenon DEF NameTo
<1>9. \A m \in 1 .. k - 1 : f[m] = g[m]
  <2> HIDE DEF Body
  <2>1. \A m \in 1 .. k - 1 : m \in 1 .. k /\ g[m] = Body(g, m)
    BY <1>6, <1>8
  <2> QED
    BY <2>1
<1>10. ASSUME NEW m \in 1 .. k PROVE Body(g, m) = Body(f, m)
  <2>1. m \in DOMAIN nodes
    BY <1>0, <1>6
  <2>2. /\ Prior(m) # 0 => Prior(m) \in 1 .. k - 1
        /\ nodes[m].name # NULL => nodes[m].parent # 0
    <3>1. CASE nodes[m].parent # 0
      <4>1. Place(m) = m /\ Up(m) = nodes[m].parent /\ Up(m) # 0
        BY <1>0, <2>1, <3>1 DEF Place, Up
      <4>2. Up(m) \in DOMAIN nodes /\ Up(m) < m /\ Label(m) # NULL
        BY <2>1, <4>1, UpIs
      <4>3. Prior(m) = Up(m)
        BY <4>1, <4>2 DEF Label
      <4> HIDE DEF Prior
      <4> QED
        BY <1>0, <1>6, <2>1, <3>1, <4>2, <4>3
    <3>2. CASE nodes[m].parent = 0
      <4>1. nodes[m].name = NULL
        <5>1. nodes[m].fs \in DOMAIN mounts /\ m = mounts[nodes[m].fs].root
          BY <2>1, <3>2 DEF Rooted, Tree, NodesNamed
        <5> QED
          BY <5>1 DEF Rooted, Tree, RootOf
      <4>2. Prior(m) = Place(m)
        BY <3>2, <4>1 DEF Place
      <4>3. Place(m) = 0 \/ (Place(m) \in DOMAIN nodes /\ Place(m) <= m)
        BY <2>1, UpIs
      <4>4. Place(m) # m
        <5> SUFFICES ASSUME Place(m) = m PROVE FALSE
          OBVIOUS
        <5>1. Up(m) = 0
          BY <3>2 DEF Up
        <5>2. m = 0
          BY <2>1, <5>1, UpIs
        <5> QED
          BY <1>0, <2>1, <5>2
      <4> HIDE DEF Prior
      <4> QED
        BY <1>0, <1>6, <2>1, <4>1, <4>2, <4>3, <4>4
    <3> QED
      BY <3>1, <3>2
  <2>3. Prior(m) # 0 => f[Prior(m)] = g[Prior(m)]
    <3> HIDE DEF f, Prior
    <3> QED
      BY <1>9, <2>2
  <2> HIDE DEF f, Body, Prior
  <2> QED
    BY <1>1, <2>2, <2>3
<1>11. f = [m \in 1 .. k |-> Body(f, m)]
  <2> HIDE DEF Body
  <2> QED
    BY <1>10
<1>12. NameTo(f, k)
  BY <1>11, Zenon DEF NameTo
<1> QED
  BY <1>6, <1>12

(* A node is shown if nothing is mounted on it and its directory is shown. *)
LEMMA ShownIs ==
  ASSUME Rooted, NEW n \in DOMAIN nodes
  PROVE  n \in Shown <=> ~Covered(n) /\ (Up(n) # 0 => Up(n) \in Shown)
<1>0. Len(nodes) \in 0 .. Len(nodes) /\ DOMAIN nodes = 1 .. Len(nodes)
  BY SequenceIsSeq DEF Rooted, Form, WellFormed
<1> DEFINE w == CHOOSE f : WayTo(f, Len(nodes))
<1>1. WayTo(w, Len(nodes))
  BY <1>0, WayToExists
<1>2. Shown = {i \in DOMAIN nodes : \A above \in w[i] : ~Covered(above)}
  BY <1>0, Zenon DEF Shown, WayTo
<1> HIDE DEF w
<1>3. \A i \in DOMAIN nodes : w[i] = {i} \cup (IF Up(i) = 0 THEN {} ELSE w[Up(i)])
  <2>1. w = [i \in DOMAIN nodes |->
               LET at == IF nodes[i].parent # 0 THEN i ELSE mounts[nodes[i].fs].mount_node
               IN {i} \cup (IF at = 0 \/ nodes[at].parent = 0 THEN {} ELSE w[nodes[at].parent])]
    BY <1>0, <1>1, Zenon DEF WayTo
  <2>2. \A i \in DOMAIN nodes :
          w[i] = {i} \cup (IF Place(i) = 0 \/ nodes[Place(i)].parent = 0 THEN {} ELSE w[nodes[Place(i)].parent])
    BY <2>1, Zenon DEF Place
  <2> QED
    BY <2>2 DEF Up
<1>4. Up(n) # 0 => Up(n) \in DOMAIN nodes
  BY UpIs
<1> QED
  BY <1>2, <1>3, <1>4

(* A node's name goes on from its directory's. *)
LEMMA PathIs ==
  ASSUME Rooted, NEW n \in DOMAIN nodes
  PROVE  vfs_path(n) = IF Up(n) = 0 THEN <<>> ELSE Append(vfs_path(Up(n)), Label(n))
<1>0. Len(nodes) \in 0 .. Len(nodes) /\ DOMAIN nodes = 1 .. Len(nodes)
  BY SequenceIsSeq DEF Rooted, Form, WellFormed
<1> DEFINE p == CHOOSE f : NameTo(f, Len(nodes))
<1>1. NameTo(p, Len(nodes))
  BY <1>0, NameToExists
<1>2. \A i : vfs_path(i) = p[i]
  BY <1>0, Zenon DEF vfs_path, NameTo
<1> HIDE DEF p
<1>3. p = [i \in DOMAIN nodes |->
             IF nodes[i].name # NULL THEN Append(p[nodes[i].parent], nodes[i].name)
             ELSE IF mounts[nodes[i].fs].mount_node = 0 THEN <<>>
             ELSE p[mounts[nodes[i].fs].mount_node]]
  BY <1>0, <1>1, Zenon DEF NameTo
<1>4. \A i \in DOMAIN nodes :
        /\ nodes[i].name # NULL => p[i] = Append(p[nodes[i].parent], nodes[i].name)
        /\ nodes[i].name = NULL => p[i] = IF mounts[nodes[i].fs].mount_node = 0 THEN <<>>
                                          ELSE p[mounts[nodes[i].fs].mount_node]
  BY <1>3, Zenon
<1>5. CASE Up(n) = 0
  <2>1. nodes[n].name = NULL /\ mounts[nodes[n].fs].mount_node = 0
    BY <1>0, <1>5, UpIs
  <2> QED
    BY <1>2, <1>4, <1>5, <2>1
<1>6. CASE Up(n) # 0
  <2> DEFINE at == Place(n)
  <2>1. at \in DOMAIN nodes /\ Up(n) = nodes[at].parent /\ nodes[at].name = Label(n) /\ Label(n) # NULL /\ at # 0
    BY <1>6, UpIs DEF Label
  <2>2. p[at] = Append(p[Up(n)], Label(n))
    BY <1>4, <2>1
  <2>3. p[n] = p[at]
    <3>1. CASE nodes[n].parent # 0
      BY <3>1 DEF Place
    <3>2. CASE nodes[n].parent = 0
      <4>1. nodes[n].fs \in DOMAIN mounts /\ n = mounts[nodes[n].fs].root
        BY <3>2 DEF Rooted, Tree, NodesNamed
      <4>2. nodes[n].name = NULL
        BY <4>1 DEF Rooted, Tree, RootOf
      <4>3. at = mounts[nodes[n].fs].mount_node
        BY <3>2 DEF Place
      <4> QED
        BY <1>4, <2>1, <4>2, <4>3
    <3> QED
      BY <3>1, <3>2
  <2> QED
    BY <1>2, <1>6, <2>2, <2>3
<1> QED
  BY <1>5, <1>6

(* The root of all has the empty name. *)
LEMMA RootIs ==
  ASSUME Rooted
  PROVE  LET r == mounts[1].root
         IN r \in DOMAIN nodes /\ Up(r) = 0 /\ r \in Shown /\ vfs_path(r) = <<>> /\ Cross(r) = r
<1> DEFINE r == mounts[1].root
<1>1. 1 \in DOMAIN mounts
  BY SequenceIsSeq DEF Rooted, Form
<1>2. r \in DOMAIN nodes /\ ~Covered(r) /\ nodes[r].parent = 0 /\ nodes[r].fs = 1
  BY <1>1, RootsUncovered
<1>3. Up(r) = 0
  <2>1. mounts[1].mount_node = 0
    BY <1>1 DEF Rooted, Tree, RootOf
  <2> QED
    BY <1>2, <2>1 DEF Up, Place
<1> HIDE DEF r
<1>4. r \in Shown /\ vfs_path(r) = <<>>
  BY <1>2, <1>3, ShownIs, PathIs
<1>5. Cross(r) = r
  BY <1>2, CrossUncovered DEF Covered
<1> QED
  BY <1>2, <1>3, <1>4, <1>5 DEF r

(* The root of every file system is shown. *)
LEMMA RootsShown ==
  ASSUME Rooted, NEW m \in DOMAIN mounts
  PROVE  mounts[m].root \in Shown
<1>1. DOMAIN mounts = 1 .. Len(mounts) /\ Len(mounts) \in Nat
  BY DEF Rooted, Form
<1> DEFINE T == {l \in DOMAIN mounts : mounts[l].root \notin Shown}
<1>2. T \in SUBSET Nat
  BY <1>1
<1>3. ASSUME NEW l \in T, \A o \in T : l <= o PROVE FALSE
  <2> DEFINE r == mounts[l].root
  <2>1. l \in DOMAIN mounts /\ r \notin Shown
    BY <1>3
  <2>2. r \in DOMAIN nodes /\ ~Covered(r) /\ nodes[r].parent = 0 /\ nodes[r].fs = l
    BY <2>1, RootsUncovered
  <2>3. Up(r) # 0 /\ Up(r) \notin Shown
    BY <2>1, <2>2, ShownIs
  <2>4. Place(r) = mounts[l].mount_node /\ Up(r) = nodes[mounts[l].mount_node].parent
    BY <2>2, <2>3 DEF Place, Up
  <2>5. l # 1
    BY <2>1, <2>3, RootIs
  <2>6. PICK o \in 1 .. l - 1 : nodes[mounts[l].mount_node].parent = mounts[o].root
    BY <2>1, <2>5 DEF Rooted, Tree, RootOf
  <2>7. o \in DOMAIN mounts /\ ~(l <= o)
    BY <1>1, <2>1, <2>6
  <2>8. mounts[o].root \notin Shown
    BY <2>3, <2>4, <2>6
  <2> QED
    BY <1>3, <2>7, <2>8
<1> HIDE DEF T
<1>4. T = {}
  BY <1>2, <1>3, Least
<1> QED
  BY <1>4 DEF T

(* Below a directory that is shown, what an entry leads to is shown there. *)
LEMMA Below ==
  ASSUME Rooted, NEW c \in Shown, NEW d \in DOMAIN nodes, nodes[d].parent = c
  PROVE  /\ Cross(d) \in Shown /\ Up(Cross(d)) = c
         /\ vfs_path(Cross(d)) = Append(vfs_path(c), nodes[d].name)
<1>0. c \in DOMAIN nodes /\ 0 \notin DOMAIN nodes
  <2>1. c \in DOMAIN nodes
    BY DEF Shown
  <2> QED
    BY <2>1, SequenceIsSeq DEF Rooted, Form, WellFormed
<1> DEFINE e == Cross(d)
<1>1. e \in DOMAIN nodes /\ ~Covered(e) /\ Place(e) = d
  <2>1. CASE \A m \in DOMAIN mounts : mounts[m].mount_node # d
    <3>1. e = d
      BY <2>1, CrossUncovered
    <3> QED
      BY <1>0, <2>1, <3>1 DEF Covered, Place
  <2>2. CASE \E m \in DOMAIN mounts : mounts[m].mount_node = d
    <3>1. PICK m \in DOMAIN mounts : mounts[m].mount_node = d
      BY <2>2
    <3>2. e = mounts[m].root
      BY <3>1, CrossCovered DEF Rooted, Tree, MountsApart
    <3>3. e \in DOMAIN nodes /\ ~Covered(e) /\ nodes[e].parent = 0 /\ nodes[e].fs = m
      BY <3>2, RootsUncovered
    <3> QED
      BY <3>1, <3>3 DEF Place
  <2> QED
    BY <2>1, <2>2
<1>2. Up(e) = c /\ c # 0 /\ Label(e) = nodes[d].name
  BY <1>0, <1>1 DEF Up, Label
<1> HIDE DEF e
<1>3. e \in Shown /\ vfs_path(e) = Append(vfs_path(c), nodes[d].name)
  BY <1>1, <1>2, ShownIs, PathIs
<1> QED
  BY <1>2, <1>3 DEF e

(* What is shown is where its entry leads. *)
LEMMA AtItsPlace ==
  ASSUME Rooted, NEW n \in Shown, Up(n) # 0
  PROVE  /\ n \in DOMAIN nodes /\ Up(n) \in Shown /\ n = Cross(Place(n)) /\ IsDir(Up(n))
         /\ Place(n) \in Named(Up(n), Label(n)) /\ Label(n) \notin {NULL, ".", ".."}
         /\ Up(n) < n /\ n \in Nat /\ Up(n) \in Nat
         /\ vfs_path(n) = Append(vfs_path(Up(n)), Label(n))
<1>1. n \in DOMAIN nodes
  BY DEF Shown
<1>2. /\ Place(n) \in DOMAIN nodes /\ Up(n) = nodes[Place(n)].parent /\ Label(n) = nodes[Place(n)].name
      /\ IsDir(Up(n)) /\ Up(n) < n /\ n \in Nat /\ Up(n) \in Nat /\ Label(n) \notin {NULL, ".", ".."}
  BY <1>1, UpIs DEF Label
<1>3. ~Covered(n) /\ Up(n) \in Shown /\ vfs_path(n) = Append(vfs_path(Up(n)), Label(n))
  BY <1>1, ShownIs, PathIs
<1>4. n = Cross(Place(n))
  <2>1. CASE nodes[n].parent # 0
    BY <1>3, <2>1, CrossUncovered DEF Place, Covered
  <2>2. CASE nodes[n].parent = 0
    <3> DEFINE m == nodes[n].fs
    <3>1. m \in DOMAIN mounts /\ n = mounts[m].root /\ Place(n) = mounts[m].mount_node
      BY <1>1, <2>2 DEF Rooted, Tree, NodesNamed, Place
    <3>2. \A o \in DOMAIN mounts \ {m} : mounts[o].mount_node # mounts[m].mount_node
      BY <3>1 DEF Rooted, Tree, MountsApart
    <3> HIDE DEF m
    <3> QED
      BY <3>1, <3>2, CrossCovered
  <2> QED
    BY <2>1, <2>2
<1> QED
  BY <1>1, <1>2, <1>3, <1>4 DEF Named

Texts == Seq({nodes[i].name : i \in DOMAIN nodes})

(* A name is a sequence of names of nodes. *)
LEMMA PathIsText ==
  ASSUME Rooted, NEW n \in DOMAIN nodes
  PROVE  vfs_path(n) \in Texts
<1>1. DOMAIN nodes \subseteq Nat
  BY SequenceIsSeq DEF Rooted, Form, WellFormed
<1> DEFINE T == {i \in DOMAIN nodes : vfs_path(i) \notin Texts}
<1>2. T \in SUBSET Nat
  BY <1>1
<1>3. ASSUME NEW i \in T, \A j \in T : i <= j PROVE FALSE
  <2>1. i \in DOMAIN nodes /\ vfs_path(i) \notin Texts
    BY <1>3
  <2>2. <<>> \in Texts
    BY EmptySeq DEF Texts
  <2>3. Up(i) # 0
    BY <2>1, <2>2, PathIs
  <2>4. Up(i) \in DOMAIN nodes /\ ~(i <= Up(i)) /\ Place(i) \in DOMAIN nodes
    BY <2>1, <2>3, UpIs
  <2>5. vfs_path(Up(i)) \in Texts
    BY <1>3, <2>4
  <2>6. Label(i) \in {nodes[j].name : j \in DOMAIN nodes}
    BY <2>4 DEF Label
  <2>7. Append(vfs_path(Up(i)), Label(i)) \in Texts
    BY <2>5, <2>6, AppendProperties DEF Texts
  <2> QED
    BY <2>1, <2>3, <2>7, PathIs
<1> HIDE DEF T
<1>4. T = {}
  BY <1>2, <1>3, Least
<1> QED
  BY <1>4 DEF T

(* Texts with one name more. *)
LEMMA OneMore ==
  ASSUME Rooted, NEW t \in Texts, NEW s \in Texts, NEW x, NEW y
  PROVE  /\ Append(t, x) = Append(s, y) => t = s /\ x = y
         /\ Append(t, x) # <<>>
         /\ SubSeq(Append(t, x), 1, Len(Append(t, x)) - 1) = t
<1> DEFINE S == {nodes[i].name : i \in DOMAIN nodes} \cup {x, y}
<1>1. t \in Seq(S) /\ s \in Seq(S) /\ x \in S /\ y \in S
  <2>1. Seq({nodes[i].name : i \in DOMAIN nodes}) \subseteq Seq(S)
    OBVIOUS
  <2> QED
    BY <2>1 DEF Texts
<1> HIDE DEF S
<1>2. Append(t, x) = Append(s, y) => t = s /\ x = y
  BY <1>1, AppendInjective
<1>3. /\ Append(t, x) \in Seq(S) /\ Len(Append(t, x)) = Len(t) + 1 /\ Len(t) \in Nat
      /\ \A i \in 1 .. Len(t) : Append(t, x)[i] = t[i]
  BY <1>1, AppendProperties, LenProperties
<1>4. SubSeq(Append(t, x), 1, Len(Append(t, x)) - 1) = t
  <2> DEFINE a == Append(t, x)
  <2>1. /\ \A i \in 1 .. Len(a) - 1 : a[i] \in S
        /\ 1 \in Int /\ Len(a) - 1 \in Int /\ Len(a) - 1 = Len(t) /\ Len(a) - 1 - 1 + 1 = Len(t)
    BY <1>1, <1>3
  <2>2. /\ SubSeq(a, 1, Len(a) - 1) \in Seq(S)
        /\ Len(SubSeq(a, 1, Len(a) - 1)) = IF 1 <= Len(a) - 1 THEN Len(a) - 1 - 1 + 1 ELSE 0
        /\ \A i \in 1 .. Len(a) - 1 - 1 + 1 : SubSeq(a, 1, Len(a) - 1)[i] = a[1 + i - 1]
    BY <2>1, SubSeqProperties
  <2>3. Len(SubSeq(a, 1, Len(a) - 1)) = Len(t)
    BY <1>3, <2>1, <2>2
  <2>4. \A i \in 1 .. Len(t) : SubSeq(a, 1, Len(a) - 1)[i] = t[i]
    <3>1. \A i \in 1 .. Len(t) : 1 + i - 1 = i
      BY <1>3
    <3> QED
      BY <1>3, <2>1, <2>2, <3>1
  <2> HIDE DEF a
  <2>5. SubSeq(a, 1, Len(a) - 1) = t
    BY <1>1, <2>2, <2>3, <2>4, SeqEqual
  <2> QED
    BY <2>5 DEF a
<1>5. Append(t, x) # <<>>
  BY <1>3, EmptySeq
<1> QED
  BY <1>2, <1>4, <1>5

(* No two nodes that are shown have one name. *)
LEMMA Unique ==
  ASSUME Rooted, NEW n \in Shown, NEW o \in Shown, vfs_path(n) = vfs_path(o)
  PROVE  n = o
<1>0. DOMAIN nodes \subseteq Nat
  BY SequenceIsSeq DEF Rooted, Form, WellFormed
<1>1. DOMAIN nodes \subseteq Nat /\ Shown \subseteq DOMAIN nodes
  BY <1>0 DEF Shown
<1> DEFINE T == {i \in Shown : \E j \in Shown : i # j /\ vfs_path(i) = vfs_path(j)}
<1>2. T \in SUBSET Nat
  BY <1>1
<1>3. ASSUME NEW i \in T, \A j \in T : i <= j PROVE FALSE
  <2>1. PICK j \in Shown : i # j /\ vfs_path(i) = vfs_path(j)
    BY <1>3
  <2>2. i \in Shown /\ i \in DOMAIN nodes /\ j \in DOMAIN nodes
    BY <1>1, <1>3
  <2> HIDE DEF T
  <2>3. \A m \in Shown : /\ Up(m) = 0 => vfs_path(m) = <<>> /\ m = mounts[1].root
                         /\ Up(m) # 0 => vfs_path(m) # <<>>
    <3> SUFFICES ASSUME NEW m \in Shown
                 PROVE  /\ Up(m) = 0 => vfs_path(m) = <<>> /\ m = mounts[1].root
                        /\ Up(m) # 0 => vfs_path(m) # <<>>
      OBVIOUS
    <3>1. m \in DOMAIN nodes
      BY <1>1
    <3>2. Up(m) = 0 => vfs_path(m) = <<>> /\ m = mounts[1].root
      BY <3>1, UpIs, PathIs
    <3>3. Up(m) # 0 => vfs_path(m) # <<>>
      <4> SUFFICES ASSUME Up(m) # 0 PROVE vfs_path(m) # <<>>
        OBVIOUS
      <4>1. Up(m) \in DOMAIN nodes /\ vfs_path(m) = Append(vfs_path(Up(m)), Label(m))
        BY <3>1, UpIs, PathIs
      <4>2. vfs_path(Up(m)) \in Texts
        BY <4>1, PathIsText
      <4> QED
        BY <4>1, <4>2, OneMore
    <3> QED
      BY <3>2, <3>3
  <2>4. Up(i) # 0 /\ Up(j) # 0
    BY <2>1, <2>2, <2>3
  <2>5. /\ Up(i) \in Shown /\ Up(j) \in Shown
        /\ i = Cross(Place(i)) /\ j = Cross(Place(j))
        /\ Place(i) \in Named(Up(i), Label(i)) /\ Place(j) \in Named(Up(j), Label(j))
        /\ ~(i <= Up(i))
        /\ vfs_path(i) = Append(vfs_path(Up(i)), Label(i)) /\ vfs_path(j) = Append(vfs_path(Up(j)), Label(j))
    BY <2>2, <2>4, AtItsPlace
  <2>6. vfs_path(Up(i)) \in Texts /\ vfs_path(Up(j)) \in Texts
    BY <1>1, <2>5, PathIsText
  <2>7. vfs_path(Up(i)) = vfs_path(Up(j)) /\ Label(i) = Label(j)
    <3> DEFINE p == vfs_path(Up(i))
               q == vfs_path(Up(j))
    <3>1. p \in Texts /\ q \in Texts /\ Append(p, Label(i)) = Append(q, Label(j))
      BY <2>1, <2>5, <2>6
    <3> HIDE DEF p, q
    <3>2. p = q /\ Label(i) = Label(j)
      BY <3>1, OneMore
    <3> QED
      BY <3>2 DEF p, q
  <2>8. Up(i) = Up(j)
    <3>1. Up(i) \notin T
      BY <1>3, <2>5
    <3> QED
      BY <2>5, <2>7, <3>1 DEF T
  <2>9. Place(i) = Place(j)
    <3>1. \A a, b \in DOMAIN nodes : nodes[a].parent # 0 /\ nodes[a].parent = nodes[b].parent
                                     /\ nodes[a].name = nodes[b].name => a = b
      BY DEF Rooted, Tree, NamesUnique
    <3> QED
      BY <2>4, <2>5, <2>7, <2>8, <3>1 DEF Named
  <2> QED
    BY <2>1, <2>5, <2>9
<1> HIDE DEF T
<1>4. T = {}
  BY <1>2, <1>3, Least
<1> QED
  BY <1>4 DEF T

-----------------------------------------------------------------------------
(* Walks and texts *)

(* The nodes a text names, and what a component makes of a text. *)
Spelled(text) == {n \in Shown : vfs_path(n) = text}
Roots == {vfs_path(mounts[m].root) : m \in DOMAIN mounts}
After(t, x) ==
  CASE x = "." -> t
    [] x = ".." -> IF t \in Roots THEN t ELSE SubSeq(t, 1, Len(t) - 1)
    [] OTHER -> Append(t, x)

(* A text names one node at most. *)
LEMMA SpelledIs ==
  ASSUME Rooted, NEW n \in Shown
  PROVE  Spelled(vfs_path(n)) = {n}
<1>1. \A o \in Shown : vfs_path(n) = vfs_path(o) => n = o
  BY Unique
<1> QED
  BY <1>1 DEF Spelled

(* Above a node that is shown are what ".." finds and its text without the *)
(* last name, but at the root of a file system.                            *)
LEMMA Upward ==
  ASSUME Rooted, NEW c \in Shown
  PROVE  LET p == nodes[c].parent
         IN Spelled(After(vfs_path(c), "..")) = {Cross(IF p = 0 THEN c ELSE p)}
<1>1. c \in DOMAIN nodes /\ ~Covered(c)
  <2>1. c \in DOMAIN nodes
    BY DEF Shown
  <2> QED
    BY <2>1, ShownIs
<1>2. After(vfs_path(c), "..") = IF vfs_path(c) \in Roots THEN vfs_path(c)
                                 ELSE SubSeq(vfs_path(c), 1, Len(vfs_path(c)) - 1)
  BY DEF After
<1>3. CASE nodes[c].parent = 0
  <2>1. nodes[c].fs \in DOMAIN mounts /\ c = mounts[nodes[c].fs].root
    BY <1>1, <1>3 DEF Rooted, Tree, NodesNamed
  <2>2. vfs_path(c) \in Roots
    BY <2>1 DEF Roots
  <2>3. Cross(c) = c
    BY <1>1, CrossUncovered DEF Covered
  <2> QED
    BY <1>2, <1>3, <2>2, <2>3, SpelledIs
<1>4. CASE nodes[c].parent # 0
  <2> DEFINE p == nodes[c].parent
  <2>1. Up(c) = p /\ p # 0
    BY <1>1, <1>4, SequenceIsSeq DEF Up, Place, Rooted, Form, WellFormed
  <2>2. p \in Shown /\ vfs_path(c) = Append(vfs_path(p), Label(c))
    BY <2>1, AtItsPlace
  <2>3. p \in DOMAIN nodes
    BY <2>2 DEF Shown
  <2>4. ~Covered(p)
    BY <2>2, <2>3, ShownIs
  <2>5. Cross(p) = p
    BY <2>4, CrossUncovered DEF Covered
  <2>6. vfs_path(c) \notin Roots
    <3> SUFFICES ASSUME NEW m \in DOMAIN mounts, vfs_path(c) = vfs_path(mounts[m].root)
                 PROVE  FALSE
      BY DEF Roots
    <3>1. mounts[m].root \in Shown /\ nodes[mounts[m].root].parent = 0
      BY RootsShown, RootsUncovered
    <3>2. c = mounts[m].root
      BY <3>1, Unique
    <3> QED
      BY <1>4, <3>1, <3>2
  <2>7. SubSeq(vfs_path(c), 1, Len(vfs_path(c)) - 1) = vfs_path(p)
    <3> DEFINE t == vfs_path(p)
    <3>1. t \in Texts
      BY <2>3, PathIsText
    <3> HIDE DEF t, p
    <3>2. SubSeq(Append(t, Label(c)), 1, Len(Append(t, Label(c))) - 1) = t
      BY <3>1, OneMore
    <3> QED
      BY <2>2, <3>2 DEF t
  <2> HIDE DEF p
  <2> QED
    BY <1>2, <2>1, <2>2, <2>5, <2>6, <2>7, SpelledIs DEF p
<1> QED
  BY <1>3, <1>4

(* One component on from a node that is shown. *)
LEMMA StepSpells ==
  ASSUME Rooted, NEW c \in Shown, NEW x
  PROVE  LET r == lookup(c, x)
         IN IF ~IsDir(c) THEN r.err = "ENOTDIR"
            ELSE \/ /\ r.err = "OK"
                    /\ Spelled(After(vfs_path(c), x)) = {Cross(IF r.node = 0 THEN c ELSE r.node)}
                 \/ r.err = "ENOENT" /\ Spelled(After(vfs_path(c), x)) = {}
<1>1. c \in DOMAIN nodes /\ 0 \notin DOMAIN nodes /\ c # 0
  <2>1. 0 \notin DOMAIN nodes
    BY SequenceIsSeq DEF Rooted, Form, WellFormed
  <2> QED
    BY <2>1 DEF Shown
<1>2. CASE ~IsDir(c)
  BY <1>2 DEF lookup, Failed
<1>3. CASE IsDir(c) /\ x = "."
  <2>1. lookup(c, x) = Found(c) /\ After(vfs_path(c), x) = vfs_path(c)
    BY <1>3 DEF lookup, After
  <2>2. ~Covered(c)
    BY <1>1, ShownIs
  <2>3. Cross(c) = c
    BY <2>2, CrossUncovered DEF Covered
  <2> QED
    BY <1>1, <1>3, <2>1, <2>3, SpelledIs DEF Found
<1>4. CASE IsDir(c) /\ x = ".."
  <2>1. lookup(c, x) = Found(nodes[c].parent)
    BY <1>4 DEF lookup
  <2> QED
    BY <1>4, <2>1, Upward DEF Found
<1>5. CASE IsDir(c) /\ x \notin {".", ".."} /\ Named(c, x) = {}
  <2>1. lookup(c, x) = Failed("ENOENT") /\ After(vfs_path(c), x) = Append(vfs_path(c), x)
    BY <1>5 DEF lookup, After
  <2>2. ASSUME NEW n \in Shown, vfs_path(n) = Append(vfs_path(c), x)
        PROVE  FALSE
    <3> DEFINE t == vfs_path(c)
    <3>1. t \in Texts
      BY <1>1, PathIsText
    <3>2. n \in DOMAIN nodes
      BY DEF Shown
    <3>3. Up(n) # 0
      <4> HIDE DEF t
      <4>1. Append(t, x) # <<>>
        BY <3>1, OneMore
      <4> QED
        BY <2>2, <3>2, <4>1, PathIs DEF t
    <3>4. /\ vfs_path(n) = Append(vfs_path(Up(n)), Label(n)) /\ Up(n) \in Shown
          /\ Place(n) \in Named(Up(n), Label(n))
      BY <3>3, AtItsPlace
    <3> DEFINE s == vfs_path(Up(n))
    <3>5. s \in Texts
      <4>1. Up(n) \in DOMAIN nodes
        BY <3>4 DEF Shown
      <4> QED
        BY <4>1, PathIsText
    <3>6. Append(t, x) = Append(s, Label(n))
      BY <2>2, <3>4
    <3> HIDE DEF t, s
    <3>7. t = s /\ x = Label(n)
      BY <3>1, <3>5, <3>6, OneMore
    <3>8. Up(n) = c
      BY <3>4, <3>7, Unique DEF t, s
    <3> QED
      BY <1>5, <3>4, <3>7, <3>8
  <2> QED
    BY <1>5, <2>1, <2>2 DEF Failed, Spelled
<1>6. CASE IsDir(c) /\ x \notin {".", ".."} /\ Named(c, x) # {}
  <2> DEFINE d == CHOOSE i \in Named(c, x) : TRUE
  <2>1. lookup(c, x) = Found(d) /\ After(vfs_path(c), x) = Append(vfs_path(c), x)
    BY <1>6 DEF lookup, After
  <2>2. d \in Named(c, x)
    BY <1>6
  <2> HIDE DEF d
  <2>3. d \in DOMAIN nodes /\ nodes[d].parent = c /\ nodes[d].name = x /\ d # 0
    BY <1>1, <2>2 DEF Named
  <2>4. Cross(d) \in Shown /\ vfs_path(Cross(d)) = Append(vfs_path(c), x)
    BY <2>3, Below
  <2>5. Spelled(Append(vfs_path(c), x)) = {Cross(d)}
    BY <2>4, SpelledIs
  <2> QED
    BY <1>6, <2>1, <2>3, <2>5 DEF Found
<1> QED
  BY <1>2, <1>3, <1>4, <1>5, <1>6

(* The recursive function of Text, on 0 .. n. *)
TextTo(f, path, from, n) ==
  f = [k \in 0 .. n |-> IF k = 0 THEN IF path.abs THEN <<>> ELSE from
                        ELSE After(f[k - 1], path.comps[k])]

(* There is such a function, for a path of any length; *)
LEMMA TextToExists ==
  ASSUME NEW path, NEW from, NEW n \in Nat
  PROVE  \E f : TextTo(f, path, from, n)
<1> DEFINE P(k) == \E f : TextTo(f, path, from, k)
           T == {k \in Nat : ~P(k)}
           first == IF path.abs THEN <<>> ELSE from
<1>1. SUFFICES ASSUME T # {}
               PROVE  FALSE
  OBVIOUS
<1>2. PICK k \in T : \A l \in T : k <= l
  BY <1>1, Least
<1>3. CASE k = 0
  <2>1. TextTo([m \in 0 .. 0 |-> first], path, from, 0)
    BY DEF TextTo
  <2> QED
    BY <1>2, <1>3, <2>1
<1>4. CASE k # 0
  <2>1. k \in Nat /\ k - 1 \in Nat /\ k - 1 \notin T
    BY <1>2, <1>4
  <2>2. PICK g : TextTo(g, path, from, k - 1)
    BY <2>1
  <2> DEFINE f == [m \in 0 .. k |-> IF m = 0 THEN first ELSE After(g[m - 1], path.comps[m])]
  <2>3. \A m \in 0 .. k - 1 : f[m] = g[m]
    BY <2>1, <2>2 DEF TextTo
  <2>4. ASSUME NEW m \in 0 .. k, m # 0 PROVE f[m - 1] = g[m - 1]
    <3>1. m - 1 \in 0 .. k - 1
      BY <2>1, <2>4
    <3> QED
      BY <2>3, <3>1
  <2>5. TextTo(f, path, from, k)
    BY <2>4 DEF TextTo
  <2> QED
    BY <1>2, <2>5
<1> QED
  BY <1>3, <1>4

(* and it is Text. *)
LEMMA TextIs ==
  ASSUME NEW path, NEW from, Len(path.comps) \in Nat
  PROVE  LET T == Text(path, from)
         IN /\ T[0] = IF path.abs THEN <<>> ELSE from
            /\ \A k \in 1 .. Len(path.comps) : T[k] = After(T[k - 1], path.comps[k])
<1> DEFINE last == Len(path.comps)
           f == CHOOSE f : TextTo(f, path, from, last)
<1>1. TextTo(f, path, from, last)
  BY TextToExists
<1>2. Text(path, from) = f
  BY Zenon DEF Text, TextTo, After, Roots
<1> HIDE DEF f
<1>3. \A k \in 0 .. last : f[k] = IF k = 0 THEN IF path.abs THEN <<>> ELSE from
                                   ELSE After(f[k - 1], path.comps[k])
  <2> HIDE DEF last
  <2>1. f = [k \in 0 .. last |-> IF k = 0 THEN IF path.abs THEN <<>> ELSE from
                                 ELSE After(f[k - 1], path.comps[k])]
    BY <1>1, Zenon DEF TextTo
  <2> QED
    BY <2>1, Zenon
<1>4. 0 \in 0 .. last /\ \A k \in 1 .. last : k \in 0 .. last /\ k # 0
  OBVIOUS
<1> HIDE DEF last
<1>5. f[0] = IF path.abs THEN <<>> ELSE from
  BY <1>3, <1>4
<1>6. \A k \in 1 .. last : f[k] = After(f[k - 1], path.comps[k])
  BY <1>3, <1>4
<1> QED
  BY <1>2, <1>5, <1>6 DEF last

(* On all but the last of k texts is a directory. *)
Passes(T, k) == \A j \in 0 .. k - 1 : \E n \in Spelled(T[j]) : IsDir(n)

(* A walk is at the node its text spells, or has failed. *)
LEMMA WalkSpells ==
  ASSUME Rooted, NEW path, Len(path.comps) \in Nat, NEW c,
         path.abs \/ c \in Shown, NEW T,
         T[0] = IF path.abs THEN <<>> ELSE vfs_path(c),
         \A k \in 1 .. Len(path.comps) : T[k] = After(T[k - 1], path.comps[k])
  PROVE  LET w == Walk(path, c, FALSE)
             last == Len(path.comps)
         IN IF Passes(T, last) /\ Spelled(T[last]) # {}
            THEN w.err = "OK" /\ Spelled(T[last]) = {w.node}
            ELSE w.err \in {"ENOENT", "ENOTDIR", "MISSING"}
<1> DEFINE last == Len(path.comps)
           no == FALSE
<1>0. last \in Nat
  OBVIOUS
<1>1. PICK W : /\ W[0] = Start(path, c)
               /\ \A k \in 1 .. last : W[k] = Onward(W[k - 1], path, k, no)
               /\ Walk(path, c, no) = W[last]
  BY WalkIs
<1> DEFINE R(k) == IF Passes(T, k) /\ Spelled(T[k]) # {}
                   THEN W[k].err = "OK" /\ Spelled(T[k]) = {W[k].node}
                   ELSE \/ W[k].err \in {"ENOENT", "ENOTDIR"}
                        \/ k = last /\ W[k].err = "MISSING"
<1>2. R(0)
  <2>1. Passes(T, 0)
    BY DEF Passes
  <2>2. CASE path.abs
    <3>1. W[0] = Found(mounts[1].root) /\ T[0] = vfs_path(mounts[1].root) /\ mounts[1].root \in Shown
      BY <1>1, <2>2, RootIs DEF Start, Rooted
    <3>2. Spelled(T[0]) = {mounts[1].root}
      BY <3>1, SpelledIs
    <3> QED
      BY <2>1, <3>1, <3>2 DEF Found
  <2>3. CASE ~path.abs
    <3>1. c \in DOMAIN nodes /\ c # 0
      <4>1. 0 \notin DOMAIN nodes
        BY SequenceIsSeq DEF Rooted, Form, WellFormed
      <4> QED
        BY <2>3, <4>1 DEF Shown
    <3>2. Cross(c) = c
      <4>1. ~Covered(c)
        BY <2>3, <3>1, ShownIs
      <4> QED
        BY <4>1, CrossUncovered DEF Covered
    <3>3. W[0] = Found(c) /\ T[0] = vfs_path(c)
      BY <1>1, <2>3, <3>1, <3>2 DEF Start
    <3>4. Spelled(T[0]) = {c}
      BY <2>3, <3>3, SpelledIs
    <3> QED
      BY <2>1, <3>3, <3>4 DEF Found
  <2> QED
    BY <2>2, <2>3
<1>3. ASSUME NEW k \in 1 .. last, R(k - 1)
      PROVE  R(k)
  <2>1. /\ W[k] = Onward(W[k - 1], path, k, no) /\ T[k] = After(T[k - 1], path.comps[k])
        /\ k - 1 # last /\ k - 1 \in 0 .. k - 1
        /\ 0 .. k - 1 = (0 .. (k - 1) - 1) \cup {k - 1}
    <3>1. W[k] = Onward(W[k - 1], path, k, no) /\ T[k] = After(T[k - 1], path.comps[k])
      BY <1>1, <1>3
    <3> HIDE DEF last
    <3> QED
      BY <1>0, <1>3, <3>1
  <2>2. Passes(T, k) <=> Passes(T, k - 1) /\ \E n \in Spelled(T[k - 1]) : IsDir(n)
    BY <2>1 DEF Passes
  <2> DEFINE at == W[k - 1]
             x == path.comps[k]
             t == T[k - 1]
             r == lookup(at.node, x)
  <2>3. CASE Passes(T, k - 1) /\ Spelled(t) # {}
    <3>1. at.err = "OK" /\ Spelled(t) = {at.node}
      BY <1>3, <2>3
    <3>2. at.node \in Shown /\ vfs_path(at.node) = t
      BY <3>1 DEF Spelled
    <3>3. Passes(T, k) <=> IsDir(at.node)
      BY <2>2, <2>3, <3>1
    <3>4. \/ W[k].err = "MISSING" /\ k = last /\ r.err = "ENOENT"
          \/ W[k] = Step(at.node, x, no)
      <4> HIDE DEF at, no
      <4>1. W[k] = Onward(at, path, k, no)
        BY <2>1 DEF at
      <4> QED
        BY <3>1, <4>1 DEF Onward
    <3>5. Step(at.node, x, no) = IF r.err # "OK" THEN r
                                 ELSE Found(Cross(IF r.node = 0 THEN at.node ELSE r.node))
      BY DEF Step
    <3> HIDE DEF at, x, t, r, no, last
    <3>6. CASE ~IsDir(at.node)
      <4>1. r.err = "ENOTDIR"
        BY <3>2, <3>6, StepSpells DEF r
      <4> QED
        BY <3>3, <3>4, <3>5, <3>6, <4>1
    <3>7. CASE IsDir(at.node)
      <4>1. \/ /\ r.err = "OK"
               /\ Spelled(After(t, x)) = {Cross(IF r.node = 0 THEN at.node ELSE r.node)}
            \/ r.err = "ENOENT" /\ Spelled(After(t, x)) = {}
        BY <3>2, <3>7, StepSpells DEF r
      <4>2. T[k] = After(t, x)
        BY <2>1 DEF t, x
      <4> QED
        BY <3>3, <3>4, <3>5, <3>7, <4>1, <4>2 DEF Found
    <3> QED
      BY <3>6, <3>7
  <2>4. CASE ~(Passes(T, k - 1) /\ Spelled(t) # {})
    <3>1. W[k - 1].err \in {"ENOENT", "ENOTDIR"}
      BY <1>3, <2>1, <2>4
    <3>2. W[k] = W[k - 1]
      BY <2>1, <3>1 DEF Onward
    <3>3. ~Passes(T, k)
      BY <2>2, <2>4
    <3> QED
      BY <3>1, <3>2, <3>3
  <2> QED
    BY <2>3, <2>4
<1>4. R(last)
  <2> DEFINE B == {k \in 0 .. last : ~R(k)}
  <2>1. ASSUME NEW k \in B, \A l \in B : k <= l PROVE FALSE
    <3>1. k \in 0 .. last /\ ~R(k)
      BY <2>1
    <3> HIDE DEF R
    <3>2. k # 0
      BY <1>2, <3>1
    <3>3. k \in 1 .. last /\ k - 1 \in 0 .. last /\ ~(k <= k - 1)
      BY <3>1, <3>2
    <3>4. R(k - 1)
      BY <2>1, <3>3
    <3> QED
      BY <1>3, <3>1, <3>3, <3>4
  <2>2. B \in SUBSET Nat /\ last \in 0 .. last
    OBVIOUS
  <2> HIDE DEF B, R
  <2>3. B = {}
    BY <2>1, <2>2, Least
  <2> QED
    BY <2>2, <2>3 DEF B
<1>5. Walk(path, c, FALSE) = W[last]
  BY <1>1
<1> QED
  BY <1>4, <1>5

(* So is a lookup that may not create. *)
LEMMA LookupSpells ==
  ASSUME Rooted, NEW path, Len(path.comps) \in Nat, NEW c,
         path.abs \/ c \in Shown, NEW T,
         T[0] = IF path.abs THEN <<>> ELSE vfs_path(c),
         \A k \in 1 .. Len(path.comps) : T[k] = After(T[k - 1], path.comps[k])
  PROVE  LET r == vfs_lookup(path, c)
             last == Len(path.comps)
         IN IF Passes(T, last) /\ Spelled(T[last]) # {}
            THEN r.err = "OK" /\ Spelled(T[last]) = {r.node}
            ELSE r.err \in {"ENOENT", "ENOTDIR"}
<1> DEFINE w == Walk(path, c, FALSE)
           last == Len(path.comps)
<1>1. IF Passes(T, last) /\ Spelled(T[last]) # {}
      THEN w.err = "OK" /\ Spelled(T[last]) = {w.node}
      ELSE w.err \in {"ENOENT", "ENOTDIR", "MISSING"}
  BY WalkSpells
<1> HIDE DEF w, last
<1>2. /\ w.err # "MISSING" => vfs_lookup(path, c).err = w.err /\ vfs_lookup(path, c).node = w.node
      /\ w.err = "MISSING" => vfs_lookup(path, c).err = "ENOENT"
  BY DEF vfs_lookup, vfs_lookup_ext, w
<1> QED
  BY <1>1, <1>2 DEF last

(* The texts on the way to a node's own name. *)
Spells(T, p) ==
  /\ T[0] = <<>> /\ T[Len(p)] = p
  /\ \A k \in 1 .. Len(p) : T[k] = After(T[k - 1], p[k])
  /\ Passes(T, Len(p))

(* A node has a directory on every step of its name. *)
LEMMA NamesSpell ==
  ASSUME Rooted, NEW c \in Shown
  PROVE  \E T : Spells(T, vfs_path(c))
<1>0. DOMAIN nodes \subseteq Nat
  BY SequenceIsSeq DEF Rooted, Form, WellFormed
<1> DEFINE B == {i \in Shown : ~ \E T : Spells(T, vfs_path(i))}
<1>1. B \in SUBSET Nat
  BY <1>0 DEF Shown
<1>2. ASSUME NEW i \in B, \A j \in B : i <= j PROVE FALSE
  <2>1. i \in Shown /\ ~ (\E T : Spells(T, vfs_path(i))) /\ i \in DOMAIN nodes
    BY <1>2 DEF Shown
  <2>2. CASE Up(i) = 0
    <3>1. vfs_path(i) = <<>>
      BY <2>1, <2>2, PathIs
    <3>2. Spells([k \in {0} |-> <<>>], <<>>)
      BY DEF Spells, Passes
    <3> QED
      BY <2>1, <3>1, <3>2
  <2>3. CASE Up(i) # 0
    <3> DEFINE u == Up(i)
               p == vfs_path(u)
               q == vfs_path(i)
               x == Label(i)
    <3>1. u \in Shown /\ IsDir(u) /\ x \notin {".", ".."} /\ q = Append(p, x) /\ ~(i <= u)
      BY <2>1, <2>3, AtItsPlace
    <3>2. u \in DOMAIN nodes
      BY <3>1 DEF Shown
    <3>3. p \in Texts
      BY <3>2, PathIsText
    <3>4. PICK T : Spells(T, p)
      BY <1>2, <3>1
    <3>5. Spelled(p) = {u}
      BY <3>1, SpelledIs
    <3> HIDE DEF u, p, q, x, B
    <3>6. IsSequence(p) /\ Len(p) \in Nat
      BY <3>3, SeqIsSequence, SequenceIsSeq DEF Texts
    <3>7. Len(q) = Len(p) + 1 /\ \A k \in 1 .. Len(p) : q[k] = p[k]
      BY <3>1, <3>6, Appended
    <3>8. q[Len(p) + 1] = x
      BY <3>1, <3>6, Appended
    <3> DEFINE n == Len(p)
               U == [k \in 0 .. n + 1 |-> IF k <= n THEN T[k] ELSE q]
    <3>9. /\ T[0] = <<>> /\ T[n] = p /\ (\A k \in 1 .. n : T[k] = After(T[k - 1], p[k]))
          /\ \A j \in 0 .. n - 1 : \E o \in Spelled(T[j]) : IsDir(o)
      BY <3>4 DEF Spells, Passes
    <3> HIDE DEF n
    <3>10. n \in Nat /\ Len(q) = n + 1 /\ (\A k \in 1 .. n : q[k] = p[k]) /\ q[n + 1] = x
      BY <3>6, <3>7, <3>8 DEF n
    <3>11. U[0] = <<>> /\ U[n] = p /\ U[n + 1] = q
      BY <3>9, <3>10
    <3>12. ASSUME NEW k \in 1 .. n + 1 PROVE U[k] = After(U[k - 1], q[k])
      <4>1. CASE k = n + 1
        BY <3>1, <3>10, <3>11, <4>1 DEF After
      <4>2. CASE k # n + 1
        <5>1. k \in 1 .. n /\ U[k] = T[k] /\ U[k - 1] = T[k - 1]
          BY <3>10, <4>2
        <5> QED
          BY <3>9, <3>10, <5>1
      <4> QED
        BY <4>1, <4>2
    <3>13. ASSUME NEW j \in 0 .. n PROVE \E o \in Spelled(U[j]) : IsDir(o)
      <4>1. CASE j = n
        BY <3>1, <3>5, <3>11, <4>1
      <4>2. CASE j # n
        <5>1. j \in 0 .. n - 1 /\ U[j] = T[j]
          BY <3>10, <4>2
        <5> QED
          BY <3>9, <5>1
      <4> QED
        BY <4>1, <4>2
    <3> HIDE DEF U
    <3>14. Spells(U, q)
      <4>1. 0 .. Len(q) - 1 = 0 .. n
        BY <3>10
      <4> QED
        BY <3>10, <3>11, <3>12, <3>13, <4>1 DEF Spells, Passes
    <3> QED
      BY <2>1, <3>14 DEF q
  <2> QED
    BY <2>2, <2>3
<1> HIDE DEF B
<1>3. B = {}
  BY <1>1, <1>2, Least
<1> QED
  BY <1>3 DEF B

(* The tree is what PathsNameNodes takes. *)
LEMMA TreesNameNodes ==
  Form /\ (~halted => Tree(nodes, mounts)) => PathsNameNodes
<1> SUFFICES ASSUME Rooted, mounts # <<>> /\ ~halted
             PROVE  PathsNameNodes
  BY DEF Rooted, PathsNameNodes
<1> DEFINE name == [n \in Shown |-> vfs_path(n)]
           At(text) == {n \in DOMAIN name : name[n] = text}
           Leads(c, path) ==
             LET T == Text(path, name[c])
                 last == Len(path.comps)
                 r == vfs_lookup(path, c)
             IN IF At(T[last]) # {} /\ \A k \in 0 .. last - 1 : \E n \in At(T[k]) : IsDir(n)
                THEN r.err = "OK" /\ At(T[last]) = {r.node}
                ELSE r.err \in {"ENOENT", "ENOTDIR"}
<1>1. \A text : At(text) = Spelled(text)
  BY DEF Spelled
<1>2. ASSUME NEW c \in Shown
      PROVE  /\ Spelled(vfs_path(c)) = {c}
             /\ vfs_lookup(Absolute(vfs_path(c)), 0).node = c
  <2>1. Spelled(vfs_path(c)) = {c}
    BY SpelledIs
  <2> DEFINE p == vfs_path(c)
             path == Absolute(p)
  <2>2. PICK T : Spells(T, p)
    BY NamesSpell
  <2>3. path.abs = TRUE /\ path.comps = p
    BY DEF Absolute
  <2>4. Len(p) \in Nat
    <3>1. c \in DOMAIN nodes
      BY DEF Shown
    <3>2. p \in Texts
      BY <3>1, PathIsText
    <3> QED
      BY <3>2, LenProperties DEF Texts
  <2>5. /\ T[0] = <<>> /\ T[Len(p)] = p
        /\ \A k \in 1 .. Len(p) : T[k] = After(T[k - 1], p[k])
        /\ Passes(T, Len(p)) /\ Spelled(T[Len(p)]) = {c}
    BY <2>1, <2>2 DEF Spells
  <2> HIDE DEF path, p
  <2>6. Spelled(T[Len(p)]) = {vfs_lookup(path, 0).node}
    <3>1. /\ Len(path.comps) \in Nat /\ path.abs /\ T[0] = (IF path.abs THEN <<>> ELSE vfs_path(0))
          /\ \A k \in 1 .. Len(path.comps) : T[k] = After(T[k - 1], path.comps[k])
      BY <2>3, <2>4, <2>5
    <3>2. LET r == vfs_lookup(path, 0)
              last == Len(path.comps)
          IN IF Passes(T, last) /\ Spelled(T[last]) # {}
             THEN r.err = "OK" /\ Spelled(T[last]) = {r.node}
             ELSE r.err \in {"ENOENT", "ENOTDIR"}
      BY <3>1, LookupSpells
    <3> QED
      BY <2>3, <2>5, <3>2
  <2>7. vfs_lookup(path, 0).node = c
    BY <2>5, <2>6
  <2> QED
    BY <2>1, <2>7 DEF path, p
<1>3. ASSUME NEW c \in Shown, NEW path \in Paths
      PROVE  LET T == Text(path, vfs_path(c))
                 last == Len(path.comps)
                 r == vfs_lookup(path, c)
             IN IF Spelled(T[last]) # {} /\ \A k \in 0 .. last - 1 : \E n \in Spelled(T[k]) : IsDir(n)
                THEN r.err = "OK" /\ Spelled(T[last]) = {r.node}
                ELSE r.err \in {"ENOENT", "ENOTDIR"}
  <2> DEFINE T == Text(path, vfs_path(c))
  <2>1. Len(path.comps) \in Nat
    BY FilesAssumption, SequenceIsSeq
  <2>2. /\ T[0] = IF path.abs THEN <<>> ELSE vfs_path(c)
        /\ \A k \in 1 .. Len(path.comps) : T[k] = After(T[k - 1], path.comps[k])
    BY <2>1, TextIs
  <2> HIDE DEF T
  <2>3. LET r == vfs_lookup(path, c)
            last == Len(path.comps)
        IN IF Passes(T, last) /\ Spelled(T[last]) # {}
           THEN r.err = "OK" /\ Spelled(T[last]) = {r.node}
           ELSE r.err \in {"ENOENT", "ENOTDIR"}
    BY <2>1, <2>2, LookupSpells
  <2> QED
    BY <2>3 DEF Passes, T
<1>4. DOMAIN name = Shown /\ \A c \in Shown : name[c] = vfs_path(c)
  OBVIOUS
<1> HIDE DEF name
<1>5. ASSUME NEW c \in DOMAIN name, NEW path \in Paths
      PROVE  Leads(c, path)
  <2>1. c \in Shown /\ name[c] = vfs_path(c)
    BY <1>4
  <2> HIDE DEF At
  <2> QED
    BY <1>1, <1>3, <2>1
<1>6. ASSUME NEW c \in DOMAIN name
      PROVE  At(name[c]) = {c} /\ vfs_lookup(Absolute(name[c]), 0).node = c
  <2> HIDE DEF At
  <2> QED
    BY <1>1, <1>2, <1>4
<1> QED
  BY <1>5, <1>6, Zenon DEF PathsNameNodes, name

-----------------------------------------------------------------------------
(* The tree grows *)

(* What a walk reports missing is a name that its directory lacks. *)
LEMMA MissingIs ==
  ASSUME NEW path, NEW dir, NEW exclusive, Len(path.comps) \in Nat,
         Walk(path, dir, exclusive).err = "MISSING"
  PROVE  LET last == Len(path.comps)
         IN last >= 1 /\ lookup(Walk(path, dir, exclusive).node, path.comps[last]).err = "ENOENT"
<1> DEFINE last == Len(path.comps)
<1>0. last \in Nat
  OBVIOUS
<1>1. PICK W : /\ W[0] = Start(path, dir)
               /\ \A k \in 1 .. last : W[k] = Onward(W[k - 1], path, k, exclusive)
               /\ Walk(path, dir, exclusive) = W[last]
  BY WalkIs
<1> HIDE DEF last
<1> DEFINE T == {k \in 0 .. last : W[k].err = "MISSING"}
<1>2. last \in T /\ T \in SUBSET Nat
  BY <1>0, <1>1
<1>3. PICK k \in T : \A l \in T : k <= l
  <2> HIDE DEF T
  <2> QED
    BY <1>2, Least
<1>4. k # 0
  <2>1. Start(path, dir).err # "MISSING"
    BY DEF Start, Failed, Found
  <2> QED
    BY <1>1, <1>3, <2>1
<1>5. k \in 1 .. last /\ k - 1 \in 0 .. last /\ ~(k <= k - 1) /\ W[k].err = "MISSING"
  BY <1>0, <1>3, <1>4
<1>6. W[k - 1].err # "MISSING"
  BY <1>3, <1>5
<1> DEFINE at == W[k - 1]
<1>7. W[k] = Onward(at, path, k, exclusive) /\ at.err # "MISSING" /\ W[k].err = "MISSING"
  BY <1>1, <1>5, <1>6
<1> HIDE DEF at
<1>8. Step(at.node, path.comps[k], exclusive).err # "MISSING"
  BY DEF Step, lookup, Failed, Found
<1>9. at.err = "OK" /\ k = last /\ lookup(at.node, path.comps[k]).err = "ENOENT" /\ W[k].node = at.node
  BY <1>7, <1>8 DEF Onward, last
<1> QED
  BY <1>0, <1>1, <1>5, <1>9 DEF last

(* What make makes is such a node. *)
LEMMA MakeGrows ==
  ASSUME Form, Kinds(nodes, mounts), NEW n \in DOMAIN nodes, NEW name, name \notin {NULL, ".", ".."},
         NEW type, make(n, name, type).err = "OK"
  PROVE  Makes(make(n, name, type).nodes, type) /\ Made(make(n, name, type), type)
BY MakeIs DEF Makes, Made

(* Made by a lookup, by a call of open. *)
LEMMA LookupGrows ==
  ASSUME Form, Kinds(nodes, mounts), NEW path \in Paths, NEW dir \in DOMAIN nodes \cup {0},
         NEW create, NEW exclusive
  PROVE  LET r == vfs_lookup_ext(path, dir, create, exclusive)
         IN \/ r.err # "OK" /\ r.nodes = nodes
            \/ r.err = "OK" /\ r.nodes = nodes /\ r.node \in DOMAIN nodes
            \/ create # "NONE" /\ Makes(r.nodes, create) /\ Made(r, create)
<1> DEFINE w == Walk(path, dir, exclusive)
           last == Len(path.comps)
           name == path.comps[last]
           r == vfs_lookup_ext(path, dir, create, exclusive)
<1>1. last \in Nat /\ DOMAIN path.comps = 1 .. last
  BY FilesAssumption, SequenceIsSeq
<1>2. w.err \in {"OK", "MISSING"} => w.node \in DOMAIN nodes
  BY <1>1, WalkFinds
<1>3. CASE w.err # "MISSING" \/ create = "NONE"
  BY <1>2, <1>3 DEF vfs_lookup_ext
<1>4. CASE w.err = "MISSING" /\ create # "NONE"
  <2>1. r = make(w.node, name, create)
    BY <1>4 DEF vfs_lookup_ext
  <2>2. last >= 1 /\ lookup(w.node, name).err = "ENOENT"
    BY <1>1, <1>4, MissingIs
  <2>3. name # NULL
    BY <1>1, <2>2, NameAssumption
  <2> HIDE DEF w, r, name, last
  <2>4. name \notin {".", ".."}
    BY <2>2 DEF lookup, Failed, Found
  <2> DEFINE n == w.node
  <2>5. n \in DOMAIN nodes /\ r = make(n, name, create) /\ name \notin {NULL, ".", ".."}
    BY <1>2, <1>4, <2>1, <2>3, <2>4
  <2> HIDE DEF n
  <2>6. (r.err # "OK" /\ r.nodes = nodes) \/ r.err = "OK"
    BY <2>5, MakeIs
  <2> QED
    BY <1>4, <2>5, <2>6, MakeGrows DEF r
<1> QED
  BY <1>3, <1>4

(* The names a file system comes with. *)
TreeOf(new) ==
  /\ new[1].parent = 0 /\ new[1].name = NULL
  /\ \A j \in 2 .. Len(new) :
       /\ new[j].parent \in 1 .. Len(new) /\ new[new[j].parent].type = "DIR"
       /\ new[j].name \notin {NULL, ".", ".."}
  /\ \A i, j \in 2 .. Len(new) :
       new[i].parent = new[j].parent /\ new[i].name = new[j].name => i = j

(* All file systems come with such names. *)
LEMMA FreshNamed ==
  ASSUME NEW ops \in {"rdsk", "tmpfs", "stdio"}
  PROVE  TreeOf(Fresh(ops))
<1>1. CASE ops = "rdsk"
  <2>1. Len(Disk) \in Nat
    BY BootAssumption DEF IsSequence
  <2>2. Disk[1].parent = 0 /\ Disk[1].name = NULL
    BY BootAssumption
  <2>3. \A j \in 2 .. Len(Disk) :
          /\ Disk[j].parent \in 1 .. j - 1 /\ Disk[Disk[j].parent].type = "DIR"
          /\ Disk[j].name \notin {NULL, ".", ".."}
    BY BootAssumption, NameAssumption
  <2>4. \A i, j \in 2 .. Len(Disk) :
          Disk[i].parent = Disk[j].parent /\ Disk[i].name = Disk[j].name => i = j
    BY BootAssumption
  <2>5. \A j \in 2 .. Len(Disk) : Disk[j].parent \in 1 .. Len(Disk)
    BY <2>1, <2>3
  <2> QED
    BY <1>1, <2>2, <2>3, <2>4, <2>5, FreshIs DEF TreeOf
<1>2. CASE ops = "tmpfs"
  <2>1. TreeOf(<<Root>>)
    BY DEF TreeOf, Root
  <2> QED
    BY <1>2, <2>1, FreshIs
<1>3. CASE ops = "stdio"
  <2> DEFINE f == <<Root, Stream("stdin"), Stream("stdout"), Stream("stderr")>>
  <2>1. /\ Len(f) = 4
        /\ f[1].parent = 0 /\ f[1].name = NULL /\ f[1].type = "DIR"
        /\ f[2].parent = 1 /\ f[2].name = "stdin"
        /\ f[3].parent = 1 /\ f[3].name = "stdout"
        /\ f[4].parent = 1 /\ f[4].name = "stderr"
    BY DEF Root, Stream
  <2> HIDE DEF f
  <2>2. \A j \in 2 .. 4 : j = 2 \/ j = 3 \/ j = 4
    OBVIOUS
  <2>3. "stdin" # NULL /\ "stdout" # NULL /\ "stderr" # NULL
    BY NameAssumption
  <2>4. \A j \in 2 .. 4 : f[j].parent = 1 /\ f[j].name \notin {NULL, ".", ".."}
    BY <2>1, <2>2, <2>3
  <2>5. \A i, j \in 2 .. 4 : f[i].name = f[j].name => i = j
    BY <2>1, <2>2
  <2>6. TreeOf(f)
    BY <2>1, <2>4, <2>5 DEF TreeOf
  <2> QED
    BY <1>3, <2>6, FreshIs DEF f
<1> QED
  BY <1>1, <1>2, <1>3

(* A file system more: mounted on a node in the root of another that       *)
(* nothing is mounted on, or the first.                                    *)
LEMMA TreeMounted ==
  ASSUME Form, Tree(nodes, mounts), NEW ops \in {"rdsk", "tmpfs", "stdio"}, NEW p, Adds(ops, p),
         mounts' \in Seq(Mount), ~Covered(p),
         \/ p = 0 /\ mounts = <<>>
         \/ /\ mounts # <<>> /\ p \in DOMAIN nodes
            /\ \E l \in DOMAIN mounts : nodes[p].parent = mounts[l].root
  PROVE  Tree(nodes', mounts')
<1> DEFINE N == Len(nodes)
           M == Len(mounts)
           new == Fresh(ops)
<1>1. /\ N \in Nat /\ DOMAIN nodes = 1 .. N /\ M \in Nat /\ DOMAIN mounts = 1 .. M
      /\ \A i \in DOMAIN nodes : nodes[i].parent \in 0 .. i - 1
  BY SequenceIsSeq DEF Form, WellFormed
<1>2. /\ Len(mounts') = M + 1
      /\ \A m \in DOMAIN mounts : mounts'[m] = mounts[m]
      /\ mounts'[M + 1] = [ops |-> ops, mount_node |-> p, root |-> N + 1]
      /\ DOMAIN nodes' = 1 .. N + Len(new)
      /\ \A i \in DOMAIN nodes : nodes'[i] = nodes[i]
      /\ \A j \in 1 .. Len(new) :
           /\ nodes'[N + j].fs = M + 1 /\ nodes'[N + j].name = new[j].name
           /\ nodes'[N + j].type = new[j].type
           /\ nodes'[N + j].parent = IF new[j].parent = 0 THEN 0 ELSE N + new[j].parent
  <2>1. /\ Len(mounts') = M + 1
        /\ \A m \in DOMAIN mounts : mounts'[m] = mounts[m]
        /\ mounts'[M + 1] = [ops |-> ops, mount_node |-> p, root |-> N + 1]
        /\ DOMAIN nodes' = 1 .. N + Len(new)
        /\ \A i \in DOMAIN nodes : nodes'[i] = nodes[i]
        /\ \A j \in 1 .. Len(new) :
             nodes'[N + j] =
               [fs |-> M + 1, name |-> new[j].name, type |-> new[j].type, data |-> new[j].data,
                parent |-> IF new[j].parent = 0 THEN 0 ELSE N + new[j].parent]
    BY Zenon DEF Adds
  <2> HIDE DEF N, M, new
  <2>2. ASSUME NEW j \in 1 .. Len(new)
        PROVE  /\ nodes'[N + j].fs = M + 1 /\ nodes'[N + j].name = new[j].name
               /\ nodes'[N + j].type = new[j].type
               /\ nodes'[N + j].parent = IF new[j].parent = 0 THEN 0 ELSE N + new[j].parent
    <3> DEFINE e == nodes'[N + j]
               f == new[j]
               up == IF new[j].parent = 0 THEN 0 ELSE N + new[j].parent
    <3>1. e = [fs |-> M + 1, name |-> f.name, type |-> f.type, data |-> f.data, parent |-> up]
      BY <2>1, Zenon
    <3> HIDE DEF e, f, up
    <3>2. e.fs = M + 1 /\ e.name = f.name /\ e.type = f.type /\ e.parent = up
      BY <3>1
    <3> QED
      BY <3>2, Zenon DEF e, f, up
  <2> QED
    BY <2>1, <2>2
<1>3. DOMAIN mounts' = 1 .. M + 1 /\ mounts'[M + 1].mount_node = p /\ mounts'[M + 1].root = N + 1
  BY <1>2
<1>4. Len(new) \in Nat /\ Len(new) >= 1 /\ TreeOf(new)
  BY FreshKinds, FreshNamed, SequenceIsSeq
<1> HIDE DEF N, M, new
<1>5. \A i \in DOMAIN nodes' : i \in DOMAIN nodes \/ \E j \in 1 .. Len(new) : i = N + j
  <2> SUFFICES ASSUME NEW i \in DOMAIN nodes', i \notin DOMAIN nodes
               PROVE  \E j \in 1 .. Len(new) : i = N + j
    OBVIOUS
  <2>1. i \in 1 .. N + Len(new) /\ ~(i \in 1 .. N)
    BY <1>1, <1>2
  <2>2. i - N \in 1 .. Len(new) /\ i = N + (i - N)
    BY <1>1, <1>4, <2>1
  <2> QED
    BY <2>2
<1>6. \A j \in 1 .. Len(new) : /\ N + j \in DOMAIN nodes' /\ N + j \notin DOMAIN nodes /\ N + j \in Nat
                               /\ N + j # 0 /\ \A i \in DOMAIN nodes : nodes[i].parent # N + j
  BY <1>1, <1>2, <1>4
<1>7. /\ nodes'[N + 1].parent = 0 /\ nodes'[N + 1].name = NULL /\ nodes'[N + 1].fs = M + 1
      /\ N + 1 \in DOMAIN nodes' /\ N + 1 \notin DOMAIN nodes
  <2>1. 1 \in 1 .. Len(new)
    BY <1>4
  <2> QED
    BY <1>2, <1>4, <1>6, <2>1 DEF TreeOf
<1>8. ASSUME NEW j \in 1 .. Len(new), j # 1
      PROVE  /\ nodes'[N + j].parent = N + new[j].parent /\ nodes'[N + j].parent # 0
             /\ new[j].parent \in 1 .. Len(new)
             /\ nodes'[N + j].parent \in DOMAIN nodes'
             /\ nodes'[nodes'[N + j].parent].type = "DIR"
             /\ nodes'[N + j].name \notin {NULL, ".", ".."}
  <2>1. j \in 2 .. Len(new)
    BY <1>4, <1>8
  <2>2. /\ new[j].parent \in 1 .. Len(new) /\ new[new[j].parent].type = "DIR"
        /\ new[j].name \notin {NULL, ".", ".."}
    BY <1>4, <2>1 DEF TreeOf
  <2>3. nodes'[N + j].parent = N + new[j].parent
    <3>1. new[j].parent # 0
      BY <1>4, <2>2
    <3> QED
      BY <1>2, <3>1
  <2> QED
    BY <1>2, <1>6, <2>2, <2>3
<1>9. NodesNamed(nodes', mounts')
  <2>1. ASSUME NEW i \in DOMAIN nodes
        PROVE  /\ nodes'[i].fs \in DOMAIN mounts'
               /\ IF nodes'[i].parent = 0 THEN i = mounts'[nodes'[i].fs].root
                  ELSE /\ nodes'[i].parent \in DOMAIN nodes' /\ nodes'[nodes'[i].parent].type = "DIR"
                       /\ nodes'[i].name \notin {NULL, ".", ".."}
    <3>1. DOMAIN mounts \subseteq DOMAIN mounts' /\ DOMAIN nodes \subseteq DOMAIN nodes'
      BY <1>1, <1>2, <1>3, <1>4
    <3> QED
      BY <1>2, <3>1 DEF Tree, NodesNamed
  <2>2. ASSUME NEW j \in 1 .. Len(new)
        PROVE  /\ nodes'[N + j].fs \in DOMAIN mounts'
               /\ IF nodes'[N + j].parent = 0 THEN N + j = mounts'[nodes'[N + j].fs].root
                  ELSE /\ nodes'[N + j].parent \in DOMAIN nodes'
                       /\ nodes'[nodes'[N + j].parent].type = "DIR"
                       /\ nodes'[N + j].name \notin {NULL, ".", ".."}
    <3>1. nodes'[N + j].fs = M + 1 /\ M + 1 \in DOMAIN mounts'
      BY <1>1, <1>2, <1>3
    <3>2. CASE j = 1
      BY <1>3, <1>7, <3>1, <3>2
    <3>3. CASE j # 1
      BY <1>8, <3>1, <3>3
    <3> QED
      BY <3>2, <3>3
  <2> QED
    BY <1>5, <2>1, <2>2 DEF NodesNamed
<1>10. NamesUnique(nodes')
  <2>1. ASSUME NEW j \in 1 .. Len(new), NEW i \in DOMAIN nodes, nodes'[N + j].parent # 0
        PROVE  nodes'[i].parent # nodes'[N + j].parent
    <3>1. j # 1
      BY <1>7, <2>1
    <3> QED
      BY <1>2, <1>6, <1>8, <3>1
  <2>2. ASSUME NEW i \in 1 .. Len(new), NEW j \in 1 .. Len(new), nodes'[N + i].parent # 0,
               nodes'[N + i].parent = nodes'[N + j].parent, nodes'[N + i].name = nodes'[N + j].name
        PROVE  i = j
    <3>1. i # 1 /\ j # 1
      BY <1>7, <2>2
    <3>2. i \in 2 .. Len(new) /\ j \in 2 .. Len(new)
      BY <1>4, <3>1
    <3>3. new[i].parent = new[j].parent
      BY <1>1, <1>4, <1>8, <2>2, <3>1
    <3>4. new[i].name = new[j].name
      BY <1>2, <2>2
    <3> QED
      BY <1>4, <3>2, <3>3, <3>4 DEF TreeOf
  <2>3. \A i, j \in DOMAIN nodes :
          nodes'[i].parent # 0 /\ nodes'[i].parent = nodes'[j].parent /\ nodes'[i].name = nodes'[j].name => i = j
    BY <1>2 DEF Tree, NamesUnique
  <2> QED
    BY <1>5, <2>1, <2>2, <2>3 DEF NamesUnique
<1>11. ASSUME NEW m \in DOMAIN mounts' PROVE RootOf(m, nodes', mounts')
  <2>1. CASE m \in DOMAIN mounts
    <3>1. RootOf(m, nodes, mounts) /\ \A l \in 1 .. m - 1 : l \in DOMAIN mounts
      BY <1>1, <2>1 DEF Tree
    <3>2. DOMAIN nodes \subseteq DOMAIN nodes'
      BY <1>1, <1>2, <1>4
    <3> QED
      BY <1>2, <2>1, <3>1, <3>2 DEF RootOf
  <2>2. CASE m = M + 1
    <3>1. CASE mounts = <<>>
      <4>1. M = 0 /\ p = 0
        BY <3>1 DEF M
      <4>2. m = 1
        BY <2>2, <4>1
      <4> QED
        BY <1>3, <1>7, <2>2, <4>1, <4>2 DEF RootOf
    <3>2. CASE mounts # <<>>
      <4>1. M # 0
        BY <3>2 DEF M, Form
      <4>2. PICK l \in DOMAIN mounts : nodes[p].parent = mounts[l].root
        BY <3>2
      <4>3. p \in DOMAIN nodes /\ p \in DOMAIN nodes' /\ p < N + 1
        BY <1>1, <1>2, <1>4, <3>2
      <4>4. l \in 1 .. m - 1 /\ nodes'[p].parent = mounts'[l].root /\ m # 1
        BY <1>1, <1>2, <2>2, <4>1, <4>2, <4>3
      <4> QED
        BY <1>3, <1>7, <2>2, <4>3, <4>4 DEF RootOf
    <3> QED
      BY <3>1, <3>2
  <2> QED
    BY <1>1, <1>3, <2>1, <2>2
<1>12. MountsApart(mounts')
  <2>1. \A m \in DOMAIN mounts' : m \in DOMAIN mounts \/ m = M + 1
    BY <1>1, <1>3
  <2>2. \A m \in DOMAIN mounts : mounts[m].mount_node # p
    BY DEF Covered
  <2> QED
    BY <1>2, <1>3, <2>1, <2>2 DEF Tree, MountsApart
<1> QED
  BY <1>9, <1>10, <1>11, <1>12 DEF Tree

(* vfs_mount, vfs_mkdir and the modules of init.c leave a tree, *)
LEMMA MountTree ==
  ASSUME IInv, Tree(nodes, mounts), vfs_mount, ~halted'
  PROVE  Tree(nodes', mounts')
<1>1. Form /\ Kinds(nodes, mounts)
  BY DEF IInv, vfs_mount, Booting
<1>2. PICK k \in {0, 1, 2, 4} :
        /\ Layout(k)
        /\ Head(boot).ops = IF k = 0 THEN "rdsk" ELSE IF k = 4 THEN "stdio" ELSE "tmpfs"
        /\ mounts = <<>> <=> k = 0
        /\ mounts # <<>> => Len(Head(boot).path.comps) \in Nat
        /\ k = 0 => Point = 0
        /\ k = 1 => Point \in Named(1, "modules")
        /\ k = 2 => Point \in Named(1, "tmp")
        /\ k = 4 => Point = D + 3
  BY PointIs
<1> DEFINE ops == Head(boot).ops
           p == Point
<1>3. ops \in {"rdsk", "tmpfs", "stdio"}
  BY <1>2
<1>4. Adds(ops, p) /\ mounts' \in Seq(Mount)
  BY <1>2, <1>3, MountSucceeds
<1>5. ~Covered(p)
  <2>1. CASE mounts = <<>>
    BY <2>1 DEF Covered
  <2>2. CASE mounts # <<>>
    <3>1. mount_error(Head(boot).path) = "OK"
      BY DEF vfs_mount
    <3>2. p = vfs_lookup(Head(boot).path, 0).node
      BY <2>2 DEF Point
    <3> QED
      BY <2>2, <3>1, <3>2 DEF mount_error
  <2> QED
    BY <2>1, <2>2
<1>6. \/ p = 0 /\ mounts = <<>>
      \/ /\ mounts # <<>> /\ p \in DOMAIN nodes
         /\ \E l \in DOMAIN mounts : nodes[p].parent = mounts[l].root
  <2>1. CASE k = 0
    BY <1>2, <2>1
  <2>2. CASE k = 1 \/ k = 2
    <3>1. k \in Nat /\ k >= 1
      BY <2>2
    <3>2. p \in DOMAIN nodes /\ nodes[p].parent = 1
      BY <1>2, <2>2 DEF Named
    <3>3. mounts # <<>> /\ mounts[1].root = 1
      BY <1>1, <1>2, <3>1, Points
    <3>4. 1 \in DOMAIN mounts
      BY <1>1, <3>3 DEF Form
    <3> QED
      BY <3>2, <3>3, <3>4
  <2>3. CASE k = 4
    <3>1. p \in Named(D + 2, "stdio") /\ mounts[3].root = D + 2 /\ Len(mounts) = 3
      BY <1>2, <2>3 DEF Layout
    <3>2. 3 \in DOMAIN mounts /\ mounts # <<>>
      BY <1>1, <1>2, <2>3, <3>1 DEF Form
    <3> QED
      BY <3>1, <3>2 DEF Named
  <2> QED
    BY <1>2, <2>1, <2>2, <2>3
<1> HIDE DEF p, ops
<1> QED
  BY <1>1, <1>3, <1>4, <1>5, <1>6, TreeMounted

(* A node made, and what it holds set. *)
LEMMA FilledTree ==
  ASSUME Form, Kinds(nodes, mounts), Tree(nodes, mounts), NEW r, NEW type \in {"FILE", "DIR"},
         Makes(r.nodes, type), Made(r, type), NEW bytes
  PROVE  Tree(r.nodes, mounts) /\ Tree([r.nodes EXCEPT ![r.node].data = bytes], mounts)
<1> DEFINE ns == r.nodes
           n == r.node
           after == [ns EXCEPT ![n].data = bytes]
<1>1. Tree(ns, mounts)
  BY TreeGrows
<1>2. WellFormed(ns, Len(mounts)) /\ DOMAIN ns = DOMAIN nodes \cup {n}
  BY MadeKeeps
<1>3. n \in DOMAIN ns /\ IsNode(ns[n])
  BY <1>2 DEF WellFormed
<1>4. Rewrites(after, ns, n, bytes)
  BY DEF Rewrites
<1> HIDE DEF after, ns, n
<1>5. Alike(ns, after)
  BY <1>3, <1>4, RewrittenAlike
<1>6. Tree(after, mounts)
  BY <1>1, <1>5, TreeAlike
<1> QED
  BY <1>1, <1>6 DEF after, ns, n

(* The directory in which init.c makes a node is there. *)
LEMMA DirectoryIs ==
  ASSUME Form, Kinds(nodes, mounts), NEW name, vfs_lookup(Absolute(<<name>>), 0).err = "OK"
  PROVE  vfs_lookup(Absolute(<<name>>), 0).node \in DOMAIN nodes
<1> DEFINE path == Absolute(<<name>>)
           l == vfs_lookup(path, 0)
           none == "NONE"
           no == FALSE
<1>1. 0 \in DOMAIN nodes \cup {0} /\ Len(path.comps) \in Nat
  BY DEF Absolute
<1>2. l = vfs_lookup_ext(path, 0, none, no) /\ none = "NONE"
  BY DEF vfs_lookup
<1> HIDE DEF path, l, none, no
<1>3. l.err # "OK" \/ l.node \in DOMAIN nodes \/ none # "NONE"
  BY <1>1, <1>2, LookupExtIs
<1> QED
  BY <1>2, <1>3 DEF path, l

LEMMA MkdirTree ==
  ASSUME IInv, Tree(nodes, mounts), vfs_mkdir, ~halted'
  PROVE  Tree(nodes', mounts')
<1>1. Form /\ Kinds(nodes, mounts)
  BY DEF IInv, vfs_mkdir, Booting
<1> DEFINE name == "stdio"
           type == "DIR"
           path == Absolute(<<"tmp">>)
           l == vfs_lookup(path, 0)
           n == l.node
           r == make_at(path, name, type)
<1>2. nodes' = r.nodes /\ r.err = "OK" /\ mounts' = mounts
  BY DEF vfs_mkdir
<1>3. l.err = "OK" /\ r = make(n, name, type)
  BY <1>2 DEF make_at
<1>4. n \in DOMAIN nodes
  BY <1>1, <1>3, DirectoryIs
<1>5. name \notin {NULL, ".", ".."} /\ type \in {"FILE", "DIR"}
  BY NameAssumption
<1> HIDE DEF name, type, path, l, n, r
<1>6. Makes(r.nodes, type) /\ Made(r, type)
  BY <1>1, <1>2, <1>3, <1>4, <1>5, MakeGrows
<1> QED
  BY <1>1, <1>2, <1>5, <1>6, FilledTree

LEMMA ModuleTree ==
  ASSUME IInv, Tree(nodes, mounts), CreateModule
  PROVE  Tree(nodes', mounts')
<1>1. Form /\ Kinds(nodes, mounts) /\ Booted /\ boot # <<>> /\ Head(boot).call = "module"
  BY DEF IInv, CreateModule, Booting
<1> DEFINE name == Head(boot).name
           type == "FILE"
           bytes == Written(<<>>, 0, Head(boot).data)
           path == Absolute(<<"modules">>)
           l == vfs_lookup(path, 0)
           n == l.node
           r == make_at(path, name, type)
<1>2. /\ nodes' = IF r.err # "OK" THEN nodes ELSE [r.nodes EXCEPT ![r.node].data = bytes]
      /\ mounts' = mounts
  BY DEF CreateModule
<1>3. CASE r.err # "OK"
  BY <1>2, <1>3
<1>4. CASE r.err = "OK"
  <2>1. l.err = "OK" /\ r = make(n, name, type)
    BY <1>4 DEF make_at
  <2>2. n \in DOMAIN nodes
    BY <1>1, <2>1, DirectoryIs
  <2>3. name \notin {NULL, ".", ".."} /\ type \in {"FILE", "DIR"}
    <3>1. PICK k \in 0 .. Len(BootCalls) - 1 :
            Head(boot) = BootCalls[k + 1] /\ k >= 5 /\ k <= 4 + Len(Modules)
      BY <1>1, StageOf
    <3>2. k + 1 \in 6 .. 5 + Len(Modules) /\ k - 4 \in 1 .. Len(Modules) /\ (k + 1) - 5 = k - 4
      BY <3>1, BootCallsAre
    <3>3. name = Modules[k - 4].name
      BY <3>1, <3>2, BootCallsAre
    <3>4. k - 4 \in DOMAIN Modules
      BY <3>2, BootAssumption, SequenceIsSeq
    <3> DEFINE i == k - 4
    <3> HIDE DEF i
    <3>5. Modules[i].name \notin {NULL, ".", ".."}
      BY <3>4, NameAssumption DEF i
    <3> QED
      BY <3>3, <3>5 DEF i
  <2> HIDE DEF name, type, path, l, n, r, bytes
  <2>4. Makes(r.nodes, type) /\ Made(r, type)
    BY <1>1, <1>4, <2>1, <2>2, <2>3, MakeGrows
  <2>5. Tree([r.nodes EXCEPT ![r.node].data = bytes], mounts)
    BY <1>1, <2>3, <2>4, FilledTree
  <2> QED
    BY <1>2, <1>4, <2>5
<1> QED
  BY <1>3, <1>4

(* and so do open and write. *)
LEMMA OpenTree ==
  ASSUME Form, Kinds(nodes, mounts), mounts # <<>>, Tree(nodes, mounts),
         NEW d, NEW path \in Paths \cup {NULL}, NEW flags, NEW mode,
         syscall_fs_open(d, path, flags, mode)
  PROVE  Tree(nodes', mounts)
<1>1. CASE OpenRefused(d, path, flags, mode) # "OK"
  BY <1>1 DEF syscall_fs_open
<1>2. CASE OpenRefused(d, path, flags, mode) = "OK"
  <2> DEFINE create == IF "CREAT" \in flags THEN "FILE" ELSE "NONE"
             excl == "EXCL" \in flags
             dir == Directory(d)
             r == vfs_lookup_ext(path, dir, create, excl)
  <2>1. nodes' = r.nodes \/ (r.err = "OK" /\ nodes' = [r.nodes EXCEPT ![r.node].data = <<>>])
    BY <1>2 DEF syscall_fs_open
  <2>2. path \in Paths /\ (d # AT_FDCWD => Open(d))
    BY <1>2 DEF OpenRefused
  <2>3. create \in {"FILE", "NONE"} /\ dir \in DOMAIN nodes \cup {0}
    BY <2>2, DirectoryFinds
  <2> HIDE DEF create, excl, dir
  <2>4. \/ r.err # "OK" /\ r.nodes = nodes
        \/ r.err = "OK" /\ r.nodes = nodes /\ r.node \in DOMAIN nodes
        \/ create # "NONE" /\ Makes(r.nodes, create) /\ Made(r, create)
    BY <2>2, <2>3, LookupGrows
  <2> HIDE DEF r
  <2>5. CASE create # "NONE" /\ Makes(r.nodes, create) /\ Made(r, create)
    <3>1. create \in {"FILE", "DIR"}
      BY <2>3, <2>5
    <3> DEFINE none == <<>>
               after == [r.nodes EXCEPT ![r.node].data = none]
    <3>2. nodes' = r.nodes \/ nodes' = after
      BY <2>1
    <3> HIDE DEF none
    <3>3. Tree(r.nodes, mounts) /\ Tree(after, mounts)
      BY <2>5, <3>1, FilledTree
    <3> QED
      BY <3>2, <3>3
  <2>6. CASE r.err = "OK" /\ r.nodes = nodes /\ r.node \in DOMAIN nodes
    <3> DEFINE n == r.node
               after == [nodes EXCEPT ![n].data = <<>>]
               none == <<>>
    <3>1. IsNode(nodes[n]) /\ n \in DOMAIN nodes
      BY <2>6 DEF Form, WellFormed
    <3>2. Rewrites(after, nodes, n, none)
      BY DEF Rewrites
    <3>3. nodes' = nodes \/ nodes' = after
      BY <2>1, <2>6
    <3> HIDE DEF n, after, none
    <3>4. Tree(after, mounts)
      BY <3>1, <3>2, RewrittenAlike, TreeAlike
    <3> QED
      BY <3>3, <3>4
  <2>7. CASE r.err # "OK" /\ r.nodes = nodes
    BY <2>1, <2>7
  <2> QED
    BY <2>4, <2>5, <2>6, <2>7
<1> QED
  BY <1>1, <1>2

LEMMA WriteTree ==
  ASSUME Form, Kinds(nodes, mounts), Tree(nodes, mounts), NEW id, NEW bytes \in {NULL} \cup Seq(Byte),
         syscall_fs_write(id, bytes)
  PROVE  Tree(nodes', mounts)
<1> DEFINE n == table[id].node
           now == Written(nodes[n].data, table[id].offset, buffer')
<1>1. \/ nodes' = nodes
      \/ Open(id) /\ Rewrites(nodes', nodes, n, now)
  BY WriteIs
<1>2. CASE Open(id) /\ Rewrites(nodes', nodes, n, now)
  <2>1. n \in DOMAIN nodes /\ IsNode(nodes[n])
    BY <1>2, OpenedIs DEF Form, WellFormed
  <2> HIDE DEF n, now
  <2> DEFINE after == nodes'
  <2>2. Rewrites(after, nodes, n, now)
    BY <1>2
  <2> HIDE DEF after
  <2>3. Tree(after, mounts)
    BY <2>1, <2>2, RewrittenAlike, TreeAlike
  <2> QED
    BY <2>3 DEF after
<1> QED
  BY <1>1, <1>2

(* While the kernel runs, what is mounted is one tree. *)
TreeInv == ~halted => Tree(nodes, mounts)

(* Every step keeps it. *)
LEMMA TreeStep ==
  IInv /\ TreeInv /\ [Next]_vars => TreeInv'
<1> SUFFICES ASSUME IInv, TreeInv, [Next]_vars, ~halted'
             PROVE  Tree(nodes', mounts')
  BY DEF TreeInv
<1>1. CASE UNCHANGED <<nodes, mounts, halted>>
  BY <1>1 DEF TreeInv
<1>2. CASE Boot
  <2>1. Tree(nodes, mounts)
    BY <1>2 DEF TreeInv, Boot, vfs_mount, vfs_mkdir, CreateModule, StartInit, Booting
  <2>2. CASE StartInit
    BY <2>1, <2>2 DEF StartInit
  <2> QED
    BY <1>2, <2>1, <2>2, MountTree, MkdirTree, ModuleTree DEF Boot
<1>3. ASSUME Calls
      PROVE  Form /\ Kinds(nodes, mounts) /\ mounts # <<>> /\ Tree(nodes, mounts)
  <2>1. ~halted /\ boot = <<>> /\ Booted
    BY <1>3 DEF Calls, IInv
  <2> QED
    BY <2>1, BootOver DEF IInv, TreeInv
<1>4. CASE \E o \in Opens : syscall_fs_open(o.dir, o.path, o.flags, o.mode)
  <2>1. PICK o \in Opens : syscall_fs_open(o.dir, o.path, o.flags, o.mode)
    BY <1>4
  <2> DEFINE d == o.dir
             path == o.path
             flags == o.flags
             mode == o.mode
  <2>2. path \in Paths \cup {NULL} /\ syscall_fs_open(d, path, flags, mode)
    BY <2>1, FilesAssumption
  <2> HIDE DEF d, path, flags, mode
  <2>3. Calls /\ mounts' = mounts
    BY <2>2 DEF syscall_fs_open
  <2>4. Tree(nodes', mounts)
    BY <1>3, <2>2, <2>3, OpenTree
  <2> QED
    BY <2>3, <2>4
<1>5. CASE \E at \in {<<o.dir, o.path>> : o \in Opens}, flags \in {{}, {"EMPTY_PATH"}} :
             syscall_fs_stat(at[1], at[2], flags)
  BY <1>1, <1>5 DEF syscall_fs_stat
<1>6. CASE \E id \in Ids : syscall_fs_close(id)
  BY <1>1, <1>6 DEF syscall_fs_close
<1>7. ASSUME NEW id, NEW count, syscall_fs_read(id, count)
      PROVE  Tree(nodes', mounts')
  <2>1. Calls /\ nodes' = nodes /\ mounts' = mounts
    BY <1>7 DEF syscall_fs_read, Panic
  <2> QED
    BY <1>3, <2>1
<1>8. ASSUME NEW id, NEW bytes \in {NULL} \cup Seq(Byte), syscall_fs_write(id, bytes)
      PROVE  Tree(nodes', mounts')
  <2>1. Calls /\ mounts' = mounts
    BY <1>8 DEF syscall_fs_write
  <2>2. Tree(nodes', mounts)
    BY <1>3, <1>8, <2>1, WriteTree
  <2> QED
    BY <2>1, <2>2
<1>9. ASSUME NEW id, NEW offset, NEW whence, syscall_fs_seek(id, offset, whence)
      PROVE  Tree(nodes', mounts')
  <2>1. Calls /\ nodes' = nodes /\ mounts' = mounts
    BY <1>9 DEF syscall_fs_seek, Panic
  <2> QED
    BY <1>3, <2>1
<1>10. CASE \E id \in Ids \cup {COUNT} :
              \/ \E count \in 0 .. HEAP : syscall_fs_read(id, count)
              \/ \E bytes \in {NULL} \cup UNION {[1 .. n -> Byte] : n \in 0 .. HEAP} :
                   syscall_fs_write(id, bytes)
              \/ \E offset \in Offsets, whence \in Whences :
                   syscall_fs_seek(id, offset, whence)
  BY <1>7, <1>8, <1>9, <1>10, GivenBytes
<1>11. CASE UNCHANGED vars
  BY <1>1, <1>11 DEF vars
<1> QED
  BY <1>2, <1>4, <1>5, <1>6, <1>10, <1>11 DEF Next

(* Every file system is mounted on a node of its own in one mounted        *)
(* before, no two nodes of a directory have one name, and every node but a *)
(* root lies in a directory and is called neither "." nor ".." (vfs.c,     *)
(* tmpfs.c, rdsk.c, and the mounts of init.c).                             *)
THEOREM TreeAlways ==
  Spec => [](~halted => Tree(nodes, mounts))
<1>1. Init => TreeInv
  BY DEF Init, TreeInv, Tree, NodesNamed, NamesUnique, MountsApart
<1>2. Spec => []TreeInv
  BY <1>1, InitHolds, TreeStep, StepKeeps, PTL DEF Spec
<1> QED
  BY <1>2 DEF TreeInv

(* Nodes, tables and bytes have their types, and across mounts a node has  *)
(* one path, the one vfs_path writes; vfs_lookup finds the node whose path *)
(* it is given in any spelling, with "." and "..", from any directory, and *)
(* finds nothing for a path of no node (vfs.c, tmpfs.c, resource.c).       *)
THEOREM TreeAlwaysSound ==
  Spec => []TreeSound
<1>1. IInv /\ TreeInv => PathsNameNodes
  BY TreesNameNodes DEF IInv, TreeInv
<1>2. TypeOK /\ PathsNameNodes => TreeSound
  BY DEF TreeSound
<1>3. TreeInv <=> (~halted => Tree(nodes, mounts))
  BY DEF TreeInv
<1> QED
  BY <1>1, <1>2, <1>3, AlwaysIInv, TypesAlways, TreeAlways, PTL

-----------------------------------------------------------------------------
(* The RAM disk: what its tables are at any time *)

DirEntry ==
  [name : Name \cup {"RDSK"}, filetable_index : Nat, dirtable_index : Nat,
   next_index : Nat, parent_index : Nat]
FileEntry ==
  [name : Name, data_offset : Nat, size : Nat, next_index : Nat, parent_index : Nat]
Item == [path : Seq(Name), data : Contents \cup {None}]
DataByte == UNION {Elements(c) : c \in Contents}

Call == [name : Seq(Name), cur_dir_index : DOMAIN dirtable]

DirIndex == 2 .. Len(dirtable)
FileIndex == 1 .. Len(filetable)
NextOfDir == [i \in DirIndex |-> dirtable[i].next_index]
UpOfDir == [i \in DirIndex |-> dirtable[i].parent_index]
NextOfFile == [i \in FileIndex |-> filetable[i].next_index]
UpOfFile == [i \in FileIndex |-> filetable[i].parent_index]
FirstDirs == [p \in DOMAIN dirtable |-> dirtable[p].dirtable_index]
FirstFiles == [p \in DOMAIN dirtable |-> dirtable[p].filetable_index]

TablesForm ==
  /\ dirtable \in Seq(DirEntry) /\ Len(dirtable) >= 1
  /\ filetable \in Seq(FileEntry)
  /\ data \in Seq(DataByte)
  /\ stack \in Seq(Call)
  /\ errno \in BOOLEAN
  /\ tree \subseteq Item
  /\ dirtable[1].parent_index = 0
  /\ \A i \in DirIndex :
       /\ dirtable[i].name \in Name
       /\ dirtable[i].parent_index \in DOMAIN dirtable /\ dirtable[i].parent_index < i
  /\ \A i \in FileIndex :
       /\ filetable[i].parent_index \in DOMAIN dirtable
       /\ filetable[i].data_offset + filetable[i].size <= Len(data)

(* The entries, next giving each its next one and up its directory, are    *)
(* threaded by directory, latest first, from the entries head.             *)
Threads(S, next, up, head) ==
  /\ \A i \in S :
       /\ next[i] \in S \cup {0} /\ next[i] < i
       /\ next[i] # 0 => up[next[i]] = up[i]
       /\ \A j \in S : next[i] < j /\ j < i => up[j] # up[i]
       /\ up[i] \in DOMAIN head
  /\ \A p \in DOMAIN head :
       /\ head[p] \in S \cup {0}
       /\ head[p] # 0 => up[head[p]] = p
       /\ \A j \in S : head[p] < j => up[j] # p

(* No two entries of a directory share a name. *)
NamesDiffer ==
  /\ \A i, j \in DirIndex :
       dirtable[i].parent_index = dirtable[j].parent_index /\ dirtable[i].name = dirtable[j].name
       => i = j
  /\ \A i, j \in FileIndex :
       filetable[i].parent_index = filetable[j].parent_index /\ filetable[i].name = filetable[j].name
       => i = j
  /\ \A i \in DirIndex, j \in FileIndex :
       ~ (dirtable[i].parent_index = filetable[j].parent_index /\ dirtable[i].name = filetable[j].name)

(* The directories' paths are P: what was read of the host's tree is what  *)
(* the tables hold.                                                        *)
FilePath(P, j) == Append(P[filetable[j].parent_index], filetable[j].name)
Holds(e, j) ==
  /\ filetable[j].size = Len(e.data)
  /\ SubSeq(data, filetable[j].data_offset + 1, filetable[j].data_offset + filetable[j].size) = e.data
Located(P) ==
  /\ DOMAIN P = DOMAIN dirtable
  /\ \A i \in DOMAIN P : P[i] \in Seq(Name)
  /\ P[1] = <<>>
  /\ \A i \in DirIndex :
       /\ P[i] = Append(P[dirtable[i].parent_index], dirtable[i].name)
       /\ \E e \in tree : e.path = P[i] /\ e.data = None
  /\ \A j \in FileIndex : \E e \in tree : e.path = FilePath(P, j) /\ e.data # None
  /\ \A k \in DOMAIN stack : stack[k].name = P[stack[k].cur_dir_index]
  /\ \A e \in tree :
       /\ e.data = None => \E i \in DirIndex : P[i] = e.path
       /\ e.data # None /\ ~errno => \E j \in FileIndex : FilePath(P, j) = e.path /\ Holds(e, j)

OnePath == \A e, f \in tree : e.path = f.path => e = f

RdskInv ==
  /\ TablesForm
  /\ Threads(DirIndex, NextOfDir, UpOfDir, FirstDirs)
  /\ Threads(FileIndex, NextOfFile, UpOfFile, FirstFiles)
  /\ NamesDiffer
  /\ OnePath
  /\ \E P : Located(P)

(* An entry more, the first of p's thread. *)
Threading(N, S, Dirs, p, next, up, head, R, E, onext, oup, ohead) ==
  /\ N \in Nat /\ S \subseteq 1 .. N /\ R = S \cup {N + 1}
  /\ Dirs \subseteq E /\ p \in Dirs
  /\ next \in [S -> Nat] /\ up \in [S -> Nat] /\ head \in [Dirs -> Nat]
  /\ onext \in [R -> Nat] /\ oup \in [R -> Nat] /\ ohead \in [E -> Nat]
  /\ Threads(S, next, up, head)
  /\ \A i \in S : onext[i] = next[i] /\ oup[i] = up[i]
  /\ onext[N + 1] = head[p] /\ oup[N + 1] = p /\ ohead[p] = N + 1
  /\ \A q \in Dirs \ {p} : ohead[q] = head[q]
  /\ \A q \in E \ Dirs : ohead[q] = 0

(* What dirtable_create and filetable_create do to the threads. *)
LEMMA ThreadsGrow ==
  ASSUME NEW N, NEW S, NEW Dirs, NEW p, NEW next, NEW up, NEW head,
         NEW R, NEW E, NEW onext, NEW oup, NEW ohead,
         Threading(N, S, Dirs, p, next, up, head, R, E, onext, oup, ohead)
  PROVE  Threads(R, onext, oup, ohead)
<1> USE DEF Threading
<1>0. N \in Nat /\ S \subseteq 1 .. N /\ R = S \cup {N + 1} /\ Dirs \subseteq E /\ p \in Dirs
  BY DEF Threading
<1>1. \A i \in S : i \in Nat /\ i >= 1 /\ i < N + 1
  OBVIOUS
<1>2. DOMAIN head = Dirs /\ DOMAIN ohead = E /\ N + 1 \in R /\ S \subseteq R
  OBVIOUS
<1>3. \A i \in S :
           /\ next[i] \in S \cup {0} /\ next[i] < i
           /\ next[i] # 0 => up[next[i]] = up[i]
           /\ \A j \in S : next[i] < j /\ j < i => up[j] # up[i]
           /\ up[i] \in Dirs
  BY <1>2 DEF Threads
<1>4. \A q \in Dirs :
           /\ head[q] \in S \cup {0}
           /\ head[q] # 0 => up[head[q]] = q
           /\ \A j \in S : head[q] < j => up[j] # q
  BY <1>2 DEF Threads
<1>5. ASSUME NEW i \in R
      PROVE  /\ onext[i] \in R \cup {0} /\ onext[i] < i
             /\ onext[i] # 0 => oup[onext[i]] = oup[i]
             /\ \A j \in R : onext[i] < j /\ j < i => oup[j] # oup[i]
             /\ oup[i] \in E
  <2>1. CASE i \in S
    <3>1. onext[i] \in S \cup {0} /\ onext[i] < i /\ oup[i] \in E
      BY <1>3, <2>1
    <3>2. onext[i] # 0 => oup[onext[i]] = oup[i]
      BY <1>3, <2>1, <3>1
    <3>3. ASSUME NEW j \in R, onext[i] < j, j < i
          PROVE  oup[j] # oup[i]
      <4>1. j \in S
        BY <1>1, <2>1, <3>3
      <4> QED
        BY <1>3, <2>1, <3>3, <4>1
    <3> QED
      BY <3>1, <3>2, <3>3
  <2>2. CASE i = N + 1
    <3>1. head[p] \in S \cup {0} /\ head[p] < N + 1
      BY <1>1, <1>4
    <3>2. head[p] # 0 => oup[head[p]] = p
      BY <1>4, <3>1
    <3>3. ASSUME NEW j \in R, head[p] < j, j < N + 1
          PROVE  oup[j] # p
      <4>1. j \in S
        BY <3>3
      <4> QED
        BY <1>4, <3>3, <4>1
    <3> QED
      BY <2>2, <3>1, <3>2, <3>3
  <2> QED
    BY <2>1, <2>2
<1>6. ASSUME NEW q \in E
      PROVE  /\ ohead[q] \in R \cup {0}
             /\ ohead[q] # 0 => oup[ohead[q]] = q
             /\ \A j \in R : ohead[q] < j => oup[j] # q
  <2>1. CASE q = p
    BY <1>1, <2>1
  <2>2. CASE q \in Dirs \ {p}
    <3>1. ohead[q] = head[q]
      BY <2>2
    <3>2. ohead[q] \in S \cup {0} /\ (ohead[q] # 0 => oup[ohead[q]] = q)
      BY <1>4, <2>2, <3>1
    <3>3. ASSUME NEW j \in R, ohead[q] < j
          PROVE  oup[j] # q
      BY <1>4, <2>2, <3>1, <3>3
    <3> QED
      BY <3>2, <3>3
  <2>3. CASE q \notin Dirs
    <3>1. ohead[q] = 0
      BY <2>3
    <3>2. \A j \in R : oup[j] # q
      BY <1>3, <2>3
    <3> QED
      BY <3>1, <3>2
  <2> QED
    BY <2>1, <2>2, <2>3
<1> QED
  BY <1>2, <1>5, <1>6 DEF Threads

(* Threads where no entry is added, though perhaps a directory is. *)
Lasting(N, S, Dirs, next, up, head, E, ohead) ==
  /\ N \in Nat /\ S \subseteq 1 .. N /\ Dirs \subseteq E
  /\ next \in [S -> Nat] /\ up \in [S -> Nat]
  /\ head \in [Dirs -> Nat] /\ ohead \in [E -> Nat]
  /\ Threads(S, next, up, head)
  /\ \A q \in Dirs : ohead[q] = head[q]
  /\ \A q \in E \ Dirs : ohead[q] = 0

(* More directories, with nothing in them, leave the threads alone. *)
LEMMA ThreadsStay ==
  ASSUME NEW N, NEW S, NEW Dirs, NEW next, NEW up, NEW head, NEW E, NEW ohead,
         Lasting(N, S, Dirs, next, up, head, E, ohead)
  PROVE  Threads(S, next, up, ohead)
<1> USE DEF Lasting
<1>2. DOMAIN head = Dirs /\ DOMAIN ohead = E
  OBVIOUS
<1>3. \A i \in S :
           /\ next[i] \in S \cup {0} /\ next[i] < i
           /\ next[i] # 0 => up[next[i]] = up[i]
           /\ \A j \in S : next[i] < j /\ j < i => up[j] # up[i]
           /\ up[i] \in E
  BY <1>2 DEF Threads
<1>4. \A q \in Dirs :
           /\ head[q] \in S \cup {0}
           /\ head[q] # 0 => up[head[q]] = q
           /\ \A j \in S : head[q] < j => up[j] # q
  BY <1>2 DEF Threads
<1>5. ASSUME NEW q \in E
      PROVE  /\ ohead[q] \in S \cup {0}
             /\ ohead[q] # 0 => up[ohead[q]] = q
             /\ \A j \in S : ohead[q] < j => up[j] # q
  <2>1. CASE q \in Dirs
    BY <1>4, <2>1
  <2>2. CASE q \notin Dirs
    <3>1. \A i \in S : up[i] # q
      BY <1>2, <2>2 DEF Threads
    <3> QED
      BY <2>2, <3>1
  <2> QED
    BY <2>1, <2>2
<1> QED
  BY <1>2, <1>3, <1>5 DEF Threads

(* A table of directories with one entry more. *)
WithDir(t, p, n) ==
  Append([t EXCEPT ![p].dirtable_index = Len(t) + 1],
         [name |-> n, filetable_index |-> 0, dirtable_index |-> 0,
          next_index |-> NextOf(t[p].dirtable_index), parent_index |-> p])

DirGrown(t, p, n, u) ==
  /\ u \in Seq(DirEntry) /\ Len(u) = Len(t) + 1 /\ Len(t) \in Nat
  /\ DOMAIN t = 1 .. Len(t) /\ DOMAIN u = 1 .. Len(t) + 1
  /\ \A q \in 1 .. Len(t) :
       /\ u[q].name = t[q].name /\ u[q].filetable_index = t[q].filetable_index
       /\ u[q].next_index = t[q].next_index /\ u[q].parent_index = t[q].parent_index
       /\ u[q].dirtable_index = IF q = p THEN Len(t) + 1 ELSE t[q].dirtable_index
  /\ u[Len(t) + 1].name = n /\ u[Len(t) + 1].parent_index = p
  /\ u[Len(t) + 1].filetable_index = 0 /\ u[Len(t) + 1].dirtable_index = 0
  /\ u[Len(t) + 1].next_index = t[p].dirtable_index

(* dirtable_create: an entry at the end, and the first of p's chain. *)
LEMMA DirAdded ==
  ASSUME NEW t \in Seq(DirEntry), NEW p \in DOMAIN t, NEW n \in Name
  PROVE  DirGrown(t, p, n, WithDir(t, p, n))
<1> DEFINE u == WithDir(t, p, n)
<1> DEFINE d == [t EXCEPT ![p].dirtable_index = Len(t) + 1]
           e == [name |-> n, filetable_index |-> 0, dirtable_index |-> 0,
                 next_index |-> t[p].dirtable_index, parent_index |-> p]
<1>1. Len(t) \in Nat /\ DOMAIN t = 1 .. Len(t) /\ t \in [1 .. Len(t) -> DirEntry]
  BY LenProperties
<1>2. \A q \in 1 .. Len(t) : t[q] \in DirEntry
  BY <1>1
<1>3. p \in Nat /\ t[p].dirtable_index \in Nat
  BY <1>1, <1>2 DEF DirEntry
<1>4. e \in DirEntry
  BY <1>3 DEF DirEntry
<1> DEFINE c == [t[p] EXCEPT !.dirtable_index = Len(t) + 1]
<1>5. /\ c \in DirEntry /\ c.name = t[p].name /\ c.filetable_index = t[p].filetable_index
      /\ c.next_index = t[p].next_index /\ c.parent_index = t[p].parent_index
      /\ c.dirtable_index = Len(t) + 1
  <2>1. t[p] \in DirEntry /\ Len(t) + 1 \in Nat
    BY <1>1, <1>2
  <2> QED
    BY <2>1 DEF DirEntry
<1>6. /\ d = [q \in 1 .. Len(t) |-> IF q = p THEN c ELSE t[q]]
      /\ d \in [1 .. Len(t) -> DirEntry]
  <2>1. d = [q \in 1 .. Len(t) |-> IF q = p THEN c ELSE t[q]]
    BY <1>1
  <2> HIDE DEF c, d
  <2> QED
    BY <1>1, <1>2, <1>5, <2>1
<1>7. d \in Seq(DirEntry) /\ Len(d) = Len(t)
  <2>1. d \in [1 .. Len(t) -> DirEntry]
    BY <1>6
  <2> HIDE DEF c, d, e
  <2> QED
    BY <1>1, <2>1, IsASeq, LenProperties
<1>8. u = Append(d, e)
  BY DEF NextOf, WithDir
<1>9. e.name = n /\ e.filetable_index = 0 /\ e.dirtable_index = 0 /\ e.parent_index = p
      /\ e.next_index = t[p].dirtable_index
  OBVIOUS
<1> HIDE DEF c, d, e, u
<1>10. /\ u \in Seq(DirEntry) /\ Len(u) = Len(t) + 1 /\ u[Len(t) + 1] = e
       /\ \A i \in 1 .. Len(t) : u[i] = d[i]
  <2>1. /\ Append(d, e) \in Seq(DirEntry) /\ Len(Append(d, e)) = Len(d) + 1
        /\ Append(d, e)[Len(d) + 1] = e
        /\ \A i \in 1 .. Len(d) : Append(d, e)[i] = d[i]
    BY <1>4, <1>7, AppendProperties
  <2>2. /\ u \in Seq(DirEntry) /\ Len(u) = Len(d) + 1 /\ u[Len(d) + 1] = e
        /\ \A i \in 1 .. Len(d) : u[i] = d[i]
    BY Zenon, <1>8, <2>1
  <2> QED
    BY Zenon, <1>7, <2>2
<1>11. DOMAIN u = 1 .. Len(t) + 1
  BY <1>10, LenProperties
<1>12. \A q \in 1 .. Len(t) : u[q] = IF q = p THEN c ELSE t[q]
  BY <1>6, <1>10
<1>13. DirGrown(t, p, n, u)
  BY <1>1, <1>5, <1>9, <1>10, <1>11, <1>12 DEF DirGrown
<1> QED
  BY <1>13 DEF u

(* What TablesForm says of the sequences and functions. *)
LEMMA FormFacts ==
  ASSUME TablesForm
  PROVE  /\ Len(dirtable) \in Nat /\ DOMAIN dirtable = 1 .. Len(dirtable)
         /\ \A i \in DOMAIN dirtable : dirtable[i] \in DirEntry
         /\ Len(filetable) \in Nat /\ DOMAIN filetable = FileIndex
         /\ \A i \in FileIndex : filetable[i] \in FileEntry
         /\ Len(data) \in Nat /\ Len(stack) \in Nat /\ DOMAIN stack = 1 .. Len(stack)
         /\ NextOfDir \in [DirIndex -> Nat] /\ UpOfDir \in [DirIndex -> Nat]
         /\ NextOfFile \in [FileIndex -> Nat] /\ UpOfFile \in [FileIndex -> Nat]
         /\ FirstDirs \in [1 .. Len(dirtable) -> Nat] /\ FirstFiles \in [1 .. Len(dirtable) -> Nat]
         /\ DirIndex \subseteq DOMAIN dirtable
         /\ stack # <<>> =>
              /\ Top.name \in Seq(Name) /\ Top.cur_dir_index \in DOMAIN dirtable
              /\ Len(stack) \in DOMAIN stack
<1>1. /\ dirtable \in Seq(DirEntry) /\ filetable \in Seq(FileEntry) /\ data \in Seq(DataByte)
      /\ stack \in Seq(Call)
  BY DEF TablesForm
<1>2. /\ Len(dirtable) \in Nat /\ DOMAIN dirtable = 1 .. Len(dirtable)
      /\ \A i \in DOMAIN dirtable : dirtable[i] \in DirEntry
  BY <1>1, LenProperties
<1>3. /\ Len(filetable) \in Nat /\ DOMAIN filetable = FileIndex
      /\ \A i \in FileIndex : filetable[i] \in FileEntry
  BY <1>1, LenProperties DEF FileIndex
<1>4. Len(data) \in Nat /\ Len(stack) \in Nat /\ DOMAIN stack = 1 .. Len(stack)
  BY <1>1, LenProperties
<1>5. DirIndex \subseteq DOMAIN dirtable
  BY <1>2 DEF DirIndex
<1>6. NextOfDir \in [DirIndex -> Nat] /\ UpOfDir \in [DirIndex -> Nat]
  <2>1. \A i \in DirIndex : dirtable[i].next_index \in Nat /\ dirtable[i].parent_index \in Nat
    BY <1>2, <1>5 DEF DirEntry
  <2> QED
    BY <2>1 DEF NextOfDir, UpOfDir
<1>7. NextOfFile \in [FileIndex -> Nat] /\ UpOfFile \in [FileIndex -> Nat]
  <2>1. \A i \in FileIndex : filetable[i].next_index \in Nat /\ filetable[i].parent_index \in Nat
    BY <1>3 DEF FileEntry
  <2> QED
    BY <2>1 DEF NextOfFile, UpOfFile
<1>8. FirstDirs \in [1 .. Len(dirtable) -> Nat] /\ FirstFiles \in [1 .. Len(dirtable) -> Nat]
  <2>1. \A i \in DOMAIN dirtable :
          dirtable[i].dirtable_index \in Nat /\ dirtable[i].filetable_index \in Nat
    BY <1>2 DEF DirEntry
  <2> QED
    BY <1>2, <2>1 DEF FirstDirs, FirstFiles
<1>9. ASSUME stack # <<>>
      PROVE  /\ Top.name \in Seq(Name) /\ Top.cur_dir_index \in DOMAIN dirtable
             /\ Len(stack) \in DOMAIN stack
  <2>1. Len(stack) # 0
    BY <1>1, <1>9, EmptySeq
  <2>2. Len(stack) \in DOMAIN stack
    BY <1>4, <2>1
  <2>3. stack[Len(stack)] \in Call
    BY <1>1, <2>2, ElementOfSeq
  <2> QED
    BY <2>2, <2>3 DEF Top, Call
<1> QED
  BY <1>2, <1>3, <1>4, <1>5, <1>6, <1>7, <1>8, <1>9

(* The root alone is sound, whatever its next_index is. *)
LEMMA RdskInitHolds == RdskInit => RdskInv
<1> SUFFICES ASSUME RdskInit PROVE RdskInv
  OBVIOUS
<1>1. PICK garbage \in {0, 1, 2} :
        dirtable = <<[name |-> "RDSK", filetable_index |-> 0, dirtable_index |-> 0,
                      next_index |-> garbage, parent_index |-> 0]>>
  BY DEF RdskInit
<1> DEFINE root == [name |-> "RDSK", filetable_index |-> 0, dirtable_index |-> 0,
                    next_index |-> garbage, parent_index |-> 0]
           call == [name |-> <<>>, cur_dir_index |-> 1]
<1>2. root \in DirEntry /\ root.parent_index = 0 /\ root.dirtable_index = 0 /\ root.filetable_index = 0
  BY DEF DirEntry
<1>3. /\ filetable = <<>> /\ data = <<>> /\ errno \in BOOLEAN /\ tree = {}
      /\ stack = IF errno THEN <<>> ELSE <<call>>
  BY DEF RdskInit
<1>4. dirtable = <<root>>
  BY <1>1
<1> HIDE DEF root
<1>5. /\ dirtable \in Seq(DirEntry) /\ Len(dirtable) = 1 /\ DOMAIN dirtable = {1}
      /\ dirtable[1] = root
  BY <1>2, <1>4
<1>6. DirIndex = {} /\ FileIndex = {}
  BY <1>3, <1>5 DEF DirIndex, FileIndex
<1>7. call \in Call /\ call.name = <<>> /\ call.cur_dir_index = 1
  BY <1>5 DEF Call
<1> HIDE DEF call
<1>8. /\ stack \in Seq(Call)
      /\ \A k \in DOMAIN stack : stack[k] = call
  <2>1. CASE errno
    BY <1>3, <2>1
  <2>2. CASE ~errno
    <3>1. stack = <<call>>
      BY <1>3, <2>2
    <3>2. <<call>> \in Seq(Call) /\ DOMAIN <<call>> = {1} /\ <<call>>[1] = call
      BY <1>7
    <3> QED
      BY <3>1, <3>2
  <2> QED
    BY <2>1, <2>2
<1>9. TablesForm
  BY <1>2, <1>3, <1>5, <1>6, <1>8 DEF TablesForm
<1>10. /\ Threads(DirIndex, NextOfDir, UpOfDir, FirstDirs)
       /\ Threads(FileIndex, NextOfFile, UpOfFile, FirstFiles)
  BY <1>2, <1>5, <1>6 DEF Threads, FirstDirs, FirstFiles
<1>11. NamesDiffer /\ OnePath
  BY <1>3, <1>6 DEF NamesDiffer, OnePath
<1>12. Located([i \in {1} |-> <<>>])
  BY <1>3, <1>5, <1>6, <1>7, <1>8 DEF Located
<1> QED
  BY <1>9, <1>10, <1>11, <1>12 DEF RdskInv

(* Going up again changes no table. *)
LEMMA EndKeeps == RdskInv /\ EndOfDirectory => RdskInv'
<1> SUFFICES ASSUME RdskInv, EndOfDirectory PROVE RdskInv'
  OBVIOUS
<1>1. /\ dirtable' = dirtable /\ filetable' = filetable /\ data' = data /\ errno' = errno /\ tree' = tree
      /\ stack' = SubSeq(stack, 1, Len(stack) - 1) /\ stack # <<>>
  BY DEF EndOfDirectory
<1>2. TablesForm
  BY DEF RdskInv
<1>3. Len(stack) \in Nat /\ Len(stack) \in DOMAIN stack /\ DOMAIN stack = 1 .. Len(stack) /\ stack \in Seq(Call)
  BY <1>1, <1>2, FormFacts DEF TablesForm
<1> DEFINE m == Len(stack) - 1
<1>4. m \in Nat /\ m <= Len(stack) /\ \A k \in 1 .. m : k \in DOMAIN stack
  BY <1>3
<1>5. \A k \in 1 .. m : stack[k] \in Call
  BY <1>3, <1>4, ElementOfSeq
<1>6. stack' = SubSeq(stack, 1, m)
  BY <1>1
<1> HIDE DEF m
<1>7. stack' \in Seq(Call) /\ Len(stack') = m /\ \A k \in 1 .. m : stack'[k] = stack[k]
  <2>1. \A k \in 1 .. m - 1 + 1 : SubSeq(stack, 1, m)[k] = stack[1 + k - 1]
    BY <1>4, <1>5, SubSeqProperties
  <2>2. SubSeq(stack, 1, m) \in Seq(Call) /\ Len(SubSeq(stack, 1, m)) = IF 1 <= m THEN m - 1 + 1 ELSE 0
    BY <1>4, <1>5, SubSeqProperties
  <2>3. m - 1 + 1 = m /\ \A k \in 1 .. m : 1 + k - 1 = k
    BY <1>4
  <2>4. (IF 1 <= m THEN m - 1 + 1 ELSE 0) = m
    BY <1>4
  <2>5. \A k \in 1 .. m : SubSeq(stack, 1, m)[k] = stack[k]
    BY Zenon, <2>1, <2>3
  <2> QED
    BY Zenon, <1>6, <2>2, <2>4, <2>5
<1>8. DOMAIN stack' = 1 .. m
  BY <1>7, LenProperties
<1>9. TablesForm'
  BY <1>1, <1>2, <1>7 DEF TablesForm, DirIndex, FileIndex, Call
<1>10. /\ Threads(DirIndex, NextOfDir, UpOfDir, FirstDirs)'
       /\ Threads(FileIndex, NextOfFile, UpOfFile, FirstFiles)'
  <2>1. /\ DirIndex' = DirIndex /\ NextOfDir' = NextOfDir /\ UpOfDir' = UpOfDir /\ FirstDirs' = FirstDirs
        /\ FileIndex' = FileIndex /\ NextOfFile' = NextOfFile /\ UpOfFile' = UpOfFile /\ FirstFiles' = FirstFiles
    BY <1>1 DEF DirIndex, NextOfDir, UpOfDir, FirstDirs, FileIndex, NextOfFile, UpOfFile, FirstFiles
  <2> QED
    BY <2>1 DEF RdskInv, Threads
<1>11. NamesDiffer' /\ OnePath'
  BY <1>1 DEF RdskInv, NamesDiffer, OnePath, DirIndex, FileIndex
<1>12. PICK P : Located(P)
  BY DEF RdskInv
<1>13. Located(P)'
  <2>1. \A k \in DOMAIN stack' : stack'[k].name = P[stack'[k].cur_dir_index]
    BY <1>3, <1>4, <1>7, <1>8, <1>12 DEF Located
  <2> QED
    BY <1>1, <1>12, <2>1 DEF Located, FilePath, Holds, DirIndex, FileIndex
<1> QED
  BY <1>9, <1>10, <1>11, <1>13 DEF RdskInv

(* No entry of the directory being read has a name not read yet. *)
LEMMA NewName ==
  ASSUME RdskInv, stack # <<>>, NEW n \in Name, Unread(n)
  PROVE  /\ \A i \in DirIndex : ~ (dirtable[i].parent_index = Top.cur_dir_index /\ dirtable[i].name = n)
         /\ \A j \in FileIndex : ~ (filetable[j].parent_index = Top.cur_dir_index /\ filetable[j].name = n)
<1>1. PICK P : Located(P)
  BY DEF RdskInv
<1>2. TablesForm
  BY DEF RdskInv
<1>3. Len(stack) \in DOMAIN stack
  BY <1>2, FormFacts
<1>4. PathTo(n) = Append(P[Top.cur_dir_index], n)
  BY <1>1, <1>3 DEF Located, PathTo, Top
<1>5. \A e \in tree : e.path # PathTo(n)
  BY DEF Unread
<1>6. ASSUME NEW i \in DirIndex, dirtable[i].parent_index = Top.cur_dir_index, dirtable[i].name = n
      PROVE  FALSE
  <2>1. P[i] = PathTo(n) /\ \E e \in tree : e.path = P[i]
    BY <1>1, <1>4, <1>6 DEF Located
  <2> QED
    BY <1>5, <2>1
<1>7. ASSUME NEW j \in FileIndex, filetable[j].parent_index = Top.cur_dir_index, filetable[j].name = n
      PROVE  FALSE
  <2>1. FilePath(P, j) = PathTo(n) /\ \E e \in tree : e.path = FilePath(P, j)
    BY <1>1, <1>4, <1>7 DEF Located, FilePath
  <2> QED
    BY <1>5, <2>1
<1> QED
  BY <1>6, <1>7

(* Nor does packing a directory break any of it, opened or not, *)
LEMMA PackDirKeeps ==
  ASSUME RdskInv, NEW n \in Name, PackDir(n)
  PROVE  RdskInv'
<1> DEFINE N == Len(dirtable)
           p == Top.cur_dir_index
           f == [path |-> PathTo(n), data |-> None]
           call == [name |-> PathTo(n), cur_dir_index |-> N + 1]
<1>1. TablesForm
  BY DEF RdskInv
<1>2. /\ stack # <<>> /\ Unread(n) /\ filetable' = filetable /\ data' = data
      /\ tree' = tree \cup {f} /\ errno' \in BOOLEAN /\ (errno => errno')
      /\ stack' = IF errno' THEN stack ELSE Append(stack, call)
  <2>1. errno \in BOOLEAN
    BY <1>1 DEF TablesForm
  <2> QED
    BY <2>1 DEF PackDir
<1>3. dirtable \in Seq(DirEntry) /\ p \in DOMAIN dirtable /\ Top.name \in Seq(Name) /\ Len(stack) \in DOMAIN stack
  BY <1>1, <1>2, FormFacts DEF TablesForm
<1>4. /\ dirtable' \in Seq(DirEntry) /\ Len(dirtable') = N + 1 /\ N \in Nat
      /\ DOMAIN dirtable = 1 .. N /\ DOMAIN dirtable' = 1 .. N + 1
      /\ \A q \in 1 .. N :
              /\ dirtable'[q].name = dirtable[q].name
              /\ dirtable'[q].filetable_index = dirtable[q].filetable_index
              /\ dirtable'[q].next_index = dirtable[q].next_index
              /\ dirtable'[q].parent_index = dirtable[q].parent_index
              /\ dirtable'[q].dirtable_index = IF q = p THEN N + 1 ELSE dirtable[q].dirtable_index
      /\ dirtable'[N + 1].name = n /\ dirtable'[N + 1].parent_index = p
      /\ dirtable'[N + 1].filetable_index = 0 /\ dirtable'[N + 1].dirtable_index = 0
      /\ dirtable'[N + 1].next_index = dirtable[p].dirtable_index
  <2>1. dirtable' = WithDir(dirtable, p, n)
    BY DEF PackDir, dirtable_create, WithDir
  <2> HIDE DEF p
  <2>2. DirGrown(dirtable, p, n, dirtable')
    BY <1>3, <2>1, DirAdded
  <2> QED
    BY <2>2 DEF DirGrown
<1> HIDE DEF N, p
<1>5. N >= 1 /\ p \in 1 .. N /\ N + 1 # p /\ DirIndex = 2 .. N /\ DirIndex' = DirIndex \cup {N + 1}
  <2>1. N >= 1 /\ DirIndex = 2 .. N
    BY <1>1 DEF TablesForm, DirIndex, N
  <2>2. DirIndex' = 2 .. N + 1
    BY <1>4 DEF DirIndex
  <2> QED
    BY <1>3, <1>4, <2>1, <2>2
<1>6. PathTo(n) \in Seq(Name) /\ f.path = PathTo(n) /\ f.data = None
      /\ call.name = PathTo(n) /\ call.cur_dir_index = N + 1
  <2>1. PathTo(n) \in Seq(Name)
    BY <1>3, AppendProperties DEF PathTo
  <2> QED
    BY <2>1
<1>7. f \in Item
  BY <1>6 DEF Item
<1>8. call \in [name : Seq(Name), cur_dir_index : DOMAIN dirtable']
  BY <1>4, <1>6
<1> HIDE DEF f, call
<1>9. /\ stack' \in Seq(Call') /\ stack \in Seq(Call')
      /\ Len(stack) \in Nat /\ DOMAIN stack = 1 .. Len(stack)
      /\ ~errno' => /\ Len(stack') = Len(stack) + 1 /\ DOMAIN stack' = 1 .. Len(stack) + 1
                    /\ stack'[Len(stack) + 1] = call
                    /\ \A k \in 1 .. Len(stack) : stack'[k] = stack[k]
  <2>1. Call \subseteq Call' /\ call \in Call'
    BY <1>4, <1>8 DEF Call
  <2>2. stack \in Seq(Call) /\ Len(stack) \in Nat /\ DOMAIN stack = 1 .. Len(stack)
    BY <1>1, FormFacts DEF TablesForm
  <2>3. stack \in Seq(Call')
    BY <2>1, <2>2, SeqMonotonic
  <2>4. CASE errno'
    BY <1>2, <2>2, <2>3, <2>4
  <2>5. CASE ~errno'
    <3>1. stack' = Append(stack, call)
      BY <1>2, <2>5
    <3>2. /\ stack' \in Seq(Call') /\ Len(stack') = Len(stack) + 1
          /\ stack'[Len(stack) + 1] = call
          /\ \A k \in 1 .. Len(stack) : stack'[k] = stack[k]
      <4>1. /\ Append(stack, call) \in Seq(Call') /\ Len(Append(stack, call)) = Len(stack) + 1
            /\ \A k \in 1 .. Len(stack) : Append(stack, call)[k] = stack[k]
            /\ Append(stack, call)[Len(stack) + 1] = call
        BY <2>1, <2>3, AppendProperties
      <4> QED
        BY Zenon, <3>1, <4>1
    <3>3. DOMAIN stack' = 1 .. Len(stack) + 1
      BY <3>2, LenProperties
    <3> QED
      BY <2>2, <2>3, <3>2, <3>3
  <2> QED
    BY <2>4, <2>5
<1>10. TablesForm'
  <2>1. /\ filetable' \in Seq(FileEntry) /\ data' \in Seq(DataByte) /\ FileIndex' = FileIndex
        /\ tree' \subseteq Item
    BY <1>1, <1>2, <1>7 DEF TablesForm, FileIndex
  <2>2. dirtable'[1].parent_index = 0
    BY <1>1, <1>4, <1>5 DEF TablesForm
  <2>3. ASSUME NEW i \in DirIndex'
        PROVE  /\ dirtable'[i].name \in Name
               /\ dirtable'[i].parent_index \in DOMAIN dirtable' /\ dirtable'[i].parent_index < i
    <3>1. CASE i \in DirIndex
      <4>1. i \in 1 .. N
        BY <1>5, <3>1
      <4>2. dirtable[i].name \in Name /\ dirtable[i].parent_index \in DOMAIN dirtable /\ dirtable[i].parent_index < i
        BY <1>1, <3>1 DEF TablesForm
      <4> QED
        BY <1>4, <4>1, <4>2
    <3>2. CASE i = N + 1
      BY <1>4, <1>5, <3>2
    <3> QED
      BY <1>5, <3>1, <3>2
  <2>4. ASSUME NEW i \in FileIndex'
        PROVE  /\ filetable'[i].parent_index \in DOMAIN dirtable'
               /\ filetable'[i].data_offset + filetable'[i].size <= Len(data')
    <3>1. filetable[i].parent_index \in DOMAIN dirtable /\ filetable[i].data_offset + filetable[i].size <= Len(data)
      BY <1>1, <2>1, <2>4 DEF TablesForm
    <3> QED
      BY <1>2, <1>4, <3>1
  <2>5. Len(dirtable') >= 1
    BY <1>4, <1>5
  <2> QED
    BY <1>2, <1>4, <1>9, <2>1, <2>2, <2>3, <2>4, <2>5 DEF TablesForm
<1>11. /\ NextOfDir \in [DirIndex -> Nat] /\ UpOfDir \in [DirIndex -> Nat]
       /\ NextOfFile \in [FileIndex -> Nat] /\ UpOfFile \in [FileIndex -> Nat]
       /\ FirstDirs \in [1 .. N -> Nat] /\ FirstFiles \in [1 .. N -> Nat] /\ Len(filetable) \in Nat
  BY <1>1, FormFacts DEF N
<1>12. /\ NextOfDir' \in [DirIndex' -> Nat] /\ UpOfDir' \in [DirIndex' -> Nat]
       /\ FirstDirs' \in [1 .. N + 1 -> Nat] /\ FirstFiles' \in [1 .. N + 1 -> Nat]
  <2>1. \A i \in 1 .. N + 1 :
          /\ dirtable'[i].next_index \in Nat /\ dirtable'[i].parent_index \in Nat
          /\ dirtable'[i].dirtable_index \in Nat /\ dirtable'[i].filetable_index \in Nat
    <3>1. \A i \in 1 .. N + 1 : dirtable'[i] \in DirEntry
      BY <1>4, ElementOfSeq
    <3> QED
      BY <3>1 DEF DirEntry
  <2>2. DirIndex' \subseteq 1 .. N + 1
    BY <1>4, <1>5
  <2> QED
    BY <1>4, <2>1, <2>2 DEF NextOfDir, UpOfDir, FirstDirs, FirstFiles
<1>13. Threads(DirIndex, NextOfDir, UpOfDir, FirstDirs)'
  <2>1. \A i \in DirIndex : NextOfDir'[i] = NextOfDir[i] /\ UpOfDir'[i] = UpOfDir[i]
    BY <1>4, <1>5 DEF NextOfDir, UpOfDir
  <2>2. NextOfDir'[N + 1] = FirstDirs[p] /\ UpOfDir'[N + 1] = p
    BY <1>4, <1>5 DEF NextOfDir, UpOfDir, FirstDirs
  <2>3. /\ FirstDirs'[p] = N + 1
        /\ \A q \in (1 .. N) \ {p} : FirstDirs'[q] = FirstDirs[q]
        /\ \A q \in (1 .. N + 1) \ (1 .. N) : FirstDirs'[q] = 0
    BY <1>4, <1>5 DEF FirstDirs
  <2>4. Threads(DirIndex, NextOfDir, UpOfDir, FirstDirs)
    BY DEF RdskInv
  <2>5. DirIndex \subseteq 1 .. N /\ 1 .. N \subseteq 1 .. N + 1
    BY <1>4, <1>5
  <2>6. Threads(DirIndex', NextOfDir', UpOfDir', FirstDirs')
    <3>1. N \in Nat /\ DirIndex' = DirIndex \cup {N + 1} /\ p \in 1 .. N
      BY <1>4, <1>5
    <3>2. Threading(N, DirIndex, 1 .. N, p, NextOfDir, UpOfDir, FirstDirs,
                    DirIndex', 1 .. N + 1, NextOfDir', UpOfDir', FirstDirs')
      BY <1>11, <1>12, <2>1, <2>2, <2>3, <2>4, <2>5, <3>1 DEF Threading
    <3> QED
      BY <3>2, ThreadsGrow
  <2> QED
    BY <2>6 DEF Threads
<1>14. Threads(FileIndex, NextOfFile, UpOfFile, FirstFiles)'
  <2>1. FileIndex' = FileIndex /\ NextOfFile' = NextOfFile /\ UpOfFile' = UpOfFile
    BY <1>2 DEF FileIndex, NextOfFile, UpOfFile
  <2>2. /\ \A q \in 1 .. N : FirstFiles'[q] = FirstFiles[q]
        /\ \A q \in (1 .. N + 1) \ (1 .. N) : FirstFiles'[q] = 0
    BY <1>4, <1>5 DEF FirstFiles
  <2>3. Threads(FileIndex, NextOfFile, UpOfFile, FirstFiles)
    BY DEF RdskInv
  <2>4. FileIndex \subseteq 1 .. Len(filetable) /\ 1 .. N \subseteq 1 .. N + 1
    BY <1>4 DEF FileIndex
  <2>5. Threads(FileIndex, NextOfFile, UpOfFile, FirstFiles')
    <3>1. Len(filetable) \in Nat /\ FirstFiles' \in [1 .. N + 1 -> Nat]
      BY <1>11, <1>12
    <3>2. Lasting(Len(filetable), FileIndex, 1 .. N, NextOfFile, UpOfFile, FirstFiles,
                  1 .. N + 1, FirstFiles')
      BY <1>11, <2>2, <2>3, <2>4, <3>1 DEF Lasting
    <3> QED
      BY <3>2, ThreadsStay
  <2> QED
    BY <2>1, <2>5 DEF Threads
<1>15. /\ \A i \in DirIndex : ~ (dirtable[i].parent_index = p /\ dirtable[i].name = n)
       /\ \A j \in FileIndex : ~ (filetable[j].parent_index = p /\ filetable[j].name = n)
  BY <1>2, NewName DEF p
<1>16. NamesDiffer'
  <2>1. NamesDiffer /\ FileIndex' = FileIndex /\ filetable' = filetable
    BY <1>2 DEF RdskInv, FileIndex
  <2>2. \A i \in DirIndex : dirtable'[i].parent_index = dirtable[i].parent_index /\ dirtable'[i].name = dirtable[i].name
    BY <1>4, <1>5
  <2> QED
    BY <1>4, <1>5, <1>15, <2>1, <2>2 DEF NamesDiffer
<1>17. OnePath'
  <2>1. OnePath /\ \A e \in tree : e.path # f.path
    BY <1>2, <1>6 DEF RdskInv, Unread
  <2> QED
    BY <1>2, <2>1 DEF OnePath
<1>18. PICK P : Located(P)
  BY DEF RdskInv
<1>19. PICK Q :
       /\ DOMAIN Q = 1 .. N + 1 /\ Q[N + 1] = PathTo(n)
       /\ \A i \in 1 .. N : Q[i] = P[i]
       /\ \A i \in 1 .. N + 1 : Q[i] \in Seq(Name)
  <2> DEFINE R == [i \in 1 .. N + 1 |-> IF i = N + 1 THEN PathTo(n) ELSE P[i]]
  <2>1. DOMAIN P = 1 .. N /\ \A i \in 1 .. N : P[i] \in Seq(Name)
    BY <1>4, <1>18 DEF Located
  <2>2. /\ DOMAIN R = 1 .. N + 1 /\ R[N + 1] = PathTo(n)
        /\ \A i \in 1 .. N : R[i] = P[i]
        /\ \A i \in 1 .. N + 1 : R[i] \in Seq(Name)
    BY <1>4, <1>6, <2>1
  <2> HIDE DEF R
  <2> QED
    BY <2>2
<1>20. Located(Q)'
  <2>1. Q[1] = <<>>
    BY <1>5, <1>18, <1>19 DEF Located
  <2>2. PathTo(n) = Append(P[p], n)
    BY <1>3, <1>18 DEF Located, PathTo, Top, p
  <2>3. ASSUME NEW i \in DirIndex'
        PROVE  /\ Q[i] = Append(Q[dirtable'[i].parent_index], dirtable'[i].name)
               /\ \E e \in tree' : e.path = Q[i] /\ e.data = None
    <3>1. CASE i \in DirIndex
      <4>1. i \in 1 .. N /\ dirtable[i].parent_index \in 1 .. N
        BY <1>1, <1>4, <1>5, <3>1 DEF TablesForm
      <4>2. /\ P[i] = Append(P[dirtable[i].parent_index], dirtable[i].name)
            /\ \E e \in tree : e.path = P[i] /\ e.data = None
        BY <1>18, <3>1 DEF Located
      <4>3. dirtable'[i].parent_index = dirtable[i].parent_index /\ dirtable'[i].name = dirtable[i].name
        BY <1>4, <4>1
      <4>4. Q[i] = P[i] /\ Q[dirtable[i].parent_index] = P[dirtable[i].parent_index]
        BY <1>19, <4>1
      <4> QED
        BY <1>2, <4>2, <4>3, <4>4
    <3>2. CASE i = N + 1
      <4>1. Q[i] = PathTo(n) /\ Q[p] = P[p]
        BY <1>5, <1>19, <3>2
      <4> QED
        BY <1>2, <1>4, <1>6, <2>2, <3>2, <4>1
    <3> QED
      BY <1>5, <3>1, <3>2
  <2>4. \A j \in FileIndex : FilePath(Q, j)' = FilePath(P, j)
    <3>1. \A j \in FileIndex : filetable[j].parent_index \in 1 .. N
      BY <1>1, <1>4 DEF TablesForm
    <3> QED
      BY <1>2, <1>19, <3>1 DEF FilePath
  <2>5. \A j \in FileIndex' : \E e \in tree' : e.path = FilePath(Q, j)' /\ e.data # None
    <3>1. \A j \in FileIndex : \E e \in tree : e.path = FilePath(P, j) /\ e.data # None
      BY <1>18 DEF Located
    <3>2. FileIndex' = FileIndex
      BY <1>2 DEF FileIndex
    <3> QED
      BY <1>2, <2>4, <3>1, <3>2
  <2>6. \A k \in DOMAIN stack' : stack'[k].name = Q[stack'[k].cur_dir_index]
    <3>1. \A k \in DOMAIN stack : stack[k].cur_dir_index \in 1 .. N
      <4>1. \A k \in DOMAIN stack : stack[k] \in Call
        BY <1>1, <1>9, ElementOfSeq DEF TablesForm
      <4> QED
        BY <1>4, <4>1 DEF Call
    <3>2. \A k \in DOMAIN stack : stack[k].name = Q[stack[k].cur_dir_index]
      BY <1>18, <1>19, <3>1 DEF Located
    <3>3. CASE errno'
      BY <1>2, <3>2, <3>3
    <3>4. CASE ~errno'
      <4>1. ASSUME NEW k \in 1 .. Len(stack) + 1 PROVE stack'[k].name = Q[stack'[k].cur_dir_index]
        <5>1. CASE k = Len(stack) + 1
          <6>1. stack'[k] = call
            BY <1>9, <3>4, <5>1
          <6> QED
            BY <1>6, <1>19, <6>1
        <5>2. CASE k \in 1 .. Len(stack)
          <6>1. stack'[k] = stack[k] /\ k \in DOMAIN stack
            BY <1>9, <3>4, <5>2
          <6> QED
            BY <3>2, <6>1
        <5> QED
          BY <1>9, <5>1, <5>2
      <4> QED
        BY <1>9, <3>4, <4>1
    <3> QED
      BY <3>3, <3>4
  <2>7. ASSUME NEW e \in tree'
        PROVE  /\ e.data = None => \E i \in DirIndex' : Q[i] = e.path
               /\ e.data # None /\ ~errno' => \E j \in FileIndex' : FilePath(Q, j)' = e.path /\ Holds(e, j)'
    <3>1. CASE e = f
      BY <1>5, <1>6, <1>19, <3>1
    <3>2. CASE e \in tree
      <4>1. e.data = None => \E i \in DirIndex : P[i] = e.path
        BY <1>18, <3>2 DEF Located
      <4>2. \A i \in DirIndex : Q[i] = P[i]
        BY <1>5, <1>19
      <4>3. e.data # None /\ ~errno => \E j \in FileIndex : FilePath(P, j) = e.path /\ Holds(e, j)
        BY <1>18, <3>2 DEF Located
      <4>4. \A j \in FileIndex : Holds(e, j)' = Holds(e, j)
        BY <1>2 DEF Holds
      <4>5. FileIndex' = FileIndex
        BY <1>2 DEF FileIndex
      <4>6. e.data = None => \E i \in DirIndex' : Q[i] = e.path
        BY <1>5, <4>1, <4>2
      <4> QED
        BY <1>2, <2>4, <4>3, <4>4, <4>5, <4>6
    <3> QED
      BY <1>2, <3>1, <3>2
  <2>8. DOMAIN Q = DOMAIN dirtable' /\ \A i \in DOMAIN Q : Q[i] \in Seq(Name)
    BY <1>4, <1>19
  <2> QED
    BY <2>1, <2>3, <2>5, <2>6, <2>7, <2>8 DEF Located
<1> QED
  BY <1>10, <1>13, <1>14, <1>16, <1>17, <1>20 DEF RdskInv

(* Parts of a sequence that another one is written behind. *)
LEMMA PartsOfBoth ==
  ASSUME NEW S, NEW s \in Seq(S), NEW t \in Seq(S)
  PROVE  /\ \A a \in Nat \ {0}, b \in Nat : b <= Len(s) => SubSeq(s \o t, a, b) = SubSeq(s, a, b)
         /\ SubSeq(s \o t, Len(s) + 1, Len(s) + Len(t)) = t
<1>1. /\ s \o t \in Seq(S) /\ Len(s \o t) = Len(s) + Len(t) /\ Len(s) \in Nat /\ Len(t) \in Nat
      /\ \A i \in 1 .. Len(s) + Len(t) : (s \o t)[i] = IF i <= Len(s) THEN s[i] ELSE t[i - Len(s)]
  BY ConcatProperties, LenProperties
<1>2. (\A i \in 1 .. Len(s) : s[i] \in S) /\ (\A i \in 1 .. Len(t) : t[i] \in S)
  BY ElementOfSeq
<1>3. \A i \in 1 .. Len(s) + Len(t) : (s \o t)[i] \in S
  BY <1>1, ElementOfSeq
<1> DEFINE st == s \o t
<1> HIDE DEF st
<1>4. ASSUME NEW a \in Nat \ {0}, NEW b \in Nat, b <= Len(s)
      PROVE  SubSeq(st, a, b) = SubSeq(s, a, b)
  <2> DEFINE u == SubSeq(st, a, b)
             v == SubSeq(s, a, b)
             m == IF a <= b THEN b - a + 1 ELSE 0
  <2>1. \A i \in a .. b : st[i] \in S /\ s[i] \in S /\ st[i] = s[i]
    BY <1>1, <1>2, <1>3, <1>4 DEF st
  <2>2. a \in Int /\ b \in Int
    BY <1>4
  <2>3. u \in Seq(S) /\ Len(u) = m /\ \A i \in 1 .. b - a + 1 : u[i] = st[a + i - 1]
    BY <2>1, <2>2, SubSeqProperties
  <2>4. v \in Seq(S) /\ Len(v) = m /\ \A i \in 1 .. b - a + 1 : v[i] = s[a + i - 1]
    BY <2>1, <2>2, SubSeqProperties
  <2>5. \A i \in 1 .. m : i \in 1 .. b - a + 1 /\ a + i - 1 \in a .. b
    BY <1>4
  <2> HIDE DEF u, v, m
  <2>6. \A i \in 1 .. m : u[i] = v[i]
    BY <2>1, <2>3, <2>4, <2>5
  <2>7. u = v
    BY <2>3, <2>4, <2>6, SeqEqual
  <2> QED
    BY <2>7 DEF u, v
<1>5. SubSeq(st, Len(s) + 1, Len(s) + Len(t)) = t
  <2> DEFINE a == Len(s) + 1
             b == Len(s) + Len(t)
             u == SubSeq(st, a, b)
  <2>1. a \in Int /\ b \in Int /\ \A i \in a .. b : st[i] \in S
    BY <1>1, <1>3 DEF st
  <2>2. b - a + 1 = Len(t) /\ (IF a <= b THEN b - a + 1 ELSE 0) = Len(t)
    BY <1>1
  <2>3. \A i \in 1 .. Len(t) : st[a + i - 1] = t[i]
    <3> SUFFICES ASSUME NEW i \in 1 .. Len(t) PROVE st[a + i - 1] = t[i]
      OBVIOUS
    <3>1. a + i - 1 \in 1 .. Len(s) + Len(t) /\ ~(a + i - 1 <= Len(s)) /\ (a + i - 1) - Len(s) = i
      BY <1>1
    <3> QED
      BY <1>1, <3>1 DEF st
  <2> HIDE DEF u, a, b
  <2>4. u \in Seq(S) /\ Len(u) = Len(t) /\ \A i \in 1 .. Len(t) : u[i] = st[a + i - 1]
    <3>1. /\ u \in Seq(S) /\ Len(u) = (IF a <= b THEN b - a + 1 ELSE 0)
          /\ \A i \in 1 .. b - a + 1 : u[i] = st[a + i - 1]
      BY <2>1, SubSeqProperties DEF u
    <3> QED
      BY Zenon, <2>2, <3>1
  <2>5. u = t
    BY <2>3, <2>4, SeqEqual
  <2> QED
    BY <2>5 DEF u, a, b
<1> QED
  BY <1>4, <1>5 DEF st

(* A table of files with one entry more. *)
WithFile(t, n, p, off, size, first) ==
  Append(t, [name |-> n, data_offset |-> off, size |-> size, next_index |-> NextOf(first), parent_index |-> p])

FileGrown(t, n, p, off, size, first, u) ==
  /\ u \in Seq(FileEntry) /\ Len(u) = Len(t) + 1 /\ Len(t) \in Nat
  /\ DOMAIN t = 1 .. Len(t) /\ DOMAIN u = 1 .. Len(t) + 1
  /\ \A q \in 1 .. Len(t) : u[q] = t[q]
  /\ u[Len(t) + 1].name = n /\ u[Len(t) + 1].parent_index = p
  /\ u[Len(t) + 1].data_offset = off /\ u[Len(t) + 1].size = size
  /\ u[Len(t) + 1].next_index = first

(* filetable_create: an entry at the end. *)
LEMMA FileAdded ==
  ASSUME NEW t \in Seq(FileEntry), NEW n \in Name, NEW p \in Nat, NEW off \in Nat, NEW size \in Nat,
         NEW first \in Nat
  PROVE  FileGrown(t, n, p, off, size, first, WithFile(t, n, p, off, size, first))
<1> DEFINE e == [name |-> n, data_offset |-> off, size |-> size, next_index |-> first, parent_index |-> p]
           u == WithFile(t, n, p, off, size, first)
<1>1. e \in FileEntry
  BY DEF FileEntry
<1>2. /\ e.name = n /\ e.data_offset = off /\ e.size = size /\ e.next_index = first /\ e.parent_index = p
  OBVIOUS
<1>3. u = Append(t, e)
  BY DEF WithFile, NextOf
<1> HIDE DEF e, u
<1>4. Len(t) \in Nat /\ DOMAIN t = 1 .. Len(t)
  BY LenProperties
<1>5. /\ u \in Seq(FileEntry) /\ Len(u) = Len(t) + 1 /\ u[Len(t) + 1] = e
      /\ \A q \in 1 .. Len(t) : u[q] = t[q]
  <2>1. /\ Append(t, e) \in Seq(FileEntry) /\ Len(Append(t, e)) = Len(t) + 1
        /\ Append(t, e)[Len(t) + 1] = e
        /\ \A i \in 1 .. Len(t) : Append(t, e)[i] = t[i]
    BY <1>1, AppendProperties
  <2> QED
    BY Zenon, <1>3, <2>1
<1>6. DOMAIN u = 1 .. Len(t) + 1
  BY <1>5, LenProperties
<1>7. FileGrown(t, n, p, off, size, first, u)
  BY <1>2, <1>4, <1>5, <1>6 DEF FileGrown
<1> QED
  BY <1>7 DEF u

(* A table of directories, one of which has another first file. *)
DirTouched(t, p, i, u) ==
  /\ u \in Seq(DirEntry) /\ Len(u) = Len(t) /\ DOMAIN u = DOMAIN t
  /\ \A q \in 1 .. Len(t) :
       /\ u[q].name = t[q].name /\ u[q].dirtable_index = t[q].dirtable_index
       /\ u[q].next_index = t[q].next_index /\ u[q].parent_index = t[q].parent_index
       /\ u[q].filetable_index = IF q = p THEN i ELSE t[q].filetable_index

(* And p's chain of files begins at it. *)
LEMMA DirTouching ==
  ASSUME NEW t \in Seq(DirEntry), NEW p \in DOMAIN t, NEW i \in Nat
  PROVE  DirTouched(t, p, i, [t EXCEPT ![p].filetable_index = i])
<1> DEFINE d == [t EXCEPT ![p].filetable_index = i]
           c == [t[p] EXCEPT !.filetable_index = i]
<1>1. Len(t) \in Nat /\ DOMAIN t = 1 .. Len(t) /\ t \in [1 .. Len(t) -> DirEntry]
  BY LenProperties
<1>2. \A q \in 1 .. Len(t) : t[q] \in DirEntry
  BY <1>1
<1>3. /\ c \in DirEntry /\ c.name = t[p].name /\ c.dirtable_index = t[p].dirtable_index
      /\ c.next_index = t[p].next_index /\ c.parent_index = t[p].parent_index
      /\ c.filetable_index = i
  <2>1. t[p] \in DirEntry
    BY <1>1, <1>2
  <2> QED
    BY <2>1 DEF DirEntry
<1>4. d = [q \in 1 .. Len(t) |-> IF q = p THEN c ELSE t[q]]
  BY <1>1
<1> HIDE DEF c, d
<1>5. d \in [1 .. Len(t) -> DirEntry] /\ DOMAIN d = DOMAIN t
  BY <1>1, <1>2, <1>3, <1>4
<1>6. d \in Seq(DirEntry) /\ Len(d) = Len(t)
  BY <1>1, <1>5, IsASeq, LenProperties
<1>7. \A q \in 1 .. Len(t) : d[q] = IF q = p THEN c ELSE t[q]
  BY <1>4
<1>8. DirTouched(t, p, i, d)
  BY <1>3, <1>5, <1>6, <1>7 DEF DirTouched
<1> QED
  BY <1>8 DEF d

(* nor a file, skipped or written. *)
LEMMA PackFileKeeps ==
  ASSUME RdskInv, NEW n \in Name, NEW bytes \in Contents, PackFile(n, bytes)
  PROVE  RdskInv'
<1> DEFINE N == Len(dirtable)
           M == Len(filetable)
           p == Top.cur_dir_index
           f == [path |-> PathTo(n), data |-> bytes]
<1>1. TablesForm
  BY DEF RdskInv
<1>2. /\ stack # <<>> /\ Unread(n) /\ tree' = tree \cup {f} /\ stack' = stack
      /\ errno' \in BOOLEAN /\ (errno => errno')
      /\ errno' => dirtable' = dirtable /\ filetable' = filetable /\ data' = data
      /\ ~errno' => filetable_create(n, p, Len(data), Len(bytes)) /\ data' = data \o bytes
  <2>1. errno \in BOOLEAN
    BY <1>1 DEF TablesForm
  <2> QED
    BY <2>1 DEF PackFile, AtDataOffset
<1>3. /\ dirtable \in Seq(DirEntry) /\ filetable \in Seq(FileEntry) /\ data \in Seq(DataByte)
      /\ N \in Nat /\ N >= 1 /\ DOMAIN dirtable = 1 .. N /\ p \in 1 .. N
      /\ M \in Nat /\ DOMAIN filetable = 1 .. M /\ FileIndex = 1 .. M /\ Len(data) \in Nat
      /\ Top.name \in Seq(Name) /\ Len(stack) \in DOMAIN stack
  <2>1. p \in DOMAIN dirtable /\ Top.name \in Seq(Name) /\ Len(stack) \in DOMAIN stack
    BY <1>1, <1>2, FormFacts
  <2>2. /\ N \in Nat /\ DOMAIN dirtable = 1 .. N /\ M \in Nat /\ DOMAIN filetable = FileIndex
        /\ Len(data) \in Nat
    BY <1>1, FormFacts
  <2> QED
    BY <1>1, <2>1, <2>2 DEF TablesForm, FileIndex
<1>4. bytes \in Seq(DataByte) /\ Len(bytes) \in Nat /\ bytes # None
  <2>1. bytes \in Seq(Elements(bytes)) /\ Elements(bytes) \subseteq DataByte /\ bytes # None
    BY RdskAssumption DEF DataByte
  <2>2. bytes \in Seq(DataByte)
    BY <2>1, SeqMonotonic
  <2> QED
    BY <2>1, <2>2, LenProperties
<1>5. PathTo(n) \in Seq(Name) /\ f.path = PathTo(n) /\ f.data = bytes /\ f \in Item
  <2>1. PathTo(n) \in Seq(Name)
    BY <1>3, AppendProperties DEF PathTo
  <2> QED
    BY <2>1 DEF Item
<1>6. OnePath'
  <2>1. OnePath /\ \A e \in tree : e.path # f.path
    BY <1>2, <1>5 DEF RdskInv, Unread
  <2> QED
    BY <1>2, <2>1 DEF OnePath
<1>7. PICK P : Located(P)
  BY DEF RdskInv
<1>8. PathTo(n) = Append(P[p], n)
  BY <1>3, <1>7 DEF Located, PathTo, Top
<1>9. CASE errno'
  <2>1. dirtable' = dirtable /\ filetable' = filetable /\ data' = data
    BY <1>2, <1>9
  <2>2. TablesForm'
    <3>1. tree' \subseteq Item
      BY <1>1, <1>2, <1>5 DEF TablesForm
    <3> HIDE DEF f
    <3> QED
      BY <1>1, <1>2, <2>1, <3>1 DEF TablesForm, DirIndex, FileIndex, Call
  <2>3. /\ Threads(DirIndex, NextOfDir, UpOfDir, FirstDirs)'
        /\ Threads(FileIndex, NextOfFile, UpOfFile, FirstFiles)'
    <3>1. /\ DirIndex' = DirIndex /\ NextOfDir' = NextOfDir /\ UpOfDir' = UpOfDir /\ FirstDirs' = FirstDirs
          /\ FileIndex' = FileIndex /\ NextOfFile' = NextOfFile /\ UpOfFile' = UpOfFile /\ FirstFiles' = FirstFiles
      BY <2>1 DEF DirIndex, NextOfDir, UpOfDir, FirstDirs, FileIndex, NextOfFile, UpOfFile, FirstFiles
    <3> QED
      BY <3>1 DEF RdskInv, Threads
  <2>4. NamesDiffer'
    BY <2>1 DEF RdskInv, NamesDiffer, DirIndex, FileIndex
  <2>5. Located(P)'
    <3>1. f \in tree' /\ f.data # None /\ tree \subseteq tree'
      BY <1>2, <1>4, <1>5
    <3>2. \A e \in tree' : e = f \/ e \in tree
      BY <1>2
    <3>3. \A e \in tree' : e.data = None => \E i \in DirIndex : P[i] = e.path
      BY <1>7, <3>1, <3>2 DEF Located
    <3> HIDE DEF f
    <3>4. \A i \in DirIndex : \E e \in tree' : e.path = P[i] /\ e.data = None
      BY <1>7, <3>1 DEF Located
    <3>5. \A j \in FileIndex : \E e \in tree' : e.path = FilePath(P, j) /\ e.data # None
      BY <1>7, <3>1 DEF Located
    <3>6. DirIndex' = DirIndex /\ FileIndex' = FileIndex /\ \A j \in FileIndex : FilePath(P, j)' = FilePath(P, j)
      BY <2>1 DEF DirIndex, FileIndex, FilePath
    <3>7. /\ DOMAIN P = DOMAIN dirtable' /\ P[1] = <<>>
          /\ \A i \in DOMAIN P : P[i] \in Seq(Name)
          /\ \A i \in DirIndex : P[i] = Append(P[dirtable'[i].parent_index], dirtable'[i].name)
          /\ \A k \in DOMAIN stack' : stack'[k].name = P[stack'[k].cur_dir_index]
      BY <1>2, <1>7, <2>1 DEF Located
    <3> QED
      BY <1>9, <3>3, <3>4, <3>5, <3>6, <3>7 DEF Located
  <2> QED
    BY <1>6, <2>2, <2>3, <2>4, <2>5 DEF RdskInv
<1>10. CASE ~errno'
  <2> DEFINE first == dirtable[p].filetable_index
             off == Len(data)
             size == Len(bytes)
  <2>1. first \in Nat /\ p \in Nat
    <3>1. dirtable[p] \in DirEntry
      BY <1>3, ElementOfSeq
    <3>2. first \in Nat
      BY <3>1 DEF DirEntry
    <3>3. p \in 1 .. N /\ N \in Nat
      BY <1>3
    <3> HIDE DEF first, p, N
    <3> QED
      BY <3>2, <3>3
  <2>2. FileGrown(filetable, n, p, off, size, first, filetable')
    <3>1. filetable' = WithFile(filetable, n, p, off, size, first)
      BY <1>2, <1>10 DEF filetable_create, WithFile
    <3> HIDE DEF first, p
    <3> QED
      BY <1>3, <1>4, <2>1, <3>1, FileAdded
  <2>3. DirTouched(dirtable, p, M + 1, dirtable')
    <3>1. dirtable' = [dirtable EXCEPT ![p].filetable_index = M + 1]
      BY <1>2, <1>10 DEF filetable_create
    <3> HIDE DEF p, M
    <3>2. M + 1 \in Nat /\ p \in DOMAIN dirtable
      BY <1>3
    <3> QED
      BY <1>3, <3>1, <3>2, DirTouching
  <2> HIDE DEF p, f, M, N, first
  <2>4. /\ dirtable' \in Seq(DirEntry) /\ Len(dirtable') = N /\ DOMAIN dirtable' = 1 .. N
        /\ \A q \in 1 .. N :
             /\ dirtable'[q].name = dirtable[q].name
             /\ dirtable'[q].dirtable_index = dirtable[q].dirtable_index
             /\ dirtable'[q].next_index = dirtable[q].next_index
             /\ dirtable'[q].parent_index = dirtable[q].parent_index
             /\ dirtable'[q].filetable_index = IF q = p THEN M + 1 ELSE dirtable[q].filetable_index
    BY <1>3, <2>3 DEF DirTouched, N
  <2>5. /\ filetable' \in Seq(FileEntry) /\ Len(filetable') = M + 1 /\ DOMAIN filetable' = 1 .. M + 1
        /\ \A q \in 1 .. M : filetable'[q] = filetable[q]
        /\ filetable'[M + 1].name = n /\ filetable'[M + 1].parent_index = p
        /\ filetable'[M + 1].data_offset = off /\ filetable'[M + 1].size = size
        /\ filetable'[M + 1].next_index = first
    BY <2>2 DEF FileGrown, M
  <2>6. /\ data' \in Seq(DataByte) /\ Len(data') = off + size
        /\ \A a \in Nat \ {0}, b \in Nat : b <= off => SubSeq(data', a, b) = SubSeq(data, a, b)
        /\ SubSeq(data', off + 1, off + size) = bytes
    <3>1. data' = data \o bytes
      BY <1>2, <1>10
    <3>2. /\ data \o bytes \in Seq(DataByte) /\ Len(data \o bytes) = off + size
      BY <1>3, <1>4, ConcatProperties
    <3>3. /\ \A a \in Nat \ {0}, b \in Nat : b <= off => SubSeq(data \o bytes, a, b) = SubSeq(data, a, b)
          /\ SubSeq(data \o bytes, off + 1, off + size) = bytes
      BY <1>3, <1>4, PartsOfBoth
    <3> QED
      BY Zenon, <3>1, <3>2, <3>3
  <2>7. /\ DirIndex' = DirIndex /\ DirIndex = 2 .. N
        /\ FileIndex = 1 .. M /\ FileIndex' = FileIndex \cup {M + 1} /\ M + 1 \notin FileIndex
    <3>1. FileIndex' = 1 .. M + 1
      BY <2>5 DEF FileIndex
    <3>2. DirIndex' = 2 .. N /\ DirIndex = 2 .. N
      BY <2>4 DEF DirIndex, N
    <3> QED
      BY <1>3, <3>1, <3>2
  <2>8. \A i \in FileIndex : filetable[i].data_offset \in Nat /\ filetable[i].size \in Nat /\ filetable[i].data_offset + filetable[i].size <= off
    <3>1. \A i \in FileIndex : filetable[i] \in FileEntry
      BY <1>1, FormFacts
    <3> QED
      BY <1>1, <3>1 DEF TablesForm, FileEntry
  <2>9. TablesForm'
    <3>1. Call' = Call
      BY <1>3, <2>4 DEF Call
    <3>2. stack' \in Seq(Call')
      BY <1>1, <1>2, <3>1 DEF TablesForm
    <3>3. tree' \subseteq Item
      BY <1>1, <1>2, <1>5 DEF TablesForm
    <3>4. dirtable'[1].parent_index = 0
      BY <1>1, <1>3, <2>4 DEF TablesForm
    <3>5. \A i \in DirIndex' :
            /\ dirtable'[i].name \in Name
            /\ dirtable'[i].parent_index \in DOMAIN dirtable' /\ dirtable'[i].parent_index < i
      <4>1. \A i \in DirIndex : i \in 1 .. N
        BY <1>3, <2>7
      <4>2. \A i \in DirIndex :
            /\ dirtable[i].name \in Name
            /\ dirtable[i].parent_index \in 1 .. N /\ dirtable[i].parent_index < i
        BY <1>1, <1>3 DEF TablesForm
      <4> QED
        BY <2>4, <2>7, <4>1, <4>2
    <3>6. ASSUME NEW i \in FileIndex'
          PROVE  /\ filetable'[i].parent_index \in DOMAIN dirtable'
                 /\ filetable'[i].data_offset + filetable'[i].size <= Len(data')
      <4>1. CASE i = M + 1
        <5>1. filetable'[i].parent_index = p /\ p \in DOMAIN dirtable'
          BY <1>3, <2>4, <2>5, <4>1
        <5>2. filetable'[i].data_offset = off /\ filetable'[i].size = size /\ Len(data') = off + size
          BY <2>5, <2>6, <4>1
        <5>3. off \in Nat /\ size \in Nat
          BY <1>3, <1>4
        <5> HIDE DEF off, size
        <5>4. off + size <= off + size
          BY <5>3
        <5> QED
          BY Zenon, <5>1, <5>2, <5>4
      <4>2. CASE i \in FileIndex
        <5>1. filetable'[i] = filetable[i] /\ filetable[i].parent_index \in 1 .. N
          BY <1>1, <1>3, <2>5, <2>7, <4>2 DEF TablesForm
        <5> QED
          BY <1>3, <1>4, <2>4, <2>6, <2>8, <4>2, <5>1
      <4> QED
        BY <2>7, <4>1, <4>2
    <3> QED
      BY <1>2, <1>3, <2>4, <2>5, <2>6, <3>2, <3>3, <3>4, <3>5, <3>6 DEF TablesForm
  <2>10. /\ NextOfFile \in [FileIndex -> Nat] /\ UpOfFile \in [FileIndex -> Nat]
         /\ FirstDirs \in [1 .. N -> Nat] /\ FirstFiles \in [1 .. N -> Nat]
    BY <1>1, FormFacts DEF N
  <2>11. Threads(DirIndex, NextOfDir, UpOfDir, FirstDirs)'
    <3>1. \A i \in DirIndex : i \in 1 .. N
      BY <1>3, <2>7
    <3>2. NextOfDir' = NextOfDir /\ UpOfDir' = UpOfDir /\ FirstDirs' = FirstDirs
      BY <1>3, <2>4, <2>7, <3>1 DEF NextOfDir, UpOfDir, FirstDirs
    <3> QED
      BY <2>7, <3>2 DEF RdskInv, Threads
  <2>12. Threads(FileIndex, NextOfFile, UpOfFile, FirstFiles)'
    <3>1. NextOfFile' \in [FileIndex' -> Nat] /\ UpOfFile' \in [FileIndex' -> Nat]
      <4>1. \A i \in FileIndex' : filetable'[i] \in FileEntry
        <5>1. \A i \in 1 .. M + 1 : filetable'[i] \in FileEntry
          BY <2>5, ElementOfSeq
        <5>2. FileIndex' = 1 .. M + 1
          BY <2>5 DEF FileIndex
        <5> QED
          BY <5>1, <5>2
      <4> QED
        BY <4>1 DEF NextOfFile, UpOfFile, FileEntry
    <3>2. FirstFiles' \in [1 .. N -> Nat]
      <4>1. \A i \in 1 .. N : dirtable'[i] \in DirEntry
        BY <2>4, ElementOfSeq
      <4> QED
        BY <2>4, <4>1 DEF FirstFiles, DirEntry
    <3>3. \A i \in FileIndex : NextOfFile'[i] = NextOfFile[i] /\ UpOfFile'[i] = UpOfFile[i]
      BY <2>5, <2>7 DEF NextOfFile, UpOfFile
    <3>4. NextOfFile'[M + 1] = FirstFiles[p] /\ UpOfFile'[M + 1] = p
      BY <1>3, <2>5, <2>7 DEF NextOfFile, UpOfFile, FirstFiles, first
    <3>5. /\ FirstFiles'[p] = M + 1
          /\ \A q \in (1 .. N) \ {p} : FirstFiles'[q] = FirstFiles[q]
          /\ \A q \in (1 .. N) \ (1 .. N) : FirstFiles'[q] = 0
      BY <1>3, <2>4 DEF FirstFiles
    <3>6. Threads(FileIndex, NextOfFile, UpOfFile, FirstFiles)
      BY DEF RdskInv
    <3>7. M \in Nat /\ FileIndex \subseteq 1 .. M /\ 1 .. N \subseteq 1 .. N /\ p \in 1 .. N /\ FileIndex' = FileIndex \cup {M + 1}
      BY <1>3, <2>7
    <3>8. Threading(M, FileIndex, 1 .. N, p, NextOfFile, UpOfFile, FirstFiles,
                    FileIndex', 1 .. N, NextOfFile', UpOfFile', FirstFiles')
      BY <2>10, <3>1, <3>2, <3>3, <3>4, <3>5, <3>6, <3>7 DEF Threading
    <3>9. Threads(FileIndex', NextOfFile', UpOfFile', FirstFiles')
      BY <3>8, ThreadsGrow
    <3> QED
      BY <3>9 DEF Threads
  <2>13. /\ \A i \in DirIndex : ~ (dirtable[i].parent_index = p /\ dirtable[i].name = n)
         /\ \A j \in FileIndex : ~ (filetable[j].parent_index = p /\ filetable[j].name = n)
    BY <1>2, NewName DEF p
  <2>14. \A i \in DirIndex : dirtable'[i].parent_index = dirtable[i].parent_index /\ dirtable'[i].name = dirtable[i].name
    <3>1. \A i \in DirIndex : i \in 1 .. N
      BY <1>3, <2>7
    <3> QED
      BY <2>4, <3>1
  <2>15. NamesDiffer'
    <3>1. NamesDiffer
      BY DEF RdskInv
    <3>2. \A j \in FileIndex : filetable'[j] = filetable[j]
      BY <2>5, <2>7
    <3> QED
      BY <2>5, <2>7, <2>13, <2>14, <3>1, <3>2 DEF NamesDiffer
  <2>16. Located(P)'
    <3>0. PICK m, g : m = M + 1 /\ g = f
      OBVIOUS
    <3>1. g \in tree' /\ g.data # None /\ g.data = bytes /\ g.path = PathTo(n) /\ tree \subseteq tree'
      BY <1>2, <1>4, <1>5, <3>0
    <3>2. \A e \in tree' : e = g \/ e \in tree
      BY <1>2, <3>0
    <3>3. \A e \in tree' : e.data = None => \E i \in DirIndex : P[i] = e.path
      BY <1>7, <3>1, <3>2 DEF Located
    <3>4. \A i \in DirIndex : \E e \in tree' : e.path = P[i] /\ e.data = None
      BY <1>7, <3>1 DEF Located
    <3>5. \A j \in FileIndex : FilePath(P, j)' = FilePath(P, j)
      BY <2>5, <2>7 DEF FilePath
    <3>6. FilePath(P, m)' = PathTo(n)
      BY <1>8, <2>5, <3>0 DEF FilePath
    <3>7. \A j \in FileIndex' : \E e \in tree' : e.path = FilePath(P, j)' /\ e.data # None
      <4>1. \A j \in FileIndex : \E e \in tree' : e.path = FilePath(P, j) /\ e.data # None
        BY <1>7, <3>1 DEF Located
      <4> QED
        BY <2>7, <3>0, <3>1, <3>5, <3>6, <4>1
    <3>8. Holds(g, m)'
      BY <2>5, <2>6, <3>0, <3>1 DEF Holds
    <3>9. ASSUME NEW e \in tree, NEW j \in FileIndex, Holds(e, j)
          PROVE  Holds(e, j)'
      <4>1. filetable'[j] = filetable[j]
        BY <2>5, <2>7
      <4> DEFINE a == filetable[j].data_offset + 1
                 b == filetable[j].data_offset + filetable[j].size
      <4>2. a \in Nat \ {0} /\ b \in Nat /\ b <= off
        BY <2>8
      <4>3. SubSeq(data', a, b) = SubSeq(data, a, b)
        BY <2>6, <4>2
      <4> QED
        BY <3>9, <4>1, <4>3 DEF Holds
    <3>10. ASSUME NEW e \in tree', e.data # None
           PROVE  \E j \in FileIndex' : FilePath(P, j)' = e.path /\ Holds(e, j)'
      <4>1. CASE e = g
        BY <2>7, <3>0, <3>1, <3>6, <3>8, <4>1
      <4>2. CASE e \in tree
        <5>1. PICK j \in FileIndex : FilePath(P, j) = e.path /\ Holds(e, j)
          BY <1>2, <1>7, <1>10, <3>10, <4>2 DEF Located
        <5> QED
          BY <2>7, <3>5, <3>9, <4>2, <5>1
      <4> QED
        BY <3>2, <4>1, <4>2
    <3>11. /\ DOMAIN P = DOMAIN dirtable' /\ P[1] = <<>>
           /\ \A i \in DOMAIN P : P[i] \in Seq(Name)
           /\ \A k \in DOMAIN stack' : stack'[k].name = P[stack'[k].cur_dir_index]
      BY <1>2, <1>3, <1>7, <2>4 DEF Located
    <3>12. \A i \in DirIndex : P[i] = Append(P[dirtable'[i].parent_index], dirtable'[i].name)
      BY <1>7, <2>14 DEF Located
    <3> QED
      BY <2>7, <3>3, <3>4, <3>7, <3>10, <3>11, <3>12 DEF Located
  <2> QED
    BY <1>6, <2>9, <2>11, <2>12, <2>15, <2>16 DEF RdskInv
<1> QED
  BY <1>2, <1>9, <1>10

(* What create_recurse leaves in the tables after any number of entries:   *)
(* every chain is the entries of one directory, latest first, their names  *)
(* differ, and what the tables say of a path is what the host had there.   *)
THEOREM TablesAlways == RdskSpec => []RdskInv
<1>1. RdskInit => RdskInv
  BY RdskInitHolds
<1>2. RdskInv /\ [RdskNext]_rdskVars => RdskInv'
  <2> SUFFICES ASSUME RdskInv, [RdskNext]_rdskVars PROVE RdskInv'
    OBVIOUS
  <2>1. CASE \E n \in Name : PackDir(n)
    BY <2>1, PackDirKeeps
  <2>2. CASE \E n \in Name, b \in Contents : PackFile(n, b)
    BY <2>2, PackFileKeeps
  <2>3. CASE EndOfDirectory
    BY <2>3, EndKeeps
  <2>4. CASE UNCHANGED rdskVars
    <3>1. /\ dirtable' = dirtable /\ filetable' = filetable /\ data' = data
          /\ stack' = stack /\ errno' = errno /\ tree' = tree
      BY <2>4 DEF rdskVars
    <3>2. /\ DirIndex' = DirIndex /\ NextOfDir' = NextOfDir /\ UpOfDir' = UpOfDir /\ FirstDirs' = FirstDirs
          /\ FileIndex' = FileIndex /\ NextOfFile' = NextOfFile /\ UpOfFile' = UpOfFile /\ FirstFiles' = FirstFiles
          /\ Call' = Call
      BY <3>1 DEF DirIndex, NextOfDir, UpOfDir, FirstDirs, FileIndex, NextOfFile, UpOfFile, FirstFiles, Call
    <3>3. TablesForm'
      BY <3>1, <3>2 DEF RdskInv, TablesForm
    <3>4. /\ Threads(DirIndex, NextOfDir, UpOfDir, FirstDirs)'
          /\ Threads(FileIndex, NextOfFile, UpOfFile, FirstFiles)'
      BY <3>2 DEF RdskInv, Threads
    <3>5. NamesDiffer' /\ OnePath'
      BY <3>1, <3>2 DEF RdskInv, NamesDiffer, OnePath
    <3>6. PICK P : Located(P)
      BY DEF RdskInv
    <3>7. Located(P)'
      BY <3>1, <3>2, <3>6 DEF Located, FilePath, Holds
    <3> QED
      BY <3>3, <3>4, <3>5, <3>7 DEF RdskInv
  <2> QED
    BY <2>1, <2>2, <2>3, <2>4 DEF RdskNext
<1> QED
  BY <1>1, <1>2, PTL DEF RdskSpec

-----------------------------------------------------------------------------
(* Following the threads *)

ChainOf(S, next, g) ==
  g = [i \in S \cup {0} |-> IF i = 0 THEN <<>> ELSE <<i>> \o g[next[i]]]

Descending(S, next) == \A i \in S : next[i] \in S \cup {0} /\ next[i] < i

(* Indexes that only go down have their chains, of any length. *)
LEMMA ChainExists ==
  ASSUME NEW N \in Nat, NEW S, \A j \in S : j \in Nat /\ j # 0 /\ j <= N, NEW next, Descending(S, next)
  PROVE  \E g : ChainOf(S, next, g)
<1> DEFINE Dirs(m) == {i \in S \cup {0} : i <= m}
           Is(g, m) == g = [i \in Dirs(m) |-> IF i = 0 THEN <<>> ELSE <<i>> \o g[next[i]]]
           T == {m \in Nat : ~ \E g : Is(g, m)}
<1>1. \A i \in S \cup {0} : i \in Nat /\ i <= N
  OBVIOUS
<1>0. \A m \in Nat : \A i : i \in Dirs(m) <=> i \in S \cup {0} /\ i <= m
  OBVIOUS
<1>2. ASSUME T # {}
      PROVE  FALSE
  <2>1. PICK m \in T : \A y \in T : m <= y
    <3>1. T \in SUBSET Nat
      OBVIOUS
    <3> HIDE DEF T
    <3> QED
      BY <1>2, <3>1, Least
  <2>2. m \in Nat /\ ~ \E g : Is(g, m)
    BY <2>1
  <2>21. \A y \in Nat : ~ (m <= y) => \E g : Is(g, y)
    BY <2>1
  <2> HIDE DEF T
  <2>3. CASE m = 0
    <3> DEFINE g == [i \in {0} |-> <<>>]
    <3>1. Dirs(m) = {0}
      <4> HIDE DEF Dirs, Is, g
      <4>1. \A i : i \in Dirs(m) <=> i \in S \cup {0} /\ i <= m
        BY <1>0, <2>2
      <4>2. \A i : i \in Dirs(m) <=> i = 0
        BY <1>1, <2>3, <4>1
      <4> QED
        BY <4>2
    <3> HIDE DEF Dirs
    <3>2. Is(g, m)
      BY <3>1
    <3> QED
      BY <2>2, <3>2
  <2>4. CASE m # 0
    <3>1. m - 1 \in Nat /\ ~(m <= m - 1)
      BY <2>2, <2>4
    <3>2. \E g : Is(g, m - 1)
      BY <2>21, <3>1
    <3>3. PICK g : Is(g, m - 1)
      BY <3>2
    <3> DEFINE h == [i \in Dirs(m) |-> IF i = 0 THEN <<>> ELSE <<i>> \o g[next[i]]]
    <3> DEFINE E == Dirs(m - 1)
               F == Dirs(m)
    <3>41. /\ \A i : i \in E <=> i \in S \cup {0} /\ i <= m - 1
           /\ \A i : i \in F <=> i \in S \cup {0} /\ i <= m
      <4> HIDE DEF Dirs, Is, h
      <4> QED
        BY <1>0, <2>2, <3>1
    <3>4. \A i \in F : i # 0 => next[i] \in E /\ next[i] \in F
      <4> HIDE DEF Dirs, E, F, Is, h
      <4> SUFFICES ASSUME NEW i \in F, i # 0 PROVE next[i] \in E /\ next[i] \in F
        OBVIOUS
      <4>1. i \in S /\ i <= m /\ i \in Nat
        BY <1>1, <3>41
      <4>2. next[i] \in S \cup {0} /\ next[i] < i /\ next[i] \in Nat
        BY <1>1, <4>1 DEF Descending
      <4> QED
        BY <2>2, <3>41, <4>1, <4>2
    <3>5. E \subseteq F
      <4> HIDE DEF Dirs, E, F, Is, h
      <4> QED
        BY <1>1, <2>2, <3>41
    <3>6. \A i \in E : g[i] = IF i = 0 THEN <<>> ELSE <<i>> \o g[next[i]]
      BY Zenon, <3>3
    <3>7. \A i \in F : h[i] = IF i = 0 THEN <<>> ELSE <<i>> \o g[next[i]]
      OBVIOUS
    <3>8. \A i \in F : i # 0 => next[i] \in E
      BY <3>4
    <3>9. h = [i \in F |-> IF i = 0 THEN <<>> ELSE <<i>> \o g[next[i]]]
      OBVIOUS
    <3> HIDE DEF E, F, h
    <3>10. \A i \in E : h[i] = g[i]
      BY <3>5, <3>6, <3>7
    <3>11. \A i \in F : (IF i = 0 THEN <<>> ELSE <<i>> \o g[next[i]]) = IF i = 0 THEN <<>> ELSE <<i>> \o h[next[i]]
      BY <3>8, <3>10
    <3>12. h = [i \in F |-> IF i = 0 THEN <<>> ELSE <<i>> \o h[next[i]]]
      BY Zenon, <3>9, <3>11
    <3>13. Is(h, m)
      BY Zenon, <3>12 DEF F
    <3> QED
      BY <2>2, <3>13
  <2> QED
    BY <2>3, <2>4
<1>3. PICK g : Is(g, N)
  BY <1>2
<1>4. Dirs(N) = S \cup {0}
  BY <1>1
<1>5. ChainOf(S, next, g)
  <2> HIDE DEF Dirs
  <2> QED
    BY Zenon, <1>3, <1>4 DEF ChainOf
<1> QED
  BY <1>5

(* A chain goes down, and through all that precedes in the directory. *)
Chained(S, up, i, c) ==
  /\ c \in Seq(S) /\ Len(c) \in Nat
  /\ \A k, l \in 1 .. Len(c) : k < l => c[l] < c[k]
  /\ \A k \in 1 .. Len(c) : c[k] \in S /\ c[k] <= i /\ up[c[k]] = up[i]
  /\ i # 0 => \A j \in S : j <= i /\ up[j] = up[i] => \E k \in 1 .. Len(c) : c[k] = j

(* It does so from every index. *)
LEMMA ChainIs ==
  ASSUME NEW S, \A j \in S : j \in Nat /\ j # 0, NEW next, NEW up, NEW head, Threads(S, next, up, head),
         NEW g, ChainOf(S, next, g)
  PROVE  \A i \in S \cup {0} : Chained(S, up, i, g[i])
<1>1. \A i \in S :
        /\ next[i] \in S \cup {0} /\ next[i] < i
        /\ next[i] # 0 => up[next[i]] = up[i]
        /\ \A j \in S : next[i] < j /\ j < i => up[j] # up[i]
  BY DEF Threads
<1>2. \A i \in S \cup {0} : i \in Nat /\ (i # 0 => i \in S)
  OBVIOUS
<1>3. g[0] = <<>> /\ \A i \in S : g[i] = <<i>> \o g[next[i]]
  <2>1. \A i \in S \cup {0} : g[i] = IF i = 0 THEN <<>> ELSE <<i>> \o g[next[i]]
    BY Zenon DEF ChainOf
  <2>2. \A i \in S : i # 0
    OBVIOUS
  <2> QED
    BY Zenon, <2>1, <2>2
<1> DEFINE T == {i \in S \cup {0} : ~ Chained(S, up, i, g[i])}
<1>4. ASSUME T # {}
      PROVE  FALSE
  <2>1. PICK i \in T : \A y \in T : i <= y
    <3>1. T \in SUBSET Nat
      BY <1>2
    <3> HIDE DEF T
    <3> QED
      BY <1>4, <3>1, Least
  <2>2. i \in S \cup {0} /\ ~ Chained(S, up, i, g[i])
    BY <2>1
  <2>3. CASE i = 0
    <3> DEFINE c == g[i]
    <3>1. c = <<>>
      BY <1>3, <2>3
    <3> HIDE DEF c
    <3>2. c \in Seq(S) /\ Len(c) = 0 /\ 1 .. Len(c) = {}
      BY <3>1
    <3>3. Chained(S, up, i, c)
      BY <2>3, <3>2 DEF Chained
    <3> QED
      BY <2>2, <3>3 DEF c
  <2>4. CASE i # 0
    <3> DEFINE n == next[i]
               d == g[n]
               c == g[i]
    <3>1. i \in S /\ n \in S \cup {0} /\ n < i /\ i \in Nat /\ n \in Nat
      BY <1>1, <1>2, <2>2, <2>4
    <3>2. n \notin T
      BY <2>1, <3>1
    <3>3. Chained(S, up, n, d)
      BY <3>1, <3>2
    <3>4. c = <<i>> \o d
      BY <1>3, <3>1
    <3>5. n # 0 => up[n] = up[i]
      BY <1>1, <3>1
    <3>6. \A j \in S : n < j /\ j < i => up[j] # up[i]
      BY <1>1, <3>1
    <3>7. n # 0 => n \in S
      BY <3>1
    <3> HIDE DEF c, d, n, T
    <3>8. /\ d \in Seq(S) /\ Len(d) \in Nat
          /\ \A k, l \in 1 .. Len(d) : k < l => d[l] < d[k]
          /\ \A k \in 1 .. Len(d) : d[k] \in S /\ d[k] <= n /\ up[d[k]] = up[n]
          /\ n # 0 => \A j \in S : j <= n /\ up[j] = up[n] => \E k \in 1 .. Len(d) : d[k] = j
      BY <3>3 DEF Chained
    <3>9. <<i>> \in Seq(S) /\ Len(<<i>>) = 1 /\ <<i>>[1] = i
      BY <3>1
    <3>10. /\ c \in Seq(S) /\ Len(c) = 1 + Len(d) /\ c[1] = i
           /\ \A k \in 1 .. Len(d) : c[k + 1] = d[k]
      <4> DEFINE e == <<i>>
      <4>1. e \in Seq(S) /\ Len(e) = 1 /\ e[1] = i
        BY <3>9
      <4>2. c = e \o d
        BY <3>4
      <4> HIDE DEF e
      <4>0. d \in Seq(S)
        BY <3>8
      <4>3. /\ e \o d \in Seq(S) /\ Len(e \o d) = Len(e) + Len(d)
            /\ \A k \in 1 .. Len(e) + Len(d) : (e \o d)[k] = IF k <= Len(e) THEN e[k] ELSE d[k - Len(e)]
        BY <4>0, <4>1, ConcatProperties
      <4>4. /\ c \in Seq(S) /\ Len(c) = Len(e) + Len(d)
            /\ \A k \in 1 .. Len(e) + Len(d) : c[k] = IF k <= Len(e) THEN e[k] ELSE d[k - Len(e)]
        BY Zenon, <4>2, <4>3
      <4> QED
        BY <3>8, <4>1, <4>4
    <3>11. \A k \in 1 .. Len(c) : k = 1 \/ (k - 1 \in 1 .. Len(d) /\ c[k] = d[k - 1])
      <4> SUFFICES ASSUME NEW k \in 1 .. Len(c), k # 1 PROVE k - 1 \in 1 .. Len(d) /\ c[k] = d[k - 1]
        OBVIOUS
      <4>1. k - 1 \in 1 .. Len(d) /\ (k - 1) + 1 = k
        BY <3>8, <3>10
      <4> QED
        BY <3>10, <4>1
    <3>12. Len(c) \in Nat /\ 1 \in 1 .. Len(c) /\ \A k \in 1 .. Len(d) : k + 1 \in 1 .. Len(c)
      BY <3>8, <3>10
    <3>13. \A k \in 1 .. Len(d) : d[k] \in S /\ d[k] \in Nat /\ d[k] <= n /\ up[d[k]] = up[i]
      <4> SUFFICES ASSUME NEW k \in 1 .. Len(d) PROVE d[k] \in S /\ d[k] \in Nat /\ d[k] <= n /\ up[d[k]] = up[i]
        OBVIOUS
      <4>1. d[k] \in S /\ d[k] <= n /\ up[d[k]] = up[n]
        BY <3>8
      <4>2. d[k] \in Nat /\ d[k] # 0
        BY <4>1
      <4>3. n # 0
        <5>1. n \in Nat /\ d[k] <= n
          BY <3>1, <4>1
        <5> QED
          BY <4>2, <5>1
      <4> QED
        BY <3>5, <4>1, <4>2, <4>3
    <3>14. \A k \in 1 .. Len(c) : c[k] \in S /\ c[k] <= i /\ up[c[k]] = up[i]
      <4> SUFFICES ASSUME NEW k \in 1 .. Len(c) PROVE c[k] \in S /\ c[k] <= i /\ up[c[k]] = up[i]
        OBVIOUS
      <4>1. CASE k = 1
        BY <3>1, <3>10, <4>1
      <4>2. CASE k # 1
        BY <3>1, <3>11, <3>13, <4>2
      <4> QED
        BY <4>1, <4>2
    <3>15. \A k, l \in 1 .. Len(c) : k < l => c[l] < c[k]
      <4> SUFFICES ASSUME NEW k \in 1 .. Len(c), NEW l \in 1 .. Len(c), k < l PROVE c[l] < c[k]
        OBVIOUS
      <4>1. l # 1 /\ k - 1 < l - 1
        BY <3>12
      <4>2. CASE k = 1
        BY <3>1, <3>10, <3>11, <3>13, <4>1, <4>2
      <4>3. CASE k # 1
        BY <3>8, <3>11, <4>1, <4>3
      <4> QED
        BY <4>2, <4>3
    <3>16. ASSUME NEW j \in S, j <= i, up[j] = up[i]
           PROVE  \E k \in 1 .. Len(c) : c[k] = j
      <4>1. CASE j = i
        BY <3>10, <3>12, <4>1
      <4>2. CASE j # i
        <5>1. j \in Nat /\ j # 0 /\ j < i /\ ~(n < j)
          BY <1>2, <3>1, <3>6, <3>16, <4>2
        <5>2. j <= n /\ n # 0
          BY <3>1, <5>1
        <5>3. PICK k \in 1 .. Len(d) : d[k] = j
          BY <3>5, <3>8, <3>16, <5>2
        <5> QED
          BY <3>10, <3>12, <5>3
      <4> QED
        BY <4>1, <4>2
    <3>17. Chained(S, up, i, c)
      BY <3>10, <3>12, <3>14, <3>15, <3>16 DEF Chained
    <3> QED
      BY <2>2, <3>17 DEF c
  <2> QED
    BY <2>3, <2>4
<1> QED
  BY <1>4

(* c is the thread of all that has p for its directory. *)
ThreadOf(S, up, p, c) ==
  /\ c \in Seq(S) /\ Len(c) \in Nat
  /\ \A k, l \in 1 .. Len(c) : c[k] = c[l] => k = l
  /\ \A k \in 1 .. Len(c) : c[k] \in S /\ up[c[k]] = p
  /\ \A j \in S : up[j] = p => \E k \in 1 .. Len(c) : c[k] = j

(* The chain from head[p] is that thread. *)
LEMMA ThreadIs ==
  ASSUME NEW S, \A j \in S : j \in Nat /\ j # 0, NEW next, NEW up, NEW head, Threads(S, next, up, head),
         NEW g, ChainOf(S, next, g), NEW p \in DOMAIN head
  PROVE  ThreadOf(S, up, p, g[head[p]])
<1> DEFINE i == head[p]
           c == g[i]
<1>1. /\ i \in S \cup {0}
      /\ i # 0 => up[i] = p
      /\ \A j \in S : i < j => up[j] # p
  BY DEF Threads
<1>2. Chained(S, up, i, c)
  BY <1>1, ChainIs
<1> HIDE DEF i, c
<1>3. /\ c \in Seq(S) /\ Len(c) \in Nat
      /\ \A k, l \in 1 .. Len(c) : k < l => c[l] < c[k]
      /\ \A k \in 1 .. Len(c) : c[k] \in S /\ c[k] <= i /\ up[c[k]] = up[i]
      /\ i # 0 => \A j \in S : j <= i /\ up[j] = up[i] => \E k \in 1 .. Len(c) : c[k] = j
  BY <1>2 DEF Chained
<1>4. i \in Nat /\ \A j \in S : j \in Nat /\ j # 0
  BY <1>1
<1>5. \A k, l \in 1 .. Len(c) : c[k] = c[l] => k = l
  <2> SUFFICES ASSUME NEW k \in 1 .. Len(c), NEW l \in 1 .. Len(c), c[k] = c[l] PROVE k = l
    OBVIOUS
  <2>1. c[k] \in Nat /\ c[l] \in Nat
    BY <1>3, <1>4
  <2>2. ~(k < l) /\ ~(l < k)
    BY <1>3, <2>1
  <2>3. k \in Nat /\ l \in Nat
    BY <1>3
  <2> QED
    BY <2>2, <2>3
<1>6. \A k \in 1 .. Len(c) : i # 0
  <2> SUFFICES ASSUME NEW k \in 1 .. Len(c) PROVE i # 0
    OBVIOUS
  <2>1. c[k] \in S /\ c[k] <= i
    BY <1>3
  <2>2. c[k] \in Nat /\ c[k] # 0
    BY <1>4, <2>1
  <2> QED
    BY <1>4, <2>1, <2>2
<1>7. ASSUME NEW j \in S, up[j] = p
      PROVE  \E k \in 1 .. Len(c) : c[k] = j
  <2>1. j <= i /\ i # 0
    BY <1>1, <1>4, <1>7
  <2> QED
    BY <1>1, <1>3, <1>7, <2>1
<1>8. ThreadOf(S, up, p, c)
  BY <1>1, <1>3, <1>5, <1>6, <1>7 DEF ThreadOf
<1> QED
  BY <1>8 DEF c, i

DirTo(f) ==
  f = [i \in {0} \cup 2 .. Len(dirtable) |-> IF i = 0 THEN <<>> ELSE <<i>> \o f[dirtable[i].next_index]]
FileTo(f) ==
  f = [i \in 0 .. Len(filetable) |-> IF i = 0 THEN <<>> ELSE <<i>> \o f[filetable[i].next_index]]

(* DirChain and FileChain are what their definitions say. *)
LEMMA ChainsAre ==
  ASSUME RdskInv
  PROVE  /\ ChainOf(DirIndex, NextOfDir, DirChain)
         /\ ChainOf(FileIndex, NextOfFile, FileChain)
<1>1. /\ Len(dirtable) \in Nat /\ Len(filetable) \in Nat
      /\ \A j \in DirIndex : j \in Nat /\ j # 0 /\ j <= Len(dirtable)
      /\ \A j \in FileIndex : j \in Nat /\ j # 0 /\ j <= Len(filetable)
      /\ DirIndex \cup {0} = {0} \cup 2 .. Len(dirtable)
      /\ FileIndex \cup {0} = 0 .. Len(filetable)
  <2>1. Len(dirtable) \in Nat /\ Len(filetable) \in Nat
    BY FormFacts DEF RdskInv
  <2> QED
    BY <2>1 DEF DirIndex, FileIndex
<1>2. Descending(DirIndex, NextOfDir) /\ Descending(FileIndex, NextOfFile)
  BY DEF RdskInv, Threads, Descending
<1>3. PICK d : ChainOf(DirIndex, NextOfDir, d)
  BY <1>1, <1>2, ChainExists
<1>4. PICK f : ChainOf(FileIndex, NextOfFile, f)
  BY <1>1, <1>2, ChainExists
<1>5. \A g : ChainOf(DirIndex, NextOfDir, g) <=> DirTo(g)
  <2> SUFFICES ASSUME NEW g PROVE ChainOf(DirIndex, NextOfDir, g) <=> DirTo(g)
    OBVIOUS
  <2> DEFINE A == [i \in DirIndex \cup {0} |-> IF i = 0 THEN <<>> ELSE <<i>> \o g[NextOfDir[i]]]
             B == [i \in {0} \cup 2 .. Len(dirtable) |-> IF i = 0 THEN <<>> ELSE <<i>> \o g[dirtable[i].next_index]]
  <2>1. \A i \in DirIndex \cup {0} :
          (IF i = 0 THEN <<>> ELSE <<i>> \o g[NextOfDir[i]]) = IF i = 0 THEN <<>> ELSE <<i>> \o g[dirtable[i].next_index]
    BY DEF NextOfDir
  <2>2. A = B
    BY Zenon, <1>1, <2>1
  <2> QED
    BY Zenon, <2>2 DEF ChainOf, DirTo
<1>6. \A g : ChainOf(FileIndex, NextOfFile, g) <=> FileTo(g)
  <2> SUFFICES ASSUME NEW g PROVE ChainOf(FileIndex, NextOfFile, g) <=> FileTo(g)
    OBVIOUS
  <2> DEFINE A == [i \in FileIndex \cup {0} |-> IF i = 0 THEN <<>> ELSE <<i>> \o g[NextOfFile[i]]]
             B == [i \in 0 .. Len(filetable) |-> IF i = 0 THEN <<>> ELSE <<i>> \o g[filetable[i].next_index]]
  <2>1. \A i \in FileIndex \cup {0} :
          (IF i = 0 THEN <<>> ELSE <<i>> \o g[NextOfFile[i]]) = IF i = 0 THEN <<>> ELSE <<i>> \o g[filetable[i].next_index]
    BY DEF NextOfFile
  <2>2. A = B
    BY Zenon, <1>1, <2>1
  <2> QED
    BY Zenon, <2>2 DEF ChainOf, FileTo
<1>7. DirTo(DirChain)
  <2>1. \E g : DirTo(g)
    BY <1>3, <1>5
  <2> QED
    BY Zenon, <2>1 DEF DirChain, DirTo
<1>8. FileTo(FileChain)
  <2>1. \E g : FileTo(g)
    BY <1>4, <1>6
  <2> QED
    BY Zenon, <2>1 DEF FileChain, FileTo
<1> QED
  BY <1>5, <1>6, <1>7, <1>8

(* The threads of a directory are all its entries. *)
DirsIn(p) == DirChain[dirtable[p].dirtable_index]
FilesIn(p) == FileChain[dirtable[p].filetable_index]

(* Nothing else is in them. *)
LEMMA ThreadsOfDir ==
  ASSUME RdskInv, NEW p \in DOMAIN dirtable
  PROVE  /\ ThreadOf(DirIndex, UpOfDir, p, DirsIn(p))
         /\ ThreadOf(FileIndex, UpOfFile, p, FilesIn(p))
<1>1. /\ Len(dirtable) \in Nat /\ Len(filetable) \in Nat
      /\ \A j \in DirIndex : j \in Nat /\ j # 0 /\ j <= Len(dirtable)
      /\ \A j \in FileIndex : j \in Nat /\ j # 0 /\ j <= Len(filetable)
  <2>1. Len(dirtable) \in Nat /\ Len(filetable) \in Nat
    BY FormFacts DEF RdskInv
  <2> QED
    BY <2>1 DEF DirIndex, FileIndex
<1>2. /\ Threads(DirIndex, NextOfDir, UpOfDir, FirstDirs)
      /\ Threads(FileIndex, NextOfFile, UpOfFile, FirstFiles)
  BY DEF RdskInv
<1>3. /\ p \in DOMAIN FirstDirs /\ FirstDirs[p] = dirtable[p].dirtable_index
      /\ p \in DOMAIN FirstFiles /\ FirstFiles[p] = dirtable[p].filetable_index
  BY DEF FirstDirs, FirstFiles
<1>4. ThreadOf(DirIndex, UpOfDir, p, DirChain[FirstDirs[p]])
  BY <1>1, <1>2, <1>3, ChainsAre, ThreadIs
<1>5. ThreadOf(FileIndex, UpOfFile, p, FileChain[FirstFiles[p]])
  BY <1>1, <1>2, <1>3, ChainsAre, ThreadIs
<1> QED
  BY <1>3, <1>4, <1>5 DEF DirsIn, FilesIn

-----------------------------------------------------------------------------
(* The driver's lookups *)

(* So the lookup finds by name what is in the directory. *)
LEMMA Finding ==
  ASSUME RdskInv, NEW p \in DOMAIN dirtable, NEW n
  PROVE  /\ find_dir(dirtable[p], n) =
              {i \in DirIndex : dirtable[i].parent_index = p /\ dirtable[i].name = n}
         /\ find_file(dirtable[p], n) =
              {i \in FileIndex : filetable[i].parent_index = p /\ filetable[i].name = n}
<1>1. /\ ThreadOf(DirIndex, UpOfDir, p, DirsIn(p))
      /\ ThreadOf(FileIndex, UpOfFile, p, FilesIn(p))
  BY ThreadsOfDir
<1>2. Elements(DirsIn(p)) = {i \in DirIndex : dirtable[i].parent_index = p}
  <2>1. DOMAIN DirsIn(p) = 1 .. Len(DirsIn(p))
    BY <1>1, LenProperties DEF ThreadOf
  <2> DEFINE c == DirsIn(p)
  <2> HIDE DEF c
  <2>2. \A k \in 1 .. Len(c) : c[k] \in DirIndex /\ UpOfDir[c[k]] = p
    BY <1>1 DEF ThreadOf, c
  <2>3. \A j \in DirIndex : UpOfDir[j] = p => \E k \in 1 .. Len(c) : c[k] = j
    BY <1>1 DEF ThreadOf, c
  <2>4. \A j \in DirIndex : UpOfDir[j] = dirtable[j].parent_index
    BY DEF UpOfDir
  <2>5. DOMAIN c = 1 .. Len(c)
    BY <2>1 DEF c
  <2>6. \A k \in 1 .. Len(c) : c[k] \in DirIndex /\ dirtable[c[k]].parent_index = p
    BY Zenon, <2>2, <2>4
  <2>7. \A j \in DirIndex : dirtable[j].parent_index = p => \E k \in 1 .. Len(c) : c[k] = j
    BY Zenon, <2>3, <2>4
  <2>8. {c[k] : k \in DOMAIN c} = {j \in DirIndex : dirtable[j].parent_index = p}
    BY <2>5, <2>6, <2>7
  <2> QED
    BY <2>8 DEF Elements, c
<1>3. Elements(FilesIn(p)) = {i \in FileIndex : filetable[i].parent_index = p}
  <2>1. DOMAIN FilesIn(p) = 1 .. Len(FilesIn(p))
    BY <1>1, LenProperties DEF ThreadOf
  <2> DEFINE c == FilesIn(p)
  <2> HIDE DEF c
  <2>2. \A k \in 1 .. Len(c) : c[k] \in FileIndex /\ UpOfFile[c[k]] = p
    BY <1>1 DEF ThreadOf, c
  <2>3. \A j \in FileIndex : UpOfFile[j] = p => \E k \in 1 .. Len(c) : c[k] = j
    BY <1>1 DEF ThreadOf, c
  <2>4. \A j \in FileIndex : UpOfFile[j] = filetable[j].parent_index
    BY DEF UpOfFile
  <2>5. DOMAIN c = 1 .. Len(c)
    BY <2>1 DEF c
  <2>6. \A k \in 1 .. Len(c) : c[k] \in FileIndex /\ filetable[c[k]].parent_index = p
    BY Zenon, <2>2, <2>4
  <2>7. \A j \in FileIndex : filetable[j].parent_index = p => \E k \in 1 .. Len(c) : c[k] = j
    BY Zenon, <2>3, <2>4
  <2>8. {c[k] : k \in DOMAIN c} = {j \in FileIndex : filetable[j].parent_index = p}
    BY <2>5, <2>6, <2>7
  <2> QED
    BY <2>8 DEF Elements, c
<1>4. find_dir(dirtable[p], n) = {i \in Elements(DirsIn(p)) : dirtable[i].name = n}
  BY DEF find_dir, DirsIn
<1>5. find_file(dirtable[p], n) = {i \in Elements(FilesIn(p)) : filetable[i].name = n}
  BY DEF find_file, FilesIn
<1> QED
  BY <1>2, <1>3, <1>4, <1>5

(* An entry is found in its directory, by its name. *)
LEMMA DirFound ==
  ASSUME RdskInv, NEW i \in DirIndex
  PROVE  rdsk_node_lookup(DirNode(dirtable[i].parent_index), dirtable[i].name) = DirNode(i)
<1> DEFINE p == dirtable[i].parent_index
           n == dirtable[i].name
<1>1. p \in DOMAIN dirtable /\ n \in Name
  BY DEF RdskInv, TablesForm
<1>2. n # "." /\ n # ".."
  BY <1>1, RdskAssumption
<1>3. find_dir(dirtable[p], n) = {j \in DirIndex : dirtable[j].parent_index = p /\ dirtable[j].name = n}
  BY <1>1, Finding
<1>4. find_file(dirtable[p], n) = {j \in FileIndex : filetable[j].parent_index = p /\ filetable[j].name = n}
  BY <1>1, Finding
<1>5. find_dir(dirtable[p], n) = {i}
  BY <1>3 DEF RdskInv, NamesDiffer
<1>6. find_file(dirtable[p], n) = {}
  BY <1>4 DEF RdskInv, NamesDiffer
<1>7. DirNode(p).type = "DIR" /\ DirNode(p).index = p
  BY DEF DirNode
<1> HIDE DEF p, n
<1>8. rdsk_node_lookup(DirNode(p), n) = DirNode(CHOOSE j \in find_dir(dirtable[p], n) : TRUE)
  BY <1>2, <1>5, <1>6, <1>7 DEF rdsk_node_lookup
<1>9. (CHOOSE j \in {i} : TRUE) = i
  OBVIOUS
<1> QED
  BY <1>5, <1>8, <1>9 DEF p, n

(* A file too: no directory beside it has its name. *)
LEMMA FileFound ==
  ASSUME RdskInv, NEW i \in FileIndex
  PROVE  rdsk_node_lookup(DirNode(filetable[i].parent_index), filetable[i].name) = FileNode(i)
<1> DEFINE p == filetable[i].parent_index
           n == filetable[i].name
<1>1. p \in DOMAIN dirtable /\ n \in Name
  <2>1. filetable[i] \in FileEntry
    BY FormFacts DEF RdskInv
  <2> QED
    BY <2>1 DEF RdskInv, TablesForm, FileEntry
<1>2. n # "." /\ n # ".."
  BY <1>1, RdskAssumption
<1>4. find_file(dirtable[p], n) = {j \in FileIndex : filetable[j].parent_index = p /\ filetable[j].name = n}
  BY <1>1, Finding
<1>5. find_file(dirtable[p], n) = {i}
  BY <1>4 DEF RdskInv, NamesDiffer
<1>7. DirNode(p).type = "DIR" /\ DirNode(p).index = p
  BY DEF DirNode
<1> HIDE DEF p, n
<1>8. rdsk_node_lookup(DirNode(p), n) = FileNode(CHOOSE j \in find_file(dirtable[p], n) : TRUE)
  BY <1>2, <1>5, <1>7 DEF rdsk_node_lookup
<1>9. (CHOOSE j \in {i} : TRUE) = i
  OBVIOUS
<1> QED
  BY <1>5, <1>8, <1>9 DEF p, n

(* The parts of ImageSound. *)
LEMMA SoundImage == RdskInv => ImageSound
<1> SUFFICES ASSUME RdskInv PROVE ImageSound
  OBVIOUS
<1>1. TablesForm
  BY DEF RdskInv
<1>2. /\ Len(dirtable) \in Nat /\ DOMAIN dirtable = 1 .. Len(dirtable) /\ DirIndex = 2 .. Len(dirtable)
      /\ Len(filetable) \in Nat /\ DOMAIN filetable = FileIndex /\ FileIndex = 1 .. Len(filetable)
  BY <1>1, FormFacts DEF DirIndex, FileIndex
<1>3. \A i \in DOMAIN dirtable : i = 1 \/ i \in DirIndex
  BY <1>2
<1>4. \A i \in DirIndex : i > 1 /\ i # 1 /\ i \in DOMAIN dirtable
  BY <1>2
<1>5. \A i \in DOMAIN dirtable :
        dirtable[i].dirtable_index \in DirIndex \cup {0} /\ dirtable[i].filetable_index \in FileIndex \cup {0}
  BY DEF RdskInv, Threads, FirstDirs, FirstFiles
<1>6. \A i \in DirIndex : dirtable[i].next_index \in DirIndex \cup {0} /\ dirtable[i].next_index < i
  BY DEF RdskInv, Threads, NextOfDir
<1>7. \A i \in FileIndex : filetable[i].next_index \in FileIndex \cup {0} /\ filetable[i].next_index < i
  BY DEF RdskInv, Threads, NextOfFile
<1>8. TablesOK
  <2>1. \A i \in DOMAIN dirtable :
          /\ dirtable[i].filetable_index \in 0 .. Len(filetable)
          /\ dirtable[i].dirtable_index \in 0 .. Len(dirtable)
    BY <1>2, <1>5
  <2>2. \A i \in DOMAIN dirtable : dirtable[i].parent_index \in 0 .. Len(dirtable)
    <3>1. \A i \in DirIndex : dirtable[i].parent_index \in 1 .. Len(dirtable)
      BY <1>1, <1>2 DEF TablesForm
    <3>2. dirtable[1].parent_index = 0
      BY <1>1 DEF TablesForm
    <3> QED
      BY <1>2, <1>3, <3>1, <3>2
  <2>3. \A i \in DOMAIN dirtable : i > 1 => dirtable[i].next_index \in 0 .. Len(dirtable)
    BY <1>2, <1>3, <1>6
  <2>4. \A i \in DOMAIN filetable : filetable[i].next_index \in 0 .. Len(filetable)
    BY <1>2, <1>7
  <2>5. \A k \in DOMAIN stack : stack[k].cur_dir_index \in DOMAIN dirtable
    <3>1. \A k \in DOMAIN stack : stack[k] \in Call
      BY <1>1, FormFacts, ElementOfSeq DEF TablesForm
    <3> QED
      BY <3>1 DEF Call
  <2> QED
    BY <1>1, <1>2, <2>1, <2>2, <2>3, <2>4, <2>5 DEF TablesOK, TablesForm
<1>9. ChainsEnd
  <2>1. \A i \in DOMAIN dirtable : dirtable[i].parent_index < i
    BY <1>1, <1>3 DEF TablesForm
  <2>2. \A i \in DOMAIN dirtable : i > 1 => dirtable[i].next_index < i
    BY <1>3, <1>6
  <2> QED
    BY <1>2, <1>7, <2>1, <2>2 DEF ChainsEnd
<1>10. UpIsDown
  <2>1. ASSUME NEW i \in DOMAIN dirtable
        PROVE  LET up == rdsk_node_lookup(DirNode(i), "..")
                   n == rdsk_node_name(DirNode(i))
               IN /\ up = None <=> n = None
                  /\ up # None => rdsk_node_lookup(up, n) = DirNode(i)
    <3> DEFINE up == rdsk_node_lookup(DirNode(i), "..")
               n == rdsk_node_name(DirNode(i))
    <3>1. DirNode(i).type = "DIR" /\ DirNode(i).index = i
      BY DEF DirNode
    <3>2. up = Parent(dirtable[i])
      BY <3>1 DEF rdsk_node_lookup
    <3>3. n = IF dirtable[i].parent_index = 0 THEN None ELSE dirtable[i].name
      BY <3>1 DEF rdsk_node_name
    <3> HIDE DEF up, n
    <3>4. CASE i = 1
      <4>1. dirtable[i].parent_index = 0
        BY <1>1, <3>4 DEF TablesForm
      <4>2. up = None /\ n = None
        BY <3>2, <3>3, <4>1 DEF Parent
      <4> QED
        BY <4>2 DEF up, n
    <3>5. CASE i \in DirIndex
      <4>1. dirtable[i].parent_index \in Nat /\ dirtable[i].parent_index # 0 /\ dirtable[i].name \in Name
        BY <1>1, <1>2, <3>5 DEF TablesForm
      <4>2. up = DirNode(dirtable[i].parent_index) /\ n = dirtable[i].name
        BY <3>2, <3>3, <4>1 DEF Parent
      <4>3. n # None
        BY <4>1, <4>2, RdskAssumption
      <4>4. up # None
        <5>1. DirNode(dirtable[i].parent_index) \in [type : {"DIR", "FILE"}, index : Nat]
          <6> DEFINE p == dirtable[i].parent_index
          <6>1. p \in Nat
            BY <4>1
          <6> HIDE DEF p
          <6>2. [type |-> "DIR", index |-> p] \in [type : {"DIR", "FILE"}, index : Nat]
            BY <6>1
          <6> QED
            BY <6>2 DEF DirNode, p
        <5>2. \A x \in [type : {"DIR", "FILE"}, index : Nat] : x # None
          <6> DEFINE R == [type : {"DIR", "FILE"}, index : Nat]
          <6>1. None \notin Name \cup Contents \cup R
            BY RdskAssumption
          <6> HIDE DEF R
          <6>2. \A x \in R : x # None
            BY <6>1
          <6> QED
            BY <6>2 DEF R
        <5> QED
          BY Zenon, <4>2, <5>1, <5>2
      <4>5. rdsk_node_lookup(up, n) = DirNode(i)
        BY <3>5, <4>2, DirFound
      <4> QED
        BY <4>3, <4>4, <4>5 DEF up, n
    <3> QED
      BY <1>3, <3>4, <3>5
  <2>2. ASSUME NEW i \in DOMAIN filetable
        PROVE  rdsk_node_lookup(DirNode(filetable[i].parent_index), rdsk_node_name(FileNode(i))) = FileNode(i)
    <3>1. rdsk_node_name(FileNode(i)) = filetable[i].name
      BY DEF rdsk_node_name, FileNode
    <3> QED
      BY <1>2, <3>1, FileFound
  <2> QED
    BY <2>1, <2>2 DEF UpIsDown
<1> QED
  BY <1>8, <1>9, <1>10 DEF ImageSound

(* Whatever tree is packed, the tables are in range, their chains end, and *)
(* the way up from a node is the way down to it.                           *)
THEOREM ImageAlwaysSound == RdskSpec => []ImageSound
  BY TablesAlways, SoundImage, PTL

-----------------------------------------------------------------------------
(* Paths *)

Walks(path, f) ==
  f = [k \in 0 .. Len(path) |-> IF k = 0 THEN DirNode(1) ELSE rdsk_node_lookup(f[k - 1], path[k])]

(* A path of the length m has a walk. *)
LEMMA WalksExist ==
  ASSUME NEW path, Len(path) \in Nat
  PROVE  \E f : Walks(path, f)
<1> DEFINE Is(g, m) == g = [k \in 0 .. m |-> IF k = 0 THEN DirNode(1) ELSE rdsk_node_lookup(g[k - 1], path[k])]
           T == {m \in Nat : ~ \E g : Is(g, m)}
<1>1. ASSUME T # {}
      PROVE  FALSE
  <2>1. PICK m \in T : \A y \in T : m <= y
    <3>1. T \in SUBSET Nat
      OBVIOUS
    <3> HIDE DEF T
    <3> QED
      BY <1>1, <3>1, Least
  <2>2. m \in Nat /\ ~ \E g : Is(g, m)
    BY <2>1
  <2>3. \A y \in Nat : ~ (m <= y) => \E g : Is(g, y)
    BY <2>1
  <2> HIDE DEF T
  <2>4. CASE m = 0
    <3> DEFINE h == [k \in {0} |-> DirNode(1)]
    <3>1. 0 .. m = {0}
      BY <2>4
    <3>2. h = [k \in {0} |-> IF k = 0 THEN DirNode(1) ELSE rdsk_node_lookup(h[k - 1], path[k])]
      OBVIOUS
    <3>3. Is(h, m)
      BY Zenon, <3>1, <3>2
    <3> QED
      BY <2>2, <3>3
  <2>5. CASE m # 0
    <3>1. m - 1 \in Nat /\ ~(m <= m - 1)
      BY <2>2, <2>5
    <3>2. PICK g : Is(g, m - 1)
      BY <2>3, <3>1
    <3> DEFINE h == [k \in 0 .. m |-> IF k = 0 THEN DirNode(1) ELSE rdsk_node_lookup(g[k - 1], path[k])]
    <3>3. \A k \in 0 .. m - 1 : g[k] = IF k = 0 THEN DirNode(1) ELSE rdsk_node_lookup(g[k - 1], path[k])
      BY Zenon, <3>2
    <3>4. \A k \in 0 .. m : h[k] = IF k = 0 THEN DirNode(1) ELSE rdsk_node_lookup(g[k - 1], path[k])
      OBVIOUS
    <3>5. h = [k \in 0 .. m |-> IF k = 0 THEN DirNode(1) ELSE rdsk_node_lookup(g[k - 1], path[k])]
      OBVIOUS
    <3> HIDE DEF h, Is
    <3>6. \A k \in 0 .. m - 1 : k \in 0 .. m
      BY <2>2
    <3>7. \A k \in 0 .. m - 1 : h[k] = g[k]
      BY Zenon, <3>3, <3>4, <3>6
    <3>8. \A k \in 0 .. m : k # 0 => k - 1 \in 0 .. m - 1
      BY <2>2
    <3>9. \A k \in 0 .. m : (IF k = 0 THEN DirNode(1) ELSE rdsk_node_lookup(g[k - 1], path[k]))
                          = IF k = 0 THEN DirNode(1) ELSE rdsk_node_lookup(h[k - 1], path[k])
      BY Zenon, <3>7, <3>8
    <3>10. h = [k \in 0 .. m |-> IF k = 0 THEN DirNode(1) ELSE rdsk_node_lookup(h[k - 1], path[k])]
      BY Zenon, <3>5, <3>9
    <3>11. Is(h, m)
      BY Zenon, <3>10 DEF Is
    <3> QED
      BY <2>2, <3>11
  <2> QED
    BY <2>4, <2>5
<1>2. PICK f : Is(f, Len(path))
  BY <1>1
<1> QED
  BY Zenon, <1>2 DEF Walks

(* Resolve is the end of one. *)
LEMMA ResolveIs ==
  ASSUME NEW path, Len(path) \in Nat
  PROVE  \E f : Walks(path, f) /\ Resolve(path) = f[Len(path)]
<1> DEFINE w == CHOOSE f : Walks(path, f)
<1>1. Walks(path, w)
  <2>1. \E f : Walks(path, f)
    BY WalksExist
  <2> QED
    BY Zenon, <2>1
<1>2. Resolve(path) = w[Len(path)]
  BY Zenon DEF Resolve, Walks
<1> HIDE DEF w
<1> QED
  BY <1>1, <1>2

(* Walks of paths with a common beginning begin alike. *)
LEMMA WalksAgree ==
  ASSUME NEW path, NEW longer, NEW f, NEW g, Len(path) \in Nat, Len(longer) \in Nat, Len(path) <= Len(longer),
         \A k \in 1 .. Len(path) : longer[k] = path[k], Walks(path, f), Walks(longer, g)
  PROVE  \A k \in 0 .. Len(path) : f[k] = g[k]
<1>1. \A k \in 0 .. Len(path) : f[k] = IF k = 0 THEN DirNode(1) ELSE rdsk_node_lookup(f[k - 1], path[k])
  BY Zenon DEF Walks
<1>2. \A k \in 0 .. Len(longer) : g[k] = IF k = 0 THEN DirNode(1) ELSE rdsk_node_lookup(g[k - 1], longer[k])
  BY Zenon DEF Walks
<1> DEFINE T == {k \in 0 .. Len(path) : f[k] # g[k]}
<1>3. ASSUME T # {}
      PROVE  FALSE
  <2>1. PICK m \in T : \A y \in T : m <= y
    <3>1. T \in SUBSET Nat
      OBVIOUS
    <3> HIDE DEF T
    <3> QED
      BY <1>3, <3>1, Least
  <2>2. m \in 0 .. Len(path) /\ m \in 0 .. Len(longer) /\ m \in Nat /\ f[m] # g[m]
    BY <2>1
  <2>3. CASE m = 0
    BY <1>1, <1>2, <2>2, <2>3
  <2>4. CASE m # 0
    <3>1. m - 1 \in 0 .. Len(path) /\ ~(m <= m - 1) /\ m \in 1 .. Len(path)
      BY <2>2, <2>4
    <3>2. f[m - 1] = g[m - 1]
      BY <2>1, <3>1
    <3>3. longer[m] = path[m]
      BY <3>1
    <3> QED
      BY Zenon, <1>1, <1>2, <2>2, <2>4, <3>2, <3>3
  <2> QED
    BY <2>3, <2>4
<1> QED
  BY <1>3

(* One component more is one lookup more. *)
LEMMA ResolveOne ==
  ASSUME NEW path \in Seq(Name), NEW n \in Name
  PROVE  Resolve(Append(path, n)) = rdsk_node_lookup(Resolve(path), n)
<1> DEFINE longer == Append(path, n)
<1>1. /\ Len(path) \in Nat /\ Len(longer) = Len(path) + 1 /\ longer[Len(path) + 1] = n
      /\ \A k \in 1 .. Len(path) : longer[k] = path[k]
  BY AppendProperties, LenProperties
<1> HIDE DEF longer
<1>2. Len(longer) \in Nat /\ Len(path) <= Len(longer)
  BY <1>1
<1>3. PICK f : Walks(path, f) /\ Resolve(path) = f[Len(path)]
  BY <1>1, ResolveIs
<1>4. PICK g : Walks(longer, g) /\ Resolve(longer) = g[Len(longer)]
  BY <1>2, ResolveIs
<1>5. f[Len(path)] = g[Len(path)]
  <2>1. \A k \in 0 .. Len(path) : f[k] = g[k]
    BY <1>1, <1>2, <1>3, <1>4, WalksAgree
  <2> QED
    BY <1>1, <2>1
<1>6. g[Len(longer)] = rdsk_node_lookup(g[Len(longer) - 1], longer[Len(longer)])
  <2>1. \A k \in 0 .. Len(longer) : g[k] = IF k = 0 THEN DirNode(1) ELSE rdsk_node_lookup(g[k - 1], longer[k])
    BY Zenon, <1>4 DEF Walks
  <2>2. Len(longer) \in 0 .. Len(longer) /\ Len(longer) # 0
    BY <1>1, <1>2
  <2> QED
    BY Zenon, <2>1, <2>2
<1>7. Len(longer) - 1 = Len(path)
  BY <1>1
<1> QED
  BY <1>1, <1>3, <1>4, <1>5, <1>6, <1>7 DEF longer

(* No component is the root. *)
LEMMA ResolveNone == Resolve(<<>>) = DirNode(1)
<1>1. Len(<<>>) = 0
  OBVIOUS
<1>2. PICK f : Walks(<<>>, f) /\ Resolve(<<>>) = f[0]
  BY <1>1, ResolveIs
<1>3. f[0] = DirNode(1)
  <2>1. \A k \in 0 .. 0 : f[k] = IF k = 0 THEN DirNode(1) ELSE rdsk_node_lookup(f[k - 1], <<>>[k])
    BY Zenon, <1>1, <1>2 DEF Walks
  <2> QED
    BY <2>1
<1> QED
  BY <1>2, <1>3

(* The path of a directory, or of a file, leads to it. *)
LEMMA DirResolves ==
  ASSUME RdskInv, NEW P, Located(P)
  PROVE  \A i \in DOMAIN dirtable : Resolve(P[i]) = DirNode(i)
<1>1. Len(dirtable) \in Nat /\ DOMAIN dirtable = 1 .. Len(dirtable) /\ DirIndex = 2 .. Len(dirtable)
  BY FormFacts DEF RdskInv, DirIndex
<1> DEFINE T == {i \in DOMAIN dirtable : Resolve(P[i]) # DirNode(i)}
<1>2. ASSUME T # {}
      PROVE  FALSE
  <2>1. PICK i \in T : \A y \in T : i <= y
    <3>1. T \in SUBSET Nat
      BY <1>1
    <3> HIDE DEF T
    <3> QED
      BY <1>2, <3>1, Least
  <2>2. i \in DOMAIN dirtable /\ Resolve(P[i]) # DirNode(i)
    BY <2>1
  <2>3. CASE i = 1
    BY <2>2, <2>3, ResolveNone DEF Located
  <2>4. CASE i # 1
    <3> DEFINE p == dirtable[i].parent_index
    <3>1. i \in DirIndex
      BY <1>1, <2>2, <2>4
    <3>2. p \in DOMAIN dirtable /\ p < i /\ dirtable[i].name \in Name
      BY <3>1 DEF RdskInv, TablesForm
    <3>3. p \notin T
      BY <1>1, <2>1, <2>2, <3>2
    <3>4. Resolve(P[p]) = DirNode(p)
      BY <3>2, <3>3
    <3>5. P[i] = Append(P[p], dirtable[i].name) /\ P[p] \in Seq(Name)
      BY <3>1, <3>2 DEF Located
    <3>6. Resolve(P[i]) = rdsk_node_lookup(DirNode(p), dirtable[i].name)
      BY <3>2, <3>4, <3>5, ResolveOne
    <3> QED
      BY <2>2, <3>1, <3>6, DirFound
  <2> QED
    BY <2>3, <2>4
<1> QED
  BY <1>2

(* The same for the path of a file. *)
LEMMA FileResolves ==
  ASSUME RdskInv, NEW P, Located(P), NEW j \in FileIndex
  PROVE  Resolve(FilePath(P, j)) = FileNode(j)
<1> DEFINE p == filetable[j].parent_index
<1>1. p \in DOMAIN dirtable /\ filetable[j].name \in Name
  <2>1. filetable[j] \in FileEntry
    BY FormFacts DEF RdskInv
  <2> QED
    BY <2>1 DEF RdskInv, TablesForm, FileEntry
<1>2. P[p] \in Seq(Name) /\ Resolve(P[p]) = DirNode(p)
  BY <1>1, DirResolves DEF Located
<1>3. Resolve(FilePath(P, j)) = rdsk_node_lookup(DirNode(p), filetable[j].name)
  BY <1>1, <1>2, ResolveOne DEF FilePath
<1> QED
  BY <1>3, FileFound

-----------------------------------------------------------------------------
(* Contents *)

(* A read cut in two anywhere gives the whole of a file, and no more. *)
LEMMA ReadsIn ==
  ASSUME RdskInv, NEW e, NEW j \in FileIndex, Holds(e, j), NEW node, node = FileNode(j)
  PROVE  /\ node.type = "FILE" /\ filetable[node.index].size = Len(e.data)
         /\ \A o \in 0 .. Len(e.data) :
              rdsk_node_rw(node, 0, o) \o rdsk_node_rw(node, o, Len(e.data) + 1) = e.data
<1> DEFINE f == filetable[j]
           a == f.data_offset
           s == f.size
<1>1. node.type = "FILE" /\ node.index = j
  BY DEF FileNode
<1>2. a \in Nat /\ s \in Nat /\ a + s <= Len(data) /\ Len(data) \in Nat /\ data \in Seq(DataByte)
  <2>1. filetable[j] \in FileEntry /\ Len(data) \in Nat
    BY FormFacts DEF RdskInv
  <2> QED
    BY <2>1 DEF RdskInv, TablesForm, FileEntry
<1>3. s = Len(e.data) /\ SubSeq(data, a + 1, a + s) = e.data
  BY DEF Holds
<1>4. \A o, n : rdsk_node_rw(node, o, n) =
        LET left == IF o >= s THEN 0 ELSE s - o
            count == IF left > n THEN n ELSE left
        IN SubSeq(data, a + o + 1, a + o + count)
  BY <1>1 DEF rdsk_node_rw
<1> HIDE DEF f, a, s
<1>5. ASSUME NEW o \in 0 .. s
      PROVE  rdsk_node_rw(node, 0, o) \o rdsk_node_rw(node, o, s + 1) = e.data
  <2> DEFINE left == IF 0 >= s THEN 0 ELSE s - 0
             count == IF left > o THEN o ELSE left
             rest == IF o >= s THEN 0 ELSE s - o
             more == IF rest > s + 1 THEN s + 1 ELSE rest
  <2>1. count = o /\ o + more = s /\ more \in Nat
    BY <1>2
  <2>2. /\ rdsk_node_rw(node, 0, o) = SubSeq(data, a + 0 + 1, a + 0 + count)
        /\ rdsk_node_rw(node, o, s + 1) = SubSeq(data, a + o + 1, a + o + more)
    BY <1>4
  <2> HIDE DEF count, more
  <2>3. a + 0 + 1 = a + 1 /\ a + 0 + count = a + o /\ a + o + more = a + s
    BY <1>2, <2>1
  <2>4. /\ rdsk_node_rw(node, 0, o) = SubSeq(data, a + 1, a + o)
        /\ rdsk_node_rw(node, o, s + 1) = SubSeq(data, a + o + 1, a + s)
    BY Zenon, <2>2, <2>3
  <2> DEFINE m == a + 1
             k == a + o
             n == a + s
  <2>5. m \in 1 .. Len(data) + 1 /\ k \in m - 1 .. Len(data) /\ n \in k .. Len(data)
    BY <1>2
  <2> HIDE DEF m, k, n
  <2>6. SubSeq(data, m, k) \o SubSeq(data, k + 1, n) = SubSeq(data, m, n)
    BY <1>2, <2>5, ConcatAdjacentSubSeq
  <2> QED
    BY Zenon, <1>3, <2>4, <2>6 DEF m, k, n
<1> QED
  BY <1>1, <1>3, <1>5 DEF f, s

(* All the host had is found by its path, with its contents. *)
LEMMA FaithfulImage == RdskInv => ImageFaithful
<1> SUFFICES ASSUME RdskInv, Packed, NEW e \in tree
             PROVE  LET node == Resolve(e.path) IN
                    IF e.data = None THEN node.type = "DIR"
                    ELSE /\ node.type = "FILE"
                         /\ filetable[node.index].size = Len(e.data)
                         /\ \A o \in 0 .. Len(e.data) :
                              rdsk_node_rw(node, 0, o) \o rdsk_node_rw(node, o, Len(e.data) + 1) = e.data
  BY DEF ImageFaithful
<1>1. PICK P : Located(P)
  BY DEF RdskInv
<1>2. CASE e.data = None
  <2>1. PICK i \in DirIndex : P[i] = e.path
    BY <1>1, <1>2 DEF Located
  <2>2. i \in DOMAIN dirtable
    BY <2>1, FormFacts DEF RdskInv
  <2>3. Resolve(e.path) = DirNode(i)
    BY <1>1, <2>1, <2>2, DirResolves
  <2> QED
    BY <1>2, <2>3 DEF DirNode
<1>3. CASE e.data # None
  <2>1. PICK j \in FileIndex : FilePath(P, j) = e.path /\ Holds(e, j)
    BY <1>1, <1>3 DEF Located, Packed
  <2>2. Resolve(e.path) = FileNode(j)
    BY <1>1, <2>1, FileResolves
  <2> DEFINE node == Resolve(e.path)
  <2>3. node = FileNode(j)
    BY <2>2
  <2> HIDE DEF node
  <2>4. /\ node.type = "FILE" /\ filetable[node.index].size = Len(e.data)
        /\ \A o \in 0 .. Len(e.data) :
              rdsk_node_rw(node, 0, o) \o rdsk_node_rw(node, o, Len(e.data) + 1) = e.data
    BY <2>1, <2>3, ReadsIn
  <2> QED
    BY <1>3, <2>4 DEF node
<1> QED
  BY <1>2, <1>3

(* When the tool reports success, what the driver reads under a path, in   *)
(* one read or in two, is what the host had there.                         *)
THEOREM ImageAlwaysFaithful == RdskSpec => []ImageFaithful
  BY TablesAlways, FaithfulImage, PTL

-----------------------------------------------------------------------------
(* Listing a directory *)

(* Following offsets from o gives what out gives on the way. *)
Following(S, out, nxt, f) ==
  f = [o \in S |-> IF out[o] = None THEN <<>> ELSE <<out[o]>> \o f[nxt[o]]]

(* At the offset o the listing has come to the place pos[o] of all. *)
Steps(S, out, nxt, pos, all) ==
  /\ all \in Seq(Name) /\ Len(all) \in Nat
  /\ \A o \in S :
       /\ pos[o] \in Nat
       /\ pos[o] < Len(all) => out[o] = all[pos[o] + 1] /\ nxt[o] \in S /\ pos[nxt[o]] = pos[o] + 1
       /\ ~(pos[o] < Len(all)) => out[o] = None

(* What is left of all at each offset is one such function, and any other  *)
(* is equal to it.                                                         *)
LEMMA Follows ==
  ASSUME NEW S, NEW out, NEW nxt, NEW pos, NEW all, Steps(S, out, nxt, pos, all)
  PROVE  /\ \E f : Following(S, out, nxt, f)
         /\ \A f : Following(S, out, nxt, f) => \A o \in S : f[o] = SubSeq(all, pos[o] + 1, Len(all))
<1> DEFINE L == Len(all)
           rest(k) == SubSeq(all, k + 1, Len(all))
<1>1. /\ L \in Nat
      /\ \A o \in S :
           /\ pos[o] \in Nat
           /\ pos[o] < L => out[o] = all[pos[o] + 1] /\ nxt[o] \in S /\ pos[nxt[o]] = pos[o] + 1
           /\ ~(pos[o] < L) => out[o] = None
  BY DEF Steps
<1>2. \A k \in Nat : ~(k < L) => rest(k) = <<>>
  <2> SUFFICES ASSUME NEW k \in Nat, ~(k < L) PROVE rest(k) = <<>>
    OBVIOUS
  <2>1. k + 1 \in Int /\ L \in Int /\ L < k + 1
    BY <1>1
  <2> QED
    BY <2>1, SubSeqEmpty
<1>3. \A k \in Nat : k < L => rest(k) = <<all[k + 1]>> \o rest(k + 1) /\ all[k + 1] # None
  <2> SUFFICES ASSUME NEW k \in Nat, k < L
               PROVE rest(k) = <<all[k + 1]>> \o rest(k + 1) /\ all[k + 1] # None
    OBVIOUS
  <2> DEFINE m == k + 1
  <2>1. m \in 1 .. L /\ L \in m .. L
    BY <1>1
  <2>2. all \in Seq(Name)
    BY DEF Steps
  <2> HIDE DEF m
  <2>3. SubSeq(all, m, L) = <<all[m]>> \o SubSeq(all, m + 1, L)
    BY <2>1, <2>2, SubSeqRecursiveFirst
  <2>4. all[m] \in Name
    BY <2>1, <2>2
  <2>5. all[m] # None
    BY <2>4, RdskAssumption
  <2> QED
    BY <2>3, <2>5 DEF m
<1> HIDE DEF L, rest
<1>4. \E f : Following(S, out, nxt, f)
  <2> DEFINE f == [o \in S |-> rest(pos[o])]
             step(g, o) == IF out[o] = None THEN <<>> ELSE <<out[o]>> \o g[nxt[o]]
  <2>1. \A o \in S : f[o] = rest(pos[o])
    OBVIOUS
  <2>2. f = [o \in S |-> rest(pos[o])]
    OBVIOUS
  <2> HIDE DEF f
  <2>3. ASSUME NEW o \in S
        PROVE  rest(pos[o]) = step(f, o)
    <3>1. CASE pos[o] < L
      <4>1. nxt[o] \in S /\ pos[nxt[o]] = pos[o] + 1 /\ out[o] = all[pos[o] + 1] /\ pos[o] \in Nat
        BY <1>1, <3>1
      <4>2. f[nxt[o]] = rest(pos[o] + 1)
        BY Zenon, <2>1, <4>1
      <4>3. rest(pos[o]) = <<out[o]>> \o f[nxt[o]] /\ out[o] # None
        BY Zenon, <1>3, <3>1, <4>1, <4>2
      <4> QED
        BY Zenon, <4>3
    <3>2. CASE ~(pos[o] < L)
      BY Zenon, <1>1, <1>2, <3>2
    <3> QED
      BY <3>1, <3>2
  <2>4. f = [o \in S |-> step(f, o)]
    BY Zenon, <2>2, <2>3
  <2>5. Following(S, out, nxt, f)
    BY Zenon, <2>4 DEF Following
  <2> QED
    BY <2>5
<1>5. ASSUME NEW f, Following(S, out, nxt, f)
      PROVE  \A o \in S : f[o] = rest(pos[o])
  <2>1. \A o \in S : f[o] = IF out[o] = None THEN <<>> ELSE <<out[o]>> \o f[nxt[o]]
    BY Zenon, <1>5 DEF Following
  <2>2. \A o \in S : ~(pos[o] < L) => f[o] = rest(pos[o])
    BY Zenon, <1>1, <1>2, <2>1
  <2>3. \A o \in S : pos[o] < L /\ f[nxt[o]] = rest(pos[nxt[o]]) => f[o] = rest(pos[o])
    <3> SUFFICES ASSUME NEW o \in S, pos[o] < L, f[nxt[o]] = rest(pos[nxt[o]]) PROVE f[o] = rest(pos[o])
      OBVIOUS
    <3>1. pos[nxt[o]] = pos[o] + 1 /\ out[o] = all[pos[o] + 1] /\ pos[o] \in Nat
      BY <1>1
    <3>2. rest(pos[o]) = <<out[o]>> \o f[nxt[o]] /\ out[o] # None
      BY Zenon, <1>3, <3>1
    <3> QED
      BY Zenon, <2>1, <3>2
  <2> DEFINE wrong(o) == f[o] # rest(pos[o])
             T == {d \in Nat : \E o \in S : pos[o] < L /\ d = L - pos[o] /\ wrong(o)}
  <2>4. \A o \in S : wrong(o) => pos[o] < L
    BY <2>2
  <2>5. \A o \in S : wrong(o) => nxt[o] \in S /\ wrong(nxt[o]) /\ pos[nxt[o]] = pos[o] + 1
    BY <1>1, <2>3, <2>4
  <2> HIDE DEF wrong
  <2>6. ASSUME T # {}
        PROVE  FALSE
    <3>1. PICK d \in T : \A y \in T : d <= y
      <4>1. T \in SUBSET Nat
        OBVIOUS
      <4> HIDE DEF T
      <4> QED
        BY <2>6, <4>1, Least
    <3>2. PICK o \in S : pos[o] < L /\ d = L - pos[o] /\ wrong(o)
      BY <3>1
    <3>3. nxt[o] \in S /\ wrong(nxt[o]) /\ pos[nxt[o]] = pos[o] + 1 /\ pos[o] \in Nat /\ pos[nxt[o]] < L
      BY <1>1, <2>4, <2>5, <3>2
    <3>4. L - pos[nxt[o]] \in Nat /\ ~(d <= L - pos[nxt[o]])
      BY <1>1, <3>2, <3>3
    <3>5. L - pos[nxt[o]] \in T
      BY <3>3, <3>4
    <3> QED
      BY <3>1, <3>4, <3>5
  <2>7. \A o \in S : ~wrong(o)
    <3> SUFFICES ASSUME NEW o \in S, wrong(o) PROVE FALSE
      OBVIOUS
    <3>1. pos[o] < L /\ pos[o] \in Nat
      BY <1>1, <2>4
    <3>2. L - pos[o] \in Nat
      BY <1>1, <3>1
    <3>3. L - pos[o] \in T
      BY <3>1, <3>2
    <3> QED
      BY <2>6, <3>3
  <2> QED
    BY <2>7 DEF wrong
<1> QED
  BY Zenon, <1>4, <1>5 DEF rest

(* A sequence without repetition is no longer than the set it is from. *)
LEMMA NoLonger ==
  ASSUME NEW a \in Nat, NEW b \in Nat, NEW S, NEW up, NEW p, NEW c, ThreadOf(S, up, p, c), S = a .. b, a > 0
  PROVE  Len(c) <= b
<1>1. Len(c) \in Nat /\ (\A k \in 1 .. Len(c) : c[k] \in S) /\ \A k, l \in 1 .. Len(c) : c[k] = c[l] => k = l
  BY DEF ThreadOf
<1> DEFINE n == Len(c)
           f == [k \in 1 .. n |-> c[k]]
<1>2. f \in Injection(1 .. n, 1 .. b)
  <2>1. f \in [1 .. n -> 1 .. b]
    <3>1. \A k \in 1 .. n : c[k] \in 1 .. b
      BY <1>1
    <3> QED
      BY <3>1
  <2>2. \A k, l \in 1 .. n : f[k] = f[l] => k = l
    BY <1>1
  <2> HIDE DEF f
  <2> QED
    BY <2>1, <2>2, Fun_IsInj
<1>3. IsFiniteSet(1 .. b) /\ Cardinality(1 .. b) = b
  BY FS_Interval
<1> HIDE DEF f, n
<1>4. Cardinality(1 .. n) = n
  <2>1. n \in Nat
    BY <1>1 DEF n
  <2>2. Cardinality(1 .. n) = IF 1 > n THEN 0 ELSE n - 1 + 1
    BY <2>1, FS_Interval
  <2> QED
    BY <2>1, <2>2
<1>5. Cardinality(1 .. n) <= Cardinality(1 .. b)
  BY <1>2, <1>3, FS_Injection
<1> QED
  BY <1>3, <1>4, <1>5 DEF n

(* The names of a directory's entries, files first. *)
Entries(p) ==
  [k \in 1 .. Len(FilesIn(p)) + Len(DirsIn(p)) |->
     IF k <= Len(FilesIn(p)) THEN filetable[FilesIn(p)[k]].name
     ELSE dirtable[DirsIn(p)[k - Len(FilesIn(p))]].name]

(* They are no more than the tables have entries. *)
LEMMA EntriesForm ==
  ASSUME RdskInv, NEW p \in DOMAIN dirtable
  PROVE  /\ Len(FilesIn(p)) \in Nat /\ Len(FilesIn(p)) <= Len(filetable)
         /\ Len(DirsIn(p)) \in Nat /\ Len(DirsIn(p)) <= Len(dirtable)
         /\ Entries(p) \in Seq(Name) /\ Len(Entries(p)) = Len(FilesIn(p)) + Len(DirsIn(p))
<1> DEFINE F == FilesIn(p)
           Dirs == DirsIn(p)
<1>1. ThreadOf(DirIndex, UpOfDir, p, Dirs) /\ ThreadOf(FileIndex, UpOfFile, p, F)
  BY ThreadsOfDir
<1>2. Len(dirtable) \in Nat /\ Len(filetable) \in Nat
  BY FormFacts DEF RdskInv
<1> HIDE DEF F, Dirs
<1>3. Len(F) \in Nat /\ Len(Dirs) \in Nat
  BY <1>1 DEF ThreadOf
<1>4. Len(F) <= Len(filetable)
  <2>1. FileIndex = 1 .. Len(filetable)
    BY DEF FileIndex
  <2> QED
    BY <1>1, <1>2, <2>1, NoLonger
<1>5. Len(Dirs) <= Len(dirtable)
  <2>1. DirIndex = 2 .. Len(dirtable)
    BY DEF DirIndex
  <2> QED
    BY <1>1, <1>2, <2>1, NoLonger
<1>6. \A k \in 1 .. Len(F) + Len(Dirs) :
        (IF k <= Len(F) THEN filetable[F[k]].name ELSE dirtable[Dirs[k - Len(F)]].name) \in Name
  <2> SUFFICES ASSUME NEW k \in 1 .. Len(F) + Len(Dirs)
               PROVE (IF k <= Len(F) THEN filetable[F[k]].name ELSE dirtable[Dirs[k - Len(F)]].name) \in Name
    OBVIOUS
  <2>1. CASE k <= Len(F)
    <3>1. F[k] \in FileIndex
      BY <1>1, <1>3, <2>1 DEF ThreadOf
    <3>2. filetable[F[k]] \in FileEntry
      BY <3>1, FormFacts DEF RdskInv
    <3> QED
      BY <2>1, <3>2 DEF FileEntry
  <2>2. CASE ~(k <= Len(F))
    <3>1. k - Len(F) \in 1 .. Len(Dirs)
      BY <1>3, <2>2
    <3>2. Dirs[k - Len(F)] \in DirIndex
      BY <1>1, <3>1 DEF ThreadOf
    <3> QED
      BY <2>2, <3>2 DEF RdskInv, TablesForm
  <2> QED
    BY <2>1, <2>2
<1>7. Len(F) + Len(Dirs) \in Nat
  BY <1>3
<1>8. Entries(p) = [k \in 1 .. Len(F) + Len(Dirs) |-> IF k <= Len(F) THEN filetable[F[k]].name ELSE dirtable[Dirs[k - Len(F)]].name]
  BY DEF Entries, F, Dirs
<1>9. Entries(p) \in [1 .. Len(F) + Len(Dirs) -> Name]
  BY <1>6, <1>8
<1>10. DOMAIN Entries(p) = 1 .. Len(F) + Len(Dirs)
  BY <1>8
<1>11. Entries(p) \in Seq(Name) /\ Len(Entries(p)) = Len(F) + Len(Dirs)
  <2> DEFINE s == Entries(p)
             n == Len(F) + Len(Dirs)
  <2>1. n \in Nat /\ s \in [1 .. n -> Name] /\ DOMAIN s = 1 .. n
    BY <1>7, <1>9, <1>10
  <2> HIDE DEF s, n
  <2>2. s \in Seq(Name)
    BY <2>1, IsASeq
  <2>3. Len(s) = n
    BY <2>1, <2>2, LenProperties
  <2> QED
    BY <2>2, <2>3 DEF s, n
<1> QED
  BY <1>2, <1>3, <1>4, <1>5, <1>11 DEF F, Dirs

(* A table has room for the entries in use. *)
LEMMA CapacityCovers ==
  ASSUME NEW u \in Nat
  PROVE  Capacity(u) \in Nat /\ u <= Capacity(u)
<1>1. GROW \in Nat \ {0}
  BY RdskAssumption
<1> DEFINE G == GROW
<1>2. G \in Nat /\ G # 0
  BY <1>1
<1> HIDE DEF G
<1>3. (u + G - 1) \div G \in Nat /\ u <= ((u + G - 1) \div G) * G
  BY <1>2
<1>4. ((u + G - 1) \div G) * G \in Nat
  <2> DEFINE q == (u + G - 1) \div G
  <2>1. q \in Nat
    BY <1>3
  <2> HIDE DEF q
  <2>2. q * G \in Nat
    BY <1>2, <2>1
  <2> QED
    BY <2>2 DEF q
<1> QED
  BY <1>3, <1>4 DEF Capacity, G

(* A directory is listed entry by entry, whatever the offsets that are     *)
(* skipped between its files and its directories.                          *)
LEMMA ListingIs ==
  ASSUME RdskInv, NEW p \in DOMAIN dirtable
  PROVE  Listing(DirNode(p)) = Entries(p)
<1> DEFINE node == DirNode(p)
           F == FilesIn(p)
           Dirs == DirsIn(p)
           C == Capacity(Len(filetable))
           N == Len(dirtable)
           S == 0 .. C + N
           all == Entries(p)
           r(o) == rdsk_node_readdir(node, o)
           k(o) == IF o < C THEN 0 ELSE o - C
           place(o) == IF o < Len(F) THEN o ELSE Len(F) + k(o)
           out == [o \in S |-> r(o).out]
           nxt == [o \in S |-> r(o).offset]
           pos == [o \in S |-> place(o)]
<1>1. /\ Len(F) \in Nat /\ Len(F) <= C /\ C \in Nat
      /\ Len(Dirs) \in Nat /\ Len(Dirs) <= N /\ N \in Nat
      /\ all \in Seq(Name) /\ Len(all) = Len(F) + Len(Dirs)
  <2>1. Len(dirtable) \in Nat /\ Len(filetable) \in Nat
    BY FormFacts DEF RdskInv
  <2>2. C \in Nat /\ Len(filetable) <= C
    BY <2>1, CapacityCovers
  <2>3. Len(F) \in Nat /\ Len(F) <= Len(filetable)
    BY EntriesForm
  <2>4. Len(F) <= C
    <3> HIDE DEF C, F
    <3> QED
      BY <2>1, <2>2, <2>3
  <2>5. Len(Dirs) \in Nat /\ Len(Dirs) <= N /\ all \in Seq(Name) /\ Len(all) = Len(F) + Len(Dirs)
    BY EntriesForm
  <2> HIDE DEF C, N, F, Dirs, all
  <2> QED
    BY <2>1, <2>2, <2>3, <2>4, <2>5 DEF N
<1>2. /\ \A i \in 1 .. Len(F) + Len(Dirs) : i <= Len(F) => all[i] = filetable[F[i]].name
      /\ \A i \in 1 .. Len(F) + Len(Dirs) : ~(i <= Len(F)) => all[i] = dirtable[Dirs[i - Len(F)]].name
  BY DEF Entries
<1>3. \A o : r(o) = IF o < C /\ o < Len(F)
                    THEN [out |-> filetable[F[o + 1]].name, offset |-> o + 1]
                    ELSE IF (IF o < C THEN C ELSE o) - C < Len(Dirs)
                         THEN [out |-> dirtable[Dirs[(IF o < C THEN C ELSE o) - C + 1]].name,
                               offset |-> (IF o < C THEN C ELSE o) + 1]
                         ELSE [out |-> None, offset |-> o]
  <2>1. node.index = p
    BY DEF DirNode
  <2> HIDE DEF node
  <2> QED
    BY <2>1 DEF rdsk_node_readdir, AfterFiles, FilesIn, DirsIn
<1> HIDE DEF node, F, Dirs, C, N, all, r
<1>4. \A o \in S :
        /\ o < Len(F) => r(o) = [out |-> filetable[F[o + 1]].name, offset |-> o + 1]
        /\ ~(o < Len(F)) /\ k(o) < Len(Dirs) => r(o) = [out |-> dirtable[Dirs[k(o) + 1]].name, offset |-> C + k(o) + 1]
        /\ ~(o < Len(F)) /\ ~(k(o) < Len(Dirs)) => r(o) = [out |-> None, offset |-> o]
  <2> SUFFICES ASSUME NEW o \in S
               PROVE  /\ o < Len(F) => r(o) = [out |-> filetable[F[o + 1]].name, offset |-> o + 1]
                      /\ ~(o < Len(F)) /\ k(o) < Len(Dirs) => r(o) = [out |-> dirtable[Dirs[k(o) + 1]].name, offset |-> C + k(o) + 1]
                      /\ ~(o < Len(F)) /\ ~(k(o) < Len(Dirs)) => r(o) = [out |-> None, offset |-> o]
    OBVIOUS
  <2> DEFINE l == IF o < C THEN C ELSE o
  <2>1. o \in Nat /\ l - C = k(o) /\ l + 1 = C + k(o) + 1 /\ (o < Len(F) => o < C)
    BY <1>1
  <2>2. r(o) = IF o < C /\ o < Len(F)
               THEN [out |-> filetable[F[o + 1]].name, offset |-> o + 1]
               ELSE IF l - C < Len(Dirs) THEN [out |-> dirtable[Dirs[l - C + 1]].name, offset |-> l + 1]
               ELSE [out |-> None, offset |-> o]
    BY <1>3
  <2> HIDE DEF l, k
  <2> QED
    BY Zenon, <2>1, <2>2
<1>5. \A o \in S : k(o) \in Nat /\ (k(o) < Len(Dirs) => C + k(o) + 1 \in S) /\ o \in Nat /\ (o < Len(F) => o + 1 \in S)
  BY <1>1
<1>6. \A o \in S : place(o) \in Nat
  BY <1>1, <1>5
<1>7. ASSUME NEW o \in S, o < Len(F)
      PROVE  r(o).out = all[place(o) + 1] /\ r(o).offset \in S /\ place(r(o).offset) = place(o) + 1
  <2>1. r(o) = [out |-> filetable[F[o + 1]].name, offset |-> o + 1]
    BY <1>4, <1>7
  <2>2. o + 1 \in 1 .. Len(F) + Len(Dirs) /\ o + 1 <= Len(F) /\ place(o) = o /\ o + 1 \in S /\ o \in Nat
    BY <1>1, <1>5, <1>7
  <2>3. place(o + 1) = o + 1
    BY <1>1, <1>5, <1>7, <2>2
  <2>4. all[o + 1] = filetable[F[o + 1]].name
    BY <1>2, <2>2
  <2> HIDE DEF place, S
  <2> QED
    BY <2>1, <2>2, <2>3, <2>4
<1>8. ASSUME NEW o \in S, ~(o < Len(F)), k(o) < Len(Dirs)
      PROVE  r(o).out = all[place(o) + 1] /\ r(o).offset \in S /\ place(r(o).offset) = place(o) + 1
  <2> DEFINE j == k(o)
             o2 == C + j + 1
  <2>1. j \in Nat /\ j < Len(Dirs) /\ o2 \in S /\ place(o) = Len(F) + j
    BY <1>5, <1>8
  <2>2. r(o) = [out |-> dirtable[Dirs[j + 1]].name, offset |-> o2]
    BY <1>4, <1>8
  <2> HIDE DEF j
  <2>3. k(o2) = j + 1 /\ ~(o2 < Len(F))
    BY <1>1, <2>1
  <2>4. place(o2) = Len(F) + (j + 1)
    <3> HIDE DEF k, o2
    <3> QED
      BY <2>3
  <2>5. /\ Len(F) + j + 1 \in 1 .. Len(F) + Len(Dirs) /\ ~(Len(F) + j + 1 <= Len(F))
        /\ (Len(F) + j + 1) - Len(F) = j + 1 /\ Len(F) + (j + 1) = Len(F) + j + 1
    BY <1>1, <2>1
  <2> HIDE DEF place, o2, S, k
  <2>6. all[Len(F) + j + 1] = dirtable[Dirs[j + 1]].name
    BY Zenon, <1>2, <2>5
  <2>7. r(o).out = dirtable[Dirs[j + 1]].name /\ r(o).offset = o2
    BY <2>2
  <2> QED
    BY Zenon, <2>1, <2>4, <2>5, <2>6, <2>7
<1>9. ASSUME NEW o \in S, ~(o < Len(F)), ~(k(o) < Len(Dirs))
      PROVE  r(o).out = None
  BY <1>4, <1>9
<1>10. \A o \in S : place(o) < Len(all) <=> (o < Len(F) \/ k(o) < Len(Dirs))
  BY <1>1, <1>5
<1>11. Steps(S, out, nxt, pos, all)
  <2>1. \A o \in S : out[o] = r(o).out /\ nxt[o] = r(o).offset /\ pos[o] = place(o)
    OBVIOUS
  <2>2. Len(all) \in Nat /\ all \in Seq(Name)
    BY <1>1
  <2> HIDE DEF out, nxt, pos, place, S, k
  <2>3. \A o \in S : pos[o] < Len(all) =>
          out[o] = all[pos[o] + 1] /\ nxt[o] \in S /\ pos[nxt[o]] = pos[o] + 1
    <3> SUFFICES ASSUME NEW o \in S, pos[o] < Len(all)
                 PROVE out[o] = all[pos[o] + 1] /\ nxt[o] \in S /\ pos[nxt[o]] = pos[o] + 1
      OBVIOUS
    <3>1. pos[o] = place(o) /\ (o < Len(F) \/ k(o) < Len(Dirs))
      BY Zenon, <1>10, <2>1
    <3>2. r(o).out = all[place(o) + 1] /\ r(o).offset \in S /\ place(r(o).offset) = place(o) + 1
      BY Zenon, <1>7, <1>8, <3>1
    <3>3. out[o] = all[pos[o] + 1] /\ nxt[o] \in S
      BY Zenon, <2>1, <3>1, <3>2
    <3>4. pos[nxt[o]] = place(nxt[o]) /\ nxt[o] = r(o).offset
      BY Zenon, <2>1, <3>3
    <3> QED
      BY Zenon, <3>1, <3>2, <3>3, <3>4
  <2>4. \A o \in S : ~(pos[o] < Len(all)) => out[o] = None
    BY Zenon, <1>9, <1>10, <2>1
  <2>5. \A o \in S : pos[o] \in Nat
    BY <1>6, <2>1
  <2> QED
    BY <2>2, <2>3, <2>4, <2>5 DEF Steps
<1> DEFINE lists(f) == f = [o \in S |-> IF r(o).out = None THEN <<>> ELSE <<r(o).out>> \o f[r(o).offset]]
<1>12. \A f : lists(f) <=> Following(S, out, nxt, f)
  <2> SUFFICES ASSUME NEW f PROVE lists(f) <=> Following(S, out, nxt, f)
    OBVIOUS
  <2>1. \A o \in S : out[o] = r(o).out /\ nxt[o] = r(o).offset
    OBVIOUS
  <2> HIDE DEF out, nxt, S
  <2>2. \A o \in S : (IF r(o).out = None THEN <<>> ELSE <<r(o).out>> \o f[r(o).offset])
                   = IF out[o] = None THEN <<>> ELSE <<out[o]>> \o f[nxt[o]]
    BY Zenon, <2>1
  <2>3. [o \in S |-> IF r(o).out = None THEN <<>> ELSE <<r(o).out>> \o f[r(o).offset]]
        = [o \in S |-> IF out[o] = None THEN <<>> ELSE <<out[o]>> \o f[nxt[o]]]
    BY Zenon, <2>2
  <2> QED
    BY Zenon, <2>3 DEF Following
<1> DEFINE List == CHOOSE f : lists(f)
<1>13. Listing(node) = List[0]
  BY Zenon DEF Listing, S, C, N, r
<1>14. \A o \in S : List[o] = SubSeq(all, pos[o] + 1, Len(all))
  <2> HIDE DEF out, nxt, pos, S, lists
  <2>1. \E f : lists(f)
    BY <1>11, <1>12, Follows
  <2>2. lists(List)
    BY Zenon, <2>1
  <2>3. Following(S, out, nxt, List)
    BY Zenon, <1>12, <2>2
  <2> HIDE DEF List
  <2> QED
    BY <1>11, <2>3, Follows
<1>15. 0 \in S /\ pos[0] = 0
  BY <1>1
<1>16. List[0] = SubSeq(all, 1, Len(all))
  <2> HIDE DEF List, S, pos
  <2> QED
    BY <1>14, <1>15
<1>17. SubSeq(all, 1, Len(all)) = all
  BY <1>1, SubSeqFull
<1> QED
  BY Zenon, <1>13, <1>16, <1>17 DEF node, all

(* Appending is undone by taking the first ones. *)
LEMMA LessTheLast ==
  ASSUME NEW S, NEW s \in Seq(S), NEW n \in S
  PROVE  SubSeq(Append(s, n), 1, Len(s)) = s
<1> DEFINE q == Append(s, n)
           t == SubSeq(q, 1, Len(s))
<1>1. Len(s) \in Nat /\ \A i \in 1 .. Len(s) : q[i] = s[i] /\ q[i] \in S
  BY AppendProperties, LenProperties, ElementOfSeq
<1> HIDE DEF q
<1>2. /\ t \in Seq(S)
      /\ Len(t) = IF 1 <= Len(s) THEN Len(s) - 1 + 1 ELSE 0
      /\ \A i \in 1 .. Len(s) - 1 + 1 : t[i] = q[1 + i - 1]
  BY <1>1, SubSeqProperties
<1> HIDE DEF t
<1>3. Len(t) = Len(s) /\ \A i \in 1 .. Len(s) : t[i] = s[i]
  <2>1. \A i \in 1 .. Len(s) : i \in 1 .. Len(s) - 1 + 1 /\ 1 + i - 1 = i
    BY <1>1
  <2> QED
    BY <1>1, <1>2, <2>1
<1>4. t = s
  BY <1>2, <1>3, SeqEqual
<1> QED
  BY <1>4 DEF t, q

(* What Children selects: what the host has in the directory. *)
LEMMA ChildrenAre ==
  ASSUME RdskInv, NEW path \in Seq(Name), NEW e \in tree
  PROVE  /\ e \in Children(path) <=> \E n \in Name : e.path = Append(path, n)
         /\ \A n \in Name : e.path = Append(path, n) => e.path[Len(path) + 1] = n
<1> DEFINE q == e.path
<1>1. q \in Seq(Name)
  <2>1. e \in Item
    BY DEF RdskInv, TablesForm
  <2> QED
    BY <2>1 DEF Item
<1>2. e \in Children(path) <=> Len(q) = Len(path) + 1 /\ SubSeq(q, 1, Len(path)) = path
  BY DEF Children
<1> HIDE DEF q
<1>3. Len(path) \in Nat
  BY LenProperties
<1>4. ASSUME NEW n \in Name, q = Append(path, n)
      PROVE  Len(q) = Len(path) + 1 /\ SubSeq(q, 1, Len(path)) = path /\ q[Len(path) + 1] = n
  <2>1. Len(q) = Len(path) + 1 /\ q[Len(path) + 1] = n
    BY <1>4, AppendProperties
  <2>2. SubSeq(q, 1, Len(path)) = path
    BY <1>4, LessTheLast
  <2> QED
    BY <2>1, <2>2
<1>5. ASSUME Len(q) = Len(path) + 1, SubSeq(q, 1, Len(path)) = path
      PROVE  \E n \in Name : q = Append(path, n)
  <2>1. q # <<>>
    BY <1>3, <1>5
  <2>2. PICK s \in Seq(Name), n \in Name : q = Append(s, n)
    BY <1>1, <2>1, SequenceEmptyOrAppend
  <2>3. Len(s) \in Nat /\ Len(q) = Len(s) + 1
    BY <2>2, AppendProperties, LenProperties
  <2>4. Len(s) = Len(path)
    BY <1>3, <1>5, <2>3
  <2>5. SubSeq(q, 1, Len(s)) = s
    BY <2>2, LessTheLast
  <2> QED
    BY <1>5, <2>2, <2>4, <2>5
<1> QED
  BY <1>2, <1>4, <1>5 DEF q

(* Every entry of a directory is of something the host has in it, and      *)
(* everything it has is there, under one entry.                            *)
LEMMA EntriesAreChildren ==
  ASSUME RdskInv, ~errno, NEW P, Located(P), NEW p \in DOMAIN dirtable
  PROVE  /\ P[p] \in Seq(Name)
         /\ \A k \in 1 .. Len(Entries(p)) : \E e \in tree : e.path = Append(P[p], Entries(p)[k])
         /\ \A e \in tree, n \in Name : e.path = Append(P[p], n) =>
              \E k \in 1 .. Len(Entries(p)) : Entries(p)[k] = n
         /\ \A k, l \in 1 .. Len(Entries(p)) : Entries(p)[k] = Entries(p)[l] => k = l
<1> DEFINE F == FilesIn(p)
           Dirs == DirsIn(p)
           a == Len(F)
           b == Len(Dirs)
           all == Entries(p)
<1>1. /\ \A k, l \in 1 .. b : Dirs[k] = Dirs[l] => k = l
      /\ \A k \in 1 .. b : Dirs[k] \in DirIndex /\ UpOfDir[Dirs[k]] = p
      /\ \A j \in DirIndex : UpOfDir[j] = p => \E k \in 1 .. b : Dirs[k] = j
  BY ThreadsOfDir DEF ThreadOf
<1>2. /\ \A k, l \in 1 .. a : F[k] = F[l] => k = l
      /\ \A k \in 1 .. a : F[k] \in FileIndex /\ UpOfFile[F[k]] = p
      /\ \A j \in FileIndex : UpOfFile[j] = p => \E k \in 1 .. a : F[k] = j
  BY ThreadsOfDir DEF ThreadOf
<1>3. /\ \A j \in DirIndex : UpOfDir[j] = dirtable[j].parent_index
      /\ \A j \in FileIndex : UpOfFile[j] = filetable[j].parent_index
  BY DEF UpOfDir, UpOfFile
<1>4. a \in Nat /\ b \in Nat /\ Len(all) = a + b /\ all \in Seq(Name)
  BY EntriesForm
<1>5. \A k \in 1 .. a + b : all[k] = IF k <= a THEN filetable[F[k]].name ELSE dirtable[Dirs[k - a]].name
  BY DEF Entries
<1> HIDE DEF F, Dirs, a, b, all
<1>6. \A k \in 1 .. a + b :
        \/ k \in 1 .. a /\ all[k] = filetable[F[k]].name
        \/ k - a \in 1 .. b /\ ~(k <= a) /\ all[k] = dirtable[Dirs[k - a]].name
  <2> SUFFICES ASSUME NEW k \in 1 .. a + b
               PROVE \/ k \in 1 .. a /\ all[k] = filetable[F[k]].name
                     \/ k - a \in 1 .. b /\ ~(k <= a) /\ all[k] = dirtable[Dirs[k - a]].name
    OBVIOUS
  <2>1. CASE k <= a
    BY <1>4, <1>5, <2>1
  <2>2. CASE ~(k <= a)
    <3>1. k - a \in 1 .. b
      BY <1>4, <2>2
    <3> QED
      BY Zenon, <1>5, <2>2, <3>1
  <2> QED
    BY <2>1, <2>2
<1>7. /\ \A i \in DOMAIN dirtable : P[i] \in Seq(Name)
      /\ \A i \in DirIndex :
           /\ P[i] = Append(P[dirtable[i].parent_index], dirtable[i].name)
           /\ \E e \in tree : e.path = P[i] /\ e.data = None
      /\ \A j \in FileIndex : \E e \in tree : e.path = FilePath(P, j) /\ e.data # None
      /\ \A e \in tree :
           /\ e.data = None => \E i \in DirIndex : P[i] = e.path
           /\ e.data # None => \E j \in FileIndex : FilePath(P, j) = e.path
  BY DEF Located
<1>8. \A i, j \in DOMAIN dirtable : P[i] = P[j] => i = j
  <2> SUFFICES ASSUME NEW i \in DOMAIN dirtable, NEW j \in DOMAIN dirtable, P[i] = P[j] PROVE i = j
    OBVIOUS
  <2>1. Resolve(P[i]) = DirNode(i) /\ Resolve(P[j]) = DirNode(j)
    BY DirResolves
  <2>2. DirNode(i) = DirNode(j)
    BY <2>1
  <2>3. DirNode(i).index = i /\ DirNode(j).index = j
    BY DEF DirNode
  <2> QED
    BY <2>2, <2>3
<1>9. /\ \A i \in DirIndex : dirtable[i].parent_index \in DOMAIN dirtable /\ dirtable[i].name \in Name
      /\ \A j \in FileIndex : filetable[j].parent_index \in DOMAIN dirtable /\ filetable[j].name \in Name
  <2>1. \A j \in FileIndex : filetable[j] \in FileEntry
    BY FormFacts DEF RdskInv
  <2> QED
    BY <2>1 DEF RdskInv, TablesForm, FileEntry
<1>10. \A k \in 1 .. a + b : \E e \in tree : e.path = Append(P[p], all[k])
  <2> SUFFICES ASSUME NEW k \in 1 .. a + b PROVE \E e \in tree : e.path = Append(P[p], all[k])
    OBVIOUS
  <2>1. CASE k \in 1 .. a /\ all[k] = filetable[F[k]].name
    <3>1. F[k] \in FileIndex /\ filetable[F[k]].parent_index = p
      BY <1>2, <1>3, <2>1
    <3>2. FilePath(P, F[k]) = Append(P[p], all[k])
      BY <2>1, <3>1 DEF FilePath
    <3>3. \E e \in tree : e.path = FilePath(P, F[k])
      BY <1>7, <3>1, Zenon
    <3> QED
      BY <3>2, <3>3, Zenon
  <2>2. CASE k - a \in 1 .. b /\ ~(k <= a) /\ all[k] = dirtable[Dirs[k - a]].name
    <3> DEFINE l == k - a
    <3>0. l \in 1 .. b /\ all[k] = dirtable[Dirs[l]].name
      BY <2>2
    <3> HIDE DEF l
    <3>1. Dirs[l] \in DirIndex /\ dirtable[Dirs[l]].parent_index = p
      BY <1>1, <1>3, <3>0
    <3>2. P[Dirs[l]] = Append(P[p], all[k])
      BY <1>7, <3>0, <3>1
    <3>3. \E e \in tree : e.path = P[Dirs[l]]
      BY <1>7, <3>1, Zenon
    <3> QED
      BY <3>2, <3>3, Zenon
  <2> QED
    BY <1>6, <2>1, <2>2
<1>11. \A k \in 1 .. b : a + k \in 1 .. a + b /\ all[a + k] = dirtable[Dirs[k]].name
  <2> SUFFICES ASSUME NEW k \in 1 .. b PROVE a + k \in 1 .. a + b /\ all[a + k] = dirtable[Dirs[k]].name
    OBVIOUS
  <2>1. a + k \in 1 .. a + b /\ ~(a + k <= a) /\ (a + k) - a = k
    BY <1>4
  <2> QED
    BY Zenon, <1>5, <2>1
<1>12. \A k \in 1 .. a : k \in 1 .. a + b /\ all[k] = filetable[F[k]].name
  BY <1>4, <1>5
<1>13. ASSUME NEW e \in tree, NEW n \in Name, e.path = Append(P[p], n)
       PROVE  \E k \in 1 .. a + b : all[k] = n
  <2>0. P[p] \in Seq(Name)
    BY <1>7
  <2>1. CASE e.data = None
    <3>1. PICK i \in DirIndex : P[i] = e.path
      BY <1>7, <2>1
    <3> DEFINE up == dirtable[i].parent_index
               m == dirtable[i].name
    <3>2. up \in DOMAIN dirtable /\ m \in Name /\ P[up] \in Seq(Name) /\ Append(P[up], m) = Append(P[p], n)
      BY <1>7, <1>9, <1>13, <3>1
    <3>3. P[up] = P[p] /\ m = n
      <4> DEFINE u == P[up]
                 v == P[p]
      <4>1. u \in Seq(Name) /\ v \in Seq(Name) /\ m \in Name /\ Append(u, m) = Append(v, n)
        BY <2>0, <3>2
      <4> HIDE DEF u, v, m, up
      <4>2. u = v /\ m = n
        BY <4>1, AppendInjective
      <4> QED
        BY <4>2 DEF u, v
    <3>4. up = p
      BY <1>8, <3>2, <3>3
    <3>5. PICK k \in 1 .. b : Dirs[k] = i
      BY <1>1, <1>3, <3>4
    <3> QED
      BY <1>11, <3>3, <3>5
  <2>2. CASE e.data # None
    <3>1. PICK j \in FileIndex : FilePath(P, j) = e.path
      BY <1>7, <2>2
    <3> DEFINE up == filetable[j].parent_index
               m == filetable[j].name
    <3>2. up \in DOMAIN dirtable /\ m \in Name /\ P[up] \in Seq(Name) /\ Append(P[up], m) = Append(P[p], n)
      BY <1>7, <1>9, <1>13, <3>1 DEF FilePath
    <3>3. P[up] = P[p] /\ m = n
      <4> DEFINE u == P[up]
                 v == P[p]
      <4>1. u \in Seq(Name) /\ v \in Seq(Name) /\ m \in Name /\ Append(u, m) = Append(v, n)
        BY <2>0, <3>2
      <4> HIDE DEF u, v, m, up
      <4>2. u = v /\ m = n
        BY <4>1, AppendInjective
      <4> QED
        BY <4>2 DEF u, v
    <3>4. up = p
      BY <1>8, <3>2, <3>3
    <3>5. PICK k \in 1 .. a : F[k] = j
      BY <1>2, <1>3, <3>4
    <3> QED
      BY <1>12, <3>3, <3>5
  <2> QED
    BY <2>1, <2>2
<1>14. ASSUME NEW k \in 1 .. a + b, NEW l \in 1 .. a + b, all[k] = all[l]
       PROVE  k = l
  <2>1. /\ \A i, j \in DirIndex :
             dirtable[i].parent_index = dirtable[j].parent_index /\ dirtable[i].name = dirtable[j].name => i = j
        /\ \A i, j \in FileIndex :
             filetable[i].parent_index = filetable[j].parent_index /\ filetable[i].name = filetable[j].name => i = j
        /\ \A i \in DirIndex, j \in FileIndex :
             ~ (dirtable[i].parent_index = filetable[j].parent_index /\ dirtable[i].name = filetable[j].name)
    BY DEF RdskInv, NamesDiffer
  <2> DEFINE x == k - a
             y == l - a
             fileAt(i) == i \in 1 .. a /\ all[i] = filetable[F[i]].name
             dirAt(i, j) == j \in 1 .. b /\ all[i] = dirtable[Dirs[j]].name
  <2>2. (fileAt(k) \/ dirAt(k, x)) /\ (fileAt(l) \/ dirAt(l, y))
    BY <1>6
  <2>3. x = y => k = l
    BY <1>4
  <2> HIDE DEF x, y
  <2>21. \A i \in 1 .. a : F[i] \in FileIndex /\ filetable[F[i]].parent_index = p
    BY Zenon, <1>2, <1>3
  <2>22. \A i \in 1 .. b : Dirs[i] \in DirIndex /\ dirtable[Dirs[i]].parent_index = p
    BY Zenon, <1>1, <1>3
  <2>4. CASE fileAt(k) /\ fileAt(l)
    <3>1. F[k] = F[l]
      BY Zenon, <1>14, <2>1, <2>4, <2>21
    <3> QED
      BY Zenon, <1>2, <2>4, <3>1
  <2>5. CASE dirAt(k, x) /\ dirAt(l, y)
    <3>1. Dirs[x] = Dirs[y]
      BY Zenon, <1>14, <2>1, <2>5, <2>22
    <3> QED
      BY Zenon, <1>1, <2>3, <2>5, <3>1
  <2>6. CASE fileAt(k) /\ dirAt(l, y)
    <3>1. F[k] \in FileIndex /\ filetable[F[k]].parent_index = p /\ filetable[F[k]].name = all[k]
      BY Zenon, <2>6, <2>21
    <3>2. Dirs[y] \in DirIndex /\ dirtable[Dirs[y]].parent_index = p /\ dirtable[Dirs[y]].name = all[k]
      BY Zenon, <1>14, <2>6, <2>22
    <3>3. FALSE
      BY Zenon, <2>1, <3>1, <3>2
    <3> QED
      BY <3>3
  <2>7. CASE dirAt(k, x) /\ fileAt(l)
    <3>1. F[l] \in FileIndex /\ filetable[F[l]].parent_index = p /\ filetable[F[l]].name = all[k]
      BY Zenon, <1>14, <2>7, <2>21
    <3>2. Dirs[x] \in DirIndex /\ dirtable[Dirs[x]].parent_index = p /\ dirtable[Dirs[x]].name = all[k]
      BY Zenon, <2>7, <2>22
    <3>3. FALSE
      BY Zenon, <2>1, <3>1, <3>2
    <3> QED
      BY <3>3
  <2> QED
    BY Zenon, <2>2, <2>4, <2>5, <2>6, <2>7
<1>15. P[p] \in Seq(Name)
  BY <1>7
<1>16. 1 .. Len(all) = 1 .. a + b
  BY <1>4
<1> QED
  BY Zenon, <1>10, <1>13, <1>14, <1>15, <1>16 DEF all

(* So there are as many, and they have the same names. *)
LEMMA CountsChildren ==
  ASSUME RdskInv, ~errno, NEW P, Located(P), NEW p \in DOMAIN dirtable
  PROVE  /\ Len(Entries(p)) = Cardinality(Children(P[p]))
         /\ Elements(Entries(p)) = {e.path[Len(P[p]) + 1] : e \in Children(P[p])}
<1> DEFINE path == P[p]
           all == Entries(p)
           n == Len(all)
           found(k) == CHOOSE e \in tree : e.path = Append(path, all[k])
           f == [k \in 1 .. n |-> found(k)]
           C == Children(path)
<1>1. /\ path \in Seq(Name)
      /\ \A k \in 1 .. n : \E e \in tree : e.path = Append(path, all[k])
      /\ \A e \in tree, x \in Name : e.path = Append(path, x) => \E k \in 1 .. n : all[k] = x
      /\ \A k, l \in 1 .. n : all[k] = all[l] => k = l
  BY EntriesAreChildren
<1>2. n \in Nat /\ all \in Seq(Name) /\ DOMAIN all = 1 .. n /\ \A k \in 1 .. n : all[k] \in Name
  <2>1. all \in Seq(Name)
    BY EntriesForm
  <2> HIDE DEF all
  <2> QED
    BY <2>1, LenProperties, ElementOfSeq
<1>3. \A e \in tree :
        /\ e \in C <=> \E x \in Name : e.path = Append(path, x)
        /\ \A x \in Name : e.path = Append(path, x) => e.path[Len(path) + 1] = x
  <2> HIDE DEF path, C
  <2> QED
    BY <1>1, ChildrenAre DEF C
<1>4. C \subseteq tree
  BY DEF Children
<1>5. \A d, e \in tree : d.path = e.path => d = e
  BY DEF RdskInv, OnePath
<1> HIDE DEF path, all, n, C
<1>6. \A k \in 1 .. n : found(k) \in tree /\ found(k).path = Append(path, all[k])
  BY Zenon, <1>1
<1>7. \A k \in 1 .. n : f[k] = found(k)
  OBVIOUS
<1>8. f = [k \in 1 .. n |-> found(k)]
  OBVIOUS
<1> HIDE DEF f, found
<1>9. \A k \in 1 .. n : f[k] \in tree /\ f[k].path = Append(path, all[k]) /\ f[k] \in C
                        /\ f[k].path[Len(path) + 1] = all[k]
  <2> SUFFICES ASSUME NEW k \in 1 .. n
               PROVE f[k] \in tree /\ f[k].path = Append(path, all[k]) /\ f[k] \in C
                     /\ f[k].path[Len(path) + 1] = all[k]
    OBVIOUS
  <2>1. f[k] \in tree /\ f[k].path = Append(path, all[k]) /\ all[k] \in Name
    BY Zenon, <1>2, <1>6, <1>7
  <2> QED
    BY Zenon, <1>3, <2>1
<1>10. \A e \in C : \E k \in 1 .. n : f[k] = e /\ all[k] = e.path[Len(path) + 1]
  <2> SUFFICES ASSUME NEW e \in C PROVE \E k \in 1 .. n : f[k] = e /\ all[k] = e.path[Len(path) + 1]
    OBVIOUS
  <2>1. e \in tree
    BY <1>4
  <2>2. PICK x \in Name : e.path = Append(path, x)
    BY <1>3, <2>1
  <2>3. PICK k \in 1 .. n : all[k] = x
    BY <1>1, <2>1, <2>2
  <2>4. f[k] \in tree /\ f[k].path = e.path
    BY Zenon, <1>9, <2>2, <2>3
  <2>5. f[k] = e
    BY Zenon, <1>5, <2>1, <2>4
  <2> QED
    BY Zenon, <1>3, <2>1, <2>2, <2>3, <2>5
<1>11. f \in Bijection(1 .. n, C)
  <2>1. f \in [1 .. n -> C]
    <3>1. \A k \in 1 .. n : found(k) \in C
      BY Zenon, <1>7, <1>9
    <3> QED
      BY <1>8, <3>1
  <2>2. ASSUME NEW k \in 1 .. n, NEW l \in 1 .. n, f[k] = f[l]
        PROVE  k = l
    <3>1. all[k] = f[k].path[Len(path) + 1] /\ all[l] = f[l].path[Len(path) + 1]
      BY Zenon, <1>9
    <3>2. all[k] = all[l]
      BY Zenon, <2>2, <3>1
    <3> QED
      BY Zenon, <1>1, <3>2
  <2>3. \A e \in C : \E k \in 1 .. n : f[k] = e
    BY <1>10
  <2> QED
    BY <2>1, <2>2, <2>3, Fun_IsBij
<1>12. Cardinality(C) = n
  <2>1. ExistsBijection(1 .. n, C)
    BY <1>11 DEF ExistsBijection
  <2> QED
    BY <1>2, <2>1, FS_CountingElements
<1>13. Elements(all) = {e.path[Len(path) + 1] : e \in C}
  <2>1. \A x : x \in Elements(all) <=> \E k \in 1 .. n : x = all[k]
    BY Zenon, <1>2 DEF Elements
  <2>2. \A x : x \in {e.path[Len(path) + 1] : e \in C} <=> \E e \in C : x = e.path[Len(path) + 1]
    OBVIOUS
  <2>3. \A x : (\E k \in 1 .. n : x = all[k]) <=> \E e \in C : x = e.path[Len(path) + 1]
    <3>1. ASSUME NEW x, NEW k \in 1 .. n, x = all[k]
          PROVE  \E e \in C : x = e.path[Len(path) + 1]
      <4>1. f[k] \in C /\ f[k].path[Len(path) + 1] = x
        BY Zenon, <1>9, <3>1
      <4> QED
        BY <4>1
    <3>2. ASSUME NEW x, NEW e \in C, x = e.path[Len(path) + 1]
          PROVE  \E k \in 1 .. n : x = all[k]
      <4>1. PICK k \in 1 .. n : all[k] = e.path[Len(path) + 1]
        BY <1>10
      <4> QED
        BY Zenon, <3>2, <4>1
    <3> QED
      BY Zenon, <3>1, <3>2
  <2> QED
    BY Zenon, <2>1, <2>2, <2>3
<1> QED
  BY Zenon, <1>12, <1>13 DEF path, all, n, C

(* Every directory the host had is listed in full. *)
LEMMA ListingWhole == RdskInv => ListsAll
<1> SUFFICES ASSUME RdskInv, Packed,
                    NEW q \in {<<>>} \cup {e.path : e \in {x \in tree : x.data = None}}
             PROVE  LET list == Listing(Resolve(q)) IN
                    /\ Len(list) = Cardinality(Children(q))
                    /\ Elements(list) = {e.path[Len(q) + 1] : e \in Children(q)}
  BY DEF ListsAll
<1>1. PICK P : Located(P)
  BY DEF RdskInv
<1>2. \E p \in DOMAIN dirtable : q = P[p]
  <2>1. CASE q = <<>>
    <3>1. 1 \in DOMAIN dirtable
      BY FormFacts DEF RdskInv, TablesForm
    <3> QED
      BY <1>1, <2>1, <3>1 DEF Located
  <2>2. CASE q # <<>>
    <3>1. PICK e \in tree : e.data = None /\ q = e.path
      BY <2>2
    <3>2. PICK i \in DirIndex : P[i] = q
      BY <1>1, <3>1 DEF Located
    <3>3. i \in DOMAIN dirtable
      BY <3>2, FormFacts DEF RdskInv
    <3> QED
      BY <3>2, <3>3
  <2> QED
    BY <2>1, <2>2
<1>3. PICK p \in DOMAIN dirtable : q = P[p]
  BY <1>2
<1>4. Listing(Resolve(q)) = Entries(p)
  BY Zenon, <1>1, <1>3, DirResolves, ListingIs
<1>5. /\ Len(Entries(p)) = Cardinality(Children(q))
      /\ Elements(Entries(p)) = {e.path[Len(q) + 1] : e \in Children(q)}
  <2>1. ~errno
    BY DEF Packed
  <2> QED
    BY <1>1, <1>3, <2>1, CountsChildren
<1> QED
  BY Zenon, <1>4, <1>5

(* When the tool reports success, listing a directory call by call, as     *)
(* rdsk_node_readdir hands out the offsets, names each of its entries once *)
(* and names nothing else.                                                 *)
THEOREM AlwaysListsAll == RdskSpec => []ListsAll
  BY TablesAlways, ListingWhole, PTL

================================================================================
