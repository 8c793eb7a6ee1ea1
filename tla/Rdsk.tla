--------------------------------- MODULE Rdsk ---------------------------------
(***************************************************************************)
(* The RAM disk format, from both ends: src/rdsk, the host tool that packs *)
(* a directory tree into an image, and fs/rdsk.c, the driver that finds    *)
(* its way in it.  The two programs share no code, only the tables.        *)
(*                                                                         *)
(* Indexes into the tables begin at 1; 0 ends a chain.  The entries in use *)
(* are the first ones of a table, which grows by GROW entries at a time.   *)
(***************************************************************************)
EXTENDS Naturals, Sequences, FiniteSets

CONSTANTS
  Name,           \* names of directory entries
  Contents,       \* contents of files, bound
  GROW,           \* entries a table grows by
  MAX_DIRS, MAX_FILES,   \* bounds on the tree that is packed
  None

Elements(s) == {s[k] : k \in DOMAIN s}

ASSUME RdskAssumption ==
  /\ GROW \in Nat \ {0} /\ MAX_DIRS \in Nat \ {0} /\ MAX_FILES \in Nat
  /\ \A c \in Contents : c \in Seq(Elements(c))
  /\ None \notin Name \cup Contents \cup [type : {"DIR", "FILE"}, index : Nat]
  /\ Name \cap {".", ".."} = {}

VARIABLES
  dirtable, filetable,  \* the entries of g_dirtable and g_filetable in use
  data,           \* what has been written to the data section
  stack,          \* the calls of create_recurse: [name, cur_dir_index], the first outermost
  errno,          \* it is set, and nobody clears it
  tree            \* the host's tree, as far as it has been read

rdskVars == <<dirtable, filetable, data, stack, errno, tree>>

-----------------------------------------------------------------------------
(* src/rdsk/src/main.c                                                     *)

(* dirtable_create and filetable_create: a new entry becomes the first of  *)
(* its parent's chain.                                                     *)
NextOf_None(first) == 0
NextOf(first) == first

dirtable_create(n, parent) ==
  LET i == Len(dirtable) + 1 IN
  dirtable' = Append([dirtable EXCEPT ![parent].dirtable_index = i],
                     [name |-> n, filetable_index |-> 0, dirtable_index |-> 0,
                      next_index |-> NextOf(dirtable[parent].dirtable_index),
                      parent_index |-> parent])

filetable_create(n, parent, off, size) ==
  LET i == Len(filetable) + 1 IN
  /\ filetable' = Append(filetable,
                         [name |-> n, data_offset |-> off, size |-> size,
                          next_index |-> NextOf(dirtable[parent].filetable_index),
                          parent_index |-> parent])
  /\ dirtable' = [dirtable EXCEPT ![parent].filetable_index = i]

(* g_dirtable_size and g_filetable_size.                                   *)
Capacity(used) == ((used + GROW - 1) \div GROW) * GROW

(* fwrite at g_data_offset.                                                *)
AtDataOffset(bytes) == data \o bytes

Top == stack[Len(stack)]
(* A host path of 1024 bytes or more, which snprintf would cut, is left    *)
(* out: what would then be opened is another path or none.                 *)
PathTo(n) == Append(Top.name, n)
Unread(n) == \A e \in tree : e.path # PathTo(n)

(* create makes the root's entry in the chain of a parent 0 that is not in *)
(* the table: what it finds there is anything, what it leaves there lost.  *)
(* Then it reads the directory it was given, if it can be opened.          *)
RdskInit ==
  /\ \E garbage \in {0, 1, 2} :
       dirtable = <<[name |-> "RDSK", filetable_index |-> 0, dirtable_index |-> 0,
                     next_index |-> garbage, parent_index |-> 0]>>
  /\ filetable = <<>>
  /\ data = <<>>
  /\ errno \in BOOLEAN
  /\ stack = IF errno THEN <<>> ELSE <<[name |-> <<>>, cur_dir_index |-> 1]>>
  /\ tree = {}

(* create_recurse, the next entry is a directory.  With errno set the call *)
(* for it returns at once.                                                 *)
PackDir(n) ==
  /\ stack # <<>> /\ Unread(n) /\ Len(dirtable) < MAX_DIRS
  /\ dirtable_create(n, Top.cur_dir_index)
  /\ tree' = tree \cup {[path |-> PathTo(n), data |-> None]}
  /\ \E fails \in BOOLEAN : errno' = (errno \/ fails)
  /\ stack' = IF errno' THEN stack
              ELSE Append(stack, [name |-> PathTo(n), cur_dir_index |-> Len(dirtable) + 1])
  /\ UNCHANGED <<filetable, data>>

(* The next entry is a file.  It is skipped if it, or anything before it,  *)
(* could not be opened.                                                    *)
PackFile(n, bytes) ==
  /\ stack # <<>> /\ Unread(n) /\ Len(filetable) < MAX_FILES
  /\ tree' = tree \cup {[path |-> PathTo(n), data |-> bytes]}
  /\ \E fails \in BOOLEAN : errno' = (errno \/ fails)
  /\ IF errno' THEN UNCHANGED <<dirtable, filetable, data>>
     ELSE /\ filetable_create(n, Top.cur_dir_index, Len(data), Len(bytes))
          /\ data' = AtDataOffset(bytes)
  /\ UNCHANGED stack

(* readdir returns NULL: on with the directory above.                      *)
EndOfDirectory ==
  /\ stack # <<>>
  /\ stack' = SubSeq(stack, 1, Len(stack) - 1)
  /\ UNCHANGED <<dirtable, filetable, data, errno, tree>>

RdskNext ==
  \/ \E n \in Name : PackDir(n) \/ \E b \in Contents : PackFile(n, b)
  \/ EndOfDirectory

RdskSpec == RdskInit /\ [][RdskNext]_rdskVars

(* The image is complete and main returns EXIT_SUCCESS.                    *)
Packed == stack = <<>> /\ ~errno

-----------------------------------------------------------------------------
(* fs/rdsk.c: nodes are named by their table and index.                    *)

DirNode(i) == [type |-> "DIR", index |-> i]
FileNode(i) == [type |-> "FILE", index |-> i]
Error(e) == [type |-> e, index |-> 0]

(* The chain that begins at index i; the root's entry is in none.          *)
DirChain[i \in {0} \cup 2 .. Len(dirtable)] ==
  IF i = 0 THEN <<>> ELSE <<i>> \o DirChain[dirtable[i].next_index]
FileChain[i \in 0 .. Len(filetable)] ==
  IF i = 0 THEN <<>> ELSE <<i>> \o FileChain[filetable[i].next_index]

find_dir(d, n) == {i \in Elements(DirChain[d.dirtable_index]) : dirtable[i].name = n}
find_file(d, n) == {i \in Elements(FileChain[d.filetable_index]) : filetable[i].name = n}

rdsk_node_name(node) ==
  IF node.type = "DIR"
  THEN IF dirtable[node.index].parent_index = 0 THEN None ELSE dirtable[node.index].name
  ELSE filetable[node.index].name

(* Parent lookup of the root gives the null pointer.                       *)
Parent(d) == IF d.parent_index # 0 THEN DirNode(d.parent_index) ELSE None
rdsk_node_lookup(node, n) ==
  LET d == dirtable[node.index] IN
  CASE node.type # "DIR" -> Error("ENOTDIR")
    [] node.type = "DIR" /\ n = "." -> node
    [] node.type = "DIR" /\ n = ".." -> Parent(d)
    [] OTHER ->
         IF find_file(d, n) # {} THEN FileNode(CHOOSE i \in find_file(d, n) : TRUE)
         ELSE IF find_dir(d, n) # {} THEN DirNode(CHOOSE i \in find_dir(d, n) : TRUE)
         ELSE Error("ENOENT")

(* What a read of n bytes at an offset returns.                            *)
rdsk_node_rw(node, offset, n) ==
  LET f == filetable[node.index]
      left == IF offset >= f.size THEN 0 ELSE f.size - offset
      count == IF left > n THEN n ELSE left
  IN SubSeq(data, f.data_offset + offset + 1, f.data_offset + offset + count)

(* One call: files first, by their place in the chain; directories from    *)
(* the number of entries in the file table on.                             *)
AfterFiles_Bug(offset) == Capacity(Len(filetable)) + 1
AfterFiles(offset) ==
  IF offset < Capacity(Len(filetable)) THEN Capacity(Len(filetable)) ELSE offset
rdsk_node_readdir(node, offset) ==
  LET d == dirtable[node.index]
      files == FileChain[d.filetable_index]
      dirs == DirChain[d.dirtable_index]
      local == AfterFiles(offset)
      k == local - Capacity(Len(filetable))
  IN IF offset < Capacity(Len(filetable)) /\ offset < Len(files)
     THEN [out |-> filetable[files[offset + 1]].name, offset |-> offset + 1]
     ELSE IF k < Len(dirs)
          THEN [out |-> dirtable[dirs[k + 1]].name, offset |-> local + 1]
          ELSE [out |-> None, offset |-> offset]

-----------------------------------------------------------------------------
(* Properties                                                              *)

TablesOK ==
  /\ \A i \in DOMAIN dirtable :
       /\ dirtable[i].filetable_index \in 0 .. Len(filetable)
       /\ dirtable[i].dirtable_index \in 0 .. Len(dirtable)
       /\ dirtable[i].parent_index \in 0 .. Len(dirtable)
       /\ i > 1 => dirtable[i].next_index \in 0 .. Len(dirtable)
  /\ \A i \in DOMAIN filetable :
       /\ filetable[i].next_index \in 0 .. Len(filetable)
       /\ filetable[i].data_offset + filetable[i].size <= Len(data)
  /\ \A k \in DOMAIN stack : stack[k].cur_dir_index \in DOMAIN dirtable
  /\ errno \in BOOLEAN

(* The driver's loops over chains end, and so does the way up: every entry *)
(* points at older ones.                                                   *)
ChainsEnd ==
  /\ \A i \in DOMAIN dirtable :
       /\ dirtable[i].parent_index < i
       /\ i > 1 => dirtable[i].next_index < i
  /\ \A i \in DOMAIN filetable : filetable[i].next_index < i

(* The node a path names, by the driver's lookups from the root.           *)
Resolve(path) ==
  LET Walk[k \in 0 .. Len(path)] ==
        IF k = 0 THEN DirNode(1) ELSE rdsk_node_lookup(Walk[k - 1], path[k])
  IN Walk[Len(path)]

(* What the kernel reads under a path is what the host had there, in       *)
(* however many pieces.                                                    *)
ImageFaithful ==
  Packed => \A e \in tree :
    LET node == Resolve(e.path) IN
    IF e.data = None THEN node.type = "DIR"
    ELSE /\ node.type = "FILE"
         /\ filetable[node.index].size = Len(e.data)
         /\ \A o \in 0 .. Len(e.data) :
              rdsk_node_rw(node, 0, o) \o rdsk_node_rw(node, o, Len(e.data) + 1) = e.data

(* Listing a directory call by call, passing the offset on.                *)
Listing(node) ==
  LET List[o \in 0 .. Capacity(Len(filetable)) + Len(dirtable)] ==
        LET r == rdsk_node_readdir(node, o) IN
        IF r.out = None THEN <<>> ELSE <<r.out>> \o List[r.offset]
  IN List[0]

(* A listing names each entry of the directory once, files and directories *)
(* sharing one range of offsets.                                           *)
Children(path) ==
  {e \in tree : Len(e.path) = Len(path) + 1 /\ SubSeq(e.path, 1, Len(path)) = path}
ListsAll ==
  Packed => \A p \in {<<>>} \cup {e.path : e \in {x \in tree : x.data = None}} :
    LET list == Listing(Resolve(p)) IN
    /\ Len(list) = Cardinality(Children(p))
    /\ Elements(list) = {e.path[Len(p) + 1] : e \in Children(p)}

(* From any node but the root, the directory above it leads back to it by  *)
(* its name: what vfs_path climbs, vfs_lookup descends.                    *)
UpIsDown ==
  /\ \A i \in DOMAIN dirtable :
       LET up == rdsk_node_lookup(DirNode(i), "..")
           n == rdsk_node_name(DirNode(i))
       IN /\ up = None <=> n = None
          /\ up # None => rdsk_node_lookup(up, n) = DirNode(i)
  /\ \A i \in DOMAIN filetable :
       rdsk_node_lookup(DirNode(filetable[i].parent_index), rdsk_node_name(FileNode(i))) = FileNode(i)

(* The tables hold together: in range, without cycles, and the same way up *)
(* as down (rdsk/src/main.c, fs/rdsk.c).                                   *)
ImageSound == TablesOK /\ ChainsEnd /\ UpIsDown
================================================================================
