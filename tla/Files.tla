--------------------------------- MODULE Files ---------------------------------
(***************************************************************************)
(* Files as the one process sees them: mounts and path lookup (fs/vfs.c),  *)
(* the operations of the three file systems (fs/tmpfs.c, fs/rdsk.c,        *)
(* fs/stdio.c), the resource table (sched/resource.c), the system calls    *)
(* (syscall/syscall_fs.c), and the boot calls that mount it all (init.c).  *)
(*                                                                         *)
(* A path is [abs, comps, slash]: whether it begins with a slash, its      *)
(* components (".." and "." among them), whether a slash follows the last. *)
(* Nodes are numbered as they come into being; 0 is the null pointer.      *)
(*                                                                         *)
(* The process has one thread, so a call is one step.  Ids given to close  *)
(* are ids of the table: resource_remove does not check them.  What the    *)
(* user's pointers do to a copy is Vmm's; here a copy in may fail.         *)
(***************************************************************************)
EXTENDS Integers, Sequences, FiniteSets

CONSTANTS
  Byte, Junk,     \* bytes; one that nobody wrote
  Disk,           \* the RAM disk: its nodes, the root first
  Modules,        \* what the boot loader passes on: [name, data]
  COUNT,          \* entries of a resource table (256)
  HALF,           \* 2^(w-1) for the width w of size_t
  HEAP,           \* the largest file the heap can hold
  Paths,          \* bounds on the calls: paths,
  Opens,          \* arguments of open: [dir, path, flags, mode],
  Offsets,        \* offsets to seek by,
  Ids,            \* ids,
  MAX_NODES,      \* nodes in all
  NULL

AT_FDCWD == -100
Id == 0 .. COUNT - 1
Modes == {"READ_ONLY", "WRITE_ONLY", "READ_WRITE", "REFERENCE"}
Reads == {"READ_ONLY", "READ_WRITE"}
Writes == {"WRITE_ONLY", "READ_WRITE"}
Max(m, n) == IF m > n THEN m ELSE n

Data == Seq(Byte \cup {Junk})

(* A path's components, the modules and the nodes of a disk are sequences. *)
IsSequence(s) == Len(s) \in Nat /\ s = [i \in 1 .. Len(s) |-> s[i]]

ASSUME FilesAssumption ==
  /\ COUNT \in Nat /\ COUNT >= 3 /\ Ids \subseteq Id
  /\ Offsets \subseteq -HALF .. HALF - 1
  /\ HALF \in Nat \ {0} /\ HEAP \in Nat /\ HEAP < HALF
  /\ Junk \notin Byte /\ NULL \notin Data
  /\ NULL \notin Paths \cup [node : Nat, offset : Nat, mode : Modes]
  /\ \A p \in Paths : p.abs \in BOOLEAN /\ p.slash \in BOOLEAN /\ IsSequence(p.comps)
  /\ \A o \in Opens : o.path \in Paths \cup {NULL} /\ (o.dir = AT_FDCWD \/ o.dir \in Nat)

(* What rdsk's builder writes (Rdsk), and modules that fit into the heap.  *)
ASSUME BootAssumption ==
  /\ IsSequence(Disk) /\ Len(Disk) >= 1
  /\ Disk[1] = [parent |-> 0, name |-> NULL, type |-> "DIR", data |-> NULL]
  /\ \A i \in 2 .. Len(Disk) :
       /\ Disk[i].parent \in 1 .. i - 1
       /\ \/ Disk[i].type = "DIR" /\ Disk[i].data = NULL
          \/ Disk[i].type = "FILE" /\ Disk[i].data \in Seq(Byte) /\ Len(Disk[i].data) < HALF
       /\ \A j \in 2 .. Len(Disk) :
            Disk[i].parent = Disk[j].parent /\ Disk[i].name = Disk[j].name => i = j
  /\ IsSequence(Modules)
  /\ \A i \in DOMAIN Modules : Modules[i].data \in Seq(Byte) /\ Len(Modules[i].data) <= HEAP

(* Names are names, and neither of the two that every directory has.  The  *)
(* builder skips those, and the boot loader passes the names of files.     *)
ASSUME NameAssumption ==
  /\ NULL \notin {"stdio", "stdin", "stdout", "stderr"}
  /\ \A i \in 2 .. Len(Disk) :
       Disk[i].name \notin {NULL, ".", ".."} /\ Disk[Disk[i].parent].type = "DIR"
  /\ \A i \in DOMAIN Modules : Modules[i].name \notin {NULL, ".", ".."}
  /\ \A p \in Paths : \A k \in DOMAIN p.comps : p.comps[k] # NULL

VARIABLES
  nodes,          \* all vfs_node_t: [fs, parent, name, type, data]
  mounts,         \* g_vfs_all: [ops, mount_node, root], the root file system first
  boot,           \* the calls init.c still has to make
  table,          \* the process's resource table
  ret,            \* what the last call returned
  buffer,         \* the bytes the last read or write moved
  halted          \* the kernel has panicked

vars == <<nodes, mounts, boot, table, ret, buffer, halted>>

IsDir(n) == nodes[n].type = "DIR"
Ops(n) == mounts[nodes[n].fs].ops
Found(n) == [err |-> "OK", node |-> n]
Failed(e) == [err |-> e, node |-> 0]

-----------------------------------------------------------------------------
(* The operations of a node.                                               *)

Named(n, name) == {i \in DOMAIN nodes : nodes[i].parent = n /\ nodes[i].name = name}

(* lookup: the parent of the root of a file system is the null pointer.    *)
lookup(n, name) ==
  IF ~IsDir(n) THEN Failed("ENOTDIR")
  ELSE IF name = "." THEN Found(n)
  ELSE IF name = ".." THEN Found(nodes[n].parent)
  ELSE IF Named(n, name) = {} THEN Failed("ENOENT")
  ELSE Found(CHOOSE i \in Named(n, name) : TRUE)

(* create and mkdir, with the nodes there are afterwards.                  *)
NewNode(n, name, type) ==
  [fs |-> nodes[n].fs, parent |-> n, name |-> name, type |-> type,
   data |-> IF type = "FILE" THEN <<>> ELSE NULL]
make(n, name, type) ==
  LET refuse(e) == [err |-> e, node |-> 0, nodes |-> nodes] IN
  IF Ops(n) = "rdsk" THEN refuse("EROFS")
  ELSE IF ~IsDir(n) THEN refuse("ENOTDIR")
  ELSE IF Ops(n) = "stdio" THEN refuse("EPERM")
  ELSE IF Named(n, name) # {} THEN refuse("EEXIST")
  ELSE [err |-> "OK", node |-> Len(nodes) + 1, nodes |-> Append(nodes, NewNode(n, name, type))]

attr_size(n) == IF nodes[n].data = NULL THEN 0 ELSE Len(nodes[n].data)

truncate_error(n) ==
  CASE Ops(n) = "rdsk" -> "EROFS" [] Ops(n) = "stdio" -> "EPERM" [] OTHER -> "OK"

(* rw: what a read returns, whether a write is taken.                      *)
read_error(n) ==
  IF IsDir(n) THEN "EISDIR"
  ELSE IF Ops(n) = "stdio" /\ nodes[n].name # "stdin" THEN "EPERM" ELSE "OK"
Bytes(n, offset, count) ==
  IF read_error(n) # "OK" \/ nodes[n].data = NULL \/ offset >= Len(nodes[n].data) THEN <<>>
  ELSE LET left == Len(nodes[n].data) - offset
       IN SubSeq(nodes[n].data, offset + 1, offset + (IF left > count THEN count ELSE left))

write_error(n) ==
  IF IsDir(n) THEN "EISDIR"
  ELSE CASE Ops(n) = "rdsk" -> "EROFS"
         [] Ops(n) = "stdio" /\ nodes[n].name = "stdin" -> "EPERM"
         [] OTHER -> "OK"
(* A file that grows moves to a new block of the heap, of which the copy   *)
(* and the write fill what they fill.                                      *)
Written_Bug(old, offset, bytes) ==
  [k \in 1 .. offset + Len(bytes) |->
     IF k > offset THEN bytes[k - offset] ELSE IF k <= Len(old) THEN old[k] ELSE Junk]
Written(old, offset, bytes) ==
  [k \in 1 .. Max(Len(old), offset + Len(bytes)) |->
     IF k \in offset + 1 .. offset + Len(bytes) THEN bytes[k - offset]
     ELSE IF k <= Len(old) THEN old[k] ELSE Junk]

-----------------------------------------------------------------------------
(* fs/vfs.c                                                                *)

(* current_node->vfs_mounted, looked at after every character.             *)
Cross_Bug(n) == n
Cross(n) ==
  LET on == {m \in DOMAIN mounts : mounts[m].mount_node = n}
  IN IF on = {} THEN n ELSE mounts[CHOOSE m \in on : TRUE].root

Start(path, cwd) ==
  IF path.abs
  THEN IF mounts = <<>> THEN Failed("ENOENT") ELSE Found(Cross(mounts[1].root))
  ELSE IF cwd = 0 THEN Failed("ENOENT") ELSE Found(Cross(cwd))

(* ".." at the root of a file system stays there, mounted or not.  An      *)
(* exclusive lookup refuses every component but a last one that is missing.*)
Step_Bug(n, name, exclusive) ==
  LET r == lookup(n, name) IN
  IF r.err # "OK" THEN r ELSE Found(Cross(IF r.node = 0 THEN n ELSE r.node))
Step(n, name, exclusive) ==
  LET r == lookup(n, name) IN
  IF exclusive THEN Failed("EEXIST")
  ELSE IF r.err # "OK" THEN r
  ELSE Found(Cross(IF r.node = 0 THEN n ELSE r.node))

(* One component on from where a path has led.                             *)
Onward(at, path, k, exclusive) ==
  IF at.err # "OK" THEN at
  ELSE IF k = Len(path.comps) /\ ~path.slash /\ lookup(at.node, path.comps[k]).err = "ENOENT"
  THEN [err |-> "MISSING", node |-> at.node]
  ELSE Step(at.node, path.comps[k], exclusive)

(* Where a path leads, or the directory that lacks its last component.     *)
Walk(path, cwd, exclusive) ==
  LET last == Len(path.comps)
      W[k \in 0 .. last] ==
        IF k = 0 THEN Start(path, cwd) ELSE Onward(W[k - 1], path, k, exclusive)
  IN W[last]

vfs_lookup_ext(path, cwd, create, exclusive) ==
  LET w == Walk(path, cwd, exclusive) IN
  IF w.err # "MISSING" THEN [err |-> w.err, node |-> w.node, nodes |-> nodes]
  ELSE IF create = "NONE" THEN [err |-> "ENOENT", node |-> 0, nodes |-> nodes]
  ELSE make(w.node, path.comps[Len(path.comps)], create)
vfs_lookup(path, cwd) == vfs_lookup_ext(path, cwd, "NONE", FALSE)

(* vfs_mkdir and vfs_create look the directory up and make the node there. *)
make_at(path, name, type) ==
  LET r == vfs_lookup(path, 0)
  IN IF r.err # "OK" THEN r ELSE make(r.node, name, type)

(* vfs_path: names from the node up, over mount points, to the root.       *)
vfs_path(node) ==
  LET P[n \in DOMAIN nodes] ==
        IF nodes[n].name # NULL THEN Append(P[nodes[n].parent], nodes[n].name)
        ELSE IF mounts[nodes[n].fs].mount_node = 0 THEN <<>>
        ELSE P[mounts[nodes[n].fs].mount_node]
  IN P[node]

-----------------------------------------------------------------------------
(* init.c: the boot calls, in order.                                       *)

Absolute(comps) == [abs |-> TRUE, comps |-> comps, slash |-> FALSE]
MountCall(ops, path) == [call |-> "mount", ops |-> ops, path |-> path]
BootCalls ==
  <<MountCall("rdsk", NULL), MountCall("tmpfs", Absolute(<<"modules">>)),
    MountCall("tmpfs", Absolute(<<"tmp">>)), [call |-> "mkdir"],
    MountCall("stdio", Absolute(<<"tmp", "stdio">>))>>
  \o [i \in DOMAIN Modules |-> [call |-> "module", name |-> Modules[i].name, data |-> Modules[i].data]]
  \o <<[call |-> "start"]>>

(* ops->mount: the nodes of a fresh file system, parents by their place.   *)
Fresh(ops) ==
  LET root == [parent |-> 0, name |-> NULL, type |-> "DIR", data |-> NULL]
      stream(n) == [parent |-> 1, name |-> n, type |-> "FILE", data |-> NULL]
  IN CASE ops = "rdsk" -> Disk
       [] ops = "tmpfs" -> <<root>>
       [] ops = "stdio" -> <<root, stream("stdin"), stream("stdout"), stream("stderr")>>
Placed(new) ==
  [i \in DOMAIN new |->
     [fs |-> Len(mounts) + 1, name |-> new[i].name, type |-> new[i].type, data |-> new[i].data,
      parent |-> IF new[i].parent = 0 THEN 0 ELSE Len(nodes) + new[i].parent]]

Covered(n) == \E m \in DOMAIN mounts : mounts[m].mount_node = n
mount_error(path) ==
  IF mounts = <<>> THEN IF path = NULL THEN "OK" ELSE "ENOENT"
  ELSE LET r == vfs_lookup(path, 0) IN
       IF r.err # "OK" THEN r.err ELSE IF Covered(r.node) THEN "EBUSY" ELSE "OK"

(* A call of init.c that fails is a panic.                                 *)
Booting(call) == boot # <<>> /\ Head(boot).call = call /\ ~halted

vfs_mount ==
  /\ Booting("mount")
  /\ LET ops == Head(boot).ops
         path == Head(boot).path
         point == IF mounts = <<>> THEN 0 ELSE vfs_lookup(path, 0).node
     IN /\ halted' = (mount_error(path) # "OK")
        /\ nodes' = nodes \o Placed(Fresh(ops))
        /\ mounts' = IF halted' THEN mounts
                     ELSE Append(mounts, [ops |-> ops, mount_node |-> point, root |-> Len(nodes) + 1])
  /\ boot' = Tail(boot)
  /\ UNCHANGED <<table, ret, buffer>>

vfs_mkdir ==
  /\ Booting("mkdir")
  /\ LET r == make_at(Absolute(<<"tmp">>), "stdio", "DIR")
     IN halted' = (r.err # "OK") /\ nodes' = r.nodes
  /\ boot' = Tail(boot)
  /\ UNCHANGED <<mounts, table, ret, buffer>>

(* A module becomes a file in /modules, unless there is one of that name.  *)
CreateModule ==
  /\ Booting("module")
  /\ LET r == make_at(Absolute(<<"modules">>), Head(boot).name, "FILE")
     IN nodes' = IF r.err # "OK" THEN nodes
                 ELSE [r.nodes EXCEPT ![r.node].data = Written(<<>>, 0, Head(boot).data)]
  /\ boot' = Tail(boot)
  /\ UNCHANGED <<mounts, table, ret, buffer, halted>>

(* The init process: its working directory is the root and stays it.       *)
cwd == mounts[1].root
StartInit ==
  /\ Booting("start")
  /\ LET stream(n) == vfs_lookup(Absolute(<<"tmp", "stdio", n>>), 0)
         open(n) == [node |-> stream(n).node, offset |-> 0, mode |-> "READ_WRITE"]
     IN /\ halted' = (\E n \in {"stdin", "stdout", "stderr"} : stream(n).err # "OK")
        /\ table' = IF halted' THEN table
                    ELSE [table EXCEPT ![0] = open("stdin"), ![1] = open("stdout"),
                                       ![2] = open("stderr")]
  /\ boot' = Tail(boot)
  /\ UNCHANGED <<nodes, mounts, ret, buffer>>

Init ==
  /\ nodes = <<>> /\ mounts = <<>> /\ boot = BootCalls
  /\ table = [id \in Id |-> NULL]
  /\ ret = [err |-> "OK", value |-> 0] /\ buffer = <<>> /\ halted = FALSE

-----------------------------------------------------------------------------
(* The system calls.                                                       *)

Calls == boot = <<>> /\ ~halted
Return(e, v) == ret' = [err |-> e, value |-> v]
resource_get(id) == IF id \in Id THEN table[id] ELSE NULL
Open(id) == resource_get(id) # NULL
Directory(d) == IF d = AT_FDCWD THEN cwd ELSE table[d].node

(* resource_create takes the lowest free id.                               *)
Unused == {id \in Id : table[id] = NULL}
Lowest(ids) == CHOOSE id \in ids : \A other \in ids : id <= other

(* resources[id] = resource.                                               *)
resource_create_at(id, resource) ==
  table' = [i \in Id \cup {id} |-> IF i = id THEN resource ELSE table[i]]

(* What open refuses before it looks the path up, first things first.      *)
OpenRefused(d, path, flags, mode) ==
  IF path = NULL THEN "EINVAL"
  ELSE IF "UNSUPPORTED" \in flags THEN "ENOTSUP"
  ELSE IF mode \notin Modes THEN "EINVAL"
  ELSE IF d # AT_FDCWD /\ ~Open(d) THEN "EBADF"
  ELSE IF "CREAT" \in flags /\ "DIRECTORY" \in flags THEN "EINVAL"
  ELSE IF "EXCL" \in flags /\ "CREAT" \notin flags THEN "EINVAL"
  ELSE "OK"

(* A node made or truncated stays so when a later step fails, and a full   *)
(* table is reported as the value of a call without error.                 *)
syscall_fs_open(d, path, flags, mode) ==
  /\ Calls
  /\ IF OpenRefused(d, path, flags, mode) # "OK"
     THEN Return(OpenRefused(d, path, flags, mode), 0) /\ UNCHANGED <<nodes, table>>
     ELSE LET r == vfs_lookup_ext(path, Directory(d), IF "CREAT" \in flags THEN "FILE" ELSE "NONE",
                                  "EXCL" \in flags)
              node == r.nodes[r.node]
              truncates == "TRUNC" \in flags /\ mode \in Writes /\ node.type = "FILE"
              error == IF r.err # "OK" THEN r.err
                       ELSE IF "DIRECTORY" \in flags /\ node.type # "DIR" THEN "ENOTDIR"
                       ELSE IF truncates /\ r.node \in DOMAIN nodes THEN truncate_error(r.node)
                       ELSE "OK"
              after == IF error = "OK" /\ truncates
                       THEN [r.nodes EXCEPT ![r.node].data = <<>>] ELSE r.nodes
              size == IF after[r.node].data = NULL THEN 0 ELSE Len(after[r.node].data)
          IN /\ Len(r.nodes) <= MAX_NODES
             /\ nodes' = after
             /\ IF error # "OK" THEN Return(error, 0) /\ UNCHANGED table
                ELSE IF Unused = {} THEN Return("OK", "-EMFILE") /\ UNCHANGED table
                ELSE /\ Return("OK", Lowest(Unused))
                     /\ resource_create_at(Lowest(Unused),
                          [node |-> r.node, offset |-> IF "APPEND" \in flags THEN size ELSE 0,
                           mode |-> mode])
  /\ UNCHANGED <<mounts, boot, buffer, halted>>

syscall_fs_close(id) ==
  /\ Calls
  /\ IF Open(id) THEN Return("OK", 0) /\ table' = [table EXCEPT ![id] = NULL]
     ELSE Return("EBADF", 0) /\ UNCHANGED table
  /\ UNCHANGED <<nodes, mounts, boot, buffer, halted>>

(* An offset wraps like any size_t.                                        *)
Advance(id, n) == table' = [table EXCEPT ![id].offset = (@ + n) % (2 * HALF)]
Panic == halted' = TRUE /\ UNCHANGED <<nodes, table, ret, buffer>>

(* The heap refuses a block of no bytes with a panic.                      *)
syscall_fs_read(id, count) ==
  /\ Calls
  /\ IF ~Open(id) \/ table[id].mode \notin Reads
     THEN Return("EBADF", 0) /\ UNCHANGED <<nodes, table, buffer, halted>>
     ELSE IF count = 0 THEN Panic
     ELSE LET bytes == Bytes(table[id].node, table[id].offset, count) IN
          /\ buffer' = bytes
          /\ Advance(id, Len(bytes))
          /\ Return(read_error(table[id].node), Len(bytes))
          /\ UNCHANGED <<nodes, halted>>
  /\ UNCHANGED <<mounts, boot>>

syscall_fs_write(id, bytes) ==
  /\ Calls
  /\ IF ~Open(id) \/ table[id].mode \notin Writes
     THEN Return("EBADF", 0) /\ UNCHANGED <<nodes, table, buffer, halted>>
     ELSE IF bytes = NULL THEN Return("EINVAL", 0) /\ UNCHANGED <<nodes, table, buffer, halted>>
     ELSE LET n == table[id].node
              o == table[id].offset
              error == write_error(n)
              grows == error = "OK" /\ nodes[n].data # NULL /\ o + Len(bytes) > HEAP
          IN IF bytes = <<>> \/ grows THEN Panic
             ELSE /\ nodes' = IF error = "OK" /\ nodes[n].data # NULL
                              THEN [nodes EXCEPT ![n].data = Written(@, o, bytes)] ELSE nodes
                  /\ IF error = "OK" THEN Advance(id, Len(bytes)) ELSE UNCHANGED table
                  /\ Return(error, IF error = "OK" THEN Len(bytes) ELSE 0)
                  /\ buffer' = IF error = "OK" THEN bytes ELSE <<>>
                  /\ UNCHANGED halted
  /\ UNCHANGED <<mounts, boot>>

(* A whence is one of the three or, NULL, none of them.                    *)
Whences == {"CUR", "END", "SET", NULL}
(* A sum that overflows off_t is undefined: the debug build panics, the    *)
(* other wraps.  The offset of a file from its end is added unsigned.      *)
Signed(n) == IF n % (2 * HALF) < HALF THEN n % (2 * HALF) ELSE (n % (2 * HALF)) - 2 * HALF
syscall_fs_seek(id, offset, whence) ==
  /\ Calls
  /\ IF ~Open(id) \/ table[id].mode = "REFERENCE"
     THEN Return("EBADF", 0) /\ UNCHANGED <<nodes, table, buffer, halted>>
     ELSE IF whence = NULL THEN Return("EINVAL", 0) /\ UNCHANGED <<nodes, table, buffer, halted>>
     ELSE LET sum == CASE whence = "CUR" -> Signed(table[id].offset) + offset
                       [] whence = "END" -> offset + attr_size(table[id].node)
                       [] whence = "SET" -> offset
              new == Signed(sum)
          IN \/ /\ whence = "CUR" /\ sum # new
                /\ Panic
             \/ /\ IF new < 0 THEN Return("EINVAL", 0) /\ UNCHANGED table
                   ELSE Return("OK", new) /\ table' = [table EXCEPT ![id].offset = new]
                /\ UNCHANGED <<nodes, buffer, halted>>
  /\ UNCHANGED <<mounts, boot>>

(* Of the attributes only the size; null pointers are refused first.       *)
syscall_fs_stat(d, path, flags) ==
  LET r == vfs_lookup(path, Directory(d))
      node == IF path.comps = <<>> /\ ~path.abs THEN Directory(d) ELSE r.node
  IN
  /\ Calls
  /\ IF path = NULL THEN Return("EINVAL", 0)
     ELSE IF d # AT_FDCWD /\ ~Open(d) THEN Return("EBADF", 0)
     ELSE IF path.comps = <<>> /\ ~path.abs /\ "EMPTY_PATH" \notin flags THEN Return("ENOENT", 0)
     ELSE IF r.err # "OK" THEN Return(r.err, 0)
     ELSE Return("OK", attr_size(node))
  /\ UNCHANGED <<nodes, mounts, boot, table, buffer, halted>>

Boot == vfs_mount \/ vfs_mkdir \/ CreateModule \/ StartInit

Next ==
  \/ Boot
  \/ \E o \in Opens : syscall_fs_open(o.dir, o.path, o.flags, o.mode)
  \/ \E at \in {<<o.dir, o.path>> : o \in Opens}, flags \in {{}, {"EMPTY_PATH"}} :
       syscall_fs_stat(at[1], at[2], flags)
  \/ \E id \in Ids : syscall_fs_close(id)
  \/ \E id \in Ids \cup {COUNT} :
       \/ \E count \in 0 .. HEAP : syscall_fs_read(id, count)
       \/ \E bytes \in {NULL} \cup UNION {[1 .. n -> Byte] : n \in 0 .. HEAP} :
            syscall_fs_write(id, bytes)
       \/ \E offset \in Offsets, whence \in Whences :
            syscall_fs_seek(id, offset, whence)

Spec == Init /\ [][Next]_vars

-----------------------------------------------------------------------------
(* Properties                                                              *)

TypeOK ==
  /\ IsSequence(nodes) /\ \A i \in DOMAIN nodes :
       /\ nodes[i].fs \in 1 .. Len(mounts) + 1
       /\ nodes[i].parent \in 0 .. i - 1
       /\ nodes[i].data = NULL \/ nodes[i].data \in Data
  /\ \A m \in DOMAIN mounts :
       mounts[m].mount_node \in 0 .. Len(nodes) /\ mounts[m].root \in DOMAIN nodes
  /\ \A id \in DOMAIN table : table[id] # NULL =>
       /\ table[id].node \in DOMAIN nodes
       /\ table[id].offset \in 0 .. 2 * HALF - 1
       /\ table[id].mode \in Modes
  /\ DOMAIN table = Id
  /\ buffer \in Data
  /\ halted \in BOOLEAN

(* The nodes that neither lie under a mount nor are mounted upon: nothing  *)
(* is mounted on the way up to the root, which goes on above a mount.      *)
Shown ==
  LET Way[n \in DOMAIN nodes] ==
        LET at == IF nodes[n].parent # 0 THEN n ELSE mounts[nodes[n].fs].mount_node
        IN {n} \cup (IF at = 0 \/ nodes[at].parent = 0 THEN {} ELSE Way[nodes[at].parent])
  IN {n \in DOMAIN nodes : \A above \in Way[n] : ~Covered(above)}

(* A path read as text: from the directory it begins at, "." is nothing,   *)
(* ".." takes a name away except at the root of a file system.             *)
Text(path, from) ==
  LET roots == {vfs_path(mounts[m].root) : m \in DOMAIN mounts}
      T[k \in 0 .. Len(path.comps)] ==
        IF k = 0 THEN IF path.abs THEN <<>> ELSE from
        ELSE LET t == T[k - 1] IN
             CASE path.comps[k] = "." -> t
               [] path.comps[k] = ".." -> IF t \in roots THEN t ELSE SubSeq(t, 1, Len(t) - 1)
               [] OTHER -> Append(t, path.comps[k])
  IN T

(* Across mounts every node has one name, vfs_path; a lookup finds the     *)
(* node whose name its path spells, if all on the way are directories,     *)
(* and fails otherwise.  It never leads under a mount.                     *)
PathsNameNodes ==
  mounts # <<>> /\ ~halted =>
    LET name == [n \in Shown |-> vfs_path(n)]
        At(text) == {n \in DOMAIN name : name[n] = text}
    IN \A c \in DOMAIN name :
         /\ At(name[c]) = {c}
         /\ vfs_lookup(Absolute(name[c]), 0).node = c
         /\ \A path \in Paths :
              LET T == Text(path, name[c])
                  last == Len(path.comps)
                  r == vfs_lookup(path, c)
              IN IF At(T[last]) # {} /\ \A k \in 0 .. last - 1 : \E n \in At(T[k]) : IsDir(n)
                 THEN r.err = "OK" /\ At(T[last]) = {r.node}
                 ELSE r.err \in {"ENOENT", "ENOTDIR"}

(* An exclusive open that succeeds does what it would without O_EXCL: it   *)
(* makes an empty file, where no path led.  Only a path of no component    *)
(* ("/") has nothing to refuse and gets the directory that was there.      *)
ExclusiveCreates ==
  mounts # <<>> /\ ~halted => \A c \in Shown, path \in Paths :
    LET r == vfs_lookup_ext(path, c, "FILE", TRUE) IN
    r.err = "OK" =>
      /\ r = vfs_lookup_ext(path, c, "FILE", FALSE)
      /\ IF path.comps = <<>> THEN r = vfs_lookup(path, c)
         ELSE /\ vfs_lookup(path, c).err = "ENOENT"
              /\ r.node \notin DOMAIN nodes /\ r.nodes[r.node].data = <<>>

(* The file systems' trees and tables are well formed, and every path of a *)
(* node leads to it (vfs.c, tmpfs.c, resource.c).                          *)
TreeSound == TypeOK /\ PathsNameNodes

(* The files of the RAM disk and of both tmpfs, whoever can reach them.    *)
Stored == {n \in DOMAIN nodes : nodes[n].data # NULL}
Content == [n \in Stored |-> nodes[n].data]
Handles ==
  [id \in {i \in DOMAIN table : table[i] # NULL} |->
     [file |-> IF table[id].node \in Stored THEN table[id].node ELSE 0,
      pos |-> table[id].offset, mode |-> table[id].mode]]
Store == INSTANCE FileStore WITH
  Handle <- Id, NoFile <- 0, content <- Content, handle <- Handles

(* However files are named, mounted, opened twice, truncated and seeked    *)
(* in, a read returns what was last written at its place.                  *)
ImplementsFileStore == Store!AbsSpec
================================================================================
