-------------------------------- MODULE MCFiles --------------------------------
(* An instance of Files for TLC.                                           *)
EXTENDS Files

CONSTANTS x, y

Node(parent, name, type, data) == [parent |-> parent, name |-> name, type |-> type, data |-> data]
SmallDisk ==
  <<Node(0, NULL, "DIR", NULL), Node(1, "modules", "DIR", NULL), Node(1, "tmp", "DIR", NULL),
    Node(1, "etc", "FILE", <<x, y>>), Node(3, "a", "FILE", <<y>>)>>
TwoModules == <<[name |-> "m", data |-> <<x>>], [name |-> "m", data |-> <<y>>]>>

Rel(comps) == [abs |-> FALSE, comps |-> comps, slash |-> FALSE]
Abs(comps) == [abs |-> TRUE, comps |-> comps, slash |-> FALSE]
SomePaths ==
  {Rel(<<"a">>), Abs(<<"tmp">>), Rel(<<"etc">>), Abs(<<"etc", "a">>),
   Abs(<<"tmp", "..", "a">>), [abs |-> TRUE, comps |-> <<"tmp", "a">>, slash |-> TRUE],
   Rel(<<"tmp", "stdio", ".", "stdout">>), Abs(<<>>)}
(* From the root with any path, "a" from whatever id 3 is open on, and     *)
(* calls that are refused.                                                 *)
Try(dir, path, flags, mode) == [dir |-> dir, path |-> path, flags |-> flags, mode |-> mode]
SomeOpens ==
  {Try(t[1], t[2], m[1], m[2]) :
     t \in ({AT_FDCWD} \X SomePaths) \cup {<<3, Rel(<<"a">>)>>},
     m \in {<<{"CREAT"}, "READ_WRITE">>, <<{"CREAT", "EXCL"}, "READ_WRITE">>,
            <<{"TRUNC", "APPEND"}, "READ_WRITE">>}}
  \cup
  {Try(AT_FDCWD, Abs(<<"tmp">>), {"DIRECTORY"}, "REFERENCE"),
   Try(AT_FDCWD, Rel(<<"etc">>), {"TRUNC", "APPEND"}, "READ_ONLY"),
   Try(AT_FDCWD, Abs(<<"tmp">>), {"DIRECTORY"}, "WRITE_ONLY"),
   Try(AT_FDCWD, Rel(<<"tmp", "stdio", ".", "stdout">>), {}, "READ_WRITE"),
   Try(AT_FDCWD, NULL, {}, "READ_ONLY"), Try(4, Rel(<<"a">>), {"CREAT"}, "READ_WRITE"),
   Try(COUNT, Abs(<<"tmp">>), {}, "READ_ONLY"), Try(AT_FDCWD, Rel(<<"etc">>), {"UNSUPPORTED"}, "READ_ONLY"),
   Try(AT_FDCWD, Rel(<<"etc">>), {}, "NONE"), Try(3, Rel(<<"a">>), {"EXCL"}, "READ_WRITE"),
   Try(3, Rel(<<"a">>), {"CREAT", "DIRECTORY"}, "READ_WRITE")}
SomeOffsets == {-1, 0, 3}

(* No call looks at what an earlier one returned.                          *)
Unreturned == <<nodes, mounts, boot, table, halted>>
================================================================================
