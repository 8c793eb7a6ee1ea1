------------------------------- MODULE FileStore -------------------------------
(***************************************************************************)
(* What files promise whoever holds them open, with no names, directories, *)
(* mounts or drivers in sight: bytes that stay where they were written.    *)
(***************************************************************************)
EXTENDS Naturals, Sequences, FiniteSets

CONSTANTS Handle, NoFile

VARIABLES
  content,        \* of the files there are
  handle,         \* the open ones: [file, pos, mode], file = NoFile for all else
  buffer          \* the bytes that passed between the user and the last file

Readable == {"READ_ONLY", "READ_WRITE"}
Writable == {"WRITE_ONLY", "READ_WRITE"}
Files == DOMAIN content
Opened == DOMAIN handle

AbsInit == content = << >> /\ handle = << >> /\ buffer = <<>>

(* Files come, with anything in them, and never go; at most one of those   *)
(* there were is emptied.                                                  *)
Kept(emptied) ==
  /\ Files \subseteq DOMAIN content'
  /\ \A f \in Files : content'[f] = IF f = emptied THEN <<>> ELSE content[f]

(* Opening gives a handle nobody had, at either end of the file, and may   *)
(* empty that file if it is opened for writing.                            *)
Open ==
  \E h \in Handle \ Opened :
    /\ DOMAIN handle' = Opened \cup {h}
    /\ \A g \in Opened : handle'[g] = handle[g]
    /\ LET new == handle'[h] IN
       /\ Kept(NoFile) \/ (new.mode \in Writable /\ Kept(new.file))
       /\ new.pos = 0 \/ (new.file # NoFile /\ new.pos = Len(content'[new.file]))
    /\ UNCHANGED buffer

(* When handles have run out, the file has been made or emptied all the    *)
(* same.                                                                   *)
OpenInVain ==
  /\ Opened = Handle
  /\ \E f \in Files \cup {NoFile} : Kept(f)
  /\ UNCHANGED <<handle, buffer>>

(* A system that starts has files, and three handles to other things.      *)
Appear ==
  /\ Opened = {} /\ buffer = <<>>
  /\ Kept(NoFile)
  /\ \A h \in DOMAIN handle' : handle'[h] = [file |-> NoFile, pos |-> 0, mode |-> "READ_WRITE"]
  /\ UNCHANGED buffer

Close(h) ==
  /\ DOMAIN handle' = Opened \ {h}
  /\ \A g \in DOMAIN handle' : handle'[g] = handle[g]
  /\ UNCHANGED <<content, buffer>>

OnlyMoves(h) ==
  /\ DOMAIN handle' = Opened
  /\ \A g \in Opened \ {h} : handle'[g] = handle[g]
  /\ handle'[h].file = handle[h].file /\ handle'[h].mode = handle[h].mode

Seek(h) ==
  /\ handle[h].mode # "REFERENCE"
  /\ OnlyMoves(h)
  /\ UNCHANGED <<content, buffer>>

(* A read returns what lies at the position, up to the end of the file.    *)
Read(h) ==
  /\ handle[h].mode \in Readable
  /\ handle[h].file # NoFile =>
       LET bytes == content[handle[h].file]
       IN /\ \A k \in DOMAIN buffer' :
               handle[h].pos + k <= Len(bytes) /\ buffer'[k] = bytes[handle[h].pos + k]
          /\ buffer' = <<>> => handle[h].pos >= Len(bytes)
          /\ handle'[h].pos = handle[h].pos + Len(buffer')
  /\ OnlyMoves(h)
  /\ UNCHANGED content

(* A write changes the bytes at the position and no other; a hole before   *)
(* them is filled with anything.                                           *)
Write(h) ==
  /\ handle[h].mode \in Writable
  /\ IF handle[h].file = NoFile THEN UNCHANGED content
     ELSE LET f == handle[h].file
              pos == handle[h].pos
              n == Len(buffer')
          IN \/ buffer' = <<>> /\ UNCHANGED <<content, handle>>
             \/ /\ DOMAIN content' = Files
                /\ \A g \in Files \ {f} : content'[g] = content[g]
                /\ Len(content'[f]) = IF pos + n > Len(content[f]) THEN pos + n ELSE Len(content[f])
                /\ \A k \in 1 .. Len(content'[f]) :
                     IF k > pos /\ k <= pos + n THEN content'[f][k] = buffer'[k - pos]
                     ELSE k <= Len(content[f]) => content'[f][k] = content[f][k]
                /\ handle'[h].pos = pos + n
  /\ OnlyMoves(h)

AbsNext ==
  \/ Open \/ OpenInVain \/ Appear
  \/ \E h \in Opened : Close(h) \/ Seek(h) \/ Read(h) \/ Write(h)

AbsSpec == AbsInit /\ [][AbsNext]_<<content, handle, buffer>>

================================================================================
