------------------------------ MODULE Archive -------------------------------
(***************************************************************************)
(* The reader of the ROM archive, source/fs/ark.c, over a memory disk,     *)
(* source/disk/mem.c.                                                      *)
(*                                                                         *)
(* An image is what the archiver packs from a tree of folders and files,   *)
(* complete or cut short.  A field of the image is one unit of it, whatever*)
(* its width; a name with its NUL is one unit of the string table.         *)
(* Numbers of the reader are of fixed width and wrap at MaxWord.           *)
(*                                                                         *)
(* The test of the disk wraps, so the reader may come to read memory behind*)
(* the disk.  That memory is somebody else's: whenever it is read it holds *)
(* any of Junk, as far as Extent, and nothing can be read from there on.   *)
(* SafeAlloc is taken to find the memory it is asked for.                  *)
(***************************************************************************)
EXTENDS Integers, Sequences

CONSTANTS
  Trees,        \* the trees that are packed, each the entries of its root
  Lists,        \* entries of a folder, all or from one of them on
  PackAll(_),   \* what the archiver makes of each list
  Strings,      \* the names in the trees, as in the string table: numbers
  Path,         \* the paths looked up: sequences of names
  MaxWord,      \* one more than the largest unsigned number
  Junk,         \* what may be found in the memory behind the disk
  Extent        \* how much memory there is behind the disk

ASSUME ArchiveAssumption ==
  /\ Strings \in Seq(Nat \ {0})
  /\ Path \subseteq Seq(Nat \ {0})
  /\ MaxWord \in Nat \ {0}
  /\ Junk \subseteq Nat /\ Extent \in Nat

VARIABLES
  tree, image,  \* what was packed, and what of it is on the disk
  pc,
  diskPtr,      \* where the reader stands
  strings,      \* the string table
  frames,       \* the calls of ReadEntry that read a folder; the first is Read
  answer,
  beyond        \* history: an entry was read from behind the disk

vars == <<tree, image, pc, diskPtr, strings, frames, answer, beyond>>

(***************************************************************************)
(* "header" "entries"  in Read                                             *)
(* "mounted" "failed"  Ark_CreateFileSystem has returned                   *)
(* "aborted"           an assertion that a read succeeds did not hold      *)
(* "outside"           memory was read that is not there                   *)
(***************************************************************************)
Place == {"header", "entries", "mounted", "failed", "aborted", "outside"}

Nothing == <<-1>>
Folder  == <<-2>>

Answer(path, err, data) == [path |-> path, err |-> err, data |-> data]

NoAnswer == Answer(<<>>, "NONE", Nothing)

-----------------------------------------------------------------------------
(* Images *)

Names == {Strings[i] : i \in DOMAIN Strings}

\* What is in a folder.
Item == [name : Names, folder : {FALSE}, data : Seq(Nat)]
        \cup [name : Names, folder : {TRUE}, entries : Lists]

ASSUME TreeAssumption ==
  /\ Trees \subseteq Lists /\ Lists \subseteq Seq(Item)
  /\ \A es \in Lists : es # <<>> => Tail(es) \in Lists

Offset(name) == (CHOOSE i \in DOMAIN Strings : Strings[i] = name) - 1

PackEntry(e) ==
  IF e.folder THEN <<1, 0, Offset(e.name), Len(e.entries)>> \o PackAll(e.entries)
              ELSE <<0, Len(e.data), Offset(e.name)>> \o e.data

\* Version, unused, length of the string table, a random number, the string
\* table, the root folder.
Pack(es) == <<1, 0, Len(Strings), 7>> \o Strings \o <<1, 0, 0, Len(es)>> \o PackAll(es)

\* The archiver packs the entries of a folder one after the other, and numbers
\* are wide enough for every position in an image and in the memory behind it.
ASSUME ArchiverAssumption ==
  /\ \A es \in Lists : PackAll(es) \in Seq(Nat)
  /\ \A es \in Lists :
       PackAll(es) = IF es = <<>> THEN <<>> ELSE PackEntry(Head(es)) \o PackAll(Tail(es))
  /\ \A es \in Trees : Len(Pack(es)) + Extent < MaxWord

-----------------------------------------------------------------------------
(* The disk *)


\* The test of ReadDisk.
Readable(where, n) == n <= (Len(image) - where) % MaxWord

OnDisk(where, n) == where + n <= Len(image)

\* memcpy finds all it copies.
Mapped(where, n) == n = 0 \/ where + n <= Len(image) + Extent

\* What the unit at a position may be.
Unit(where) == IF where < Len(image) THEN {image[where + 1]} ELSE Junk

\* What n units from a position on may be.
Bytes(where, n) ==
  {data \in [1 .. n -> UNION {Unit(where + k - 1) : k \in 1 .. n}] :
     \A k \in 1 .. n : data[k] \in Unit(where + k - 1)}

\* Read8 and Read32 one after the other: the disk lets each of n fields be read.
Got(n) == /\ \A k \in 0 .. n - 1 : Readable(diskPtr + k, 1)
          /\ Mapped(diskPtr, n)

\* What becomes of the reader at the first field that cannot be read.
Stopped ==
  LET where == IF diskPtr > Len(image) THEN diskPtr ELSE Len(image)
  IN  IF Readable(where, 1) THEN "outside" ELSE "aborted"

Field(i) == Unit(diskPtr + i - 1)

\* An entry of n fields has been read.
Advance(n) == beyond' = (beyond \/ ~OnDisk(diskPtr, n))

-----------------------------------------------------------------------------
(* Read *)

Frame(name, left) == [name |-> name, left |-> left, entries |-> <<>>]

Top == frames[Len(frames)]

\* The header and the string table.
ReadHeader ==
  /\ pc = "header"
  /\ \/ ~Got(4) /\ pc' = Stopped /\ UNCHANGED <<diskPtr, strings>>
     \/ /\ Got(4)
        /\ \E length \in Field(3) :
             IF length = MaxWord - 1 \/ ~Readable(4, length)
               THEN pc' = "failed" /\ UNCHANGED <<diskPtr, strings>>
             ELSE /\ pc' = "entries"
                  /\ strings' \in Bytes(4, length)
                  /\ diskPtr' = 4 + length
  /\ UNCHANGED <<tree, image, frames, answer, beyond>>

\* The name at an offset of the string table; the last one is the empty name.
NameAt(offset) == IF offset = Len(strings) THEN 0 ELSE strings[offset + 1]

\* Mutant: an entry counts twice.
AttachedTwice(fs, e) ==
  [fs EXCEPT ![Len(fs)] = [name |-> @.name, left |-> @.left - 2,
                           entries |-> Append(@.entries, e)]]

\* The entry is the next of the folder that is being read.
Attached(fs, e) ==
  [fs EXCEPT ![Len(fs)] = [name |-> @.name, left |-> @.left - 1,
                           entries |-> Append(@.entries, e)]]

Reading == pc = "entries" /\ Top.left > 0

\* ReadEntry finds a folder.
EnterFolder ==
  /\ Reading /\ Got(4)
  /\ Field(1) \ {0} # {}
  /\ \E offset \in Field(3), length \in Field(4) :
       /\ offset <= Len(strings)
       /\ frames' = Append(frames, Frame(NameAt(offset), length))
  /\ diskPtr' = diskPtr + 4 /\ Advance(4)
  /\ UNCHANGED <<tree, image, pc, strings, answer>>

\* What ReadEntry makes of a file.
File(offset, size) ==
  [name |-> NameAt(offset), folder |-> FALSE, size |-> size, contentsOffset |-> diskPtr + 3]

\* Mutant: the contents of a file are not passed over.
PassFileHeader ==
  /\ Reading /\ Got(3)
  /\ 0 \in Field(1)
  /\ \E size \in Field(2), offset \in Field(3) :
       /\ offset <= Len(strings)
       /\ frames' = Attached(frames, File(offset, size))
       /\ diskPtr' = diskPtr + 3
  /\ Advance(3)
  /\ UNCHANGED <<tree, image, pc, strings, answer>>

\* ReadEntry finds a file, and passes over its contents, there or not.
PassFile ==
  /\ Reading /\ Got(3)
  /\ 0 \in Field(1)
  /\ \E size \in Field(2), offset \in Field(3) :
       /\ offset <= Len(strings)
       /\ frames' = Attached(frames, File(offset, size))
       /\ diskPtr' = (diskPtr + 3 + size) % MaxWord
  /\ Advance(3)
  /\ UNCHANGED <<tree, image, pc, strings, answer>>

\* A field is not there, or the offset of the name is no good.
EntryFails ==
  /\ Reading
  /\ \/ ~Got(3) /\ pc' = Stopped
     \/ /\ Got(3) /\ \E offset \in Field(3) : offset > Len(strings)
        /\ pc' = "failed"
     \/ /\ Got(3) /\ ~Got(4) /\ Field(1) \ {0} # {}
        /\ \E offset \in Field(3) : offset <= Len(strings)
        /\ pc' = Stopped
  /\ UNCHANGED <<tree, image, diskPtr, strings, frames, answer, beyond>>

\* ReadEntry has read the entries of a folder.
LeaveFolder ==
  /\ pc = "entries" /\ Len(frames) > 1 /\ Top.left = 0
  /\ frames' = Attached(SubSeq(frames, 1, Len(frames) - 1),
                        [name |-> Top.name, folder |-> TRUE, entries |-> Top.entries])
  /\ UNCHANGED <<tree, image, pc, diskPtr, strings, answer, beyond>>

\* Read has its root.
Mount ==
  /\ pc = "entries" /\ Len(frames) = 1 /\ Top.left = 0
  /\ pc' = "mounted"
  /\ UNCHANGED <<tree, image, diskPtr, strings, frames, answer, beyond>>

-----------------------------------------------------------------------------
(* Reading a file *)

Root == Top.entries[1]

\* Mutant: the last entry of the name.
GetEntryInDirLast(dir, name) ==
  {dir.entries[i] : i \in {i \in DOMAIN dir.entries :
                             /\ dir.entries[i].name = name
                             /\ \A j \in i + 1 .. Len(dir.entries) : dir.entries[j].name # name}}

\* GetEntryInDir: the first entry of the name, in a set by itself.
GetEntryInDir(dir, name) ==
  {dir.entries[i] : i \in {i \in DOMAIN dir.entries :
                             /\ dir.entries[i].name = name
                             /\ \A j \in 1 .. i - 1 : dir.entries[j].name # name}}

\* The folder that the first n names of a path lead to, if they do.
Dir(path) ==
  LET d[n \in 0 .. Len(path)] ==
        IF n = 0 THEN {Root}
        ELSE {e \in UNION {GetEntryInDir(dir, path[n]) : dir \in d[n - 1]} : e.folder}
  IN  d

GetEntry(path) ==
  IF path = <<>> THEN {Root}
  ELSE UNION {GetEntryInDir(dir, path[Len(path)]) : dir \in Dir(path)[Len(path) - 1]}

\* ReadFile
Read(path) ==
  /\ pc = "mounted"
  /\ \/ /\ GetEntry(path) = {}
        /\ answer' = Answer(path, "FILE_NOT_FOUND", Nothing)
        /\ UNCHANGED pc
     \/ /\ \E e \in GetEntry(path) : e.folder
        /\ answer' = Answer(path, "NOT_A_FILE", Nothing)
        /\ UNCHANGED pc
     \/ \E e \in GetEntry(path) :
          /\ ~e.folder
          /\ \/ /\ ~Readable(e.contentsOffset, e.size)
                /\ answer' = Answer(path, "OUT_OF_BOUNDS_DISK", Nothing)
                /\ UNCHANGED pc
             \/ /\ Readable(e.contentsOffset, e.size) /\ ~Mapped(e.contentsOffset, e.size)
                /\ pc' = "outside"
                /\ UNCHANGED answer
             \/ /\ Readable(e.contentsOffset, e.size) /\ Mapped(e.contentsOffset, e.size)
                /\ \E data \in Bytes(e.contentsOffset, e.size) :
                     answer' = Answer(path, "SUCCESS", data)
                /\ UNCHANGED pc
  /\ UNCHANGED <<tree, image, diskPtr, strings, frames, beyond>>

-----------------------------------------------------------------------------
Init ==
  /\ tree \in Trees
  /\ \E n \in 0 .. Len(Pack(tree)) : image = SubSeq(Pack(tree), 1, n)
  /\ pc = "header" /\ diskPtr = 0 /\ strings = <<>>
  /\ frames = <<Frame(0, 1)>>
  /\ answer = NoAnswer /\ beyond = FALSE

Next ==
  \/ ReadHeader \/ EnterFolder \/ PassFile \/ EntryFails \/ LeaveFolder \/ Mount
  \/ \E path \in Path : Read(path)

Spec == Init /\ [][Next]_vars
=============================================================================
