------------------------------- MODULE Drives -------------------------------
(***************************************************************************)
(* The table of drives (source/fs.c), the drives for the home directory    *)
(* (source/fs/host.c), the boot that mounts them (source/main.c) and the   *)
(* system calls a program reads and writes files with (source/calls.c).    *)
(* The ROM drive is what module Drive promises and Archive implements.     *)
(*                                                                         *)
(* Of the host: fopen takes a handle of those the host grants; what fwrite *)
(* is given reaches the file in whole buffers at once and the rest when    *)
(* the stream is flushed, which, as no stream is ever closed, is when the  *)
(* program exits; it does not say in which order.                          *)
(*                                                                         *)
(* Every home drive is the same directory.  A local variable nothing was   *)
(* stored in holds anything, the pointer of an earlier call included.      *)
(***************************************************************************)
EXTENDS Integers, Sequences

CONSTANTS
  FSAmount,     \* slots in the table of drives (8 in the code)
  NameAmount,   \* names main has for home drives (8 in the code)
  MaxFlags,     \* bound on the --mount-home flags
  OpenMax,      \* files the host lets the program have open
  BufferSize,   \* bytes a stream of the host holds back
  HomeFile,     \* names of files in the home directory
  RomFile,      \* names of files in the archive, autostart.txt left aside
  EmptyFile,    \* those of them that are empty
  CutFile,      \* those whose contents are not all on the disk
  Text,         \* what programs write
  Block,        \* blocks of the heap
  NULL

ASSUME DrivesAssumption ==
  /\ FSAmount \in Nat \ {0} /\ NameAmount \in Nat /\ MaxFlags \in Nat
  /\ OpenMax \in Nat /\ BufferSize \in Nat \ {0}
  /\ Text \subseteq Seq(Nat)
  /\ EmptyFile \subseteq RomFile /\ CutFile \subseteq RomFile \ EmptyFile
  /\ NULL \notin Block

VARIABLES
  pc,
  fileSystems,  \* the drive in each slot
  driveCounter, \* home drives asked for
  files,        \* the files of the home directory, as the host has them
  streams,      \* what streams hold back: [file, off, rest]
  opened,       \* handles taken
  held,         \* allocated blocks that came from file calls
  given,        \* blocks pushed to the program that it has not freed
  answer,       \* the error and the pointer the last call pushed
  log,          \* history: the writes to each file
  misread       \* history: a read that failed went on to Realloc

table  == <<fileSystems, driveCounter>>
host   == <<files, streams, opened>>
heap   == <<held, given>>
vars   == <<pc, table, host, heap, answer, log, misread>>

(***************************************************************************)
(* "boot" "args"  main, before and while it mounts drives                  *)
(* "run"          a program runs                                           *)
(* "exiting"      exit: the host flushes the streams; then "exited"        *)
(* "fault"        ended without exit: what streams held back is lost       *)
(***************************************************************************)
Place == {"boot", "args", "run", "exiting", "exited", "fault"}

\* A drive is its name: a home drive is named by a number.
None    == -2
Rom     == -1
Slot    == 1 .. FSAmount
Drive   == {Rom} \cup 0 .. NameAmount - 1

\* The empty path is the folder itself; the longest is longer than PATH_MAX.
Path == HomeFile \cup RomFile \cup {"", "missing", "long"}

Absent == <<-1>>
Codes == {"SUCCESS", "FILE_NOT_FOUND", "FS_READ_ONLY", "INTERNAL", "NOT_A_FILE",
          "INVALID_DRIVE", "OUT_OF_MEMORY", "OUT_OF_BOUNDS_DISK"}

-----------------------------------------------------------------------------
(* The table *)

\* Mutant: the search begins at the second slot.
NextFreeFromSecond ==
  {i \in Slot \ {1} : fileSystems[i] = None /\ \A j \in 2 .. i - 1 : fileSystems[j] # None}

\* FS_NextFree: the first empty slot, if there is one.
NextFree ==
  {i \in Slot : fileSystems[i] = None /\ \A j \in 1 .. i - 1 : fileSystems[j] # None}

\* FS_Add; what it answers is dropped.
Add(fs) ==
  fileSystems' = [i \in Slot |-> IF i \in NextFree THEN fs ELSE fileSystems[i]]

\* GetFS finds a drive of this name.
Mounted(d) == \E i \in Slot : fileSystems[i] = d

-----------------------------------------------------------------------------
(* main *)

\* Ark_CreateFileSystem answers NULL when the archive is no good, and main adds
\* that as well.
MountRom ==
  /\ pc = "boot"
  /\ \E fs \in {Rom, None} : Add(fs)
  /\ pc' = "args"
  /\ UNCHANGED <<driveCounter, host, heap, answer, log, misread>>

\* Mutant: the counter is moved on where it picks the name and again at the end.
MountHomeCountsTwice ==
  /\ pc = "args" /\ driveCounter < MaxFlags
  /\ IF driveCounter < NameAmount
       THEN Add(driveCounter) /\ UNCHANGED pc
       ELSE pc' = "fault" /\ UNCHANGED fileSystems
  /\ driveCounter' = driveCounter + 2
  /\ UNCHANGED <<host, heap, answer, log, misread>>

\* --mount-home.  The flag after the last name reads past the array of names.
MountHome ==
  /\ pc = "args" /\ driveCounter < MaxFlags
  /\ IF driveCounter < NameAmount
       THEN Add(driveCounter) /\ UNCHANGED pc
       ELSE pc' = "fault" /\ UNCHANGED fileSystems
  /\ driveCounter' = driveCounter + 1
  /\ UNCHANGED <<host, heap, answer, log, misread>>

\* autostart.txt is read and the first process started, or main exits.
Autostart ==
  /\ pc = "args"
  /\ pc' \in {"exiting"} \cup IF Mounted(Rom) THEN {"run"} ELSE {}
  /\ UNCHANGED <<table, host, heap, answer, log, misread>>

-----------------------------------------------------------------------------
(* Reading a file: what fs->readFile leaves behind *)

\* The error, whether `size' and `dest' were stored to and with what, whether a
\* handle was taken.
Result(err, set, dest, opens) == [err |-> err, set |-> set, dest |-> dest, opens |-> opens]

Fresh == Block \ (held \cup given)

\* SafeAlloc answers NULL for an empty file, and exits when there is no memory
\* for another.  Both are stored before the disk is read, and stay when it is
\* not all there.
RomRead(p) ==
  IF p \in EmptyFile THEN {Result("SUCCESS", TRUE, NULL, 0)}
  ELSE IF p \in CutFile THEN {Result("OUT_OF_BOUNDS_DISK", TRUE, b, 0) : b \in Fresh}
  ELSE IF p \in RomFile THEN {Result("SUCCESS", TRUE, b, 0) : b \in Fresh}
  ELSE {Result(IF p = "" THEN "NOT_A_FILE" ELSE "FILE_NOT_FOUND", FALSE, NULL, 0)}

CanOpen == opened < OpenMax

\* A folder opens, has an absurd size, and cannot be read.  Memory for a file
\* counts as an error; its lack does not, and is Faults below.
HostRead(p) ==
  IF p = "long" THEN {Result("SUCCESS", FALSE, NULL, 0)}
  ELSE IF ~CanOpen \/ (p # "" /\ (p \notin HomeFile \/ files[p] = Absent))
    THEN {Result("FILE_NOT_FOUND", FALSE, NULL, 0)}
  ELSE IF p = "" THEN {Result("INTERNAL", TRUE, NULL, 1)}
  ELSE IF files[p] = <<>> THEN {Result("SUCCESS", TRUE, NULL, 1)}
  ELSE {Result("OUT_OF_MEMORY", TRUE, b, 1) : b \in Fresh}

\* FS_ReadFile
Read(d, p) ==
  IF ~Mounted(d) THEN {Result("INVALID_DRIVE", FALSE, NULL, 0)}
  ELSE IF d = Rom THEN RomRead(p) ELSE HostRead(p)

Taken(r) == {r.dest} \ {NULL}

\* The call ReadFile.  A `contents' never stored to is pushed all the same.
ReadFile(d, p) ==
  /\ pc = "run"
  /\ \E r \in Read(d, p) :
       /\ opened' = opened + r.opens
       /\ held' = held \cup Taken(r)
       /\ given' = given \cup Taken(r)
       /\ answer' = [err |-> r.err, dest |-> r.dest]
  /\ UNCHANGED <<pc, table, files, streams, log, misread>>

\* What the local `contents' may point to when Realloc gets it, of what Realloc
\* accepts.
Contents(r) == IF r.set THEN {r.dest} ELSE {NULL} \cup held

\* Realloc leaves a block where it is or moves it; from NULL it allocates.  A
\* size that was never set may be any, so that there is no memory or it is 0.
Resized(r, ptr) ==
  (Fresh \ {r.dest}) \cup {ptr} \cup IF r.set /\ ptr # NULL THEN {} ELSE {NULL}

\* Mutant: the block is pushed that was read into, not the one it was moved to.
ReadTextFileUnmoved(d, p) ==
  /\ pc = "run"
  /\ \E r \in Read(d, p) : \E ptr \in Contents(r) : \E b \in Resized(r, ptr) :
       /\ opened' = opened + r.opens
       /\ held' = (held \ {ptr}) \cup ({b} \ {NULL})
       /\ given' = given \cup ({ptr} \ {NULL})
       /\ answer' = [err |-> r.err, dest |-> ptr]
       /\ misread' = (misread \/ ~r.set)
  /\ UNCHANGED <<pc, table, files, streams, log>>

\* The call ReadTextFile: Realloc makes room for the NUL, also after a read that
\* failed.
ReadTextFile(d, p) ==
  /\ pc = "run"
  /\ \E r \in Read(d, p) : \E ptr \in Contents(r) : \E b \in Resized(r, ptr) :
       /\ opened' = opened + r.opens
       /\ held' = (held \ {ptr}) \cup ({b} \ {NULL})
       /\ given' = given \cup ({b} \ {NULL})
       /\ answer' = [err |-> r.err, dest |-> b]
       /\ misread' = (misread \/ ~r.set)
  /\ UNCHANGED <<pc, table, files, streams, log>>

\* `contents' held anything else: Realloc exits over it or reads through it.
ReadTextRefused(d, p) ==
  /\ pc = "run"
  /\ \E r \in Read(d, p) : ~r.set /\ answer' = [err |-> r.err, dest |-> r.dest]
  /\ pc' \in {"exiting", "fault"}
  /\ misread' = TRUE
  /\ UNCHANGED <<table, host, heap, log>>

\* The call Free.  Of a block that is free already it exits.
Free(b) ==
  /\ pc = "run" /\ b \in given
  /\ IF b \in held THEN held' = held \ {b} /\ given' = given \ {b} /\ UNCHANGED pc
                   ELSE pc' = "exiting" /\ UNCHANGED heap
  /\ UNCHANGED <<table, host, answer, log, misread>>

-----------------------------------------------------------------------------
(* Writing a file *)

Writable(p) == p \in HomeFile /\ CanOpen

\* What fwrite hands on at once, and what the stream holds back.
Direct(t) == SubSeq(t, 1, Len(t) - (Len(t) % BufferSize))
Rest(p, t) ==
  IF Len(t) % BufferSize = 0 THEN {}
  ELSE {[file |-> p, off |-> Len(Direct(t)), rest |-> SubSeq(t, Len(Direct(t)) + 1, Len(t))]}

\* What FS_WriteFile answers when it comes to nothing.  A path that is too long
\* answers `false', which is the code for success.
Refusal(d, p) ==
  IF ~Mounted(d) THEN {"INVALID_DRIVE"}
  ELSE IF d = Rom THEN {"FS_READ_ONLY"}
  ELSE IF p = "long" THEN {"SUCCESS"}
  ELSE IF ~Writable(p) THEN {"FILE_NOT_FOUND"} ELSE {}

WriteRefused(d, p) ==
  /\ pc = "run"
  /\ \E err \in Refusal(d, p) : answer' = [err |-> err, dest |-> NULL]
  /\ UNCHANGED <<pc, table, host, heap, log, misread>>

\* fopen empties the file.
Write(d, p, t) ==
  /\ pc = "run" /\ Refusal(d, p) = {}
  /\ files' = [files EXCEPT ![p] = Direct(t)]
  /\ streams' = streams \cup Rest(p, t)
  /\ opened' = opened + 1
  /\ answer' = [err |-> "SUCCESS", dest |-> NULL]
  /\ log' = [log EXCEPT ![p] = Append(@, [text |-> t, ok |-> TRUE])]
  /\ UNCHANGED <<pc, table, heap, misread>>

\* The host takes less than it is given.
WriteFails(d, p, t) ==
  /\ pc = "run" /\ Refusal(d, p) = {}
  /\ Direct(t) # <<>>
  /\ files' = [files EXCEPT ![p] = <<>>]
  /\ opened' = opened + 1
  /\ answer' = [err |-> "INTERNAL", dest |-> NULL]
  /\ log' = [log EXCEPT ![p] = Append(@, [text |-> t, ok |-> FALSE])]
  /\ UNCHANGED <<pc, table, streams, heap, misread>>

\* The call WriteTextFile writes as far as the first NUL.
UpToNul(t) ==
  {SubSeq(t, 1, n) : n \in {m \in 0 .. Len(t) : /\ m = Len(t) \/ t[m + 1] = 0
                                               /\ \A i \in 1 .. m : t[i] # 0}}

-----------------------------------------------------------------------------
(* The end of the program *)

\* A program halts, or ends the system by a call that exits.
Exit ==
  /\ pc = "run"
  /\ pc' = "exiting"
  /\ UNCHANGED <<table, host, heap, answer, log, misread>>

\* No memory for a file, no HOME, a file of an archive mounted with what lies
\* behind its disk (module Archive), or a fault of the program itself.
Fault ==
  /\ pc = "run"
  /\ pc' = "fault"
  /\ UNCHANGED <<table, host, heap, answer, log, misread>>

Overlay(old, off, new) ==
  [i \in 1 .. IF off + Len(new) > Len(old) THEN off + Len(new) ELSE Len(old) |->
     IF i > off /\ i - off <= Len(new) THEN new[i - off]
     ELSE IF i <= Len(old) THEN old[i] ELSE 0]

\* The host takes what is flushed; it is not said here to fail at that.
Flush(s) ==
  /\ pc = "exiting"
  /\ files' = [files EXCEPT ![s.file] = Overlay(@, s.off, s.rest)]
  /\ streams' = streams \ {s}
  /\ UNCHANGED <<pc, table, opened, heap, answer, log, misread>>

\* Mutant: the program ends without its streams being flushed.
ExitedUnflushed ==
  /\ pc = "exiting"
  /\ pc' = "exited"
  /\ UNCHANGED <<table, host, heap, answer, log, misread>>

Exited ==
  /\ pc = "exiting" /\ streams = {}
  /\ pc' = "exited"
  /\ UNCHANGED <<table, host, heap, answer, log, misread>>

-----------------------------------------------------------------------------
Init ==
  /\ pc = "boot"
  /\ fileSystems = [i \in Slot |-> None] /\ driveCounter = 0
  /\ files \in [HomeFile -> {Absent, <<9>>}]
  /\ streams = {} /\ opened = 0
  /\ held = {} /\ given = {}
  /\ answer = [err |-> "SUCCESS", dest |-> NULL]
  /\ log = [p \in HomeFile |-> <<>>]
  /\ misread = FALSE

Boot == MountRom \/ MountHome \/ Autostart

Calls ==
  \/ \E d \in Drive, p \in Path :
       \/ ReadFile(d, p) \/ ReadTextFile(d, p) \/ ReadTextRefused(d, p)
       \/ WriteRefused(d, p)
       \/ \E t \in Text : \E u \in {t} \cup UpToNul(t) : Write(d, p, u) \/ WriteFails(d, p, u)
  \/ \E b \in given : Free(b)

End == Exit \/ Fault \/ (\E s \in streams : Flush(s)) \/ Exited

Next == Boot \/ Calls \/ End

Spec == Init /\ [][Next]_vars
=============================================================================
