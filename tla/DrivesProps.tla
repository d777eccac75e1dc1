---------------------------- MODULE DrivesProps -----------------------------
(***************************************************************************)
(* What should be true of source/fs.c, source/fs/host.c and the file calls *)
(* of source/calls.c.                                                      *)
(***************************************************************************)
EXTENDS Drives

\* Every variable has the shape the code gives it.
TypeOK ==
  /\ pc \in Place
  /\ fileSystems \in [Slot -> Drive \cup {None}] /\ driveCounter \in 0 .. MaxFlags
  /\ files \in [HomeFile -> Seq(Nat) \cup {Absent}]
  /\ streams \subseteq [file : HomeFile, off : Nat, rest : Seq(Nat)]
  /\ opened \in 0 .. OpenMax
  /\ held \subseteq Block /\ given \subseteq Block
  /\ answer \in [err : Codes, dest : Block \cup {NULL}]
  /\ log \in [HomeFile -> Seq([text : Seq(Nat), ok : BOOLEAN])]
  /\ misread \in BOOLEAN

\* However many drives are asked for and whether the ROM drive came up or not,
\* the table has no gap and nothing twice: the ROM drive in the first slot if it
\* came up, then the home drives in the order of their names, as many as fit.
TableInOrder ==
  \E rom \in {0, 1} :
    \A i \in Slot :
      fileSystems[i] = IF i <= rom THEN Rom
                       ELSE IF i - rom <= driveCounter /\ i - rom <= NameAmount
                         THEN i - rom - 1 ELSE None

\* A pointer that a read has given to a program stays good until the program
\* frees it, whatever else is read: only ReadTextFile after a read that failed,
\* which reallocates whatever its local variable points to, takes one away.
OnlyMisreadsStray == ~misread => given \subseteq held

\* A file that was written once, with success, holds just that after the program
\* has exited, whatever was done to other files meanwhile: what a stream holds
\* back is not lost, nor does it end up elsewhere.  The host is taken to accept
\* what is flushed at exit: nothing in the code would notice if it did not.
OneWriteLands ==
  pc = "exited" =>
    \A p \in HomeFile : Len(log[p]) = 1 /\ log[p][1].ok => files[p] = log[p][1].text

-----------------------------------------------------------------------------
(* What the repository says of the drives and the code does not do *)

\* "Out of memory" (error.c:16) is answered when there is none, not when there
\* was.
OutOfMemoryIsNone == answer.err = "OUT_OF_MEMORY" => answer.dest = NULL

\* "Write file: ( path size data -- success )" (vm.md:119): what the last write
\* that answered success has written is what the file holds in the end.
LastWriteWins ==
  pc = "exited" =>
    \A p \in HomeFile : LET last == log[p][Len(log[p])]
                       IN  log[p] # <<>> /\ last.ok => files[p] = last.text
=============================================================================
