---------------------------- MODULE ArchiveProps ----------------------------
(***************************************************************************)
(* What should be true of source/fs/ark.c.                                 *)
(***************************************************************************)
EXTENDS Archive

Complete == image = Pack(tree)

\* The entries of a name in a folder of the tree; of several the first counts.
Named(e, name) == {i \in DOMAIN e.entries : e.entries[i].name = name}
Entered(e, name) == {e.entries[i] : i \in {i \in Named(e, name) : \A j \in Named(e, name) : i <= j}}

\* What the tree has at a path, read off the tree itself.
At(es, path) ==
  LET on[n \in 0 .. Len(path)] ==
        IF n = 0 THEN {[folder |-> TRUE, entries |-> es]}
                 ELSE UNION {Entered(e, path[n]) : e \in {e \in on[n - 1] : e.folder}}
      there == on[Len(path)]
  IN  IF there = {} THEN Nothing
      ELSE LET e == CHOOSE e \in there : TRUE IN IF e.folder THEN Folder ELSE e.data

Entry(e) == e.name \in Nat /\ e.folder \in BOOLEAN

\* Every variable has the shape the code gives it.
TypeOK ==
  /\ tree \in Trees
  /\ image \in Seq(Nat)
  /\ pc \in Place
  /\ diskPtr \in 0 .. MaxWord - 1
  /\ strings \in Seq(Nat)
  /\ \A i \in DOMAIN frames :
       /\ frames[i].left \in Nat
       /\ \A j \in DOMAIN frames[i].entries : Entry(frames[i].entries[j])
  /\ beyond \in BOOLEAN

\* The reader is a drive with the contents of the tree: whatever is read, in
\* whatever order, of a complete image or of one cut short that still mounts,
\* every answer is the data of the path, or says rightly that there is none, or
\* says that the disk ends too early.  All of this until an entry has been read
\* from behind the disk: a reader that mounts with such an entry promises nothing
\* of a drive, and its answers do not count here.
D == INSTANCE Drive WITH
  contents <- [path \in Path |-> At(tree, path)],
  answer   <- IF beyond THEN NoAnswer ELSE answer
DrivePromise == D!Spec

\* A complete image always mounts, no read of it fails or leaves the disk, and
\* the reader ends up just behind its last byte.
CompleteReads ==
  Complete =>
    /\ pc \in {"header", "entries", "mounted"} /\ ~beyond
    /\ pc = "mounted" => diskPtr = Len(image)
    /\ answer = NoAnswer \/ answer.err # "OUT_OF_BOUNDS_DISK"


=============================================================================
