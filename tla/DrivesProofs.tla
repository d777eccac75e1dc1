---------------------------- MODULE DrivesProofs ----------------------------
(***************************************************************************)
(* The drives for any size of the table, any number of flags, files and    *)
(* blocks, and any texts.                                                  *)
(***************************************************************************)
EXTENDS DrivesProps, TLAPS

-----------------------------------------------------------------------------
(* The inductive invariant *)

\* Before main mounts anything the table is empty.
BootInv == pc = "boot" => driveCounter = 0 /\ \A i \in Slot : fileSystems[i] = None

\* A stream holds something back for a file that is there.
StreamInv == \A s \in streams : files[s.file] # Absent

\* An entry of the log.
Entry == [text : Seq(Nat), ok : BOOLEAN]

\* What has become of the only write to a file.
HeldBack(p) == {s \in streams : s.file = p}
LandInv ==
  \A p \in HomeFile :
    /\ log[p] = <<>> => HeldBack(p) = {}
    /\ Len(log[p]) = 1 /\ log[p][1].ok =>
         LET t == log[p][1].text
         IN  \/ files[p] = t /\ HeldBack(p) = {}
             \/ files[p] = Direct(t) /\ HeldBack(p) = Rest(p, t)

FlushedInv == pc = "exited" => streams = {}

IInv == TypeOK /\ BootInv /\ TableInOrder /\ OnlyMisreadsStray
        /\ StreamInv /\ LandInv /\ FlushedInv

-----------------------------------------------------------------------------
(* Lemmas about the operators *)

\* The constants are numbers, and the names of the ROM drive and of no drive
\* are none of theirs.
LEMMA Sizes ==
  /\ FSAmount \in Nat /\ NameAmount \in Nat /\ MaxFlags \in Nat /\ OpenMax \in Nat
  /\ BufferSize \in Nat /\ BufferSize > 0 /\ NULL \notin Block
  /\ None = -2 /\ Rom = -1
  BY DrivesAssumption DEF None, Rom

\* Sequences of at most one element.
LEMMA Short ==
  ASSUME NEW S, NEW s \in Seq(S)
  PROVE  /\ Len(s) + 1 = 1 => s = <<>>
         /\ Len(s) = 1 => s[1] \in S
<1>0. Len(s) \in Nat OBVIOUS
<1>1. Len(s) = 0 => s = <<>> OBVIOUS
<1>3. Len(s) + 1 = 1 => Len(s) = 0 BY <1>0
<1>2. Len(s) = 1 => 1 \in 1 .. Len(s) OBVIOUS
<1> QED BY <1>1, <1>2, <1>3

\* A sequence that something was put behind.
LEMMA Longer ==
  ASSUME NEW S, NEW s \in Seq(S), NEW e \in S
  PROVE  Append(s, e) # <<>> /\ Len(Append(s, e)) = Len(s) + 1
<1>1. Append(s, e) \in Seq(S) /\ Len(Append(s, e)) = Len(s) + 1 /\ Len(s) \in Nat OBVIOUS
<1>2. Len(Append(s, e)) # 0 BY <1>1
<1>3. Len(<<>>) = 0 OBVIOUS
<1> QED BY <1>1, <1>2, <1>3

\* A remainder is no larger than what was divided.
LEMMA Remainder == ASSUME NEW a \in Nat, NEW b \in Nat, b > 0 PROVE a % b \in 0 .. a
  OBVIOUS

\* A text is what is handed on at once, and then what is held back.
LEMMA Halves ==
  ASSUME NEW t \in Seq(Nat)
  PROVE  /\ Direct(t) \in Seq(Nat) /\ Len(Direct(t)) = Len(t) - (Len(t) % BufferSize)
         /\ \A i \in 1 .. Len(Direct(t)) : Direct(t)[i] = t[i]
         /\ Len(t) % BufferSize = 0 => Direct(t) = t
         /\ Len(Direct(t)) \in 0 .. Len(t)
<1> DEFINE r == Len(t) % BufferSize
           n == Len(t) - r
<1>1. r \in 0 .. Len(t)
  <2>1. Len(t) \in Nat OBVIOUS
  <2> QED BY <2>1, Remainder, Sizes
<1>2. n \in 0 .. Len(t) BY <1>1
<1> HIDE DEF n
<1>3. Direct(t) = SubSeq(t, 1, n) BY DEF Direct, n
<1>4. SubSeq(t, 1, n) \in Seq(Nat) /\ Len(SubSeq(t, 1, n)) = n
      /\ \A i \in 1 .. n : SubSeq(t, 1, n)[i] = t[i]
  BY <1>2
<1>5. r = 0 => n = Len(t) BY DEF n
<1>6. n = Len(t) => SubSeq(t, 1, n) = t BY <1>2
<1> QED BY <1>2, <1>3, <1>4, <1>5, <1>6 DEF n

\* The rest is held back for its own file, from where the handed on part ends,
\* and is the rest of the text.
LEMMA RestOf ==
  ASSUME NEW t \in Seq(Nat), NEW p, NEW s \in Rest(p, t)
  PROVE  /\ s.file = p /\ s.off = Len(Direct(t)) /\ s.rest \in Seq(Nat)
         /\ s.off + Len(s.rest) = Len(t) /\ s.off \in Nat
         /\ \A i \in 1 .. Len(s.rest) : s.rest[i] = t[s.off + i]
<1> DEFINE n == Len(Direct(t))
<1>1. n \in 0 .. Len(t) BY Halves
<1>2. s = [file |-> p, off |-> n, rest |-> SubSeq(t, n + 1, Len(t))]
  BY DEF Rest
<1> HIDE DEF n
<1>3. /\ SubSeq(t, n + 1, Len(t)) \in Seq(Nat) /\ Len(SubSeq(t, n + 1, Len(t))) = Len(t) - n
      /\ \A i \in 1 .. Len(t) - n : SubSeq(t, n + 1, Len(t))[i] = t[n + i]
  BY <1>1
<1> QED BY <1>1, <1>2, <1>3 DEF n

\* What a flush makes of a file of numbers is a file of numbers.
LEMMA OverlayType ==
  ASSUME NEW old \in Seq(Nat), NEW off \in Nat, NEW new \in Seq(Nat)
  PROVE  Overlay(old, off, new) \in Seq(Nat)
<1> DEFINE n == IF off + Len(new) > Len(old) THEN off + Len(new) ELSE Len(old)
           f(i) == IF i > off /\ i - off <= Len(new) THEN new[i - off]
                   ELSE IF i <= Len(old) THEN old[i] ELSE 0
<1>1. n \in Nat OBVIOUS
<1>2. ASSUME NEW i \in 1 .. n PROVE f(i) \in Nat
  <2>1. CASE i > off /\ i - off <= Len(new)
    <3>1. i - off \in 1 .. Len(new) BY <1>1, <2>1
    <3> QED BY <2>1, <3>1
  <2>2. CASE ~(i > off /\ i - off <= Len(new)) /\ i <= Len(old)
    <3>1. i \in 1 .. Len(old) BY <2>2
    <3> QED BY <2>2, <3>1
  <2>3. CASE ~(i > off /\ i - off <= Len(new)) /\ ~(i <= Len(old)) BY <2>3
  <2> QED BY <2>1, <2>2, <2>3
<1>3. Overlay(old, off, new) = [i \in 1 .. n |-> f(i)] BY DEF Overlay
<1> HIDE DEF n, f
<1> QED BY <1>1, <1>2, <1>3

\* The held back rest completes the text.
LEMMA Completed ==
  ASSUME NEW t \in Seq(Nat), NEW p, NEW s \in Rest(p, t)
  PROVE  Overlay(Direct(t), s.off, s.rest) = t
<1> DEFINE old == Direct(t)
           off == s.off
           new == s.rest
<1>1. /\ off = Len(old) /\ new \in Seq(Nat) /\ off + Len(new) = Len(t) /\ off \in Nat
      /\ \A i \in 1 .. Len(new) : new[i] = t[off + i]
  BY RestOf
<1>2. old \in Seq(Nat) /\ \A i \in 1 .. Len(old) : old[i] = t[i] BY Halves
<1> HIDE DEF old, off, new
<1>3. (IF off + Len(new) > Len(old) THEN off + Len(new) ELSE Len(old)) = Len(t) BY <1>1
<1>4. Overlay(old, off, new) =
        [i \in 1 .. Len(t) |-> IF i > off /\ i - off <= Len(new) THEN new[i - off]
                               ELSE IF i <= Len(old) THEN old[i] ELSE 0]
  BY <1>3 DEF Overlay
<1>5. ASSUME NEW i \in 1 .. Len(t)
      PROVE  (IF i > off /\ i - off <= Len(new) THEN new[i - off]
              ELSE IF i <= Len(old) THEN old[i] ELSE 0) = t[i]
  <2>1. CASE i > off
    <3>1. i - off \in 1 .. Len(new) /\ off + (i - off) = i BY <1>1, <2>1
    <3>2. new[i - off] = t[off + (i - off)] BY <1>1, <3>1
    <3>3. i - off <= Len(new) BY <3>1
    <3> QED BY <2>1, <3>1, <3>2, <3>3
  <2>2. CASE ~(i > off)
    <3>1. i \in 1 .. Len(old) BY <1>1, <2>2
    <3> QED BY <1>2, <2>2, <3>1
  <2> QED BY <2>1, <2>2
<1>6. t = [i \in 1 .. Len(t) |-> t[i]] OBVIOUS
<1>7. Overlay(old, off, new) = t BY <1>4, <1>5, <1>6
<1> QED BY <1>7 DEF old, off, new

\* Results: what was stored to `dest' is memory that was nobody's, and no handle
\* is taken that there is not.
Sound(r) ==
  /\ r.err \in Codes /\ r.dest \in Fresh \cup {NULL}
  /\ r.set \/ r.dest = NULL
  /\ r.opens \in {0, 1}
  /\ r.opens = 1 => CanOpen

\* The three kinds of results there are: of a success, with a handle and
\* without, and of a failure before anything is stored.
LEMMA SoundResults ==
  ASSUME NEW e \in Codes
  PROVE  /\ \A n \in {0, 1} : (n = 1 => CanOpen) =>
              \A b \in Fresh \cup {NULL} : Sound(Result(e, TRUE, b, n))
         /\ Sound(Result(e, FALSE, NULL, 0))
<1>1. ASSUME NEW n \in {0, 1}, n = 1 => CanOpen, NEW b \in Fresh \cup {NULL}
      PROVE  Sound(Result(e, TRUE, b, n))
  <2> DEFINE r == Result(e, TRUE, b, n)
  <2>1. r.set = TRUE /\ r.err = e /\ r.dest = b /\ r.opens = n BY Zenon DEF Result
  <2> HIDE DEF r
  <2>2. Sound(r) BY <1>1, <2>1 DEF Sound
  <2> QED BY <2>2 DEF r
<1>2. Sound(Result(e, FALSE, NULL, 0))
  <2> DEFINE r == Result(e, FALSE, NULL, 0)
  <2>1. r.err = e /\ r.dest = NULL /\ r.opens = 0 BY Zenon DEF Result
  <2> HIDE DEF r
  <2>2. Sound(r) BY <2>1 DEF Sound
  <2> QED BY <2>2 DEF r
<1> QED BY <1>1, <1>2

\* Every read comes to such a result.
LEMMA ReadResults ==
  ASSUME NEW d, NEW p, NEW r \in Read(d, p)
  PROVE  Sound(r)
<1>0. /\ "INVALID_DRIVE" \in Codes /\ "SUCCESS" \in Codes /\ "NOT_A_FILE" \in Codes
      /\ "FILE_NOT_FOUND" \in Codes /\ "INTERNAL" \in Codes /\ "OUT_OF_MEMORY" \in Codes
      /\ "OUT_OF_BOUNDS_DISK" \in Codes
  BY DEF Codes
<1>1. CASE ~Mounted(d)
  <2>1. r = Result("INVALID_DRIVE", FALSE, NULL, 0) BY <1>1 DEF Read
  <2> QED BY <2>1, <1>0, SoundResults
<1>2. CASE Mounted(d) /\ d = Rom
  <2>1. \/ \E b \in Fresh \cup {NULL} : r = Result("SUCCESS", TRUE, b, 0)
        \/ \E b \in Fresh \cup {NULL} : r = Result("OUT_OF_BOUNDS_DISK", TRUE, b, 0)
        \/ r = Result("NOT_A_FILE", FALSE, NULL, 0)
        \/ r = Result("FILE_NOT_FOUND", FALSE, NULL, 0)
    BY <1>2 DEF Read, RomRead
  <2>2. 0 \in {0, 1} /\ ~(0 = 1) OBVIOUS
  <2> QED BY Zenon, <2>1, <2>2, <1>0, SoundResults
<1>3. CASE Mounted(d) /\ d # Rom
  <2>1. \/ r = Result("SUCCESS", FALSE, NULL, 0)
        \/ r = Result("FILE_NOT_FOUND", FALSE, NULL, 0)
        \/ CanOpen /\ r = Result("SUCCESS", TRUE, NULL, 1)
        \/ CanOpen /\ r = Result("INTERNAL", TRUE, NULL, 1)
        \/ CanOpen /\ \E b \in Fresh : r = Result("OUT_OF_MEMORY", TRUE, b, 1)
    BY <1>3 DEF Read, HostRead
  <2>2. NULL \in Fresh \cup {NULL} /\ 0 \in {0, 1} /\ 1 \in {0, 1} OBVIOUS
  <2> QED BY <2>1, <2>2, <1>0, SoundResults
<1> QED BY <1>1, <1>2, <1>3

-----------------------------------------------------------------------------
(* What the steps keep *)

\* A step that mounts nothing keeps the order of the table.
LEMMA TableFrame ==
  ASSUME IInv, UNCHANGED table, pc' = pc \/ pc' # "boot"
  PROVE  BootInv' /\ TableInOrder'
  BY DEF IInv, BootInv, TableInOrder, table

\* A step that writes and flushes nothing keeps what is known of the files.
LEMMA FilesFrame ==
  ASSUME IInv, UNCHANGED <<files, streams, log>>, pc' = pc \/ pc' # "exited"
  PROVE  StreamInv' /\ LandInv' /\ FlushedInv'
<1>1. StreamInv' /\ FlushedInv' BY DEF IInv, StreamInv, FlushedInv
<1>2. LandInv' BY DEF IInv, LandInv, HeldBack
<1> QED BY <1>1, <1>2

\* The ROM drive, or nothing, is put into the first slot of an empty table.
LEMMA MountRomStep == ASSUME IInv, MountRom PROVE IInv'
<1>1. PICK fs \in {Rom, None} : Add(fs) BY DEF MountRom
<1>2. /\ pc = "boot" /\ pc' = "args" /\ driveCounter' = driveCounter
      /\ UNCHANGED <<host, heap, answer, log, misread>>
  BY DEF MountRom
<1>3. driveCounter = 0 /\ \A i \in Slot : fileSystems[i] = None
  BY <1>2 DEF IInv, BootInv
<1>4. NextFree = {1} BY <1>3, DrivesAssumption DEF NextFree, Slot
<1>5. fileSystems' = [i \in Slot |-> IF i = 1 THEN fs ELSE None]
  BY <1>1, <1>3, <1>4 DEF Add
<1>6. TypeOK'
  BY <1>2, <1>5 DEF IInv, TypeOK, host, heap, Place, Drive
<1>7. BootInv' BY <1>2 DEF BootInv
<1>8. TableInOrder'
  <2>1. CASE fs = Rom
    <3>1. \A i \in Slot : fileSystems'[i] =
            IF i <= 1 THEN Rom
            ELSE IF i - 1 <= driveCounter' /\ i - 1 <= NameAmount THEN i - 1 - 1 ELSE None
      BY <1>2, <1>3, <1>5, <2>1, Sizes DEF Slot
    <3> QED BY <3>1 DEF TableInOrder
  <2>2. CASE fs = None
    <3>1. \A i \in Slot : fileSystems'[i] =
            IF i <= 0 THEN Rom
            ELSE IF i - 0 <= driveCounter' /\ i - 0 <= NameAmount THEN i - 0 - 1 ELSE None
      BY <1>2, <1>3, <1>5, <2>2, Sizes DEF Slot
    <3> QED BY <3>1 DEF TableInOrder
  <2> QED BY <2>1, <2>2
<1>9. OnlyMisreadsStray' BY <1>2 DEF IInv, OnlyMisreadsStray, heap
<1>10. UNCHANGED <<files, streams, log>> BY <1>2 DEF host
<1> QED BY <1>2, <1>6, <1>7, <1>8, <1>9, <1>10, FilesFrame DEF IInv

\* A home drive is put behind the drives there are, if a slot is left; the name
\* after the last is none.
LEMMA MountHomeStep == ASSUME IInv, MountHome PROVE IInv'
<1>1. /\ pc = "args" /\ driveCounter < MaxFlags /\ driveCounter' = driveCounter + 1
      /\ UNCHANGED <<host, heap, answer, log, misread>>
      /\ pc' \in {"args", "fault"}
  BY DEF MountHome
<1>2. driveCounter \in 0 .. MaxFlags BY DEF IInv, TypeOK
<1>3. PICK rom \in {0, 1} :
        \A i \in Slot :
          fileSystems[i] = IF i <= rom THEN Rom
                           ELSE IF i - rom <= driveCounter /\ i - rom <= NameAmount
                             THEN i - rom - 1 ELSE None
  BY DEF IInv, TableInOrder
<1>4. \A i \in Slot :
        fileSystems'[i] = IF i <= rom THEN Rom
                          ELSE IF i - rom <= driveCounter + 1 /\ i - rom <= NameAmount
                            THEN i - rom - 1 ELSE None
  <2>1. CASE driveCounter < NameAmount
    <3>1. fileSystems' = [i \in Slot |-> IF i \in NextFree THEN driveCounter ELSE fileSystems[i]]
      BY <2>1 DEF MountHome, Add
    <3>2. \A i \in Slot : fileSystems[i] = None <=> i > rom + driveCounter
      BY <1>2, <1>3, <2>1, Sizes DEF Slot
    <3>3. \A i \in Slot : i \in NextFree <=> i = rom + driveCounter + 1
      <4>1. ASSUME NEW i \in Slot, i \in NextFree PROVE i = rom + driveCounter + 1
        <5>1. fileSystems[i] = None /\ \A j \in 1 .. i - 1 : fileSystems[j] # None
          BY <4>1 DEF NextFree
        <5>2. i > rom + driveCounter BY <3>2, <5>1
        <5>3. ASSUME i > rom + driveCounter + 1 PROVE FALSE
          <6>1. i - 1 \in Slot /\ i - 1 \in 1 .. i - 1 /\ i - 1 > rom + driveCounter
            BY <5>3, <1>2, Sizes DEF Slot
          <6> QED BY <5>1, <6>1, <3>2
        <5> QED BY <5>2, <5>3, <1>2, Sizes DEF Slot
      <4>2. ASSUME NEW i \in Slot, i = rom + driveCounter + 1 PROVE i \in NextFree
        <5>1. i > rom + driveCounter BY <4>2, <1>2 DEF Slot
        <5>2. \A j \in 1 .. i - 1 : j \in Slot /\ ~(j > rom + driveCounter)
          BY <4>2, <1>2, Sizes DEF Slot
        <5> QED BY <5>1, <5>2, <3>2 DEF NextFree
      <4> QED BY <4>1, <4>2
    <3> QED BY <3>1, <3>3, <1>2, <1>3, <2>1, Sizes DEF Slot
  <2>2. CASE ~(driveCounter < NameAmount)
    <3>1. fileSystems' = fileSystems BY <2>2 DEF MountHome
    <3> QED BY <3>1, <1>2, <1>3, <2>2, Sizes DEF Slot
  <2> QED BY <2>1, <2>2
<1>5. TableInOrder' BY <1>1, <1>4 DEF TableInOrder
<1>6. fileSystems' \in [Slot -> Drive \cup {None}]
  <2>1. CASE driveCounter < NameAmount
    <3>1. driveCounter \in Drive BY <1>2, <2>1, Sizes DEF Drive
    <3>2. fileSystems' = [i \in Slot |-> IF i \in NextFree THEN driveCounter ELSE fileSystems[i]]
      BY <2>1 DEF MountHome, Add
    <3> QED BY <3>1, <3>2 DEF IInv, TypeOK
  <2>2. CASE ~(driveCounter < NameAmount) BY <2>2 DEF MountHome, IInv, TypeOK
  <2> QED BY <2>1, <2>2
<1>7. TypeOK'
  <2>1. driveCounter' \in 0 .. MaxFlags BY <1>1, <1>2, Sizes
  <2> QED BY <1>1, <1>6, <2>1 DEF IInv, TypeOK, host, heap, Place
<1>8. BootInv' BY <1>1 DEF BootInv
<1>9. OnlyMisreadsStray' BY <1>1 DEF IInv, OnlyMisreadsStray, heap
<1>10. UNCHANGED <<files, streams, log>> BY <1>1 DEF host
<1> QED BY <1>1, <1>5, <1>7, <1>8, <1>9, <1>10, FilesFrame DEF IInv

\* The steps that only move on.
LEMMA MovesStep ==
  ASSUME IInv, Autostart \/ Exit \/ Fault \/ Exited
  PROVE  IInv'
<1>1. /\ UNCHANGED <<table, host, heap, answer, log, misread>>
      /\ pc' \in {"exiting", "run", "fault", "exited"}
      /\ pc' = "exited" => streams = {}
  BY DEF Autostart, Exit, Fault, Exited
<1>2. TypeOK' BY <1>1 DEF IInv, TypeOK, table, host, heap, Place
<1>3. BootInv' /\ TableInOrder' BY <1>1, TableFrame
<1>4. StreamInv' /\ LandInv' BY <1>1 DEF IInv, StreamInv, LandInv, HeldBack, host
<1>5. FlushedInv' BY <1>1 DEF FlushedInv, host
<1>6. OnlyMisreadsStray' BY <1>1 DEF IInv, OnlyMisreadsStray, heap
<1> QED BY <1>2, <1>3, <1>4, <1>5, <1>6 DEF IInv

\* What ReadFile gives to the program is memory it has just taken, or NULL.
LEMMA ReadFileStep ==
  ASSUME IInv, NEW d, NEW p, ReadFile(d, p)
  PROVE  IInv'
<1>1. PICK r \in Read(d, p) :
        /\ opened' = opened + r.opens
        /\ held' = held \cup Taken(r)
        /\ given' = given \cup Taken(r)
        /\ answer' = [err |-> r.err, dest |-> r.dest]
  BY DEF ReadFile
<1>2. UNCHANGED <<pc, table, files, streams, log, misread>> BY DEF ReadFile
<1>3. Sound(r) BY ReadResults
<1>4. Taken(r) \subseteq Block BY <1>3 DEF Sound, Taken, Fresh
<1>5. opened' \in 0 .. OpenMax
  <2>1. r.opens \in {0, 1} /\ (r.opens = 1 => opened < OpenMax) BY <1>3 DEF Sound, CanOpen
  <2>2. opened \in 0 .. OpenMax BY DEF IInv, TypeOK
  <2> QED BY <1>1, <2>1, <2>2, Sizes
<1>6. answer' \in [err : Codes, dest : Block \cup {NULL}]
  BY <1>1, <1>3 DEF Sound, Fresh
<1>7. TypeOK' BY <1>1, <1>2, <1>4, <1>5, <1>6 DEF IInv, TypeOK, table
<1>8. OnlyMisreadsStray' BY <1>1, <1>2 DEF IInv, OnlyMisreadsStray
<1> QED BY <1>2, <1>7, <1>8, TableFrame, FilesFrame DEF IInv

\* ReadTextFile moves the block it has just read; only after a read that stored
\* nothing may it move another.
LEMMA ReadTextFileStep ==
  ASSUME IInv, NEW d, NEW p, ReadTextFile(d, p)
  PROVE  IInv'
<1>1. PICK r \in Read(d, p) : \E ptr \in Contents(r) : \E b \in Resized(r, ptr) :
        /\ opened' = opened + r.opens
        /\ held' = (held \ {ptr}) \cup ({b} \ {NULL})
        /\ given' = given \cup ({b} \ {NULL})
        /\ answer' = [err |-> r.err, dest |-> b]
        /\ misread' = (misread \/ ~r.set)
  BY DEF ReadTextFile
<1>2. UNCHANGED <<pc, table, files, streams, log>> BY DEF ReadTextFile
<1>p. PICK ptr \in Contents(r) : \E b \in Resized(r, ptr) :
        /\ opened' = opened + r.opens
        /\ held' = (held \ {ptr}) \cup ({b} \ {NULL})
        /\ given' = given \cup ({b} \ {NULL})
        /\ answer' = [err |-> r.err, dest |-> b]
        /\ misread' = (misread \/ ~r.set)
  BY <1>1
<1>3. PICK b \in Resized(r, ptr) :
        /\ opened' = opened + r.opens
        /\ held' = (held \ {ptr}) \cup ({b} \ {NULL})
        /\ given' = given \cup ({b} \ {NULL})
        /\ answer' = [err |-> r.err, dest |-> b]
        /\ misread' = (misread \/ ~r.set)
  BY <1>p
<1>4. Sound(r) BY ReadResults
<1>5. r.dest \in Block \cup {NULL} /\ r.err \in Codes BY <1>4 DEF Sound, Fresh
<1>6. ptr \in Block \cup {NULL} BY <1>5 DEF Contents, IInv, TypeOK
<1>7. b \in Block \cup {NULL} BY <1>6 DEF Resized, Fresh
<1>8. opened' \in 0 .. OpenMax
  <2>1. r.opens \in {0, 1} /\ (r.opens = 1 => opened < OpenMax) BY <1>4 DEF Sound, CanOpen
  <2>2. opened \in 0 .. OpenMax BY DEF IInv, TypeOK
  <2> QED BY <1>3, <2>1, <2>2, Sizes
<1>9. answer' \in [err : Codes, dest : Block \cup {NULL}] BY <1>3, <1>5, <1>7
<1>10. held' \subseteq Block /\ given' \subseteq Block BY <1>3, <1>7 DEF IInv, TypeOK
<1>m. misread' \in BOOLEAN BY <1>3
<1>11. TypeOK' BY <1>2, <1>8, <1>9, <1>10, <1>m DEF IInv, TypeOK, table
<1>12. OnlyMisreadsStray'
  <2> SUFFICES ASSUME ~misread' PROVE given' \subseteq held'
    BY DEF OnlyMisreadsStray
  <2>1. ~misread /\ r.set BY <1>3
  <2>2. ptr \in Fresh \cup {NULL} BY <1>4, <2>1 DEF Contents, Sound
  <2>3. ptr \notin given BY <2>2, Sizes DEF Fresh, IInv, TypeOK
  <2>4. given \subseteq held BY <2>1 DEF IInv, OnlyMisreadsStray
  <2> QED BY <1>3, <2>3, <2>4
<1> QED BY <1>2, <1>11, <1>12, TableFrame, FilesFrame DEF IInv

\* A Realloc that exits is a misread.
LEMMA ReadTextRefusedStep ==
  ASSUME IInv, NEW d, NEW p, ReadTextRefused(d, p)
  PROVE  IInv'
<1>1. PICK r \in Read(d, p) : answer' = [err |-> r.err, dest |-> r.dest]
  BY DEF ReadTextRefused
<1>2. /\ pc' \in {"exiting", "fault"} /\ misread' = TRUE
      /\ UNCHANGED <<table, host, heap, log>>
  BY DEF ReadTextRefused
<1>3. Sound(r) BY ReadResults
<1>4. answer' \in [err : Codes, dest : Block \cup {NULL}] BY <1>1, <1>3 DEF Sound, Fresh
<1>5. TypeOK' BY <1>2, <1>4 DEF IInv, TypeOK, table, host, heap, Place
<1>6. OnlyMisreadsStray' BY <1>2 DEF OnlyMisreadsStray
<1>7. UNCHANGED <<files, streams, log>> BY <1>2 DEF host
<1> QED BY <1>2, <1>5, <1>6, <1>7, TableFrame, FilesFrame DEF IInv

\* A program frees only what it was given.
LEMMA FreeStep ==
  ASSUME IInv, NEW b, Free(b)
  PROVE  IInv'
<1>1. /\ pc = "run" /\ b \in given /\ pc' \in {"run", "exiting"}
      /\ UNCHANGED <<table, host, answer, log, misread>>
      /\ \/ held' = held \ {b} /\ given' = given \ {b}
         \/ held' = held /\ given' = given
  BY DEF Free, heap
<1>2. TypeOK' BY <1>1 DEF IInv, TypeOK, table, host, Place
<1>3. OnlyMisreadsStray' BY <1>1 DEF IInv, OnlyMisreadsStray
<1>4. UNCHANGED <<files, streams, log>> BY <1>1 DEF host
<1> QED BY <1>1, <1>2, <1>3, <1>4, TableFrame, FilesFrame DEF IInv

\* A refused write changes no file.
LEMMA WriteRefusedStep ==
  ASSUME IInv, NEW d, NEW p, WriteRefused(d, p)
  PROVE  IInv'
<1>1. PICK err \in Refusal(d, p) : answer' = [err |-> err, dest |-> NULL]
  BY DEF WriteRefused
<1>2. UNCHANGED <<pc, table, host, heap, log, misread>> BY DEF WriteRefused
<1>3. err \in Codes BY DEF Refusal, Codes
<1>4. TypeOK' BY <1>1, <1>2, <1>3 DEF IInv, TypeOK, table, host, heap
<1>5. OnlyMisreadsStray' BY <1>2 DEF IInv, OnlyMisreadsStray, heap
<1>6. UNCHANGED <<files, streams, log>> BY <1>2 DEF host
<1> QED BY <1>2, <1>4, <1>5, <1>6, TableFrame, FilesFrame DEF IInv

\* What a write needs: a file of the home directory and a handle.
LEMMA NotRefused ==
  ASSUME NEW d, NEW p, Refusal(d, p) = {}
  PROVE  p \in HomeFile /\ CanOpen
  BY DEF Refusal, Writable

\* A write begins a file anew; to other files nothing happens, and what other
\* streams hold back for this one makes the write its second.
LEMMA WriteStep ==
  ASSUME IInv, NEW d, NEW p, NEW t \in Seq(Nat), Write(d, p, t)
  PROVE  IInv'
<1>1. /\ files' = [files EXCEPT ![p] = Direct(t)]
      /\ streams' = streams \cup Rest(p, t)
      /\ opened' = opened + 1
      /\ answer' = [err |-> "SUCCESS", dest |-> NULL]
      /\ log' = [log EXCEPT ![p] = Append(@, [text |-> t, ok |-> TRUE])]
      /\ pc = "run" /\ UNCHANGED <<pc, table, heap, misread>>
  BY DEF Write
<1>2. p \in HomeFile /\ CanOpen BY NotRefused DEF Write
<1>3. Direct(t) \in Seq(Nat) /\ Direct(t) # Absent
  <2>1. Direct(t) \in Seq(Nat) BY Halves
  <2>2. Absent \notin Seq(Nat) BY DEF Absent
  <2> QED BY <2>1, <2>2
<1>4. streams' \subseteq [file : HomeFile, off : Nat, rest : Seq(Nat)]
  <2>1. ASSUME NEW s \in Rest(p, t) PROVE s \in [file : HomeFile, off : Nat, rest : Seq(Nat)]
    <3>1. s = [file |-> p, off |-> Len(Direct(t)), rest |-> SubSeq(t, Len(Direct(t)) + 1, Len(t))]
      BY DEF Rest
    <3>2. s.off \in Nat /\ s.rest \in Seq(Nat) BY RestOf
    <3> QED BY <3>1, <3>2, <1>2
  <2> QED BY <1>1, <2>1 DEF IInv, TypeOK
<1>5. opened' \in 0 .. OpenMax BY <1>1, <1>2, Sizes DEF CanOpen, IInv, TypeOK
<1>6. answer' \in [err : Codes, dest : Block \cup {NULL}] BY <1>1 DEF Codes
<1>7. log' \in [HomeFile -> Seq([text : Seq(Nat), ok : BOOLEAN])]
  <2>1. [text |-> t, ok |-> TRUE] \in [text : Seq(Nat), ok : BOOLEAN] OBVIOUS
  <2>2. log[p] \in Seq([text : Seq(Nat), ok : BOOLEAN]) BY <1>2 DEF IInv, TypeOK
  <2>3. Append(log[p], [text |-> t, ok |-> TRUE]) \in Seq([text : Seq(Nat), ok : BOOLEAN])
    BY <2>1, <2>2
  <2> QED BY <1>1, <2>3 DEF IInv, TypeOK
<1>8. files' \in [HomeFile -> Seq(Nat) \cup {Absent}] BY <1>1, <1>3 DEF IInv, TypeOK
<1>9. TypeOK'
  BY <1>1, <1>4, <1>5, <1>6, <1>7, <1>8 DEF IInv, TypeOK, table, heap
<1>10. StreamInv'
  <2> SUFFICES ASSUME NEW s \in streams' PROVE files'[s.file] # Absent
    BY DEF StreamInv
  <2>1. CASE s.file = p BY <1>1, <1>2, <1>3, <2>1 DEF IInv, TypeOK
  <2>2. CASE s.file # p
    <3>1. s \in streams BY <1>1, <2>2, RestOf
    <3>2. s.file \in HomeFile /\ files[s.file] # Absent BY <3>1 DEF IInv, TypeOK, StreamInv
    <3> QED BY <1>1, <2>2, <3>2 DEF IInv, TypeOK
  <2> QED BY <2>1, <2>2
<1>11. LandInv'
  <2> SUFFICES ASSUME NEW q \in HomeFile
               PROVE  /\ log'[q] = <<>> => HeldBack(q)' = {}
                      /\ Len(log'[q]) = 1 /\ log'[q][1].ok =>
                           LET u == log'[q][1].text
                           IN  \/ files'[q] = u /\ HeldBack(q)' = {}
                               \/ files'[q] = Direct(u) /\ HeldBack(q)' = Rest(q, u)
    BY DEF LandInv
  <2>1. CASE q = p
    <3> DEFINE e == [text |-> t, ok |-> TRUE]
    <3>1. log'[p] = Append(log[p], e) BY <1>1, <1>2 DEF IInv, TypeOK
    <3>2. log[p] \in Seq(Entry) BY <1>2 DEF IInv, TypeOK, Entry
    <3>f. e \in Entry BY DEF Entry
    <3> HIDE DEF e
    <3>3. log'[p] # <<>> /\ Len(log'[p]) = Len(log[p]) + 1 BY <3>1, <3>2, <3>f, Longer
    <3>4. ASSUME Len(log'[p]) = 1
          PROVE  log'[p][1].text = t /\ files'[p] = Direct(t) /\ HeldBack(p)' = Rest(p, t)
      <4>1. log[p] = <<>>
        <5>1. Len(log[p]) + 1 = 1 BY <3>3, <3>4
        <5> QED BY <3>2, <5>1, Short
      <4>2. log'[p][1] = e BY <3>1, <4>1
      <4>3. HeldBack(p) = {} BY <4>1, <1>2 DEF IInv, LandInv
      <4>4. HeldBack(p)' = Rest(p, t) BY <1>1, <4>3, RestOf DEF HeldBack
      <4>5. files'[p] = Direct(t) BY <1>1, <1>2 DEF IInv, TypeOK
      <4> QED BY <4>2, <4>4, <4>5 DEF e
    <3> QED BY <2>1, <3>3, <3>4
  <2>2. CASE q # p
    <3>1. log'[q] = log[q] /\ files'[q] = files[q] BY <1>1, <2>2 DEF IInv, TypeOK
    <3>2. HeldBack(q)' = HeldBack(q) BY <1>1, <2>2, RestOf DEF HeldBack
    <3> QED BY <3>1, <3>2 DEF IInv, LandInv
  <2> QED BY <2>1, <2>2
<1>12. FlushedInv' BY <1>1 DEF FlushedInv
<1>13. OnlyMisreadsStray' BY <1>1 DEF IInv, OnlyMisreadsStray, heap
<1>14. BootInv' /\ TableInOrder' BY <1>1, TableFrame
<1> QED BY <1>9, <1>10, <1>11, <1>12, <1>13, <1>14 DEF IInv

\* A write that fails is no write that succeeded.
LEMMA WriteFailsStep ==
  ASSUME IInv, NEW d, NEW p, NEW t \in Seq(Nat), WriteFails(d, p, t)
  PROVE  IInv'
<1>1. /\ files' = [files EXCEPT ![p] = <<>>]
      /\ streams' = streams
      /\ opened' = opened + 1
      /\ answer' = [err |-> "INTERNAL", dest |-> NULL]
      /\ log' = [log EXCEPT ![p] = Append(@, [text |-> t, ok |-> FALSE])]
      /\ pc = "run" /\ UNCHANGED <<pc, table, heap, misread>>
  BY DEF WriteFails
<1>2. p \in HomeFile /\ CanOpen BY NotRefused DEF WriteFails
<1>3. <<>> \in Seq(Nat) /\ <<>> # Absent BY DEF Absent
<1>5. opened' \in 0 .. OpenMax BY <1>1, <1>2, Sizes DEF CanOpen, IInv, TypeOK
<1>6. answer' \in [err : Codes, dest : Block \cup {NULL}] BY <1>1 DEF Codes
<1>7. log' \in [HomeFile -> Seq([text : Seq(Nat), ok : BOOLEAN])]
  <2>1. [text |-> t, ok |-> FALSE] \in [text : Seq(Nat), ok : BOOLEAN] OBVIOUS
  <2>2. log[p] \in Seq([text : Seq(Nat), ok : BOOLEAN]) BY <1>2 DEF IInv, TypeOK
  <2>3. Append(log[p], [text |-> t, ok |-> FALSE]) \in Seq([text : Seq(Nat), ok : BOOLEAN])
    BY <2>1, <2>2
  <2> QED BY <1>1, <2>3 DEF IInv, TypeOK
<1>8. files' \in [HomeFile -> Seq(Nat) \cup {Absent}] BY <1>1, <1>3 DEF IInv, TypeOK
<1>9. TypeOK' BY <1>1, <1>5, <1>6, <1>7, <1>8 DEF IInv, TypeOK, table, heap
<1>10. StreamInv' BY <1>1, <1>2, <1>3 DEF IInv, TypeOK, StreamInv
<1>11. LandInv'
  <2> SUFFICES ASSUME NEW q \in HomeFile
               PROVE  /\ log'[q] = <<>> => HeldBack(q)' = {}
                      /\ Len(log'[q]) = 1 /\ log'[q][1].ok =>
                           LET u == log'[q][1].text
                           IN  \/ files'[q] = u /\ HeldBack(q)' = {}
                               \/ files'[q] = Direct(u) /\ HeldBack(q)' = Rest(q, u)
    BY DEF LandInv
  <2>1. CASE q = p
    <3> DEFINE e == [text |-> t, ok |-> FALSE]
    <3>1. log'[p] = Append(log[p], e) BY <1>1, <1>2 DEF IInv, TypeOK
    <3>2. log[p] \in Seq(Entry) BY <1>2 DEF IInv, TypeOK, Entry
    <3>e. ~e.ok BY Zenon
    <3>f. e \in Entry BY DEF Entry
    <3> HIDE DEF e
    <3>3. log'[p] # <<>> /\ Len(log'[p]) = Len(log[p]) + 1 BY <3>1, <3>2, <3>f, Longer
    <3>4. ASSUME Len(log'[p]) = 1 PROVE ~log'[p][1].ok
      <4>1. log[p] = <<>>
        <5>1. Len(log[p]) + 1 = 1 BY <3>3, <3>4
        <5> QED BY <3>2, <5>1, Short
      <4>2. log'[p][1] = e BY <3>1, <4>1
      <4> QED BY <4>2, <3>e, Zenon
    <3> QED BY <2>1, <3>3, <3>4
  <2>2. CASE q # p
    <3>1. log'[q] = log[q] /\ files'[q] = files[q] BY <1>1, <2>2 DEF IInv, TypeOK
    <3>2. HeldBack(q)' = HeldBack(q) BY <1>1 DEF HeldBack
    <3> QED BY <3>1, <3>2 DEF IInv, LandInv
  <2> QED BY <2>1, <2>2
<1>12. FlushedInv' BY <1>1 DEF FlushedInv
<1>13. OnlyMisreadsStray' BY <1>1 DEF IInv, OnlyMisreadsStray, heap
<1>14. BootInv' /\ TableInOrder' BY <1>1, TableFrame
<1> QED BY <1>9, <1>10, <1>11, <1>12, <1>13, <1>14 DEF IInv

\* What is flushed into a file that was written once completes it.
LEMMA FlushStep ==
  ASSUME IInv, NEW s \in streams, Flush(s)
  PROVE  IInv'
<1> DEFINE p == s.file
           new == Overlay(files[p], s.off, s.rest)
<1>1. /\ files' = [files EXCEPT ![p] = new]
      /\ streams' = streams \ {s}
      /\ pc = "exiting" /\ UNCHANGED <<pc, table, opened, heap, answer, log, misread>>
  BY DEF Flush
<1>2. p \in HomeFile /\ s.off \in Nat /\ s.rest \in Seq(Nat) BY DEF IInv, TypeOK
<1>3. files[p] \in Seq(Nat)
  BY <1>2 DEF IInv, TypeOK, StreamInv
<1>4. new \in Seq(Nat) /\ new # Absent
  <2>1. new \in Seq(Nat) BY <1>2, <1>3, OverlayType
  <2>2. Absent \notin Seq(Nat) BY DEF Absent
  <2> QED BY <2>1, <2>2
<1>n. new = Overlay(files[p], s.off, s.rest) OBVIOUS
<1> HIDE DEF new
<1>5. files' \in [HomeFile -> Seq(Nat) \cup {Absent}] BY <1>1, <1>4 DEF IInv, TypeOK
<1>6. TypeOK' BY <1>1, <1>5 DEF IInv, TypeOK, table, heap
<1>7. StreamInv' BY <1>1, <1>2, <1>4 DEF IInv, TypeOK, StreamInv
<1>8. LandInv'
  <2> SUFFICES ASSUME NEW q \in HomeFile
               PROVE  /\ log[q] = <<>> => HeldBack(q)' = {}
                      /\ Len(log[q]) = 1 /\ log[q][1].ok =>
                           LET u == log[q][1].text
                           IN  \/ files'[q] = u /\ HeldBack(q)' = {}
                               \/ files'[q] = Direct(u) /\ HeldBack(q)' = Rest(q, u)
    BY <1>1 DEF LandInv
  <2>0. s \in HeldBack(p) BY DEF HeldBack
  <2>1. CASE q = p
    <3>1. log[p] # <<>> BY <2>0, <1>2 DEF IInv, LandInv
    <3>2. ASSUME Len(log[p]) = 1, log[p][1].ok
          PROVE  files'[p] = log[p][1].text /\ HeldBack(p)' = {}
      <4> DEFINE u == log[p][1].text
      <4>1. u \in Seq(Nat)
        <5>1. log[p] \in Seq([text : Seq(Nat), ok : BOOLEAN]) BY <1>2 DEF IInv, TypeOK
        <5>2. log[p][1] \in [text : Seq(Nat), ok : BOOLEAN] BY <5>1, <3>2, Short
        <5> QED BY <5>2
      <4>2. files[p] = Direct(u) /\ HeldBack(p) = Rest(p, u)
        BY <2>0, <3>2, <1>2 DEF IInv, LandInv
      <4> HIDE DEF u
      <4>3. s \in Rest(p, u) BY <2>0, <4>2
      <4>4. new = u BY <4>1, <4>2, <4>3, <1>n, Completed
      <4>5. files'[p] = u BY <1>1, <1>2, <4>4 DEF IInv, TypeOK
      <4>6. HeldBack(p) = {s} BY <4>2, <4>3 DEF Rest
      <4>7. HeldBack(p)' = {} BY <1>1, <4>6 DEF HeldBack
      <4> QED BY <4>5, <4>7 DEF u
    <3> QED BY <2>1, <3>1, <3>2
  <2>2. CASE q # p
    <3>1. files'[q] = files[q] BY <1>1, <2>2 DEF IInv, TypeOK
    <3>2. HeldBack(q)' = HeldBack(q) BY <1>1, <2>2 DEF HeldBack
    <3> QED BY <3>1, <3>2 DEF IInv, LandInv
  <2> QED BY <2>1, <2>2
<1>9. FlushedInv' BY <1>1 DEF FlushedInv
<1>10. OnlyMisreadsStray' BY <1>1 DEF IInv, OnlyMisreadsStray, heap
<1>11. BootInv' /\ TableInOrder' BY <1>1, TableFrame
<1> QED BY <1>6, <1>7, <1>8, <1>9, <1>10, <1>11 DEF IInv

-----------------------------------------------------------------------------
(* The theorems *)

\* The invariant holds at the start.
LEMMA InitInv == ASSUME Init PROVE IInv
<1>1. TypeOK
  <2>1. files \in [HomeFile -> Seq(Nat) \cup {Absent}]
    <3>1. <<9>> \in Seq(Nat) OBVIOUS
    <3> QED BY <3>1 DEF Init
  <2>2. log \in [HomeFile -> Seq([text : Seq(Nat), ok : BOOLEAN])] BY DEF Init
  <2>3. /\ pc = "boot" /\ fileSystems = [i \in Slot |-> None] /\ driveCounter = 0
        /\ streams = {} /\ opened = 0 /\ held = {} /\ given = {} /\ misread = FALSE
        /\ answer = [err |-> "SUCCESS", dest |-> NULL]
    BY DEF Init
  <2>4. answer \in [err : Codes, dest : Block \cup {NULL}] BY <2>3 DEF Codes
  <2>5. misread \in BOOLEAN BY <2>3
  <2>6. opened \in 0 .. OpenMax /\ driveCounter \in 0 .. MaxFlags BY <2>3, Sizes
  <2>7. pc \in Place /\ fileSystems \in [Slot -> Drive \cup {None}] BY <2>3 DEF Place
  <2>8. /\ streams \subseteq [file : HomeFile, off : Nat, rest : Seq(Nat)]
        /\ held \subseteq Block /\ given \subseteq Block
    BY <2>3
  <2> QED BY <2>1, <2>2, <2>4, <2>5, <2>6, <2>7, <2>8 DEF TypeOK
<1>2. BootInv BY DEF Init, BootInv
<1>3. TableInOrder
  <2>1. \A i \in Slot : fileSystems[i] =
          IF i <= 0 THEN Rom
          ELSE IF i - 0 <= driveCounter /\ i - 0 <= NameAmount THEN i - 0 - 1 ELSE None
    BY Sizes DEF Init, Slot
  <2> QED BY <2>1 DEF TableInOrder
<1>4. OnlyMisreadsStray BY DEF Init, OnlyMisreadsStray
<1>5. StreamInv /\ FlushedInv BY DEF Init, StreamInv, FlushedInv
<1>6. LandInv BY DEF Init, LandInv, HeldBack
<1> QED BY <1>1, <1>2, <1>3, <1>4, <1>5, <1>6 DEF IInv

\* Every step keeps it.
LEMMA NextInv == ASSUME IInv, [Next]_vars PROVE IInv'
<1>1. CASE Boot BY <1>1, MountRomStep, MountHomeStep, MovesStep DEF Boot
<1>2. CASE Calls
  <2>1. ASSUME NEW t \in Text, NEW u \in {t} \cup UpToNul(t) PROVE u \in Seq(Nat)
    <3>1. t \in Seq(Nat) BY DrivesAssumption
    <3>2. ASSUME NEW n \in 0 .. Len(t) PROVE SubSeq(t, 1, n) \in Seq(Nat) BY <3>1
    <3> QED BY <3>1, <3>2 DEF UpToNul
  <2> QED BY <1>2, <2>1, ReadFileStep, ReadTextFileStep, ReadTextRefusedStep, WriteRefusedStep,
             WriteStep, WriteFailsStep, FreeStep DEF Calls
<1>3. CASE End BY <1>3, MovesStep, FlushStep DEF End
<1>4. CASE UNCHANGED vars
  <2>1. UNCHANGED <<pc, table, host, heap, answer, log, misread>> BY <1>4 DEF vars
  <2>2. TypeOK' BY <2>1 DEF IInv, TypeOK, table, host, heap
  <2>3. OnlyMisreadsStray' BY <2>1 DEF IInv, OnlyMisreadsStray, heap
  <2>4. UNCHANGED <<files, streams, log>> BY <2>1 DEF host
  <2> QED BY <2>1, <2>2, <2>3, <2>4, TableFrame, FilesFrame DEF IInv
<1> QED BY <1>1, <1>2, <1>3, <1>4 DEF Next

\* The invariant holds in every state.
THEOREM DrivesInv == Spec => []IInv
<1>1. Init => IInv BY InitInv
<1>2. IInv /\ [Next]_vars => IInv' BY NextInv
<1> QED BY <1>1, <1>2, PTL DEF Spec

\* Every variable keeps its type, whatever the constants.
THEOREM TypesKept == Spec => []TypeOK
<1>1. IInv => TypeOK BY DEF IInv
<1> QED BY <1>1, DrivesInv, PTL

\* Whatever the size of the table and however many drives are asked for, the
\* table has no gap, nothing twice, and the drives in their order (fs.c:12-31,
\* main.c:30-57).
THEOREM TableStaysInOrder == Spec => []TableInOrder
<1>1. IInv => TableInOrder BY DEF IInv
<1> QED BY <1>1, DrivesInv, PTL

\* For any heap: until a failed read goes on to Realloc, no call takes a block
\* away that the program was given (calls.c:291-323).
THEOREM GivenStaysHeld == Spec => []OnlyMisreadsStray
<1>1. IInv => OnlyMisreadsStray BY DEF IInv
<1> QED BY <1>1, DrivesInv, PTL

\* For any texts and any buffer: a file that was written once, with success,
\* holds that text after the program has exited (host.c:66-88).
THEOREM WritesLand == Spec => []OneWriteLands
<1>1. IInv => OneWriteLands
  <2> SUFFICES ASSUME IInv, pc = "exited", NEW p \in HomeFile, Len(log[p]) = 1, log[p][1].ok
               PROVE  files[p] = log[p][1].text
    BY DEF OneWriteLands
  <2> DEFINE t == log[p][1].text
  <2>1. t \in Seq(Nat)
    <3>1. log[p] \in Seq([text : Seq(Nat), ok : BOOLEAN]) BY DEF IInv, TypeOK
    <3>2. log[p][1] \in [text : Seq(Nat), ok : BOOLEAN] BY <3>1, Short
    <3> QED BY <3>2
  <2>2. HeldBack(p) = {} BY DEF IInv, FlushedInv, HeldBack
  <2>3. files[p] = t \/ (files[p] = Direct(t) /\ HeldBack(p) = Rest(p, t))
    BY DEF IInv, LandInv
  <2> HIDE DEF t
  <2>4. Rest(p, t) = {} => Direct(t) = t BY <2>1, Halves DEF Rest
  <2>5. files[p] = t BY <2>2, <2>3, <2>4
  <2> QED BY <2>5 DEF t
<1> QED BY <1>1, DrivesInv, PTL
=============================================================================
