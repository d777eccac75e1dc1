---------------------------- MODULE ArchiveProofs ----------------------------
(***************************************************************************)
(* Proofs of what source/fs/ark.c promises, for every tree, every image of *)
(* it, complete or cut short, and every path.                              *)
(*                                                                         *)
(* The argument follows the calls of ReadEntry: the reader always stands   *)
(* where the archiver has packed the entries that the calls have still to  *)
(* read, and what they have built is a copy of what they have passed.  A   *)
(* copy is a set of pairs, of a node that has been built and an item of the*)
(* tree, that is closed downwards; so two lookups of a path, in the nodes  *)
(* and in the tree, walk along pairs.  This is so until the reader goes on *)
(* behind a disk that is cut short; from then on only the shape of what it *)
(* builds is known.                                                        *)
(***************************************************************************)
EXTENDS ArchiveProps, WellFoundedInduction, TLAPS

-----------------------------------------------------------------------------
(* What lies where in an image *)

\* The sequence s lies in f behind position p.
Lies(f, s, p) == p + Len(s) <= Len(f) /\ \A k \in 1 .. Len(s) : f[p + k] = s[k]

\* The entries es lie in f from behind p up to q.
Lay(f, es, p, q) == q = p + Len(PackAll(es)) /\ Lies(f, PackAll(es), p)

\* What an entry begins with.
FolderHead(e) == <<1, 0, Offset(e.name), Len(e.entries)>>
FileHead(e)   == <<0, Len(e.data), Offset(e.name)>>

\* Of two sequences packed together the second lies behind the first.
LEMMA Joined ==
  ASSUME NEW f, NEW s \in Seq(Nat), NEW t \in Seq(Nat), NEW p \in Nat, Len(f) \in Nat,
         Lies(f, s \o t, p)
  PROVE  /\ Len(s \o t) = Len(s) + Len(t)
         /\ Lies(f, s, p) /\ Lies(f, t, p + Len(s))
  <1>1. /\ Len(s) \in Nat /\ Len(t) \in Nat /\ Len(s \o t) = Len(s) + Len(t)
        /\ \A k \in 1 .. Len(s) : (s \o t)[k] = s[k]
        /\ \A k \in 1 .. Len(t) : (s \o t)[Len(s) + k] = t[k]
    OBVIOUS
  <1>2. Lies(f, s, p)
    <2>1. p + Len(s) <= Len(f) BY <1>1 DEF Lies
    <2>2. ASSUME NEW k \in 1 .. Len(s) PROVE f[p + k] = s[k]
      <3>1. k \in 1 .. Len(s \o t) BY <1>1
      <3> QED BY <1>1, <3>1 DEF Lies
    <2> QED BY <2>1, <2>2 DEF Lies
  <1>3. ASSUME NEW k \in 1 .. Len(t) PROVE f[p + Len(s) + k] = t[k]
    <2>1. Len(s) + k \in 1 .. Len(s \o t) BY <1>1
    <2>2. f[p + (Len(s) + k)] = (s \o t)[Len(s) + k] BY <2>1 DEF Lies
    <2>3. p + (Len(s) + k) = p + Len(s) + k BY <1>1
    <2> QED BY <1>1, <2>2, <2>3
  <1>4. p + Len(s) + Len(t) <= Len(f)
    BY <1>1 DEF Lies
  <1> QED BY <1>1, <1>2, <1>3, <1>4 DEF Lies

\* An offset the archiver writes is that of the name it stands for.
LEMMA OffsetOfName ==
  ASSUME NEW name \in Names
  PROVE  Offset(name) \in 0 .. Len(Strings) - 1 /\ Strings[Offset(name) + 1] = name
  <1>1. Strings \in Seq(Nat \ {0}) BY ArchiveAssumption
  <1>2. DOMAIN Strings = 1 .. Len(Strings) /\ Len(Strings) \in Nat BY <1>1
  <1> DEFINE i == CHOOSE i \in DOMAIN Strings : Strings[i] = name
  <1>3. \E j \in DOMAIN Strings : Strings[j] = name BY DEF Names
  <1>4. i \in DOMAIN Strings /\ Strings[i] = name BY <1>3
  <1>5. Offset(name) = i - 1 BY DEF Offset
  <1> HIDE DEF i
  <1> QED BY <1>2, <1>4, <1>5

\* What is in a list is a folder of a list or a file of numbers, with a name.
LEMMA ItemOfList ==
  ASSUME NEW es \in Lists
  PROVE  /\ es \in Seq(Item) /\ PackAll(es) \in Seq(Nat)
         /\ \A i \in 1 .. Len(es) :
              /\ es[i].name \in Names /\ es[i].folder \in BOOLEAN
              /\ es[i].folder => es[i].entries \in Lists
              /\ ~es[i].folder => es[i].data \in Seq(Nat)
  <1>1. es \in Seq(Item) BY TreeAssumption
  <1>2. \A i \in 1 .. Len(es) : es[i] \in Item BY <1>1
  <1>3. \A x \in Item : /\ x.name \in Names /\ x.folder \in BOOLEAN
                        /\ x.folder => x.entries \in Lists
                        /\ ~x.folder => x.data \in Seq(Nat)
    BY DEF Item
  <1> QED BY <1>1, <1>2, <1>3, ArchiverAssumption

\* Where a list lies whose first entry is a folder.
LEMMA FolderLies ==
  ASSUME NEW f, Len(f) \in Nat, NEW p \in Nat, NEW q, NEW es \in Lists, Lay(f, es, p, q),
         Len(es) > 0, es[1].folder
  PROVE  /\ Lies(f, FolderHead(es[1]), p)
         /\ \E r \in Nat : Lay(f, es[1].entries, p + 4, r) /\ Lay(f, Tail(es), r, q)
  <1> DEFINE e == es[1]
             head == <<1, 0, Offset(e.name), Len(e.entries)>>
             in == PackAll(e.entries)
             rest == PackAll(Tail(es))
  <1>1. /\ es \in Seq(Item) /\ es # <<>> /\ Head(es) = e /\ Tail(es) \in Lists
        /\ e.name \in Names /\ e.entries \in Lists
    <2>1. es \in Seq(Item) BY ItemOfList
    <2>2. es # <<>> /\ Head(es) = es[1] /\ 1 \in 1 .. Len(es) BY <2>1
    <2> QED BY <2>1, <2>2, ItemOfList, TreeAssumption
  <1>2. PackAll(es) = (head \o in) \o rest
    <2>1. PackAll(es) = PackEntry(e) \o rest BY <1>1, ArchiverAssumption
    <2>2. PackEntry(e) = head \o in BY DEF PackEntry
    <2> QED BY <2>1, <2>2
  <1>3. Offset(e.name) \in Nat BY <1>1, OffsetOfName
  <1>4. e.entries \in Seq(Item) BY <1>1, ItemOfList
  <1>5. Len(e.entries) \in Nat BY <1>4
  <1>6. head \in Seq(Nat) /\ Len(head) = 4 BY <1>3, <1>5
  <1>7. in \in Seq(Nat) /\ rest \in Seq(Nat) BY <1>1, ItemOfList
  <1> HIDE DEF head, in, rest, e
  <1>8. head \o in \in Seq(Nat) /\ (head \o in) \o rest \in Seq(Nat) BY <1>6, <1>7
  <1>9. Lies(f, (head \o in) \o rest, p) /\ q = p + Len((head \o in) \o rest)
    BY <1>2 DEF Lay
  <1>10. /\ Len((head \o in) \o rest) = Len(head \o in) + Len(rest)
         /\ Lies(f, head \o in, p) /\ Lies(f, rest, p + Len(head \o in))
    BY <1>7, <1>8, <1>9, Joined
  <1>11. /\ Len(head \o in) = 4 + Len(in)
         /\ Lies(f, head, p) /\ Lies(f, in, p + 4)
    <2>1. Lies(f, head \o in, p) BY <1>10
    <2>2. Len(head \o in) = Len(head) + Len(in) /\ Lies(f, head, p) /\ Lies(f, in, p + Len(head))
      BY <1>6, <1>7, <2>1, Joined
    <2> QED BY <1>6, <2>2
  <1>12. Len(in) \in Nat /\ Len(rest) \in Nat BY <1>7
  <1>13. p + Len(head \o in) = p + 4 + Len(in) BY <1>11, <1>12
  <1>14. Lay(f, e.entries, p + 4, p + 4 + Len(in)) BY <1>11 DEF Lay, in
  <1>15. Lay(f, Tail(es), p + 4 + Len(in), q)
    <2>1. q = p + 4 + Len(in) + Len(rest) BY <1>9, <1>10, <1>11, <1>12
    <2> QED BY <2>1, <1>10, <1>13 DEF Lay, rest
  <1>17. p + 4 + Len(in) \in Nat BY <1>12
  <1>18. Lies(f, FolderHead(e), p) BY <1>11 DEF head, FolderHead
  <1> QED BY <1>14, <1>15, <1>17, <1>18 DEF e

\* What is read of a folder's entry is what the archiver wrote of it.
LEMMA FolderFields ==
  ASSUME NEW f, Len(f) \in Nat, NEW p \in Nat, NEW q, NEW es \in Lists, Lay(f, es, p, q),
         Len(es) > 0, es[1].folder
  PROVE  /\ p + 4 <= Len(f)
         /\ f[p + 1] = 1 /\ f[p + 3] = Offset(es[1].name) /\ f[p + 4] = Len(es[1].entries)
  <1> DEFINE head == FolderHead(es[1])
  <1>1. Lies(f, head, p) BY FolderLies
  <1>2. /\ Len(head) = 4 /\ head[1] = 1 /\ head[3] = Offset(es[1].name)
        /\ head[4] = Len(es[1].entries)
    BY DEF FolderHead
  <1> HIDE DEF head
  <1>3. 1 \in 1 .. Len(head) /\ 3 \in 1 .. Len(head) /\ 4 \in 1 .. Len(head) BY <1>2
  <1> QED BY <1>1, <1>2, <1>3 DEF Lies

\* Where a list lies whose first entry is a file.
LEMMA FileLies ==
  ASSUME NEW f, Len(f) \in Nat, NEW p \in Nat, NEW q, NEW es \in Lists, Lay(f, es, p, q),
         Len(es) > 0, ~es[1].folder
  PROVE  /\ Lies(f, FileHead(es[1]), p)
         /\ Lies(f, es[1].data, p + 3)
         /\ Lay(f, Tail(es), p + 3 + Len(es[1].data), q)
  <1> DEFINE e == es[1]
             head == <<0, Len(e.data), Offset(e.name)>>
             data == e.data
             rest == PackAll(Tail(es))
  <1>1. /\ es \in Seq(Item) /\ es # <<>> /\ Head(es) = e /\ Tail(es) \in Lists
        /\ e.name \in Names /\ data \in Seq(Nat)
    <2>1. es \in Seq(Item) BY ItemOfList
    <2>2. es # <<>> /\ Head(es) = es[1] /\ 1 \in 1 .. Len(es) BY <2>1
    <2> QED BY <2>1, <2>2, ItemOfList, TreeAssumption
  <1>2. PackAll(es) = (head \o data) \o rest
    <2>1. PackAll(es) = PackEntry(e) \o rest BY <1>1, ArchiverAssumption
    <2>2. PackEntry(e) = head \o data BY DEF PackEntry
    <2> QED BY <2>1, <2>2
  <1>3. Offset(e.name) \in Nat BY <1>1, OffsetOfName
  <1>5. Len(data) \in Nat BY <1>1
  <1>6. head \in Seq(Nat) /\ Len(head) = 3 BY <1>3, <1>5
  <1>7. rest \in Seq(Nat) BY <1>1, ItemOfList
  <1> HIDE DEF head, data, rest, e
  <1>8. head \o data \in Seq(Nat) /\ (head \o data) \o rest \in Seq(Nat) BY <1>1, <1>6, <1>7
  <1>9. Lies(f, (head \o data) \o rest, p) /\ q = p + Len((head \o data) \o rest)
    BY <1>2 DEF Lay
  <1>10. /\ Len((head \o data) \o rest) = Len(head \o data) + Len(rest)
         /\ Lies(f, head \o data, p) /\ Lies(f, rest, p + Len(head \o data))
    BY <1>7, <1>8, <1>9, Joined
  <1>11. /\ Len(head \o data) = 3 + Len(data)
         /\ Lies(f, head, p) /\ Lies(f, data, p + 3)
    BY <1>1, <1>6, <1>10, Joined
  <1>12. Len(rest) \in Nat BY <1>7
  <1>13. p + Len(head \o data) = p + 3 + Len(data) BY <1>11, <1>5
  <1>15. Lay(f, Tail(es), p + 3 + Len(data), q)
    <2>1. q = p + 3 + Len(data) + Len(rest) BY <1>9, <1>10, <1>11, <1>12, <1>5
    <2> QED BY <2>1, <1>10, <1>13 DEF Lay, rest
  <1>16. Lies(f, FileHead(e), p) BY <1>11 DEF head, FileHead
  <1> QED BY <1>11, <1>15, <1>16 DEF e, data

\* What is read of a file's entry is what the archiver wrote of it.
LEMMA FileFields ==
  ASSUME NEW f, Len(f) \in Nat, NEW p \in Nat, NEW q, NEW es \in Lists, Lay(f, es, p, q),
         Len(es) > 0, ~es[1].folder
  PROVE  /\ p + 3 + Len(es[1].data) <= Len(f)
         /\ f[p + 1] = 0 /\ f[p + 2] = Len(es[1].data) /\ f[p + 3] = Offset(es[1].name)
  <1> DEFINE head == FileHead(es[1])
  <1>1. Lies(f, head, p) /\ Lies(f, es[1].data, p + 3) BY FileLies
  <1>2. /\ Len(head) = 3 /\ head[1] = 0 /\ head[2] = Len(es[1].data)
        /\ head[3] = Offset(es[1].name)
    BY DEF FileHead
  <1> HIDE DEF head
  <1>3. 1 \in 1 .. Len(head) /\ 2 \in 1 .. Len(head) /\ 3 \in 1 .. Len(head) BY <1>2
  <1>4. p + 3 + Len(es[1].data) <= Len(f) BY <1>1 DEF Lies
  <1> QED BY <1>1, <1>2, <1>3, <1>4 DEF Lies

-----------------------------------------------------------------------------
(* The image *)

\* What the archiver made of the tree, of which the disk holds the beginning.
Full == Pack(tree)
Cut  == \E m \in 0 .. Len(Full) : image = SubSeq(Full, 1, m)

\* Numbers stay numbers.
LEMMA StringsAreNumbers ==
  Strings \in Seq(Nat) /\ Len(Strings) \in Nat /\ DOMAIN Strings = 1 .. Len(Strings)
  BY ArchiveAssumption

\* A complete image part by part.
LEMMA FullImage ==
  ASSUME NEW t \in Trees
  PROVE  /\ Pack(t) \in Seq(Nat) /\ Len(Pack(t)) \in Nat
         /\ Len(Pack(t)) < MaxWord /\ MaxWord \in Nat
         /\ Len(Pack(t)) + Extent < MaxWord /\ Extent \in Nat
         /\ Pack(t)[3] = Len(Strings) /\ Lies(Pack(t), Strings, 4)
         /\ 8 + Len(Strings) <= Len(Pack(t))
         /\ Pack(t)[5 + Len(Strings)] = 1 /\ Pack(t)[7 + Len(Strings)] = 0
         /\ Pack(t)[8 + Len(Strings)] = Len(t)
         /\ Lay(Pack(t), t, 8 + Len(Strings), Len(Pack(t)))
         /\ t \in Lists /\ Len(t) \in Nat
  <1> DEFINE head == <<1, 0, Len(Strings), 7>>
             root == <<1, 0, 0, Len(t)>>
             rest == PackAll(t)
             a == head \o Strings
             b == a \o root
  <1>1. t \in Lists /\ t \in Seq(Item) /\ rest \in Seq(Nat) /\ Len(t) \in Nat
    <2>1. t \in Lists BY TreeAssumption
    <2>2. t \in Seq(Item) /\ rest \in Seq(Nat) BY <2>1, ItemOfList
    <2> QED BY <2>1, <2>2
  <1>2. Strings \in Seq(Nat) /\ Len(Strings) \in Nat BY StringsAreNumbers
  <1>3. head \in Seq(Nat) /\ Len(head) = 4 /\ head[3] = Len(Strings) BY <1>2
  <1>4. /\ root \in Seq(Nat) /\ Len(root) = 4
        /\ root[1] = 1 /\ root[3] = 0 /\ root[4] = Len(t)
    BY <1>1
  <1>5. Pack(t) = b \o rest BY DEF Pack
  <1> HIDE DEF head, root, rest
  <1>6. a \in Seq(Nat) /\ b \in Seq(Nat) BY <1>2, <1>3, <1>4
  <1>b. b = a \o root OBVIOUS
  <1> HIDE DEF b
  <1>7. Pack(t) \in Seq(Nat) /\ Len(Pack(t)) \in Nat BY <1>1, <1>5, <1>6
  <1>8. Lies(Pack(t), b \o rest, 0) BY <1>5, <1>7 DEF Lies
  <1>9. /\ Len(Pack(t)) = Len(b) + Len(rest)
        /\ Lies(Pack(t), b, 0) /\ Lies(Pack(t), rest, 0 + Len(b))
    <2>1. /\ Len(b \o rest) = Len(b) + Len(rest)
          /\ Lies(Pack(t), b, 0) /\ Lies(Pack(t), rest, 0 + Len(b))
      BY <1>1, <1>6, <1>7, <1>8, Joined
    <2> QED BY ONLY <2>1, <1>5
  <1>10. /\ Len(b) = Len(a) + Len(root)
         /\ Lies(Pack(t), a, 0) /\ Lies(Pack(t), root, 0 + Len(a))
    BY <1>4, <1>6, <1>7, <1>9, <1>b, Joined
  <1>11. /\ Len(a) = Len(head) + Len(Strings)
         /\ Lies(Pack(t), head, 0) /\ Lies(Pack(t), Strings, 0 + Len(head))
    BY <1>2, <1>3, <1>7, <1>10, Joined
  <1>12. Len(a) = 4 + Len(Strings) /\ Len(b) = 8 + Len(Strings) /\ Len(rest) \in Nat
    BY <1>1, <1>2, <1>3, <1>4, <1>10, <1>11
  <1>13. Pack(t)[3] = Len(Strings)
    <2>1. Pack(t)[0 + 3] = head[3] BY <1>3, <1>11 DEF Lies
    <2> QED BY <2>1, <1>3
  <1>14. Lies(Pack(t), Strings, 4) BY <1>3, <1>11
  <1>15. /\ Pack(t)[4 + Len(Strings) + 1] = 1 /\ Pack(t)[4 + Len(Strings) + 3] = 0
         /\ Pack(t)[4 + Len(Strings) + 4] = Len(t)
    <2>1. 0 + Len(a) = 4 + Len(Strings) BY <1>2, <1>12
    <2>2. Lies(Pack(t), root, 4 + Len(Strings)) BY <2>1, <1>10
    <2>3. 1 \in 1 .. Len(root) /\ 3 \in 1 .. Len(root) /\ 4 \in 1 .. Len(root) BY <1>4
    <2> QED BY <2>2, <2>3, <1>4 DEF Lies
  <1>16. Lay(Pack(t), t, 8 + Len(Strings), Len(Pack(t)))
    <2>1. 0 + Len(b) = 8 + Len(Strings) BY <1>2, <1>12
    <2>2. Lies(Pack(t), rest, 8 + Len(Strings)) BY <2>1, <1>9
    <2> QED BY <2>2, <1>9, <1>12 DEF Lay, rest
  <1>17. /\ Len(Pack(t)) < MaxWord /\ MaxWord \in Nat
         /\ Len(Pack(t)) + Extent < MaxWord /\ Extent \in Nat
    <2>1. Len(Pack(t)) + Extent < MaxWord /\ Extent \in Nat /\ MaxWord \in Nat
      BY ArchiverAssumption, ArchiveAssumption
    <2> QED BY <2>1, <1>7
  <1>18. 8 + Len(Strings) <= Len(Pack(t)) BY <1>2, <1>9, <1>12
  <1>19. /\ 4 + Len(Strings) + 1 = 5 + Len(Strings) /\ 4 + Len(Strings) + 3 = 7 + Len(Strings)
         /\ 4 + Len(Strings) + 4 = 8 + Len(Strings)
    BY <1>2
  <1> QED BY <1>1, <1>7, <1>13, <1>14, <1>15, <1>16, <1>17, <1>18, <1>19

\* What is on the disk is what the archiver made, as far as it goes.
LEMMA CutImage ==
  ASSUME tree \in Trees, Cut
  PROVE  /\ image \in Seq(Nat) /\ Len(image) \in 0 .. Len(Full)
         /\ \A k \in 1 .. Len(image) : image[k] = Full[k]
         /\ Complete => image = Full
         /\ Len(image) = Len(Full) => Complete
  <1>1. PICK m \in 0 .. Len(Full) : image = SubSeq(Full, 1, m) BY DEF Cut
  <1>2. Full \in Seq(Nat) /\ Len(Full) \in Nat BY FullImage DEF Full
  <1>3. image \in Seq(Nat) /\ Len(image) = m /\ \A k \in 1 .. m : image[k] = Full[k]
    BY <1>1, <1>2
  <1>4. Complete => image = Full BY DEF Complete, Full
  <1>5. ASSUME Len(image) = Len(Full) PROVE image = Full
    BY <1>2, <1>3, <1>5
  <1> QED BY <1>3, <1>4, <1>5 DEF Complete, Full

\* The tests of the disk, for a position on it.
LEMMA Tests ==
  ASSUME tree \in Trees, Cut, NEW p \in Nat, NEW n \in Nat, p <= Len(image)
  PROVE  Readable(p, n) <=> OnDisk(p, n)
  <1>1. Len(image) \in Nat /\ Len(image) < MaxWord /\ MaxWord \in Nat
    BY CutImage, FullImage DEF Full
  <1>2. (Len(image) - p) % MaxWord = Len(image) - p
    <2>1. Len(image) - p \in 0 .. MaxWord - 1 BY <1>1
    <2> QED BY <2>1, <1>1
  <1> QED BY <1>1, <1>2 DEF Readable, OnDisk

\* From a position on the disk only fields on the disk can be read.
LEMMA GotOnDisk ==
  ASSUME tree \in Trees, Cut, diskPtr \in Nat, diskPtr <= Len(image), NEW n \in Nat
  PROVE  Got(n) <=> OnDisk(diskPtr, n)
  <1>1. Len(image) \in Nat /\ Extent \in Nat BY CutImage, FullImage
  <1>2. ASSUME Got(n), ~OnDisk(diskPtr, n) PROVE FALSE
    <2> DEFINE k == Len(image) - diskPtr
    <2>1. k \in 0 .. n - 1 /\ diskPtr + k = Len(image) BY <1>1, <1>2 DEF OnDisk
    <2>2. Readable(Len(image), 1) BY <1>2, <2>1 DEF Got
    <2>3. ~OnDisk(Len(image), 1) BY <1>1 DEF OnDisk
    <2> QED BY <1>1, <2>2, <2>3, Tests
  <1>3. ASSUME OnDisk(diskPtr, n) PROVE Got(n)
    <2>1. Mapped(diskPtr, n) BY <1>1, <1>3 DEF OnDisk, Mapped
    <2>2. ASSUME NEW k \in 0 .. n - 1 PROVE Readable(diskPtr + k, 1)
      <3>1. diskPtr + k \in Nat /\ diskPtr + k <= Len(image) BY <1>1, <1>3 DEF OnDisk
      <3>2. OnDisk(diskPtr + k, 1) BY <1>1, <1>3 DEF OnDisk
      <3> QED BY <3>1, <3>2, Tests
    <2> QED BY <2>1, <2>2 DEF Got
  <1> QED BY <1>2, <1>3

\* Where the reader stops when a field is not there.
LEMMA StoppedPlace ==
  ASSUME tree \in Trees, Cut, diskPtr \in 0 .. MaxWord - 1
  PROVE  /\ Stopped \in {"outside", "aborted"}
         /\ Stopped = "outside" => diskPtr > Len(image)
  <1>1. Stopped \in {"outside", "aborted"} BY DEF Stopped
  <1>2. Len(image) \in Nat BY CutImage
  <1>3. ASSUME diskPtr <= Len(image) PROVE Stopped = "aborted"
    <2>1. ~OnDisk(Len(image), 1) BY <1>2 DEF OnDisk
    <2>2. ~Readable(Len(image), 1) BY <2>1, <1>2, Tests
    <2> QED BY <2>2, <1>3, <1>2 DEF Stopped
  <1> QED BY <1>1, <1>2, <1>3

-----------------------------------------------------------------------------
(* What has been built, against the tree *)

\* b, built by the reader, is what the tree has as e: a file with its size and
\* with its contents where it says, or a folder whose entries have the names of
\* those of e and are paired with them by R.
Mirror(t, m, R, b, e) ==
  /\ b.folder = e.folder /\ e.folder \in BOOLEAN
  /\ ~e.folder => /\ e.data \in Seq(Nat) /\ b.size = Len(e.data)
                  /\ b.contentsOffset \in 0 .. m
                  /\ Lies(Pack(t), e.data, b.contentsOffset)
  /\ e.folder => /\ e.entries \in Lists
                 /\ DOMAIN b.entries = 1 .. Len(e.entries)
                 /\ \A j \in 1 .. Len(e.entries) :
                      /\ b.entries[j].name = e.entries[j].name
                      /\ <<b.entries[j], e.entries[j]>> \in R

\* All pairs of R, and so everything below them, agree.
Mirrors(t, m, R) == \A r \in R : Mirror(t, m, R, r[1], r[2])

\* More pairs leave old ones in agreement.
LEMMA MirrorsMore ==
  ASSUME NEW t, NEW m, NEW R, Mirrors(t, m, R), NEW b, NEW e, Mirror(t, m, R, b, e)
  PROVE  Mirrors(t, m, R \cup {<<b, e>>})
  <1> DEFINE More == R \cup {<<b, e>>}
  <1>1. ASSUME NEW x, NEW y, Mirror(t, m, R, x, y) PROVE Mirror(t, m, More, x, y)
    BY <1>1 DEF Mirror
  <1>2. ASSUME NEW r \in More PROVE Mirror(t, m, More, r[1], r[2])
    <2>1. CASE r \in R
      <3>1. Mirror(t, m, R, r[1], r[2]) BY <2>1 DEF Mirrors
      <3> QED BY <3>1, <1>1
    <2>2. CASE r = <<b, e>>
      <3>1. r[1] = b /\ r[2] = e BY <2>2
      <3>2. Mirror(t, m, More, b, e) BY <1>1
      <3> QED BY <3>1, <3>2
    <2> QED BY <1>2, <2>1, <2>2
  <1> QED BY <1>2 DEF Mirrors

\* The root of the tree.
RootItem(t) == [folder |-> TRUE, entries |-> t]

\* The frames of calls that build nodes of N.
FrameOf(N) == [name : Nat, left : Nat, entries : Seq(N)]

\* A call that reads the entries es of a folder: what it has built is the first
\* of them, the rest is still to be read.
Halfway(fr, es, rest, R) ==
  /\ es \in Lists /\ rest \in Lists
  /\ fr.left = Len(rest) /\ Len(es) = Len(fr.entries) + Len(rest)
  /\ \A k \in 1 .. Len(rest) : rest[k] = es[Len(fr.entries) + k]
  /\ \A j \in 1 .. Len(fr.entries) : /\ fr.entries[j].name = es[j].name
                                     /\ <<fr.entries[j], es[j]>> \in R

\* The calls fs: below Read, one per folder, from the root down.  Each is inside
\* the first folder it has still to read, which ends where the rest begins.
Chain(t, m, fs, all, todo, end, R, N) ==
  /\ fs \in Seq(FrameOf(N)) /\ Len(fs) >= 2 /\ fs[1] = Frame(0, 1)
  /\ all[2] = t /\ end[2] = Len(Pack(t))
  /\ \A i \in 2 .. Len(fs) : Halfway(fs[i], all[i], todo[i], R) /\ end[i] \in Nat
  /\ \A i \in 2 .. Len(fs) - 1 :
       /\ Len(todo[i]) > 0 /\ todo[i][1].folder
       /\ all[i + 1] = todo[i][1].entries /\ fs[i + 1].name = todo[i][1].name
       /\ Lay(Pack(t), Tail(todo[i]), end[i + 1], end[i])
  /\ Mirrors(t, m, R)

\* The reader stands where the rest of the innermost folder begins.
Walk(t, m, fs, p, all, todo, end, R, N) ==
  /\ Chain(t, m, fs, all, todo, end, R, N)
  /\ Lay(Pack(t), todo[Len(fs)], p, end[Len(fs)])

Walking(t, m, fs, p) == \E all, todo, end, R, N : Walk(t, m, fs, p, all, todo, end, R, N)

\* Before the root, and after it.
Opened(fs, p) == fs = <<Frame(0, 1)>> /\ p = 4 + Len(Strings)
Whole(t, m, fs, p) ==
  /\ Len(fs) = 1 /\ fs[1].left = 0 /\ p = Len(Pack(t))
  /\ fs[1].entries[1].name \in Nat /\ Len(fs[1].entries) = 1
  /\ \E R : Mirrors(t, m, R) /\ <<fs[1].entries[1], RootItem(t)>> \in R

\* The calls of ReadEntry are somewhere on their way through the tree the archiver
\* has packed, with a true copy of what lies behind them; and the reader gives up
\* only on an image that is cut.
Reached ==
  /\ pc = "header" => frames = <<Frame(0, 1)>> /\ diskPtr = 0
  /\ pc = "entries" => /\ strings = Strings
                       /\ \/ Opened(frames, diskPtr)
                          \/ Walking(tree, Len(image), frames, diskPtr)
                          \/ Whole(tree, Len(image), frames, diskPtr)
  /\ pc = "mounted" => Whole(tree, Len(image), frames, diskPtr)
  /\ pc \in {"failed", "aborted", "outside"} => ~Complete

Answered ==
  /\ pc \in {"header", "entries"} => answer = NoAnswer
  /\ answer # NoAnswer /\ answer.err = "OUT_OF_BOUNDS_DISK" => ~Complete

\* So it goes as long as every entry that was read was on the disk.
Straight == TypeOK /\ Cut /\ Reached /\ Answered /\ beyond = FALSE

\* Once the reader has gone on behind the disk, what it builds still has its shape.
Shape(fs) == \E N : /\ fs \in Seq(FrameOf(N)) /\ Len(fs) > 0
                    /\ \A i \in 1 .. Len(fs) - 1 : fs[i].left > 0

Astray == TypeOK /\ Cut /\ ~Complete /\ Shape(frames) /\ beyond = TRUE /\ pc # "header"

\* The inductive invariant.
IInv == Straight \/ Astray

-----------------------------------------------------------------------------
(* The calls *)

\* A sequence of members of a set is one of members of a larger set.
LEMMA SeqMore ==
  ASSUME NEW A, NEW B, A \subseteq B, NEW s \in Seq(A)
  PROVE  s \in Seq(B)
  OBVIOUS

\* Sequences with the same elements are the same.
LEMMA SameSequence ==
  ASSUME NEW S, NEW r \in Seq(S), NEW s \in Seq(S), Len(r) = Len(s),
         \A k \in 1 .. Len(s) : r[k] = s[k]
  PROVE  r = s
  OBVIOUS

\* One call, and one more.
LEMMA TwoCalls ==
  ASSUME NEW S, NEW x \in S, NEW y \in S
  PROVE  Append(<<x>>, y) = <<x, y>>
  <1> DEFINE r == Append(<<x>>, y)
             s == <<x, y>>
  <1>1. <<x>> \in Seq(S) /\ Len(<<x>>) = 1 /\ s \in Seq(S) /\ Len(s) = 2 OBVIOUS
  <1>2. r \in Seq(S) /\ Len(r) = 2 BY <1>1
  <1>3. r[1] = x /\ r[2] = y /\ s[1] = x /\ s[2] = y BY <1>1
  <1> HIDE DEF r, s
  <1>4. \A k \in 1 .. Len(s) : r[k] = s[k] BY <1>1, <1>3
  <1>5. r = s BY <1>1, <1>2, <1>4, SameSequence
  <1> QED BY <1>5 DEF r, s

\* Frames of nodes are frames of more nodes.
LEMMA FramesMore ==
  ASSUME NEW A, NEW B, A \subseteq B, NEW fs \in Seq(FrameOf(A))
  PROVE  fs \in Seq(FrameOf(B))
  <1>1. Seq(A) \subseteq Seq(B) BY SeqMore
  <1>2. FrameOf(A) \subseteq FrameOf(B) BY <1>1 DEF FrameOf
  <1> QED BY <1>2, SeqMore

\* Attaching an entry to the innermost folder (ark.c:108), field by field.
LEMMA AttachedFields ==
  ASSUME NEW N, NEW fs \in Seq(FrameOf(N)), Len(fs) > 0, fs[Len(fs)].left > 0, NEW b
  PROVE  LET new == Attached(fs, b)
             n == Len(fs)
         IN  /\ new \in Seq(FrameOf(N \cup {b})) /\ Len(new) = n
             /\ \A i \in 1 .. n - 1 : new[i] = fs[i]
             /\ new[n] = [name |-> fs[n].name, left |-> fs[n].left - 1,
                          entries |-> Append(fs[n].entries, b)]
  <1> DEFINE n == Len(fs)
             M == N \cup {b}
             last == [name |-> fs[n].name, left |-> fs[n].left - 1,
                      entries |-> Append(fs[n].entries, b)]
             new == Attached(fs, b)
  <1>1. n \in Nat /\ n \in 1 .. n /\ fs[n] \in FrameOf(N) /\ fs[n] \in FrameOf(M)
    <2>1. n \in Nat /\ n \in 1 .. n OBVIOUS
    <2>2. fs \in Seq(FrameOf(M)) BY FramesMore
    <2> QED BY <2>1, <2>2
  <1>2. last \in FrameOf(M)
    <2>1. /\ fs[n].name \in Nat /\ fs[n].left \in Nat /\ fs[n].left > 0
          /\ fs[n].entries \in Seq(M)
      BY <1>1 DEF FrameOf
    <2>2. Append(fs[n].entries, b) \in Seq(M) BY <2>1
    <2>3. fs[n].left - 1 \in Nat BY <2>1
    <2> QED BY <2>1, <2>2, <2>3 DEF FrameOf
  <1>3. new = [fs EXCEPT ![n] = last] BY DEF Attached
  <1>4. fs \in Seq(FrameOf(M)) BY FramesMore
  <1> HIDE DEF last, new, M
  <1>5. new \in Seq(FrameOf(M)) /\ Len(new) = n /\ new[n] = last
        /\ \A i \in 1 .. n - 1 : new[i] = fs[i]
    BY <1>1, <1>2, <1>3, <1>4
  <1> QED BY <1>5 DEF last, new, M

\* When the next entry of the innermost folder has been built, as it is in the
\* tree, and the reader stands behind it, the calls go on with the rest.
LEMMA AttachStep ==
  ASSUME NEW t \in Trees, NEW m, NEW fs, NEW all, NEW todo, NEW end, NEW R, NEW N,
         Chain(t, m, fs, all, todo, end, R, N), Len(todo[Len(fs)]) > 0,
         NEW b, b.name = todo[Len(fs)][1].name, Mirror(t, m, R, b, todo[Len(fs)][1]),
         NEW p, Lay(Pack(t), Tail(todo[Len(fs)]), p, end[Len(fs)])
  PROVE  Walking(t, m, Attached(fs, b), p)
  <1> DEFINE n == Len(fs)
             new == Attached(fs, b)
             e == todo[n][1]
             rest == Tail(todo[n])
             after == [i \in 2 .. n |-> IF i = n THEN rest ELSE todo[i]]
             S == R \cup {<<b, e>>}
             M == N \cup {b}
  <1>1. fs \in Seq(FrameOf(N)) /\ n \in Nat /\ n >= 2 BY DEF Chain
  <1>2. Halfway(fs[n], all[n], todo[n], R) /\ end[n] \in Nat BY <1>1 DEF Chain
  <1>3. fs[n] \in FrameOf(N) /\ fs[n].left = Len(todo[n]) BY <1>1, <1>2 DEF Halfway
  <1>4. /\ new \in Seq(FrameOf(M)) /\ Len(new) = n
        /\ \A i \in 1 .. n - 1 : new[i] = fs[i]
        /\ new[n] = [name |-> fs[n].name, left |-> fs[n].left - 1,
                     entries |-> Append(fs[n].entries, b)]
    <2>1. fs \in Seq(FrameOf(N)) /\ Len(fs) > 0 /\ fs[Len(fs)].left > 0
      BY <1>1, <1>3
    <2> QED BY <2>1, AttachedFields
  <1>5. Mirrors(t, m, S) BY MirrorsMore DEF Chain
  <1>6. /\ todo[n] \in Lists /\ todo[n] \in Seq(Item) /\ rest \in Lists
        /\ Len(rest) = Len(todo[n]) - 1 /\ Len(todo[n]) \in Nat
        /\ \A k \in 1 .. Len(rest) : rest[k] = todo[n][k + 1]
    <2>1. todo[n] \in Lists BY <1>2 DEF Halfway
    <2>2. todo[n] \in Seq(Item) /\ todo[n] # <<>> BY <2>1, ItemOfList
    <2> QED BY <2>1, <2>2, TreeAssumption
  <1> HIDE DEF new, e, rest, S, M, n
  <1>7. Halfway(new[n], all[n], rest, S)
    <2> DEFINE old == fs[n].entries
    <2>1. old \in Seq(N) /\ Len(old) \in Nat BY <1>3 DEF FrameOf
    <2>2. /\ Len(Append(old, b)) = Len(old) + 1
          /\ \A j \in 1 .. Len(old) : Append(old, b)[j] = old[j]
          /\ Append(old, b)[Len(old) + 1] = b
      BY <2>1
    <2>3. new[n].entries = Append(old, b) /\ new[n].left = Len(rest)
      BY <1>3, <1>4, <1>6
    <2>4. Len(all[n]) = Len(old) + Len(todo[n]) /\ all[n] \in Lists BY <1>2 DEF Halfway
    <2>5. \A k \in 1 .. Len(todo[n]) : todo[n][k] = all[n][Len(old) + k] BY <1>2 DEF Halfway
    <2> HIDE DEF old
    <2>6. ASSUME NEW k \in 1 .. Len(rest) PROVE rest[k] = all[n][Len(old) + 1 + k]
      <3>1. k + 1 \in 1 .. Len(todo[n]) /\ Len(old) + (k + 1) = Len(old) + 1 + k
        BY <1>6, <2>1
      <3> QED BY <3>1, <1>6, <2>5
    <2>7. e = all[n][Len(old) + 1]
      <3>1. 1 \in 1 .. Len(todo[n]) BY <1>6, <1>2, <1>3 DEF n
      <3> QED BY <3>1, <2>5 DEF e
    <2>8. ASSUME NEW j \in 1 .. Len(old) + 1
          PROVE  /\ Append(old, b)[j].name = all[n][j].name
                 /\ <<Append(old, b)[j], all[n][j]>> \in S
      <3>1. CASE j = Len(old) + 1 BY <3>1, <2>2, <2>7 DEF S, e, n
      <3>2. CASE j # Len(old) + 1
        <4>1. j \in 1 .. Len(old) BY <3>2, <2>1
        <4>2. old[j].name = all[n][j].name /\ <<old[j], all[n][j]>> \in R
          BY <4>1, <1>2 DEF Halfway, old
        <4> QED BY <4>1, <4>2, <2>2 DEF S
      <3> QED BY <3>1, <3>2
    <2>9. Len(all[n]) = Len(old) + 1 + Len(rest)
      <3>1. Len(rest) \in Nat /\ Len(todo[n]) = 1 + Len(rest)
        <4>1. Len(rest) \in Int BY <1>6
        <4>2. Len(todo[n]) > 0 BY DEF n
        <4> QED BY <4>1, <4>2, <1>6
      <3> QED BY <2>1, <2>4, <3>1
    <2> QED BY <1>6, <2>2, <2>3, <2>4, <2>6, <2>8, <2>9 DEF Halfway
  <1>8. ASSUME NEW i \in 2 .. n - 1
        PROVE  /\ Halfway(new[i], all[i], todo[i], S) /\ end[i] \in Nat
               /\ Len(todo[i]) > 0 /\ todo[i][1].folder
               /\ all[i + 1] = todo[i][1].entries /\ new[i + 1].name = todo[i][1].name
               /\ Lay(Pack(t), Tail(todo[i]), end[i + 1], end[i])
    <2>1. i \in 2 .. Len(fs) /\ i \in 2 .. Len(fs) - 1 /\ i \in 1 .. n - 1 /\ i + 1 \in 1 .. n
      BY <1>1 DEF n
    <2>2. Halfway(fs[i], all[i], todo[i], R) /\ end[i] \in Nat BY <2>1 DEF Chain
    <2>3. Halfway(fs[i], all[i], todo[i], S) BY <2>2 DEF Halfway, S
    <2>4. new[i] = fs[i] BY <2>1, <1>4
    <2>5. new[i + 1].name = fs[i + 1].name
      <3>1. CASE i + 1 = n BY <3>1, <1>4
      <3>2. CASE i + 1 # n BY <3>2, <2>1, <1>1, <1>4
      <3> QED BY <3>1, <3>2
    <2>6. /\ Len(todo[i]) > 0 /\ todo[i][1].folder
          /\ all[i + 1] = todo[i][1].entries /\ fs[i + 1].name = todo[i][1].name
          /\ Lay(Pack(t), Tail(todo[i]), end[i + 1], end[i])
      BY <2>1 DEF Chain
    <2> QED BY <2>2, <2>3, <2>4, <2>5, <2>6
  <1>9. after[n] = rest /\ \A i \in 2 .. n - 1 : after[i] = todo[i] BY <1>1
  <1> HIDE DEF after
  <1>10. Chain(t, m, new, all, after, end, S, M)
    <2>1. new[1] = Frame(0, 1) BY <1>1, <1>4 DEF Chain
    <2>2. all[2] = t /\ end[2] = Len(Pack(t)) BY DEF Chain
    <2>3. ASSUME NEW i \in 2 .. n PROVE Halfway(new[i], all[i], after[i], S) /\ end[i] \in Nat
      <3>1. CASE i = n BY <3>1, <1>2, <1>7, <1>9
      <3>2. CASE i # n
        <4>1. i \in 2 .. n - 1 BY <3>2, <1>1
        <4> QED BY <4>1, <1>8, <1>9
      <3> QED BY <3>1, <3>2
    <2>4. ASSUME NEW i \in 2 .. n - 1
          PROVE  /\ Len(after[i]) > 0 /\ after[i][1].folder
                 /\ all[i + 1] = after[i][1].entries /\ new[i + 1].name = after[i][1].name
                 /\ Lay(Pack(t), Tail(after[i]), end[i + 1], end[i])
      BY <1>8, <1>9
    <2> QED BY <1>1, <1>4, <1>5, <2>1, <2>2, <2>3, <2>4 DEF Chain
  <1>11. Lay(Pack(t), after[n], p, end[n]) BY <1>9 DEF rest, n
  <1>12. Walk(t, m, new, p, all, after, end, S, M) BY <1>4, <1>10, <1>11 DEF Walk
  <1> QED BY <1>12 DEF Walking, new

-----------------------------------------------------------------------------
(* The steps *)

\* What TypeOK says of the calls.
Typed(fs) ==
  \A i \in DOMAIN fs : /\ fs[i].left \in Nat
                       /\ \A j \in DOMAIN fs[i].entries : Entry(fs[i].entries[j])

\* Attaching an entry leaves the calls what they should be.
LEMMA AttachedTyped ==
  ASSUME NEW N, NEW fs \in Seq(FrameOf(N)), Len(fs) > 0, fs[Len(fs)].left > 0, Typed(fs),
         NEW b, Entry(b)
  PROVE  Typed(Attached(fs, b))
  <1> DEFINE n == Len(fs)
             new == Attached(fs, b)
  <1>1. /\ new \in Seq(FrameOf(N \cup {b})) /\ Len(new) = n
        /\ \A i \in 1 .. n - 1 : new[i] = fs[i]
        /\ new[n] = [name |-> fs[n].name, left |-> fs[n].left - 1,
                     entries |-> Append(fs[n].entries, b)]
    BY AttachedFields
  <1>2. DOMAIN fs = 1 .. n /\ DOMAIN new = 1 .. n /\ n \in Nat BY <1>1
  <1>3. fs[n] \in FrameOf(N) BY <1>2
  <1> HIDE DEF new
  <1>4. ASSUME NEW j \in DOMAIN new[n].entries PROVE Entry(new[n].entries[j])
    <2> DEFINE old == fs[n].entries
    <2>1. old \in Seq(N) /\ n \in DOMAIN fs BY <1>2, <1>3 DEF FrameOf
    <2>2. new[n].entries = Append(old, b) BY <1>1
    <2>3. \A k \in DOMAIN old : Entry(old[k]) BY <2>1 DEF Typed
    <2> HIDE DEF old
    <2>4. /\ Len(old) \in Nat /\ DOMAIN old = 1 .. Len(old)
          /\ DOMAIN Append(old, b) = 1 .. Len(old) + 1
          /\ \A k \in 1 .. Len(old) : Append(old, b)[k] = old[k]
          /\ Append(old, b)[Len(old) + 1] = b
      BY <2>1
    <2>5. CASE j = Len(old) + 1 BY <2>2, <2>4, <2>5
    <2>6. CASE j # Len(old) + 1
      <3>1. j \in 1 .. Len(old) BY <2>2, <2>4, <2>6
      <3> QED BY <2>2, <2>3, <2>4, <3>1
    <2> QED BY <2>5, <2>6
  <1>5. new[n].left \in Nat
    <2>1. fs[n].left \in Nat BY <1>3 DEF FrameOf
    <2>2. new[n].left = fs[n].left - 1 BY <1>1
    <2> QED BY <2>1, <2>2
  <1>6. ASSUME NEW i \in 1 .. n
        PROVE  new[i].left \in Nat /\ \A j \in DOMAIN new[i].entries : Entry(new[i].entries[j])
    <2>1. CASE i = n BY <2>1, <1>4, <1>5
    <2>2. CASE i # n
      <3> HIDE DEF n
      <3>a. i \in 1 .. n - 1 BY <2>2, <1>2
      <3>1. i \in 1 .. n - 1 /\ i \in DOMAIN fs BY <3>a, <1>2
      <3>2. new[i] = fs[i] BY <3>1, <1>1
      <3> QED BY <3>1, <3>2 DEF Typed
    <2> QED BY <2>1, <2>2
  <1>7. Typed(new) BY <1>2, <1>6 DEF Typed
  <1> QED BY <1>7 DEF new

\* What every step relies on.
LEMMA DiskFacts ==
  ASSUME TypeOK, Cut
  PROVE  /\ tree \in Trees /\ Full = Pack(tree) /\ Len(Full) \in Nat /\ Len(Full) < MaxWord
         /\ MaxWord \in Nat /\ 8 + Len(Strings) <= Len(Full) /\ Len(Strings) \in Nat
         /\ image \in Seq(Nat) /\ Len(image) \in 0 .. Len(Full)
         /\ \A k \in 1 .. Len(image) : image[k] = Full[k]
         /\ Complete => Len(image) = Len(Full)
         /\ Typed(frames) /\ diskPtr \in 0 .. MaxWord - 1
         /\ Len(Full) + Extent < MaxWord /\ Extent \in Nat
  <1>1. tree \in Trees /\ Cut /\ diskPtr \in 0 .. MaxWord - 1 /\ Typed(frames)
    BY DEF TypeOK, Typed
  <1>2. Full = Pack(tree) BY DEF Full
  <1> QED BY <1>1, <1>2, CutImage, FullImage, StringsAreNumbers

\* The same, and nothing is known to be there but what is on the disk.
LEMMA Facts ==
  ASSUME Straight
  PROVE  /\ tree \in Trees /\ Full = Pack(tree) /\ Len(Full) \in Nat /\ Len(Full) < MaxWord
         /\ MaxWord \in Nat /\ 8 + Len(Strings) <= Len(Full) /\ Len(Strings) \in Nat
         /\ image \in Seq(Nat) /\ Len(image) \in 0 .. Len(Full)
         /\ \A k \in 1 .. Len(image) : image[k] = Full[k]
         /\ Complete => Len(image) = Len(Full)
         /\ Typed(frames) /\ diskPtr \in 0 .. MaxWord - 1
         /\ Len(Full) + Extent < MaxWord /\ Extent \in Nat
  BY DiskFacts DEF Straight

\* What is read on the disk is what the archiver wrote there.
LEMMA BytesOnDisk ==
  ASSUME TypeOK, Cut, NEW p \in Nat, NEW n \in Nat, OnDisk(p, n), NEW s \in Bytes(p, n)
  PROVE  s \in Seq(Nat) /\ Len(s) = n /\ \A k \in 1 .. n : s[k] = Full[p + k]
  <1>1. /\ DOMAIN s = 1 .. n /\ \A k \in 1 .. n : s[k] \in Unit(p + k - 1)
        /\ s \in [1 .. n -> UNION {Unit(p + k - 1) : k \in 1 .. n}]
    BY DEF Bytes
  <1>2. ASSUME NEW k \in 1 .. n PROVE s[k] = Full[p + k] /\ s[k] \in Nat
    <2>1. p + k - 1 < Len(image) /\ p + k - 1 + 1 = p + k /\ p + k \in 1 .. Len(image)
      BY DiskFacts DEF OnDisk
    <2>2. s[k] \in {image[p + k]}
      <3>1. s[k] \in Unit(p + k - 1) BY <1>1
      <3> QED BY <2>1, <3>1 DEF Unit
    <2>3. image \in Seq(Nat) /\ image[p + k] = Full[p + k] BY <2>1, DiskFacts
    <2>4. image[p + k] \in Nat BY <2>1, <2>3
    <2> QED BY <2>2, <2>3, <2>4
  <1>3. s \in [1 .. n -> Nat] BY <1>1, <1>2
  <1> QED BY <1>2, <1>3

\* Frames, position, table and answer as they are: the invariant only depends on
\* the outcome.
LEMMA Steady ==
  ASSUME TypeOK, Cut, UNCHANGED <<tree, image>>
  PROVE  /\ Cut' /\ (Complete' <=> Complete) /\ Full' = Full /\ tree' \in Trees
         /\ image' \in Seq(Nat)
  <1>1. Full' = Full BY DEF Full
  <1>2. Cut' BY <1>1 DEF Cut
  <1> QED BY <1>1, <1>2, DiskFacts DEF Complete

\* The name at an offset that the archiver has written is the name it packed.
LEMMA NameOfOffset ==
  ASSUME strings = Strings, NEW name \in Names
  PROVE  Offset(name) <= Len(strings) /\ NameAt(Offset(name)) = name /\ name \in Nat
  <1>1. Offset(name) \in 0 .. Len(Strings) - 1 /\ Strings[Offset(name) + 1] = name
    BY OffsetOfName
  <1>2. Strings \in Seq(Nat) /\ Len(Strings) \in Nat BY StringsAreNumbers
  <1> QED BY <1>1, <1>2 DEF NameAt

\* The reader has passed the header: nothing of it has changed but the calls and
\* the position, and they are on their way.
LEMMA Onwards ==
  ASSUME Straight, pc = "entries", pc' = "entries", UNCHANGED <<tree, image, strings, answer>>,
         diskPtr' \in 0 .. Len(Full), Typed(frames'), beyond' = FALSE,
         \/ Opened(frames', diskPtr')
         \/ Walking(tree, Len(image), frames', diskPtr')
         \/ Whole(tree, Len(image), frames', diskPtr')
  PROVE  Straight'
  <1>1. Cut' /\ (Complete' <=> Complete) BY Steady DEF Straight
  <1>2. TypeOK'
    <2>1. diskPtr' \in 0 .. MaxWord - 1 BY Facts
    <2> QED BY <2>1 DEF Straight, TypeOK, Typed, Place
  <1>3. Reached'
    <2>1. strings = Strings BY DEF Straight, Reached
    <2> QED BY <2>1 DEF Reached
  <1>5. Answered' BY <1>1 DEF Straight, Answered
  <1> QED BY <1>1, <1>2, <1>3, <1>5 DEF Straight

\* In a folder that has entries left the reader stands before the next one.
LEMMA BeforeEntry ==
  ASSUME Straight, Reading, NEW all, NEW todo, NEW end, NEW R, NEW N,
         Walk(tree, Len(image), frames, diskPtr, all, todo, end, R, N)
  PROVE  LET n == Len(frames)
         IN  /\ n \in Nat /\ n >= 2 /\ frames \in Seq(FrameOf(N))
             /\ Chain(tree, Len(image), frames, all, todo, end, R, N)
             /\ todo[n] \in Lists /\ Len(todo[n]) > 0 /\ end[n] \in Nat
             /\ Lay(Full, todo[n], diskPtr, end[n])
             /\ todo[n][1].name \in Names /\ todo[n][1].folder \in BOOLEAN
  <1> DEFINE n == Len(frames)
  <1>1. Chain(tree, Len(image), frames, all, todo, end, R, N) BY DEF Walk
  <1>2. frames \in Seq(FrameOf(N)) /\ n >= 2 BY <1>1 DEF Chain
  <1>3. n \in Nat /\ n \in 2 .. n BY <1>2
  <1>4. Halfway(frames[n], all[n], todo[n], R) /\ end[n] \in Nat BY <1>1, <1>3 DEF Chain
  <1>5. todo[n] \in Lists /\ Len(todo[n]) > 0 BY <1>4 DEF Halfway, Reading, Top
  <1>6. Lay(Full, todo[n], diskPtr, end[n]) BY Facts DEF Walk
  <1>7. todo[n] \in Seq(Item) BY <1>5, ItemOfList
  <1>8. 1 \in 1 .. Len(todo[n]) BY <1>5, <1>7
  <1> QED BY <1>1, <1>2, <1>3, <1>4, <1>5, <1>6, <1>8, ItemOfList

\* A field that is on the disk is the one the archiver wrote.
LEMMA FieldIsPacked ==
  ASSUME Straight, NEW k \in Nat \ {0}, NEW n \in Nat, k <= n, OnDisk(diskPtr, n)
  PROVE  Field(k) = {Full[diskPtr + k]}
  <1>1. diskPtr \in Nat /\ Len(image) \in Nat BY Facts
  <1>2. diskPtr + n <= Len(image) BY DEF OnDisk
  <1>3. /\ diskPtr + k \in 1 .. Len(image)
        /\ diskPtr + k - 1 < Len(image) /\ diskPtr + k - 1 + 1 = diskPtr + k
    BY ONLY <1>1, <1>2, k \in Nat \ {0}, n \in Nat, k <= n
  <1>4. Field(k) = {image[diskPtr + k - 1 + 1]} BY <1>3 DEF Field, Unit
  <1>5. image[diskPtr + k] = Full[diskPtr + k] BY <1>3, Facts
  <1> QED BY ONLY <1>3, <1>4, <1>5

\* Reading is on its way through a folder, or before the root.
LEMMA ReadingWhere ==
  ASSUME Straight, Reading
  PROVE  /\ pc = "entries" /\ strings = Strings
         /\ Opened(frames, diskPtr) \/ Walking(tree, Len(image), frames, diskPtr)
  <1>1. pc = "entries" /\ frames[Len(frames)].left > 0 BY DEF Reading, Top
  <1>2. Whole(tree, Len(image), frames, diskPtr) => frames[Len(frames)].left = 0 BY DEF Whole
  <1> QED BY <1>1, <1>2 DEF Straight, Reached

\* The header (ark.c:124-147): the reader comes to stand before the root.
LEMMA ReadHeaderStep == ASSUME Straight, ReadHeader PROVE Straight'
  <1>1. /\ pc = "header" /\ diskPtr = 0 /\ frames = <<Frame(0, 1)>>
        /\ UNCHANGED <<tree, image, frames, answer, beyond>>
    BY DEF ReadHeader, Straight, Reached
  <1>2. Cut' /\ (Complete' <=> Complete) /\ Full' = Full BY <1>1, Steady DEF Straight
  <1>3. tree \in Trees /\ Cut /\ answer' = answer BY <1>1 DEF Straight, TypeOK
  <1>4. /\ Full[3] = Len(Strings) /\ Lies(Full, Strings, 4) BY <1>3, FullImage DEF Full
  <1>5. Answered' /\ beyond' = FALSE BY <1>1, <1>2 DEF Straight, Answered
  <1>6. Got(4) <=> OnDisk(0, 4)
    <2>1. 0 <= Len(image) /\ diskPtr \in Nat BY <1>1, Facts
    <2> QED BY <1>1, <1>3, <2>1, GotOnDisk
  <1>7. CASE ~Got(4)
    <2>1. pc' = Stopped /\ UNCHANGED <<diskPtr, strings>> BY <1>1, <1>7 DEF ReadHeader
    <2>2. pc' \in {"outside", "aborted"}
      BY <2>1, <1>3, Facts, StoppedPlace
    <2>3. ~Complete BY <1>6, <1>7, Facts DEF OnDisk
    <2>4. TypeOK' BY <1>1, <2>1, <2>2 DEF Straight, TypeOK, Place
    <2>5. Reached' BY <1>2, <2>2, <2>3 DEF Reached
    <2> QED BY <1>2, <1>5, <2>4, <2>5 DEF Straight
  <1>8. CASE Got(4)
    <2>1. Field(3) = {Len(Strings)}
      <3>1. OnDisk(diskPtr, 4) BY <1>1, <1>6, <1>8
      <3>2. Field(3) = {Full[0 + 3]} BY <1>1, <3>1, FieldIsPacked
      <3> QED BY <3>2, <1>4
    <2>2. Len(Strings) # MaxWord - 1 BY Facts
    <2>3. 4 <= Len(image) BY <1>6, <1>8 DEF OnDisk
    <2>4. Readable(4, Len(Strings)) <=> OnDisk(4, Len(Strings))
      BY <1>3, <2>3, Facts, Tests
    <2>5. CASE ~Readable(4, Len(Strings))
      <3>1. pc' = "failed" /\ UNCHANGED <<diskPtr, strings>>
        BY <1>8, <2>1, <2>2, <2>5 DEF ReadHeader
      <3>2. ~Complete BY <2>4, <2>5, Facts DEF OnDisk
      <3>3. TypeOK' BY <1>1, <3>1 DEF Straight, TypeOK, Place
      <3>4. Reached' BY <1>2, <3>1, <3>2 DEF Reached
      <3> QED BY <1>2, <1>5, <3>3, <3>4 DEF Straight
    <2>6. CASE Readable(4, Len(Strings))
      <3>1. /\ pc' = "entries" /\ diskPtr' = 4 + Len(Strings)
            /\ strings' \in Bytes(4, Len(Strings))
        BY <1>8, <2>1, <2>2, <2>6 DEF ReadHeader
      <3>2. OnDisk(4, Len(Strings)) BY <2>4, <2>6
      <3>3. strings' = Strings
        <4>1. Strings \in Seq(Nat) /\ Len(Strings) \in Nat BY StringsAreNumbers
        <4>2. strings' \in Seq(Nat) /\ Len(strings') = Len(Strings)
              /\ \A k \in 1 .. Len(Strings) : strings'[k] = Full[4 + k]
          BY <3>1, <3>2, <4>1, BytesOnDisk DEF Straight
        <4>3. \A k \in 1 .. Len(Strings) : strings'[k] = Strings[k] BY <4>2, <1>4 DEF Lies
        <4> QED BY ONLY <4>1, <4>2, <4>3, SameSequence
      <3>4. TypeOK'
        <4>1. diskPtr' \in 0 .. MaxWord - 1 BY <3>1, Facts
        <4>2. strings' \in Seq(Nat) BY <3>3, StringsAreNumbers
        <4> QED BY <1>1, <3>1, <4>1, <4>2 DEF Straight, TypeOK, Place
      <3>5. Reached'
        <4>1. Opened(frames', diskPtr') BY <1>1, <3>1 DEF Opened
        <4> QED BY <3>1, <3>3, <4>1 DEF Reached
      <3> QED BY <1>2, <1>5, <3>4, <3>5 DEF Straight
    <2> QED BY <2>5, <2>6
  <1> QED BY <1>7, <1>8

\* The root is entered (ark.c:88-108): nothing of it has been built yet.
LEMMA EnterRoot ==
  ASSUME Straight, EnterFolder, OnDisk(diskPtr, 4), Opened(frames, diskPtr)
  PROVE  Straight'
  <1>1. /\ Reading /\ OnDisk(diskPtr, 4) /\ UNCHANGED <<tree, image, pc, strings, answer>>
        /\ beyond' = FALSE
    BY DEF EnterFolder, Advance, Straight
  <1>2. pc = "entries" /\ pc' = "entries" /\ strings = Strings BY <1>1, ReadingWhere
  <1>3. frames = <<Frame(0, 1)>> /\ diskPtr = 4 + Len(Strings) BY DEF Opened
  <1>4. /\ tree \in Trees /\ tree \in Lists /\ Len(tree) \in Nat /\ Full = Pack(tree)
        /\ Full[7 + Len(Strings)] = 0 /\ Full[8 + Len(Strings)] = Len(tree)
        /\ Lay(Full, tree, 8 + Len(Strings), Len(Full))
    BY Facts, FullImage
  <1>5. Field(3) = {0} /\ Field(4) = {Len(tree)}
    <2>1. Field(3) = {Full[diskPtr + 3]} /\ Field(4) = {Full[diskPtr + 4]}
      BY <1>1, FieldIsPacked
    <2>2. diskPtr + 3 = 7 + Len(Strings) /\ diskPtr + 4 = 8 + Len(Strings)
      BY <1>3, StringsAreNumbers
    <2> QED BY <2>1, <2>2, <1>4
  <1>6. NameAt(0) \in Nat
    BY <1>2, StringsAreNumbers DEF NameAt
  <1> DEFINE new == Frame(NameAt(0), Len(tree))
             fs == <<Frame(0, 1), new>>
             p == 8 + Len(Strings)
             all == [i \in {2} |-> tree]
             end == [i \in {2} |-> Len(Full)]
  <1>7. frames' = fs
    <2>1. frames' = Append(frames, new) BY <1>5 DEF EnterFolder
    <2>2. Append(<<Frame(0, 1)>>, new) = <<Frame(0, 1), new>>
      <3>1. Frame(0, 1) \in {Frame(0, 1), new} /\ new \in {Frame(0, 1), new} OBVIOUS
      <3> HIDE DEF new
      <3> QED BY <3>1, TwoCalls
    <2> QED BY ONLY <2>1, <2>2, <1>3
  <1>8. diskPtr' = p /\ p \in 0 .. Len(Full)
    <2>1. diskPtr' = diskPtr + 4 BY DEF EnterFolder
    <2>2. Len(Strings) \in Nat /\ Len(Full) \in Nat /\ 8 + Len(Strings) <= Len(Full) BY Facts
    <2>3. diskPtr' = 8 + Len(Strings) BY <2>1, <2>2, <1>3
    <2> QED BY <2>2, <2>3
  <1>9. fs \in Seq(FrameOf({})) /\ Len(fs) = 2 /\ fs[1] = Frame(0, 1) /\ fs[2] = new
    <2>1. Frame(0, 1) \in FrameOf({}) /\ new \in FrameOf({})
      BY <1>4, <1>6 DEF Frame, FrameOf
    <2> HIDE DEF new
    <2> QED BY <2>1
  <1>10. new.left = Len(tree) /\ new.entries = <<>> BY DEF Frame
  <1> HIDE DEF new, fs, p
  <1>11. Walk(tree, Len(image), fs, p, all, all, end, {}, {})
    <2>1. Halfway(fs[2], tree, tree, {})
      <3>1. Len(fs[2].entries) = 0 /\ fs[2].left = Len(tree) BY <1>9, <1>10
      <3>2. \A k \in 1 .. Len(tree) : tree[k] = tree[0 + k] BY <1>4
      <3> QED BY <1>4, <3>1, <3>2 DEF Halfway
    <2>2. all[2] = tree /\ end[2] = Len(Full) /\ Len(Full) \in Nat BY Facts
    <2> HIDE DEF all, end
    <2>3. Mirrors(tree, Len(image), {}) BY DEF Mirrors
    <2>4. Chain(tree, Len(image), fs, all, all, end, {}, {})
      BY <1>4, <1>9, <2>1, <2>2, <2>3 DEF Chain
    <2>5. Lay(Pack(tree), all[Len(fs)], p, end[Len(fs)]) BY <1>4, <1>9, <2>2 DEF p
    <2> QED BY <2>4, <2>5 DEF Walk
  <1>12. Walking(tree, Len(image), frames', diskPtr') BY <1>7, <1>8, <1>11 DEF Walking
  <1>13. Typed(frames')
    <2>1. DOMAIN fs = {1, 2} BY <1>9
    <2>2. fs[1].left \in Nat /\ fs[1].entries = <<>> BY <1>9 DEF Frame
    <2>3. fs[2].left \in Nat /\ fs[2].entries = <<>> BY <1>4, <1>9, <1>10
    <2> QED BY <1>7, <2>1, <2>2, <2>3 DEF Typed
  <1> QED BY <1>1, <1>2, <1>8, <1>12, <1>13, Onwards

\* A folder is entered from the one that is being read: the reader stands before
\* its entries, and will stand before the rest of the outer one where they end.
LEMMA EnterInner ==
  ASSUME Straight, EnterFolder, OnDisk(diskPtr, 4), Walking(tree, Len(image), frames, diskPtr)
  PROVE  Straight'
  <1>1. /\ Reading /\ OnDisk(diskPtr, 4) /\ UNCHANGED <<tree, image, pc, strings, answer>>
        /\ beyond' = FALSE
    BY DEF EnterFolder, Advance, Straight
  <1>2. pc = "entries" /\ pc' = "entries" /\ strings = Strings BY <1>1, ReadingWhere
  <1>3. PICK all, todo, end, R, N :
          Walk(tree, Len(image), frames, diskPtr, all, todo, end, R, N)
    BY DEF Walking
  <1> DEFINE n == Len(frames)
             e == todo[n][1]
  <1>4. /\ n \in Nat /\ n >= 2 /\ frames \in Seq(FrameOf(N))
        /\ Chain(tree, Len(image), frames, all, todo, end, R, N)
        /\ todo[n] \in Lists /\ Len(todo[n]) > 0 /\ end[n] \in Nat
        /\ Lay(Full, todo[n], diskPtr, end[n])
        /\ e.name \in Names /\ e.folder \in BOOLEAN
    BY <1>1, <1>3, BeforeEntry
  <1>5. diskPtr \in Nat /\ Len(Full) \in Nat BY Facts
  <1>6. e.folder
    <2>1. Field(1) \ {0} # {} /\ Field(1) = {Full[diskPtr + 1]}
      BY <1>1, FieldIsPacked DEF EnterFolder
    <2>2. CASE ~e.folder
      <3>1. Full[diskPtr + 1] = 0 BY <1>4, <1>5, <2>2, FileFields
      <3> QED BY <2>1, <3>1
    <2> QED BY <1>4, <2>2
  <1>7. /\ diskPtr + 4 <= Len(Full)
        /\ Full[diskPtr + 3] = Offset(e.name) /\ Full[diskPtr + 4] = Len(e.entries)
    BY <1>4, <1>5, <1>6, FolderFields
  <1>8. PICK r \in Nat : Lay(Full, e.entries, diskPtr + 4, r) /\ Lay(Full, Tail(todo[n]), r, end[n])
    BY <1>4, <1>5, <1>6, FolderLies
  <1>9. Field(3) = {Offset(e.name)} /\ Field(4) = {Len(e.entries)}
    BY <1>1, <1>7, FieldIsPacked
  <1>10. NameAt(Offset(e.name)) = e.name /\ e.name \in Nat
    BY <1>2, <1>4, NameOfOffset
  <1>11. e.entries \in Lists /\ e.entries \in Seq(Item) /\ Len(e.entries) \in Nat
    <2>1. todo[n] \in Seq(Item) /\ 1 \in 1 .. Len(todo[n]) BY <1>4, ItemOfList
    <2>2. e.entries \in Lists BY <1>4, <1>6, <2>1, ItemOfList
    <2>3. e.entries \in Seq(Item) BY <2>2, ItemOfList
    <2> QED BY <2>2, <2>3
  <1> DEFINE new == Frame(e.name, Len(e.entries))
             fs == Append(frames, new)
             p == diskPtr + 4
             all2 == [i \in 2 .. n + 1 |-> IF i = n + 1 THEN e.entries ELSE all[i]]
             todo2 == [i \in 2 .. n + 1 |-> IF i = n + 1 THEN e.entries ELSE todo[i]]
             end2 == [i \in 2 .. n + 1 |-> IF i = n + 1 THEN r ELSE end[i]]
  <1>12. frames' = fs /\ diskPtr' = p BY <1>9, <1>10 DEF EnterFolder
  <1>13. new \in FrameOf(N) /\ new.name = e.name /\ new.left = Len(e.entries) /\ new.entries = <<>>
    BY <1>10, <1>11 DEF Frame, FrameOf
  <1>14. /\ all2[n + 1] = e.entries /\ todo2[n + 1] = e.entries /\ end2[n + 1] = r
         /\ \A i \in 2 .. n : all2[i] = all[i] /\ todo2[i] = todo[i] /\ end2[i] = end[i]
    BY <1>4
  <1> HIDE DEF new, all2, todo2, end2
  <1>15. /\ fs \in Seq(FrameOf(N)) /\ Len(fs) = n + 1 /\ fs[n + 1] = new
         /\ \A i \in 1 .. n : fs[i] = frames[i]
    BY <1>4, <1>13
  <1> HIDE DEF fs, n, e
  <1>16. Chain(tree, Len(image), fs, all2, todo2, end2, R, N)
    <2>1. fs[1] = Frame(0, 1) /\ all2[2] = tree /\ end2[2] = Len(Pack(tree))
      <3>1. frames[1] = Frame(0, 1) /\ all[2] = tree /\ end[2] = Len(Pack(tree))
        BY <1>4 DEF Chain
      <3>2. n \in Nat /\ n >= 2 BY <1>4 DEF n
      <3>3. 1 \in 1 .. n /\ 2 \in 2 .. n BY <3>2
      <3> QED BY <1>14, <1>15, <3>1, <3>3
    <2>2. ASSUME NEW i \in 2 .. n + 1
          PROVE  Halfway(fs[i], all2[i], todo2[i], R) /\ end2[i] \in Nat
      <3>1. CASE i = n + 1
        <4>1. Len(new.entries) = 0 BY <1>13
        <4>2. \A k \in 1 .. Len(e.entries) : e.entries[k] = e.entries[0 + k] BY <1>11
        <4>3. Halfway(new, e.entries, e.entries, R) BY <1>11, <1>13, <4>1, <4>2 DEF Halfway
        <4> QED BY <3>1, <4>3, <1>14, <1>15
      <3>2. CASE i # n + 1
        <4>1. i \in 2 .. n BY <3>2, <1>4 DEF n
        <4>2. Halfway(frames[i], all[i], todo[i], R) /\ end[i] \in Nat
          BY <4>1, <1>4 DEF Chain, n
        <4>3. i \in 1 .. n BY <4>1
        <4> QED BY <4>1, <4>2, <4>3, <1>14, <1>15
      <3> QED BY <3>1, <3>2
    <2>3. ASSUME NEW i \in 2 .. n
          PROVE  /\ Len(todo2[i]) > 0 /\ todo2[i][1].folder
                 /\ all2[i + 1] = todo2[i][1].entries /\ fs[i + 1].name = todo2[i][1].name
                 /\ Lay(Pack(tree), Tail(todo2[i]), end2[i + 1], end2[i])
      <3>1. CASE i = n
        <4>1. Lay(Pack(tree), Tail(todo[n]), r, end[n]) BY <1>8, Facts
        <4>2. todo[n][1] = e /\ Len(todo[n]) > 0 BY <1>4 DEF e, n
        <4>3. todo2[n] = todo[n] /\ end2[n] = end[n] BY <1>4, <1>14 DEF n
        <4> QED BY <3>1, <4>1, <4>2, <4>3, <1>6, <1>13, <1>14, <1>15
      <3>2. CASE i # n
        <4>1. i \in 2 .. n - 1 /\ i + 1 \in 2 .. n /\ i + 1 \in 1 .. n BY <3>2, <1>4 DEF n
        <4>2. /\ Len(todo[i]) > 0 /\ todo[i][1].folder
              /\ all[i + 1] = todo[i][1].entries /\ frames[i + 1].name = todo[i][1].name
              /\ Lay(Pack(tree), Tail(todo[i]), end[i + 1], end[i])
          BY <4>1, <1>4 DEF Chain, n
        <4> QED BY <4>1, <4>2, <1>14, <1>15
      <3> QED BY <3>1, <3>2
    <2>4. Mirrors(tree, Len(image), R) BY <1>4 DEF Chain
    <2>5. n \in Nat /\ n >= 2 /\ n + 1 - 1 = n BY <1>4 DEF n
    <2> QED BY <1>15, <2>1, <2>2, <2>3, <2>4, <2>5 DEF Chain
  <1>17. Lay(Pack(tree), todo2[Len(fs)], p, end2[Len(fs)]) BY <1>8, <1>14, <1>15, Facts
  <1>18. Walking(tree, Len(image), frames', diskPtr')
    <2>1. Walk(tree, Len(image), fs, p, all2, todo2, end2, R, N) BY <1>16, <1>17 DEF Walk
    <2> QED BY <2>1, <1>12 DEF Walking
  <1>19. Typed(frames')
    <2>1. Typed(frames) /\ DOMAIN frames = 1 .. n /\ DOMAIN fs = 1 .. n + 1 /\ n \in Nat
      BY <1>4, <1>15, Facts DEF n
    <2>2. ASSUME NEW i \in 1 .. n + 1
          PROVE fs[i].left \in Nat /\ \A j \in DOMAIN fs[i].entries : Entry(fs[i].entries[j])
      <3>1. CASE i = n + 1 BY <3>1, <1>11, <1>13, <1>15
      <3>2. CASE i # n + 1
        <4>1. i \in 1 .. n BY <3>2, <2>1
        <4> QED BY <4>1, <2>1, <1>15 DEF Typed
      <3> QED BY <3>1, <3>2
    <2> QED BY <2>1, <2>2, <1>12 DEF Typed
  <1>20. diskPtr' \in 0 .. Len(Full) BY <1>5, <1>7, <1>12
  <1> QED BY <1>1, <1>2, <1>18, <1>19, <1>20, Onwards

\* ReadEntry finds a folder on the disk.
LEMMA EnterFolderStep == ASSUME Straight, EnterFolder, OnDisk(diskPtr, 4) PROVE Straight'
  BY ReadingWhere, EnterRoot, EnterInner DEF EnterFolder

\* ReadEntry finds a file (ark.c:116-118): what it builds is the file that the
\* tree has there, and the reader comes to stand behind its contents.
LEMMA PassFileStep == ASSUME Straight, PassFile, OnDisk(diskPtr, 3) PROVE Straight'
  <1>1. /\ Reading /\ OnDisk(diskPtr, 3) /\ UNCHANGED <<tree, image, pc, strings, answer>>
        /\ beyond' = FALSE
    BY DEF PassFile, Advance, Straight
  <1>2. pc = "entries" /\ pc' = "entries" /\ strings = Strings BY <1>1, ReadingWhere
  <1>3. Full[diskPtr + 1] = 0
    <2>1. 0 \in Field(1) /\ Field(1) = {Full[diskPtr + 1]} BY <1>1, FieldIsPacked DEF PassFile
    <2> QED BY <2>1
  <1>4. ~Opened(frames, diskPtr)
    <2>1. tree \in Trees /\ Full = Pack(tree) BY Facts
    <2>2. Full[5 + Len(Strings)] = 1 BY <2>1, FullImage
    <2>3. Opened(frames, diskPtr) => diskPtr + 1 = 5 + Len(Strings)
      BY StringsAreNumbers DEF Opened
    <2> QED BY <1>3, <2>2, <2>3
  <1>5. Walking(tree, Len(image), frames, diskPtr) BY <1>1, <1>4, ReadingWhere
  <1>6. PICK all, todo, end, R, N :
          Walk(tree, Len(image), frames, diskPtr, all, todo, end, R, N)
    BY <1>5 DEF Walking
  <1> DEFINE n == Len(frames)
             e == todo[n][1]
  <1>7. /\ n \in Nat /\ n >= 2 /\ frames \in Seq(FrameOf(N))
        /\ Chain(tree, Len(image), frames, all, todo, end, R, N)
        /\ todo[n] \in Lists /\ Len(todo[n]) > 0 /\ end[n] \in Nat
        /\ Lay(Full, todo[n], diskPtr, end[n])
        /\ e.name \in Names /\ e.folder \in BOOLEAN
    BY <1>1, <1>6, BeforeEntry
  <1>8. diskPtr \in Nat /\ Len(Full) \in Nat BY Facts
  <1>9. ~e.folder
    <2>1. CASE e.folder
      <3>1. Full[diskPtr + 1] = 1 BY <1>7, <1>8, <2>1, FolderFields
      <3> QED BY <1>3, <3>1
    <2> QED BY <1>7, <2>1
  <1>10. e.data \in Seq(Nat) /\ Len(e.data) \in Nat
    <2>1. todo[n] \in Seq(Item) /\ 1 \in 1 .. Len(todo[n]) BY <1>7, ItemOfList
    <2>2. e.data \in Seq(Nat) BY <1>7, <1>9, <2>1, ItemOfList
    <2> QED BY <2>2
  <1>11. /\ diskPtr + 3 + Len(e.data) <= Len(Full)
         /\ Full[diskPtr + 2] = Len(e.data) /\ Full[diskPtr + 3] = Offset(e.name)
         /\ Lies(Full, e.data, diskPtr + 3)
         /\ Lay(Full, Tail(todo[n]), diskPtr + 3 + Len(e.data), end[n])
    <2>1. /\ diskPtr + 3 + Len(e.data) <= Len(Full)
          /\ Full[diskPtr + 2] = Len(e.data) /\ Full[diskPtr + 3] = Offset(e.name)
      BY <1>7, <1>8, <1>9, FileFields
    <2>2. /\ Lies(Full, e.data, diskPtr + 3)
          /\ Lay(Full, Tail(todo[n]), diskPtr + 3 + Len(e.data), end[n])
      BY <1>7, <1>8, <1>9, FileLies
    <2> QED BY <2>1, <2>2
  <1>12. Field(2) = {Len(e.data)} /\ Field(3) = {Offset(e.name)}
    BY <1>1, <1>11, FieldIsPacked
  <1>13. NameAt(Offset(e.name)) = e.name /\ e.name \in Nat BY <1>2, <1>7, NameOfOffset
  <1> DEFINE b == [name |-> e.name, folder |-> FALSE,
                   size |-> Len(e.data), contentsOffset |-> diskPtr + 3]
             p == diskPtr + 3 + Len(e.data)
  <1>14. frames' = Attached(frames, b) BY <1>12, <1>13 DEF PassFile, File
  <1>15. diskPtr' = p
    <2>1. diskPtr' = (diskPtr + 3 + Len(e.data)) % MaxWord BY <1>12 DEF PassFile
    <2> DEFINE l == Len(e.data)
    <2>4. l \in Nat /\ diskPtr + 3 + l <= Len(Full) /\ Len(Full) < MaxWord /\ MaxWord \in Nat
      BY <1>10, <1>11, Facts
    <2> HIDE DEF l, n, e
    <2>5. diskPtr + 3 + l \in 0 .. MaxWord - 1 BY ONLY <1>8, <2>4
    <2>2. p \in 0 .. MaxWord - 1 /\ MaxWord \in Nat BY <2>4, <2>5 DEF l
    <2> HIDE DEF p
    <2>3. p % MaxWord = p BY <2>2
    <2> QED BY <2>1, <2>3 DEF p
  <1>16. Mirror(tree, Len(image), R, b, e)
    <2>1. diskPtr + 3 \in 0 .. Len(image) BY <1>1, <1>8, Facts DEF OnDisk
    <2>2. Lies(Pack(tree), e.data, diskPtr + 3) BY <1>11, Facts
    <2>3. /\ b.folder = FALSE /\ b.size = Len(e.data) /\ b.contentsOffset = diskPtr + 3
      OBVIOUS
    <2>4. e.folder = FALSE BY <1>7, <1>9
    <2> HIDE DEF b, n, e
    <2> QED BY <1>10, <2>1, <2>2, <2>3, <2>4 DEF Mirror
  <1>17. b.name = e.name /\ Entry(b) BY <1>13 DEF Entry
  <1>18. Lay(Pack(tree), Tail(todo[n]), p, end[n]) BY <1>11, Facts
  <1>19. tree \in Trees /\ Typed(frames) BY Facts
  <1> HIDE DEF b, p
  <1>20. Walking(tree, Len(image), frames', diskPtr')
    <2>1. Walking(tree, Len(image), Attached(frames, b), p)
      BY <1>7, <1>16, <1>17, <1>18, <1>19, AttachStep
    <2> QED BY <2>1, <1>14, <1>15
  <1>21. Typed(frames')
    <2>1. frames[n].left > 0 /\ n > 0 BY <1>1, <1>7 DEF Reading, Top
    <2> QED BY <2>1, <1>7, <1>14, <1>17, <1>19, AttachedTyped
  <1>22. diskPtr' \in 0 .. Len(Full)
    <2> DEFINE l == Len(e.data)
    <2>1. l \in Nat /\ diskPtr + 3 + l <= Len(Full) /\ diskPtr' = diskPtr + 3 + l
      BY <1>10, <1>11, <1>15 DEF p
    <2> HIDE DEF l
    <2> QED BY ONLY <1>8, <2>1
  <1> QED BY <1>1, <1>2, <1>20, <1>21, <1>22, Onwards

\* A complete image never fails the reader (ark.c:88-96): before the root and
\* before every entry there is one, with an offset that is good.
LEMMA EntryFailsStep == ASSUME Straight, EntryFails PROVE Straight'
  <1>1. Reading /\ UNCHANGED <<tree, image, diskPtr, strings, frames, answer, beyond>>
    BY DEF EntryFails
  <1>2. Cut' /\ (Complete' <=> Complete) BY <1>1, Steady DEF Straight
  <1>3. strings = Strings BY <1>1, ReadingWhere
  <1>4. Complete => /\ OnDisk(diskPtr, 3) /\ \A o \in Field(3) : o <= Len(strings)
                    /\ Field(1) \ {0} # {} => OnDisk(diskPtr, 4)
    <2> SUFFICES ASSUME Complete
                 PROVE  /\ OnDisk(diskPtr, 3) /\ \A o \in Field(3) : o <= Len(strings)
                        /\ Field(1) \ {0} # {} => OnDisk(diskPtr, 4)
      OBVIOUS
    <2>1. Len(image) = Len(Full) /\ Len(Full) \in Nat /\ diskPtr \in Nat BY Facts
    <2>2. CASE Opened(frames, diskPtr)
      <3>1. tree \in Trees /\ Full = Pack(tree) BY Facts
      <3>2. Full[7 + Len(Strings)] = 0 /\ 8 + Len(Strings) <= Len(Full)
            /\ Len(Strings) \in Nat
        BY <3>1, FullImage, StringsAreNumbers
      <3>3. OnDisk(diskPtr, 3) /\ OnDisk(diskPtr, 4)
        BY <2>1, <2>2, <3>2 DEF OnDisk, Opened
      <3>4. Field(3) = {Full[diskPtr + 3]} BY <3>3, FieldIsPacked
      <3>5. diskPtr + 3 = 7 + Len(Strings) BY <2>2, <3>2 DEF Opened
      <3> QED BY <3>2, <3>3, <3>4, <3>5, <1>3
    <2>3. CASE Walking(tree, Len(image), frames, diskPtr)
      <3>1. PICK all, todo, end, R, N :
              Walk(tree, Len(image), frames, diskPtr, all, todo, end, R, N)
        BY <2>3 DEF Walking
      <3> DEFINE n == Len(frames)
                 e == todo[n][1]
      <3>2. /\ todo[n] \in Lists /\ Len(todo[n]) > 0
            /\ Lay(Full, todo[n], diskPtr, end[n])
            /\ e.name \in Names /\ e.folder \in BOOLEAN
        BY <1>1, <3>1, BeforeEntry
      <3>3. Offset(e.name) <= Len(strings) BY <1>3, <3>2, NameOfOffset
      <3>4. CASE e.folder
        <4>1. diskPtr + 4 <= Len(Full) /\ Full[diskPtr + 3] = Offset(e.name)
          BY <2>1, <3>2, <3>4, FolderFields
        <4>2. OnDisk(diskPtr, 3) /\ OnDisk(diskPtr, 4) BY <2>1, <4>1 DEF OnDisk
        <4>3. Field(3) = {Offset(e.name)} BY <4>1, <4>2, FieldIsPacked
        <4> QED BY <3>3, <4>2, <4>3
      <3>5. CASE ~e.folder
        <4>1. /\ diskPtr + 3 + Len(e.data) <= Len(Full)
              /\ Full[diskPtr + 1] = 0 /\ Full[diskPtr + 3] = Offset(e.name)
          BY <2>1, <3>2, <3>5, FileFields
        <4>2. Len(e.data) \in Nat
          <5>1. todo[n] \in Seq(Item) /\ 1 \in 1 .. Len(todo[n]) BY <3>2, ItemOfList
          <5>2. e.data \in Seq(Nat) BY <3>2, <3>5, <5>1, ItemOfList
          <5> QED BY <5>2
        <4>3. OnDisk(diskPtr, 3)
          <5> DEFINE l == Len(e.data)
          <5>1. l \in Nat /\ diskPtr + 3 + l <= Len(image) BY <2>1, <4>1, <4>2
          <5> HIDE DEF l
          <5> QED BY <2>1, <5>1 DEF OnDisk
        <4>4. Field(3) = {Offset(e.name)} /\ Field(1) = {0} BY <4>1, <4>3, FieldIsPacked
        <4> QED BY <3>3, <4>3, <4>4
      <3> QED BY <3>2, <3>4, <3>5
    <2> QED BY <1>1, <2>2, <2>3, ReadingWhere
  <1>5. pc' \in {"failed", "aborted", "outside"} /\ ~Complete
    <2>1. Stopped \in {"outside", "aborted"}
      BY StoppedPlace DEF Straight, TypeOK
    <2>2. Complete => ~EntryFails
      <3>1. SUFFICES ASSUME Complete, EntryFails PROVE FALSE
        OBVIOUS
      <3>2. Got(3) /\ (Field(1) \ {0} # {} => Got(4))
        <4>1. tree \in Trees /\ diskPtr \in Nat BY Facts
        <4>2. Cut BY DEF Straight
        <4>3. diskPtr <= Len(image) BY <1>4, <3>1, <4>1, Facts DEF OnDisk
        <4> QED BY <1>4, <3>1, <4>1, <4>2, <4>3, GotOnDisk
      <3>3. \A o \in Field(3) : o \in Nat /\ o <= Len(strings) /\ Len(strings) \in Nat
        <4>1. OnDisk(diskPtr, 3) BY <1>4, <3>1
        <4>2. Field(3) = {Full[diskPtr + 3]} BY <4>1, FieldIsPacked
        <4>3. diskPtr + 3 \in 1 .. Len(Full) BY <4>1, Facts DEF OnDisk
        <4>4. Full \in Seq(Nat) BY Facts, FullImage
        <4>5. Full[diskPtr + 3] \in Nat BY <4>3, <4>4
        <4> QED BY <4>2, <4>5, <1>3, <1>4, <3>1, StringsAreNumbers
      <3> QED BY <3>1, <3>2, <3>3 DEF EntryFails
    <2> QED BY <2>1, <2>2 DEF EntryFails
  <1>6. TypeOK' BY <1>1, <1>5 DEF Straight, TypeOK, Place
  <1>7. Reached' BY <1>2, <1>5 DEF Reached
  <1>8. Answered' /\ beyond' = FALSE BY <1>1, <1>2 DEF Straight, Answered, Reading
  <1> QED BY <1>2, <1>6, <1>7, <1>8 DEF Straight

\* Read has its root (ark.c:149-155): it is that of the tree.
LEMMA MountStep == ASSUME Straight, Mount PROVE Straight'
  <1>1. /\ pc = "entries" /\ Len(frames) = 1 /\ frames[1].left = 0 /\ pc' = "mounted"
        /\ UNCHANGED <<tree, image, diskPtr, strings, frames, answer, beyond>>
    BY DEF Mount, Top
  <1>2. Cut' /\ (Complete' <=> Complete) BY <1>1, Steady DEF Straight
  <1>3. ~Opened(frames, diskPtr) BY <1>1 DEF Opened, Frame
  <1>4. ~Walking(tree, Len(image), frames, diskPtr) BY <1>1 DEF Walking, Walk, Chain
  <1>5. Whole(tree, Len(image), frames, diskPtr) BY <1>1, <1>3, <1>4 DEF Straight, Reached
  <1>6. TypeOK' BY <1>1 DEF Straight, TypeOK, Place
  <1>7. Reached' BY <1>1, <1>5 DEF Reached
  <1>8. Answered' /\ beyond' = FALSE BY <1>1, <1>2 DEF Straight, Answered
  <1> QED BY <1>2, <1>6, <1>7, <1>8 DEF Straight

\* A folder all of whose entries are built is the folder of the tree.
LEMMA FolderBuilt ==
  ASSUME NEW t, NEW m, NEW R, NEW fr, NEW es, NEW rest, NEW N,
         Halfway(fr, es, rest, R), Len(rest) = 0, fr.entries \in Seq(N),
         NEW b, b.folder = TRUE, b.entries = fr.entries,
         NEW e, e.folder = TRUE, e.entries = es
  PROVE  Mirror(t, m, R, b, e)
  <1>1. Len(es) = Len(fr.entries) /\ es \in Lists
    <2>1. Len(fr.entries) \in Nat /\ Len(es) = Len(fr.entries) + Len(rest) BY DEF Halfway
    <2> QED BY <2>1 DEF Halfway
  <1>2. DOMAIN b.entries = 1 .. Len(e.entries) BY <1>1
  <1>3. ASSUME NEW j \in 1 .. Len(e.entries)
        PROVE  /\ b.entries[j].name = e.entries[j].name
               /\ <<b.entries[j], e.entries[j]>> \in R
    BY <1>1 DEF Halfway
  <1> QED BY <1>1, <1>2, <1>3 DEF Mirror

\* The calls without the innermost one are calls too.
LEMMA OuterChain ==
  ASSUME NEW t, NEW m, NEW fs, NEW all, NEW todo, NEW end, NEW R, NEW N,
         Chain(t, m, fs, all, todo, end, R, N), Len(fs) > 2
  PROVE  LET n == Len(fs)
             outer == SubSeq(fs, 1, n - 1)
         IN  /\ Len(outer) = n - 1 /\ outer[n - 1] = fs[n - 1]
             /\ Chain(t, m, outer, all, todo, end, R, N)
             /\ Len(todo[n - 1]) > 0 /\ todo[n - 1][1].folder
             /\ all[n] = todo[n - 1][1].entries /\ fs[n].name = todo[n - 1][1].name
             /\ Lay(Pack(t), Tail(todo[n - 1]), end[n], end[n - 1])
  <1> DEFINE n == Len(fs)
             outer == SubSeq(fs, 1, n - 1)
  <1>1. fs \in Seq(FrameOf(N)) /\ n \in Nat /\ n > 2 BY DEF Chain
  <1>2. /\ outer \in Seq(FrameOf(N)) /\ Len(outer) = n - 1
        /\ \A i \in 1 .. n - 1 : outer[i] = fs[i]
    BY <1>1
  <1> HIDE DEF outer
  <1>3. n - 1 \in 2 .. n - 1 /\ (n - 1) + 1 = n /\ n - 1 \in 1 .. n - 1 /\ 1 \in 1 .. n - 1
    BY <1>1
  <1>4. ASSUME NEW i \in 2 .. n - 1
        PROVE  /\ Halfway(fs[i], all[i], todo[i], R) /\ end[i] \in Nat
               /\ Len(todo[i]) > 0 /\ todo[i][1].folder
               /\ all[i + 1] = todo[i][1].entries /\ fs[i + 1].name = todo[i][1].name
               /\ Lay(Pack(t), Tail(todo[i]), end[i + 1], end[i])
    <2>1. i \in 2 .. n BY <1>1
    <2> QED BY <2>1 DEF Chain
  <1>5. Chain(t, m, outer, all, todo, end, R, N)
    <2>1. fs[1] = Frame(0, 1) /\ all[2] = t /\ end[2] = Len(Pack(t)) /\ Mirrors(t, m, R)
      BY DEF Chain
    <2>2. outer[1] = Frame(0, 1) BY <2>1, <1>2, <1>3
    <2>3. ASSUME NEW i \in 2 .. n - 1
          PROVE  Halfway(outer[i], all[i], todo[i], R) /\ end[i] \in Nat
      <3>1. i \in 1 .. n - 1 BY <1>1
      <3> QED BY <3>1, <1>2, <1>4
    <2>4. ASSUME NEW i \in 2 .. n - 1 - 1
          PROVE  /\ Len(todo[i]) > 0 /\ todo[i][1].folder
                 /\ all[i + 1] = todo[i][1].entries /\ outer[i + 1].name = todo[i][1].name
                 /\ Lay(Pack(t), Tail(todo[i]), end[i + 1], end[i])
      <3>1. i \in 2 .. n - 1 /\ i + 1 \in 1 .. n - 1 BY <1>1
      <3>2. outer[i + 1] = fs[i + 1] BY <3>1, <1>2
      <3> QED BY <3>1, <3>2, <1>4
    <2>5. Len(outer) >= 2 BY <1>1, <1>2
    <2> QED BY <1>2, <2>1, <2>2, <2>3, <2>4, <2>5 DEF Chain
  <1>6. outer[n - 1] = fs[n - 1] BY <1>2, <1>3
  <1> QED BY <1>2, <1>3, <1>4, <1>5, <1>6 DEF outer

\* ReadEntry has read the entries of a folder (ark.c:106-121): the folder is the one
\* of the tree, and the outer call goes on behind it, or is Read and has its root.
LEMMA LeaveFolderStep == ASSUME Straight, LeaveFolder PROVE Straight'
  <1> DEFINE n == Len(frames)
             outer == SubSeq(frames, 1, n - 1)
             b == [name |-> frames[n].name, folder |-> TRUE, entries |-> frames[n].entries]
             m == Len(image)
  <1>1. /\ pc = "entries" /\ pc' = "entries" /\ n > 1 /\ frames[n].left = 0
        /\ frames' = Attached(outer, b)
        /\ UNCHANGED <<tree, image, diskPtr, strings, answer>> /\ beyond' = FALSE
    BY DEF LeaveFolder, Top, Straight
  <1>2. tree \in Trees /\ Full = Pack(tree) /\ Typed(frames) /\ diskPtr \in Nat BY Facts
  <1>3. Walking(tree, m, frames, diskPtr)
    <2>1. ~Opened(frames, diskPtr) BY <1>1 DEF Opened
    <2>2. ~Whole(tree, m, frames, diskPtr) BY <1>1 DEF Whole
    <2> QED BY <1>1, <2>1, <2>2 DEF Straight, Reached
  <1>4. PICK all, todo, end, R, N : Walk(tree, m, frames, diskPtr, all, todo, end, R, N)
    BY <1>3 DEF Walking
  <1>5. /\ Chain(tree, m, frames, all, todo, end, R, N)
        /\ Lay(Pack(tree), todo[n], diskPtr, end[n])
    BY <1>4 DEF Walk
  <1>6. frames \in Seq(FrameOf(N)) /\ n \in Nat /\ n >= 2 /\ Mirrors(tree, m, R)
    BY <1>5 DEF Chain
  <1>7. n \in 2 .. n BY <1>6
  <1>8. Halfway(frames[n], all[n], todo[n], R) /\ end[n] \in Nat BY <1>5, <1>7 DEF Chain
  <1>9. frames[n] \in FrameOf(N) BY <1>6
  <1>10. frames[n].entries \in Seq(N) /\ frames[n].name \in Nat BY <1>9 DEF FrameOf
  <1>11. Len(todo[n]) = 0 /\ todo[n] \in Lists BY <1>1, <1>8 DEF Halfway
  <1>12. end[n] = diskPtr
    <2>1. todo[n] = <<>> BY <1>11, ItemOfList
    <2>2. PackAll(todo[n]) = <<>> BY <1>11, <2>1, ArchiverAssumption
    <2>3. end[n] = diskPtr + 0 BY <1>5, <2>2 DEF Lay
    <2> QED BY <2>3, <1>2
  <1>13. b.name = frames[n].name /\ b.folder = TRUE /\ b.entries = frames[n].entries
    OBVIOUS
  <1>14. Entry(b)
    <2>1. b.name \in Nat /\ b.folder \in BOOLEAN BY <1>10
    <2> HIDE DEF b
    <2> QED BY <2>1 DEF Entry
  <1> HIDE DEF b
  <1>15. /\ outer \in Seq(FrameOf(N)) /\ Len(outer) = n - 1 /\ Len(outer) > 0
         /\ \A i \in 1 .. n - 1 : outer[i] = frames[i]
    BY <1>6
  <1>16. Typed(outer)
    <2>1. DOMAIN outer = 1 .. n - 1 /\ DOMAIN frames = 1 .. n BY <1>6, <1>15
    <2> HIDE DEF outer, n
    <2>2. \A i \in 1 .. n - 1 : i \in 1 .. n BY <1>6
    <2> QED BY <1>2, <1>15, <2>1, <2>2 DEF Typed
  <1> HIDE DEF outer, m
  <1>17. diskPtr' \in 0 .. Len(Full)
    <2>1. diskPtr + Len(PackAll(todo[n])) <= Len(Full) BY <1>2, <1>5 DEF Lay, Lies
    <2>2. end[n] = diskPtr + Len(PackAll(todo[n])) BY <1>5 DEF Lay
    <2>3. diskPtr <= Len(Full) BY <1>12, <2>1, <2>2
    <2>4. Len(Full) \in Nat BY Facts
    <2> QED BY <1>1, <1>2, <2>3, <2>4
  <1>18. CASE n = 2
    <2>1. frames[1] = Frame(0, 1) /\ all[2] = tree /\ end[2] = Len(Pack(tree))
      BY <1>5 DEF Chain
    <2>2. outer[1] = Frame(0, 1) /\ Len(outer) = 1
      <3>1. 1 \in 1 .. n - 1 BY <1>18
      <3> QED BY <3>1, <1>15, <1>18, <2>1
    <2>3. outer[1].left = 1 /\ outer[1].name = 0 /\ outer[1].entries = <<>> BY <2>2 DEF Frame
    <2> DEFINE new == Attached(outer, b)
    <2>4. outer[Len(outer)].left > 0 BY <2>2, <2>3
    <2>5. new \in Seq(FrameOf(N \cup {b})) /\ Len(new) = 1
          /\ new[1] = [name |-> outer[1].name, left |-> outer[1].left - 1,
                       entries |-> Append(outer[1].entries, b)]
      <3>1. /\ new \in Seq(FrameOf(N \cup {b})) /\ Len(new) = Len(outer)
            /\ new[Len(outer)] = [name |-> outer[Len(outer)].name,
                                  left |-> outer[Len(outer)].left - 1,
                                  entries |-> Append(outer[Len(outer)].entries, b)]
        BY <1>15, <2>4, AttachedFields
      <3> HIDE DEF new
      <3> QED BY <3>1, <2>2
    <2> HIDE DEF new
    <2>6. new[1].left = 0 /\ new[1].entries = <<b>> BY <2>3, <2>5
    <2>7. new[1].entries[1] = b /\ Len(new[1].entries) = 1 BY <2>6
    <2>8. Mirror(tree, m, R, b, RootItem(tree))
      <3>1. RootItem(tree).folder = TRUE /\ RootItem(tree).entries = all[n]
        BY <1>18, <2>1 DEF RootItem
      <3> QED BY <3>1, <1>8, <1>10, <1>11, <1>13, FolderBuilt
    <2>9. Mirrors(tree, m, R \cup {<<b, RootItem(tree)>>}) BY <1>6, <2>8, MirrorsMore
    <2>10. Whole(tree, m, new, diskPtr)
      <3>1. b.name \in Nat BY <1>10, <1>13
      <3>2. <<b, RootItem(tree)>> \in R \cup {<<b, RootItem(tree)>>} OBVIOUS
      <3>3. diskPtr = Len(Pack(tree)) BY <1>12, <1>18, <2>1
      <3> QED BY <2>5, <2>6, <2>7, <2>9, <3>1, <3>2, <3>3 DEF Whole
    <2>11. Whole(tree, m, frames', diskPtr') BY <1>1, <2>10 DEF new
    <2>12. Typed(frames') BY <1>1, <1>14, <1>15, <1>16, <2>4, AttachedTyped
    <2> QED BY <1>1, <1>17, <2>11, <2>12, Onwards DEF m
  <1>19. CASE n > 2
    <2> DEFINE e == todo[n - 1][1]
    <2>1. /\ Len(outer) = n - 1 /\ outer[n - 1] = frames[n - 1]
          /\ Chain(tree, m, outer, all, todo, end, R, N)
          /\ Len(todo[n - 1]) > 0 /\ e.folder
          /\ all[n] = e.entries /\ frames[n].name = e.name
          /\ Lay(Pack(tree), Tail(todo[n - 1]), end[n], end[n - 1])
      BY <1>5, <1>19, OuterChain DEF outer
    <2>2. n - 1 \in 2 .. n BY <1>6, <1>19
    <2>3. Halfway(frames[n - 1], all[n - 1], todo[n - 1], R) BY <1>5, <2>2 DEF Chain
    <2>4. outer[Len(outer)].left > 0 BY <2>1, <2>3 DEF Halfway
    <2>5. e.folder = TRUE
      <3>1. todo[n - 1] \in Lists BY <2>3 DEF Halfway
      <3>2. todo[n - 1] \in Seq(Item) /\ 1 \in 1 .. Len(todo[n - 1]) BY <2>1, <3>1, ItemOfList
      <3>3. e.folder \in BOOLEAN BY <3>1, <3>2, ItemOfList
      <3> QED BY <2>1, <3>3
    <2>6. Mirror(tree, m, R, b, e) BY <1>8, <1>10, <1>11, <1>13, <2>1, <2>5, FolderBuilt
    <2>7. Lay(Pack(tree), Tail(todo[n - 1]), diskPtr, end[n - 1]) BY <1>12, <2>1
    <2>8. b.name = e.name BY <1>13, <2>1
    <2>9. Walking(tree, m, Attached(outer, b), diskPtr)
      <3>1. /\ Len(todo[Len(outer)]) > 0 /\ b.name = todo[Len(outer)][1].name
            /\ Mirror(tree, m, R, b, todo[Len(outer)][1])
            /\ Lay(Pack(tree), Tail(todo[Len(outer)]), diskPtr, end[Len(outer)])
        BY <2>1, <2>6, <2>7, <2>8
      <3> QED BY <1>2, <2>1, <3>1, AttachStep
    <2>10. Walking(tree, m, frames', diskPtr') BY <1>1, <2>9
    <2>11. Typed(frames') BY <1>1, <1>14, <1>15, <1>16, <2>4, AttachedTyped
    <2> QED BY <1>1, <1>17, <2>10, <2>11, Onwards DEF m
  <1>20. n = 2 \/ n > 2
    <2> HIDE DEF n
    <2> QED BY <1>6
  <1> QED BY <1>18, <1>19, <1>20

-----------------------------------------------------------------------------
(* Looking a path up, in what has been built and in the tree *)

\* Every set of numbers that is not empty has a least one.
LEMMA LeastNumber ==
  ASSUME NEW T, T \subseteq Nat, T # {}
  PROVE  \E m \in T : \A n \in T : m <= n
  <1>1. PICK m \in T : \A n \in T : ~ (<<n, m>> \in OpToRel(<, Nat))
    BY NatLessThanWellFounded, WFMin
  <1>2. \A n \in T : ~ (n < m) BY <1>1 DEF OpToRel
  <1> QED BY <1>2

\* Induction, for a set of numbers.
LEMMA AllNumbers ==
  ASSUME NEW T, T \subseteq Nat, 0 \in T, \A n \in T : n + 1 \in T
  PROVE  T = Nat
  <1> SUFFICES ASSUME Nat \ T # {} PROVE FALSE
    OBVIOUS
  <1>1. PICK m \in Nat \ T : \A n \in Nat \ T : m <= n
    BY LeastNumber
  <1>2. m - 1 \in Nat /\ m = (m - 1) + 1 BY <1>1
  <1>3. m - 1 \in T BY <1>1, <1>2
  <1> QED BY <1>1, <1>2, <1>3

\* One name further: from folders that have been built, and from the tree's.
Further(S, name) == {e \in UNION {GetEntryInDir(dir, name) : dir \in S} : e.folder}
Beneath(S, name) == UNION {Entered(e, name) : e \in {e \in S : e.folder}}

\* The two lookups, name by name from the root.
Lookup(built, root, path, d, n) ==
  IF n = 0 THEN {root}
  ELSE IF built THEN Further(d[n - 1], path[n]) ELSE Beneath(d[n - 1], path[n])

IsLookup(built, root, path, m, d) == d = [n \in 0 .. m |-> Lookup(built, root, path, d, n)]

\* The recursion of a lookup has a solution.
LEMMA LookupExists ==
  ASSUME NEW built, NEW root, NEW path, NEW m \in Nat
  PROVE  \E d : IsLookup(built, root, path, m, d)
  <1> DEFINE T == {k \in Nat : \E d : d = [n \in 0 .. k |-> Lookup(built, root, path, d, n)]}
  <1>1. 0 \in T
    <2> DEFINE d == [n \in 0 .. 0 |-> {root}]
    <2>1. \A n \in 0 .. 0 : Lookup(built, root, path, d, n) = {root} BY DEF Lookup
    <2>2. d = [n \in 0 .. 0 |-> Lookup(built, root, path, d, n)] BY <2>1
    <2> HIDE DEF d
    <2> QED BY <2>2
  <1>2. ASSUME NEW k \in T PROVE k + 1 \in T
    <2>1. PICK d : d = [n \in 0 .. k |-> Lookup(built, root, path, d, n)] BY <1>2
    <2>2. k \in Nat OBVIOUS
    <2> DEFINE c == [n \in 0 .. k + 1 |-> IF n = k + 1 THEN Lookup(built, root, path, d, k + 1)
                                          ELSE d[n]]
    <2>3. ASSUME NEW n \in 0 .. k + 1 PROVE c[n] = Lookup(built, root, path, c, n)
      <3>1. \A j \in 0 .. k : c[j] = d[j] BY <2>2
      <3>2. CASE n = k + 1
        <4>1. c[n] = Lookup(built, root, path, d, n) BY <3>2
        <4>2. c[n - 1] = d[n - 1] BY <3>1, <3>2, <2>2
        <4> HIDE DEF c
        <4> QED BY <4>1, <4>2 DEF Lookup
      <3>3. CASE n # k + 1
        <4>1. n \in 0 .. k /\ c[n] = d[n] BY <3>1, <3>3, <2>2
        <4>2. d[n] = Lookup(built, root, path, d, n) BY <4>1, <2>1
        <4>3. n # 0 => c[n - 1] = d[n - 1] BY <3>1, <4>1, <2>2
        <4> HIDE DEF c
        <4> QED BY <4>1, <4>2, <4>3 DEF Lookup
      <3> QED BY <3>2, <3>3
    <2>4. c = [n \in 0 .. k + 1 |-> Lookup(built, root, path, c, n)] BY <2>3
    <2> HIDE DEF c
    <2> QED BY <2>2, <2>4
  <1>3. T \subseteq Nat OBVIOUS
  <1> HIDE DEF T
  <1>4. T = Nat BY <1>1, <1>2, <1>3, AllNumbers
  <1> QED BY <1>4 DEF T, IsLookup

\* Dir is the lookup in what has been built.
LEMMA DirIsLookup ==
  ASSUME NEW path \in Seq(Nat)
  PROVE  IsLookup(TRUE, Root, path, Len(path), Dir(path))
  <1> DEFINE r == Root
             d == CHOOSE x : IsLookup(TRUE, r, path, Len(path), x)
  <1>1. Dir(path) = d BY Zenon DEF Dir, IsLookup, Lookup, Further
  <1>2. Len(path) \in Nat OBVIOUS
  <1> HIDE DEF r
  <1>3. \E x : IsLookup(TRUE, r, path, Len(path), x) BY <1>2, LookupExists
  <1>4. IsLookup(TRUE, r, path, Len(path), d) BY <1>3, Zenon
  <1> HIDE DEF d
  <1> QED BY <1>1, <1>4 DEF r

\* What At says of what a lookup has found.
What(there) ==
  IF there = {} THEN Nothing
  ELSE LET e == CHOOSE e \in there : TRUE IN IF e.folder THEN Folder ELSE e.data

\* At is the lookup in the tree.
LEMMA AtIsLookup ==
  ASSUME NEW es, NEW path \in Seq(Nat)
  PROVE  \E on : /\ IsLookup(FALSE, RootItem(es), path, Len(path), on)
                 /\ At(es, path) = What(on[Len(path)])
  <1> DEFINE d == CHOOSE x : IsLookup(FALSE, RootItem(es), path, Len(path), x)
             c == CHOOSE x : x = [n \in 0 .. Len(path) |->
                    IF n = 0 THEN {[folder |-> TRUE, entries |-> es]}
                    ELSE UNION {Entered(e, path[n]) : e \in {e \in x[n - 1] : e.folder}}]
  <1>1. At(es, path) = What(c[Len(path)]) BY Zenon DEF At, What
  <1>2. c = d BY Zenon DEF IsLookup, Lookup, Beneath, RootItem
  <1>3. Len(path) \in Nat OBVIOUS
  <1> HIDE DEF c
  <1>4. \E x : IsLookup(FALSE, RootItem(es), path, Len(path), x) BY <1>3, LookupExists
  <1>5. IsLookup(FALSE, RootItem(es), path, Len(path), d) BY <1>4, Zenon
  <1> HIDE DEF d
  <1> QED BY <1>1, <1>2, <1>5

\* A lookup in what has been built and one in the tree agree: neither finds
\* anything, or each finds one, and they are a pair.
Paired(A, B, R) ==
  \/ A = {} /\ B = {}
  \/ \E b, e : A = {b} /\ B = {e} /\ <<b, e>> \in R

\* The first entry of a name is the same in a folder that has been built and in
\* that of the tree (ark.c:172-183).
LEMMA SameEntry ==
  ASSUME NEW t, NEW m, NEW R, NEW b, NEW e, Mirror(t, m, R, b, e), e.folder, NEW name
  PROVE  Paired(GetEntryInDir(b, name), Entered(e, name), R)
  <1> DEFINE k == Len(e.entries)
             I == Named(e, name)
             J == {i \in DOMAIN b.entries : b.entries[i].name = name}
             first == {i \in I : \A j \in I : i <= j}
             here == {i \in DOMAIN b.entries :
                        /\ b.entries[i].name = name
                        /\ \A j \in 1 .. i - 1 : b.entries[j].name # name}
  <1>1. e.entries \in Lists /\ DOMAIN b.entries = 1 .. k BY DEF Mirror
  <1>2. e.entries \in Seq(Item) BY <1>1, ItemOfList
  <1>3. k \in Nat /\ DOMAIN e.entries = 1 .. k BY <1>2
  <1>4. \A j \in 1 .. k : /\ b.entries[j].name = e.entries[j].name
                          /\ <<b.entries[j], e.entries[j]>> \in R
    BY DEF Mirror
  <1>5. I = J /\ I \subseteq 1 .. k BY <1>1, <1>3, <1>4 DEF Named
  <1>6. GetEntryInDir(b, name) = {b.entries[i] : i \in here} BY DEF GetEntryInDir
  <1>7. Entered(e, name) = {e.entries[i] : i \in first} BY DEF Entered
  <1>8. first = here
    <2>1. \A i \in 1 .. k : i \in I <=> b.entries[i].name = name BY <1>1, <1>5
    <2> HIDE DEF I, k
    <2>2. ASSUME NEW i \in first PROVE i \in here
      <3>1. i \in I /\ i \in 1 .. k /\ \A j \in I : i <= j BY <1>5
      <3>2. ASSUME NEW j \in 1 .. i - 1 PROVE b.entries[j].name # name
        <4>1. j \in 1 .. k /\ ~(i <= j) BY <3>1, <1>3
        <4> QED BY <2>1, <3>1, <4>1
      <3>3. i \in DOMAIN b.entries /\ b.entries[i].name = name BY <1>1, <2>1, <3>1
      <3> QED BY <3>2, <3>3
    <2>3. ASSUME NEW i \in here PROVE i \in first
      <3>1. i \in 1 .. k /\ i \in I /\ \A j \in 1 .. i - 1 : b.entries[j].name # name
        BY <1>1, <2>1
      <3>2. ASSUME NEW j \in I PROVE i <= j
        <4>1. j \in 1 .. k /\ b.entries[j].name = name BY <1>5, <2>1
        <4>2. ~(j \in 1 .. i - 1) BY <3>1, <4>1
        <4> QED BY <3>1, <4>1, <4>2, <1>3
      <3> QED BY <3>1, <3>2
    <2> QED BY <2>2, <2>3
  <1> HIDE DEF here
  <1>9. CASE I = {}
    <2>1. first = {} BY <1>9
    <2> HIDE DEF first, I
    <2> QED BY <1>6, <1>7, <1>8, <2>1 DEF Paired
  <1>10. CASE I # {}
    <2>1. I \subseteq Nat BY <1>3, <1>5
    <2> HIDE DEF I
    <2>2. PICK i \in I : \A j \in I : i <= j BY <1>10, <2>1, LeastNumber
    <2>3. first = {i}
      <3>1. ASSUME NEW j \in first PROVE j = i
        <4>1. j \in I /\ j <= i /\ i <= j BY <2>2
        <4> QED BY <2>1, <4>1
      <3> QED BY <2>2, <3>1
    <2> HIDE DEF first
    <2>4. GetEntryInDir(b, name) = {b.entries[i]} /\ Entered(e, name) = {e.entries[i]}
      BY <1>6, <1>7, <1>8, <2>3
    <2>5. <<b.entries[i], e.entries[i]>> \in R BY <1>4, <1>5
    <2> QED BY <2>4, <2>5 DEF Paired
  <1> QED BY <1>9, <1>10

\* One name further, both lookups still agree.
LEMMA FurtherPaired ==
  ASSUME NEW t, NEW m, NEW R, Mirrors(t, m, R), NEW A, NEW B, Paired(A, B, R),
         \A e \in B : e.folder, NEW name
  PROVE  Paired(UNION {GetEntryInDir(dir, name) : dir \in A}, UNION {Entered(e, name) : e \in B}, R)
  <1>1. CASE A = {} /\ B = {}
    <2>1. UNION {GetEntryInDir(dir, name) : dir \in A} = {} BY <1>1
    <2>2. UNION {Entered(e, name) : e \in B} = {} BY <1>1
    <2> QED BY <2>1, <2>2 DEF Paired
  <1>2. ASSUME NEW b, NEW e, A = {b}, B = {e}, <<b, e>> \in R
        PROVE  Paired(UNION {GetEntryInDir(dir, name) : dir \in A},
                      UNION {Entered(x, name) : x \in B}, R)
    <2>1. Mirror(t, m, R, b, e)
      <3>1. Mirror(t, m, R, <<b, e>>[1], <<b, e>>[2]) BY <1>2 DEF Mirrors
      <3> QED BY <3>1
    <2>2. Paired(GetEntryInDir(b, name), Entered(e, name), R) BY <1>2, <2>1, SameEntry
    <2>3. UNION {GetEntryInDir(dir, name) : dir \in A} = GetEntryInDir(b, name) BY <1>2
    <2>4. UNION {Entered(x, name) : x \in B} = Entered(e, name) BY <1>2
    <2> QED BY <2>2, <2>3, <2>4
  <1> QED BY <1>1, <1>2 DEF Paired

\* The folders among what both have found agree too.
LEMMA FoldersPaired ==
  ASSUME NEW t, NEW m, NEW R, Mirrors(t, m, R), NEW A, NEW B, Paired(A, B, R)
  PROVE  Paired({b \in A : b.folder}, {e \in B : e.folder}, R)
  <1>1. CASE A = {} /\ B = {} BY <1>1 DEF Paired
  <1>2. ASSUME NEW b, NEW e, A = {b}, B = {e}, <<b, e>> \in R
        PROVE  Paired({x \in A : x.folder}, {x \in B : x.folder}, R)
    <2>1. b.folder = e.folder
      <3>1. Mirror(t, m, R, <<b, e>>[1], <<b, e>>[2]) BY <1>2 DEF Mirrors
      <3>2. Mirror(t, m, R, b, e) BY <3>1
      <3> QED BY <3>2 DEF Mirror
    <2>2. CASE e.folder
      <3>1. {x \in A : x.folder} = {b} /\ {x \in B : x.folder} = {e} BY <1>2, <2>1, <2>2
      <3> QED BY <1>2, <3>1 DEF Paired
    <2>3. CASE ~e.folder
      <3>1. {x \in A : x.folder} = {} /\ {x \in B : x.folder} = {} BY <1>2, <2>1, <2>3
      <3> QED BY <3>1 DEF Paired
    <2> QED BY <2>2, <2>3
  <1> QED BY <1>1, <1>2 DEF Paired

\* However many names are followed from the root, the folders reached are a pair.
LEMMA LookupsPaired ==
  ASSUME NEW t, NEW m, NEW R, Mirrors(t, m, R), NEW root, <<root, RootItem(t)>> \in R,
         NEW path, NEW k \in Nat,
         NEW d, IsLookup(TRUE, root, path, k, d),
         NEW on, IsLookup(FALSE, RootItem(t), path, k, on)
  PROVE  \A n \in 0 .. k : Paired(d[n], {e \in on[n] : e.folder}, R)
  <1> DEFINE T == {n \in Nat : n <= k => Paired(d[n], {e \in on[n] : e.folder}, R)}
             r == RootItem(t)
  <1>1. ASSUME NEW n \in 0 .. k
        PROVE  d[n] = Lookup(TRUE, root, path, d, n) /\ on[n] = Lookup(FALSE, r, path, on, n)
    <2>1. d = [j \in 0 .. k |-> Lookup(TRUE, root, path, d, j)] BY DEF IsLookup
    <2>2. on = [j \in 0 .. k |-> Lookup(FALSE, r, path, on, j)] BY DEF IsLookup
    <2>3. d[n] = Lookup(TRUE, root, path, d, n)
      <3> HIDE DEF r
      <3> QED BY ONLY <2>1, n \in 0 .. k
    <2>4. on[n] = Lookup(FALSE, r, path, on, n)
      <3> HIDE DEF r
      <3> QED BY ONLY <2>2, n \in 0 .. k
    <2> QED BY <2>3, <2>4
  <1>2. Mirror(t, m, R, root, r) /\ r.folder
    <2>1. Mirror(t, m, R, <<root, r>>[1], <<root, r>>[2]) BY DEF Mirrors
    <2>2. Mirror(t, m, R, root, r) BY <2>1
    <2> QED BY <2>2 DEF RootItem
  <1>3. 0 \in T
    <2>1. 0 \in 0 .. k OBVIOUS
    <2>2. d[0] = {root} /\ on[0] = {r} BY <1>1, <2>1 DEF Lookup
    <2>3. {e \in on[0] : e.folder} = {r} BY <1>2, <2>2
    <2>4. Paired(d[0], {e \in on[0] : e.folder}, R) BY <2>2, <2>3 DEF Paired
    <2> QED BY <2>4
  <1>4. ASSUME NEW n \in T PROVE n + 1 \in T
    <2> SUFFICES ASSUME n + 1 <= k
                 PROVE  Paired(d[n + 1], {e \in on[n + 1] : e.folder}, R)
      OBVIOUS
    <2>1. n \in Nat /\ n + 1 \in 0 .. k /\ n + 1 # 0 /\ n + 1 - 1 = n /\ n <= k OBVIOUS
    <2> DEFINE B == {e \in on[n] : e.folder}
               A1 == UNION {GetEntryInDir(dir, path[n + 1]) : dir \in d[n]}
               B1 == UNION {Entered(e, path[n + 1]) : e \in B}
    <2>2. Paired(d[n], B, R) BY <2>1
    <2>3. Paired(A1, B1, R)
      <3>1. \A e \in B : e.folder OBVIOUS
      <3> HIDE DEF B
      <3> QED BY <2>2, <3>1, FurtherPaired
    <2>4. Paired({b \in A1 : b.folder}, {e \in B1 : e.folder}, R)
      <3> HIDE DEF A1, B1
      <3> QED BY <2>3, FoldersPaired
    <2>5. d[n + 1] = {b \in A1 : b.folder}
      <3>1. d[n + 1] = Further(d[n + 1 - 1], path[n + 1]) BY <1>1, <2>1 DEF Lookup
      <3> QED BY <2>1, <3>1 DEF Further
    <2>6. on[n + 1] = B1
      <3>1. on[n + 1] = Beneath(on[n + 1 - 1], path[n + 1]) BY <1>1, <2>1 DEF Lookup
      <3> QED BY <2>1, <3>1 DEF Beneath
    <2> QED BY <2>4, <2>5, <2>6
  <1>5. T \subseteq Nat OBVIOUS
  <1>6. T = Nat
    <2> HIDE DEF T
    <2> QED BY <1>3, <1>4, <1>5, AllNumbers
  <1> QED BY <1>6

\* What GetEntry finds of a path (ark.c:185-212) is what the tree has there.
LEMMA EntryFound ==
  ASSUME Straight, pc = "mounted", NEW path \in Path
  PROVE  \/ GetEntry(path) = {} /\ At(tree, path) = Nothing
         \/ \E b : GetEntry(path) = {b} /\ b.folder = TRUE /\ At(tree, path) = Folder
         \/ \E b, data : /\ GetEntry(path) = {b} /\ b.folder = FALSE
                         /\ At(tree, path) = data /\ data \in Seq(Nat)
                         /\ b.size = Len(data) /\ b.contentsOffset \in 0 .. Len(image)
                         /\ Lies(Full, data, b.contentsOffset)
  <1> DEFINE n == Len(path)
             m == Len(image)
             d == Dir(path)
             r == RootItem(tree)
  <1>1. path \in Seq(Nat) BY ArchiveAssumption
  <1>2. n \in Nat BY <1>1
  <1>3. Whole(tree, m, frames, diskPtr) BY DEF Straight, Reached
  <1>4. PICK R : Mirrors(tree, m, R) /\ <<frames[1].entries[1], r>> \in R BY <1>3 DEF Whole
  <1>5. Root = frames[1].entries[1] BY <1>3 DEF Whole, Root, Top
  <1>6. <<Root, r>> \in R BY <1>4, <1>5
  <1>7. IsLookup(TRUE, Root, path, n, d) BY <1>1, DirIsLookup
  <1>8. PICK on : IsLookup(FALSE, r, path, n, on) /\ At(tree, path) = What(on[n])
    BY <1>1, AtIsLookup
  <1>9. ASSUME NEW k \in 0 .. n PROVE on[k] = Lookup(FALSE, r, path, on, k)
    <2>1. on = [j \in 0 .. n |-> Lookup(FALSE, r, path, on, j)] BY <1>8 DEF IsLookup
    <2> HIDE DEF r, n
    <2> QED BY ONLY <2>1, k \in 0 .. n
  <1>10. Paired(GetEntry(path), on[n], R)
    <2>1. CASE path = <<>>
      <3>1. GetEntry(path) = {Root} BY <2>1 DEF GetEntry
      <3>2. n = 0 /\ 0 \in 0 .. n BY <2>1
      <3>3. on[0] = Lookup(FALSE, r, path, on, 0) BY <1>9, <3>2
      <3>4. on[n] = {r} BY <3>2, <3>3 DEF Lookup
      <3> QED BY <1>6, <3>1, <3>4 DEF Paired
    <2>2. CASE path # <<>>
      <3>1. n # 0 /\ n - 1 \in 0 .. n /\ n \in 0 .. n BY <1>1, <2>2
      <3> DEFINE A == d[n - 1]
                 B == {e \in on[n - 1] : e.folder}
      <3>2. GetEntry(path) = UNION {GetEntryInDir(dir, path[n]) : dir \in A}
        BY <2>2 DEF GetEntry
      <3>3. on[n] = UNION {Entered(e, path[n]) : e \in B}
        <4>1. on[n] = Lookup(FALSE, r, path, on, n) BY <1>9, <3>1
        <4> QED BY <3>1, <4>1 DEF Lookup, Beneath
      <3>4. Paired(A, B, R)
        <4> HIDE DEF n, m, d, r
        <4>1. \A k \in 0 .. n : Paired(d[k], {e \in on[k] : e.folder}, R)
          BY <1>2, <1>4, <1>6, <1>7, <1>8, LookupsPaired DEF r
        <4> QED BY <3>1, <4>1
      <3>5. \A e \in B : e.folder OBVIOUS
      <3> HIDE DEF A, B
      <3> QED BY <1>4, <3>2, <3>3, <3>4, <3>5, FurtherPaired
    <2> QED BY <2>1, <2>2
  <1>11. CASE GetEntry(path) = {} /\ on[n] = {} BY <1>8, <1>11 DEF What
  <1>12. ASSUME NEW b, NEW e, GetEntry(path) = {b}, on[n] = {e}, <<b, e>> \in R
         PROVE  \/ b.folder = TRUE /\ At(tree, path) = Folder
                \/ \E data : /\ b.folder = FALSE
                             /\ At(tree, path) = data /\ data \in Seq(Nat)
                             /\ b.size = Len(data) /\ b.contentsOffset \in 0 .. Len(image)
                             /\ Lies(Full, data, b.contentsOffset)
    <2>1. Mirror(tree, m, R, b, e)
      <3>1. Mirror(tree, m, R, <<b, e>>[1], <<b, e>>[2]) BY <1>4, <1>12 DEF Mirrors
      <3> QED BY <3>1
    <2>2. At(tree, path) = IF e.folder THEN Folder ELSE e.data
      <3>1. (CHOOSE x \in {e} : TRUE) = e OBVIOUS
      <3> QED BY <1>8, <1>12, <3>1 DEF What
    <2>3. b.folder = e.folder /\ e.folder \in BOOLEAN BY <2>1 DEF Mirror
    <2>4. CASE e.folder = TRUE BY <2>2, <2>3, <2>4
    <2>5. CASE e.folder = FALSE
      <3>1. /\ e.data \in Seq(Nat) /\ b.size = Len(e.data) /\ b.contentsOffset \in 0 .. m
            /\ Lies(Pack(tree), e.data, b.contentsOffset)
        BY <2>1, <2>5 DEF Mirror
      <3>2. At(tree, path) = e.data BY <2>2, <2>5
      <3> QED BY <2>3, <2>5, <3>1, <3>2, Facts
    <2> QED BY <2>3, <2>4, <2>5
  <1> QED BY <1>10, <1>11, <1>12 DEF Paired

\* What the answer to a read is, and what becomes of the reader.
LEMMA ReadAnswer ==
  ASSUME Straight, NEW path \in Path, Read(path)
  PROVE  /\ pc = "mounted" /\ pc' = "mounted"
         /\ UNCHANGED <<tree, image, diskPtr, strings, frames, beyond>>
         /\ \/ At(tree, path) = Nothing /\ answer' = Answer(path, "FILE_NOT_FOUND", Nothing)
            \/ At(tree, path) = Folder /\ answer' = Answer(path, "NOT_A_FILE", Nothing)
            \/ /\ At(tree, path) \in Seq(Nat)
               /\ \/ answer' = Answer(path, "OUT_OF_BOUNDS_DISK", Nothing) /\ ~Complete
                  \/ answer' = Answer(path, "SUCCESS", At(tree, path))
  <1>1. pc = "mounted" /\ UNCHANGED <<tree, image, diskPtr, strings, frames, beyond>> BY DEF Read
  <1>2. CASE GetEntry(path) = {} /\ At(tree, path) = Nothing
    BY <1>1, <1>2 DEF Read
  <1>3. ASSUME NEW b, GetEntry(path) = {b}, b.folder = TRUE, At(tree, path) = Folder
        PROVE  pc' = pc /\ answer' = Answer(path, "NOT_A_FILE", Nothing)
    BY <1>3 DEF Read
  <1>4. ASSUME NEW b, NEW data, GetEntry(path) = {b}, b.folder = FALSE, At(tree, path) = data,
               data \in Seq(Nat), b.size = Len(data), b.contentsOffset \in 0 .. Len(image),
               Lies(Full, data, b.contentsOffset)
        PROVE  /\ pc' = pc
               /\ \/ answer' = Answer(path, "OUT_OF_BOUNDS_DISK", Nothing) /\ ~Complete
                  \/ answer' = Answer(path, "SUCCESS", data)
    <2> DEFINE o == b.contentsOffset
               l == Len(data)
    <2>1. o \in Nat /\ o <= Len(image) /\ l \in Nat /\ Len(image) \in Nat BY <1>4, Facts
    <2>2. Readable(o, l) <=> OnDisk(o, l)
      <3> HIDE DEF o, l
      <3> QED BY <2>1, Tests DEF Straight, TypeOK
    <2>3. \/ /\ ~Readable(o, l) /\ pc' = pc
             /\ answer' = Answer(path, "OUT_OF_BOUNDS_DISK", Nothing)
          \/ /\ Readable(o, l) /\ ~Mapped(o, l)
          \/ /\ Readable(o, l) /\ pc' = pc
             /\ \E s \in Bytes(o, l) : answer' = Answer(path, "SUCCESS", s)
      BY <1>4 DEF Read
    <2>4. ASSUME ~OnDisk(o, l) PROVE ~Complete
      <3>1. o + l <= Len(Full) BY <1>4 DEF Lies
      <3> HIDE DEF o, l
      <3> QED BY <2>1, <2>4, <3>1, Facts DEF OnDisk
    <2>5. OnDisk(o, l) => Mapped(o, l)
      <3> HIDE DEF o, l
      <3> QED BY <2>1, Facts DEF OnDisk, Mapped
    <2>6. ASSUME OnDisk(o, l), NEW s \in Bytes(o, l) PROVE s = data
      <3>1. s \in Seq(Nat) /\ Len(s) = l /\ \A k \in 1 .. l : s[k] = Full[o + k]
        <4> HIDE DEF o, l
        <4> QED BY <2>1, <2>6, BytesOnDisk DEF Straight
      <3>2. \A k \in 1 .. l : Full[o + k] = data[k] BY <1>4 DEF Lies
      <3>3. Len(s) = Len(data) /\ \A k \in 1 .. Len(data) : s[k] = data[k] BY <3>1, <3>2
      <3> QED BY ONLY <1>4, <3>1, <3>3, SameSequence
    <2> QED BY <2>2, <2>3, <2>4, <2>5, <2>6
  <1> QED BY <1>1, <1>2, <1>3, <1>4, EntryFound

\* Reading a file changes nothing but the answer.
LEMMA ReadStep == ASSUME Straight, NEW path \in Path, Read(path) PROVE Straight'
  <1>1. /\ pc = "mounted" /\ pc' = "mounted"
        /\ UNCHANGED <<tree, image, diskPtr, strings, frames, beyond>>
    BY ReadAnswer
  <1>2. Cut' /\ (Complete' <=> Complete) BY <1>1, Steady DEF Straight
  <1>3. TypeOK' /\ beyond' = FALSE BY <1>1 DEF Straight, TypeOK
  <1>4. Reached' BY <1>1 DEF Straight, Reached
  <1>5. answer'.err = "OUT_OF_BOUNDS_DISK" => ~Complete BY ReadAnswer DEF Answer
  <1>6. Answered' BY <1>1, <1>2, <1>5 DEF Answered
  <1> QED BY <1>2, <1>3, <1>4, <1>6 DEF Straight

-----------------------------------------------------------------------------
(* Behind the disk *)

\* Before the next entry of a folder the reader has calls of the right shape, and
\* stands no farther than the complete image goes.
LEMMA ReadingShape ==
  ASSUME Straight, Reading
  PROVE  Shape(frames) /\ diskPtr <= Len(Full)
  <1>1. CASE Opened(frames, diskPtr)
    <2>1. frames \in Seq(FrameOf({})) /\ Len(frames) = 1
      <3>1. Frame(0, 1) \in FrameOf({}) BY DEF Frame, FrameOf
      <3> QED BY <1>1, <3>1 DEF Opened
    <2>2. Shape(frames) BY <2>1 DEF Shape
    <2> QED BY <1>1, <2>2, Facts DEF Opened
  <1>2. CASE Walking(tree, Len(image), frames, diskPtr)
    <2>1. PICK all, todo, end, R, N :
            Walk(tree, Len(image), frames, diskPtr, all, todo, end, R, N)
      BY <1>2 DEF Walking
    <2> DEFINE n == Len(frames)
    <2>2. /\ n \in Nat /\ n >= 2 /\ frames \in Seq(FrameOf(N))
          /\ Chain(tree, Len(image), frames, all, todo, end, R, N)
          /\ todo[n] \in Lists
          /\ Lay(Full, todo[n], diskPtr, end[n])
      BY <2>1, BeforeEntry
    <2>3. diskPtr <= Len(Full)
      <3>1. PackAll(todo[n]) \in Seq(Nat) BY <2>2, ItemOfList
      <3>2. Len(PackAll(todo[n])) \in Nat BY <3>1
      <3>3. diskPtr + Len(PackAll(todo[n])) <= Len(Full) BY <2>2 DEF Lay, Lies
      <3> DEFINE l == Len(PackAll(todo[n]))
      <3>4. l \in Nat /\ diskPtr + l <= Len(Full) BY <3>2, <3>3
      <3> HIDE DEF l, n
      <3> QED BY <3>4, Facts
    <2>4. ASSUME NEW i \in 1 .. n - 1 PROVE frames[i].left > 0
      <3>1. CASE i = 1
        <4>1. frames[1] = Frame(0, 1) BY <2>2 DEF Chain
        <4> QED BY <3>1, <4>1 DEF Frame
      <3>2. CASE i # 1
        <4>1. i \in 2 .. Len(frames) /\ i \in 2 .. Len(frames) - 1 BY <2>2, <3>2
        <4>2. Halfway(frames[i], all[i], todo[i], R) /\ Len(todo[i]) > 0
          BY <2>2, <4>1 DEF Chain
        <4> QED BY <4>2 DEF Halfway
      <3> QED BY <3>1, <3>2
    <2>5. Shape(frames)
      <3>1. Len(frames) > 0 BY <2>2
      <3> QED BY <2>2, <2>4, <3>1 DEF Shape
    <2> QED BY <2>3, <2>5
  <1> QED BY <1>1, <1>2, ReadingWhere

\* A unit is a number, wherever it is read.
LEMMA UnitIsNumber ==
  ASSUME TypeOK, Cut, NEW p \in Nat
  PROVE  Unit(p) \subseteq Nat
  <1>1. CASE p < Len(image)
    <2>1. p + 1 \in 1 .. Len(image) /\ image \in Seq(Nat) BY <1>1, DiskFacts
    <2> QED BY <1>1, <2>1 DEF Unit
  <1>2. CASE ~(p < Len(image)) BY <1>2, ArchiveAssumption DEF Unit
  <1> QED BY <1>1, <1>2

\* A name is one, whatever number its offset was read as.
LEMMA NameIsNumber ==
  ASSUME TypeOK, NEW offset \in Nat, offset <= Len(strings)
  PROVE  NameAt(offset) \in Nat
  <1>1. strings \in Seq(Nat) /\ Len(strings) \in Nat BY DEF TypeOK
  <1>2. CASE offset = Len(strings) BY <1>2 DEF NameAt
  <1>3. CASE offset # Len(strings)
    <2>1. offset + 1 \in 1 .. Len(strings) BY <1>1, <1>3
    <2> QED BY <1>1, <1>3, <2>1 DEF NameAt
  <1> QED BY <1>2, <1>3

\* A folder is entered, on the disk or behind it: the shape remains.
LEMMA EnterFolderShape ==
  ASSUME TypeOK, Cut, Shape(frames), EnterFolder
  PROVE  Shape(frames') /\ Typed(frames') /\ diskPtr' \in 0 .. MaxWord - 1
  <1>1. diskPtr \in Nat /\ Typed(frames) BY DiskFacts
  <1>2. PICK offset \in Field(3), length \in Field(4) :
          offset <= Len(strings) /\ frames' = Append(frames, Frame(NameAt(offset), length))
    BY DEF EnterFolder
  <1>3. offset \in Nat /\ length \in Nat
    <2>1. diskPtr + 3 - 1 \in Nat /\ diskPtr + 4 - 1 \in Nat BY <1>1
    <2> QED BY <2>1, UnitIsNumber DEF Field
  <1> DEFINE new == Frame(NameAt(offset), length)
  <1>4. new.left = length /\ new.entries = <<>> /\ NameAt(offset) \in Nat
    BY <1>2, <1>3, NameIsNumber DEF Frame
  <1>5. PICK N : /\ frames \in Seq(FrameOf(N)) /\ Len(frames) > 0
                 /\ \A i \in 1 .. Len(frames) - 1 : frames[i].left > 0
    BY DEF Shape
  <1>6. new \in FrameOf(N) BY <1>3, <1>4 DEF Frame, FrameOf
  <1>7. frames[Len(frames)].left > 0 BY DEF EnterFolder, Reading, Top
  <1> DEFINE n == Len(frames)
             fs == Append(frames, new)
  <1> HIDE DEF new
  <1>8. /\ fs \in Seq(FrameOf(N)) /\ n \in Nat /\ Len(fs) = n + 1 /\ fs[n + 1] = new
        /\ \A i \in 1 .. n : fs[i] = frames[i]
    BY <1>5, <1>6
  <1> HIDE DEF fs
  <1>9. frames' = fs BY <1>2 DEF fs, new
  <1>10. Shape(fs)
    <2>1. ASSUME NEW i \in 1 .. n PROVE fs[i].left > 0
      <3>1. CASE i = n BY <3>1, <1>7, <1>8
      <3>2. CASE i # n
        <4>1. i \in 1 .. Len(frames) - 1 BY <1>8, <3>2
        <4> QED BY <4>1, <1>5, <1>8
      <3> QED BY <3>1, <3>2
    <2>2. Len(fs) > 0 /\ Len(fs) - 1 = n BY <1>8
    <2> QED BY <1>8, <2>1, <2>2 DEF Shape
  <1>11. Typed(fs)
    <2>1. DOMAIN frames = 1 .. n /\ DOMAIN fs = 1 .. n + 1 BY <1>5, <1>8
    <2>2. ASSUME NEW i \in 1 .. n + 1
          PROVE  fs[i].left \in Nat /\ \A j \in DOMAIN fs[i].entries : Entry(fs[i].entries[j])
      <3>1. CASE i = n + 1 BY <3>1, <1>3, <1>4, <1>8
      <3>2. CASE i # n + 1
        <4>1. i \in 1 .. n BY <1>8, <3>2
        <4> QED BY <4>1, <1>1, <1>8, <2>1 DEF Typed
      <3> QED BY <3>1, <3>2
    <2> QED BY <2>1, <2>2 DEF Typed
  <1>12. diskPtr' \in 0 .. MaxWord - 1
    <2>1. diskPtr' = diskPtr + 4 /\ diskPtr + 4 <= Len(image) + Extent
      BY DEF EnterFolder, Got, Mapped
    <2> QED BY <1>1, <2>1, DiskFacts
  <1> QED BY <1>9, <1>10, <1>11, <1>12

\* An entry is attached, whatever it is: the shape remains.
LEMMA AttachedShape ==
  ASSUME NEW N, NEW fs \in Seq(FrameOf(N)), Len(fs) > 0, NEW b,
         \A i \in 1 .. Len(fs) : fs[i].left > 0
  PROVE  Shape(Attached(fs, b))
  <1> DEFINE n == Len(fs)
             new == Attached(fs, b)
  <1>1. n \in Nat /\ n \in 1 .. n OBVIOUS
  <1>2. /\ new \in Seq(FrameOf(N \cup {b})) /\ Len(new) = n
        /\ \A i \in 1 .. n - 1 : new[i] = fs[i]
    <2>1. fs[Len(fs)].left > 0 BY <1>1
    <2> QED BY <2>1, AttachedFields
  <1> HIDE DEF new
  <1>3. \A i \in 1 .. Len(new) - 1 : new[i].left > 0 BY <1>1, <1>2
  <1>4. Len(new) > 0 BY <1>2
  <1>5. Shape(new) BY <1>2, <1>3, <1>4 DEF Shape
  <1> QED BY <1>5 DEF new

\* A file is passed over, on the disk or behind it: the shape remains.
LEMMA PassFileShape ==
  ASSUME TypeOK, Cut, Shape(frames), PassFile
  PROVE  Shape(frames') /\ Typed(frames') /\ diskPtr' \in 0 .. MaxWord - 1
  <1>1. diskPtr \in Nat /\ Typed(frames) /\ MaxWord \in Nat BY DiskFacts
  <1>2. PICK size \in Field(2), offset \in Field(3) :
          /\ offset <= Len(strings) /\ frames' = Attached(frames, File(offset, size))
          /\ diskPtr' = (diskPtr + 3 + size) % MaxWord
    BY DEF PassFile
  <1>3. offset \in Nat /\ size \in Nat
    <2>1. diskPtr + 3 - 1 \in Nat /\ diskPtr + 2 - 1 \in Nat BY <1>1
    <2> QED BY <2>1, UnitIsNumber DEF Field
  <1> DEFINE b == File(offset, size)
  <1>4. Entry(b) BY <1>2, <1>3, NameIsNumber DEF Entry, File
  <1>5. PICK N : /\ frames \in Seq(FrameOf(N)) /\ Len(frames) > 0
                 /\ \A i \in 1 .. Len(frames) - 1 : frames[i].left > 0
    BY DEF Shape
  <1>6. frames[Len(frames)].left > 0 BY DEF PassFile, Reading, Top
  <1> HIDE DEF b
  <1>7. \A i \in 1 .. Len(frames) : frames[i].left > 0
    <2>1. Len(frames) \in Nat BY <1>5
    <2> QED BY <1>5, <1>6, <2>1
  <1>8. Shape(Attached(frames, b)) BY <1>5, <1>7, AttachedShape
  <1>9. Typed(Attached(frames, b)) BY <1>1, <1>4, <1>5, <1>6, AttachedTyped
  <1>10. diskPtr' \in 0 .. MaxWord - 1
    <2> DEFINE p == diskPtr + 3 + size
    <2>1. p \in Nat /\ MaxWord \in Nat \ {0} BY <1>1, <1>3, ArchiveAssumption
    <2> HIDE DEF p
    <2>2. p % MaxWord \in 0 .. MaxWord - 1 BY <2>1
    <2> QED BY <1>2, <2>2 DEF p
  <1> QED BY <1>2, <1>8, <1>9, <1>10 DEF b

\* A folder is left, on the disk or behind it: the shape remains.
LEMMA LeaveFolderShape ==
  ASSUME TypeOK, Cut, Shape(frames), LeaveFolder
  PROVE  Shape(frames') /\ Typed(frames')
  <1> DEFINE n == Len(frames)
             outer == SubSeq(frames, 1, n - 1)
             b == [name |-> frames[n].name, folder |-> TRUE, entries |-> frames[n].entries]
  <1>1. n > 1 /\ frames' = Attached(outer, b) BY DEF LeaveFolder, Top
  <1>2. PICK N : /\ frames \in Seq(FrameOf(N)) /\ Len(frames) > 0
                 /\ \A i \in 1 .. Len(frames) - 1 : frames[i].left > 0
    BY DEF Shape
  <1>3. n \in Nat /\ n \in 1 .. n /\ DOMAIN frames = 1 .. n BY <1>1, <1>2
  <1>4. frames[n] \in FrameOf(N) BY <1>2, <1>3
  <1>5. Entry(b) BY <1>4 DEF FrameOf, Entry
  <1>6. /\ outer \in Seq(FrameOf(N)) /\ Len(outer) = n - 1 /\ Len(outer) > 0
        /\ \A i \in 1 .. n - 1 : outer[i] = frames[i]
    BY <1>1, <1>2, <1>3
  <1>7. Typed(frames) BY DiskFacts
  <1> HIDE DEF b, outer
  <1>8. Typed(outer)
    <2>1. DOMAIN outer = 1 .. n - 1 BY <1>3, <1>6
    <2>2. \A i \in 1 .. n - 1 : i \in DOMAIN frames BY <1>3
    <2> QED BY <1>6, <1>7, <2>1, <2>2 DEF Typed
  <1>9. \A i \in 1 .. Len(outer) : outer[i].left > 0 BY <1>2, <1>6
  <1>10. outer[Len(outer)].left > 0 BY <1>3, <1>6, <1>9
  <1>11. Shape(Attached(outer, b)) BY <1>6, <1>9, AttachedShape
  <1>12. Typed(Attached(outer, b)) BY <1>5, <1>6, <1>8, <1>10, AttachedTyped
  <1> QED BY <1>1, <1>11, <1>12

\* A reader that has not yet read behind the disk does so: it has left an image
\* that is cut short.
LEMMA GoAstray ==
  ASSUME Straight, EnterFolder \/ PassFile, NEW n \in Nat, Got(n), ~OnDisk(diskPtr, n),
         beyond' = TRUE
  PROVE  Astray'
  <1>1. Reading /\ pc = "entries" /\ UNCHANGED <<tree, image, pc, strings, answer>>
    BY DEF EnterFolder, PassFile, Reading
  <1>2. TypeOK /\ Cut /\ Shape(frames) /\ diskPtr <= Len(Full)
    BY <1>1, ReadingShape DEF Straight
  <1>3. ~Complete
    <2>1. tree \in Trees /\ diskPtr \in Nat BY Facts
    <2>2. Cut BY DEF Straight
    <2>3. diskPtr > Len(image) BY <2>1, <2>2, Facts, GotOnDisk
    <2> QED BY <1>2, <2>1, <2>3, Facts
  <1>4. Shape(frames') /\ Typed(frames') /\ diskPtr' \in 0 .. MaxWord - 1
    BY <1>2, EnterFolderShape, PassFileShape
  <1>5. Cut' /\ (Complete' <=> Complete) BY <1>1, <1>2, Steady
  <1>6. TypeOK' BY <1>1, <1>2, <1>4 DEF TypeOK, Typed
  <1> QED BY <1>1, <1>3, <1>4, <1>5, <1>6 DEF Astray

\* And it goes on building what has the shape of calls and entries.
LEMMA StayAstray == ASSUME Astray, Next PROVE Astray'
  <1>1. TypeOK /\ Cut /\ ~Complete /\ Shape(frames) /\ beyond = TRUE /\ pc # "header"
    BY DEF Astray
  <1>2. UNCHANGED <<tree, image>>
    BY DEF Next, ReadHeader, EnterFolder, PassFile, EntryFails, LeaveFolder, Mount, Read
  <1>3. Cut' /\ ~Complete' BY <1>1, <1>2, Steady
  <1>4. ASSUME beyond' = TRUE, pc' \in Place \ {"header"}, UNCHANGED strings,
               diskPtr' \in 0 .. MaxWord - 1, Shape(frames'), Typed(frames')
        PROVE  Astray'
    <2>1. TypeOK' BY <1>1, <1>2, <1>4 DEF TypeOK, Typed
    <2> QED BY <1>3, <1>4, <2>1 DEF Astray
  <1>5. pc \in Place \ {"header"} /\ diskPtr \in 0 .. MaxWord - 1 /\ Typed(frames)
    BY <1>1, DiskFacts DEF TypeOK
  <1>6. CASE EnterFolder
    <2>1. UNCHANGED <<pc, strings>> /\ beyond' = TRUE BY <1>1, <1>6 DEF EnterFolder, Advance
    <2> QED BY <1>1, <1>4, <1>5, <1>6, <2>1, EnterFolderShape
  <1>7. CASE PassFile
    <2>1. UNCHANGED <<pc, strings>> /\ beyond' = TRUE BY <1>1, <1>7 DEF PassFile, Advance
    <2> QED BY <1>1, <1>4, <1>5, <1>7, <2>1, PassFileShape
  <1>8. CASE EntryFails
    <2>1. UNCHANGED <<strings, diskPtr, frames, beyond>> BY <1>8 DEF EntryFails
    <2>2. pc' \in Place \ {"header"} BY <1>8 DEF EntryFails, Stopped, Place
    <2> QED BY <1>1, <1>4, <1>5, <2>1, <2>2 DEF Typed, Shape
  <1>9. CASE LeaveFolder
    <2>1. UNCHANGED <<pc, strings, diskPtr, beyond>> BY <1>9 DEF LeaveFolder
    <2> QED BY <1>1, <1>4, <1>5, <1>9, <2>1, LeaveFolderShape
  <1>10. CASE Mount
    <2>1. UNCHANGED <<strings, diskPtr, frames, beyond>> /\ pc' = "mounted" BY <1>10 DEF Mount
    <2>2. pc' \in Place \ {"header"} BY <2>1 DEF Place
    <2> QED BY <1>1, <1>4, <1>5, <2>1, <2>2 DEF Typed, Shape
  <1>11. ASSUME NEW path \in Path, Read(path) PROVE Astray'
    <2>1. UNCHANGED <<strings, diskPtr, frames, beyond>> BY <1>11 DEF Read
    <2>2. pc' = pc \/ pc' = "outside" BY <1>11 DEF Read
    <2>3. pc' \in Place \ {"header"} BY <1>5, <2>2 DEF Place
    <2> QED BY <1>1, <1>4, <1>5, <2>1, <2>3 DEF Typed, Shape
  <1>12. ~ReadHeader BY <1>1 DEF ReadHeader
  <1> QED BY <1>6, <1>7, <1>8, <1>9, <1>10, <1>11, <1>12 DEF Next

-----------------------------------------------------------------------------
(* The theorems *)

LEMMA InitInv == Init => IInv
  <1> SUFFICES ASSUME Init PROVE IInv
    OBVIOUS
  <1>1. /\ tree \in Trees /\ pc = "header" /\ diskPtr = 0 /\ strings = <<>>
        /\ frames = <<Frame(0, 1)>> /\ answer = NoAnswer /\ beyond = FALSE
    BY DEF Init
  <1>2. Cut BY DEF Init, Cut, Full
  <1>3. image \in Seq(Nat) BY <1>1, <1>2, CutImage
  <1>4. diskPtr \in 0 .. MaxWord - 1 BY <1>1, ArchiveAssumption
  <1>5. Typed(frames)
    <2>1. DOMAIN frames = {1} /\ frames[1].left = 1 /\ frames[1].entries = <<>>
      BY <1>1 DEF Frame
    <2> QED BY <2>1 DEF Typed
  <1>6. TypeOK
    <2>1. strings \in Seq(Nat) /\ pc \in Place BY <1>1 DEF Place
    <2>2. beyond \in BOOLEAN BY <1>1
    <2> QED BY <1>1, <1>3, <1>4, <1>5, <2>1, <2>2 DEF TypeOK, Typed
  <1>7. Reached BY <1>1 DEF Reached
  <1>8. Answered BY <1>1 DEF Answered
  <1> QED BY <1>1, <1>2, <1>6, <1>7, <1>8 DEF IInv, Straight

\* A step of a reader that has stayed on the disk keeps it on its way or leads it
\* behind a disk that is cut short.
LEMMA StraightStep == ASSUME Straight, Next PROVE Straight' \/ Astray'
  <1>1. CASE ReadHeader BY <1>1, ReadHeaderStep
  <1>2. CASE EnterFolder
    <2>1. Got(4) /\ beyond' = (beyond \/ ~OnDisk(diskPtr, 4)) BY <1>2 DEF EnterFolder, Advance
    <2>2. CASE OnDisk(diskPtr, 4) BY <1>2, <2>2, EnterFolderStep
    <2>3. CASE ~OnDisk(diskPtr, 4)
      <3>1. beyond' = TRUE BY <2>1, <2>3
      <3> QED BY <1>2, <2>1, <2>3, <3>1, GoAstray
    <2> QED BY <2>2, <2>3
  <1>3. CASE PassFile
    <2>1. Got(3) /\ beyond' = (beyond \/ ~OnDisk(diskPtr, 3)) BY <1>3 DEF PassFile, Advance
    <2>2. CASE OnDisk(diskPtr, 3) BY <1>3, <2>2, PassFileStep
    <2>3. CASE ~OnDisk(diskPtr, 3)
      <3>1. beyond' = TRUE BY <2>1, <2>3
      <3> QED BY <1>3, <2>1, <2>3, <3>1, GoAstray
    <2> QED BY <2>2, <2>3
  <1>4. CASE EntryFails BY <1>4, EntryFailsStep
  <1>5. CASE LeaveFolder BY <1>5, LeaveFolderStep
  <1>6. CASE Mount BY <1>6, MountStep
  <1>7. ASSUME NEW path \in Path, Read(path) PROVE Straight' BY <1>7, ReadStep
  <1> QED BY <1>1, <1>2, <1>3, <1>4, <1>5, <1>6, <1>7 DEF Next

LEMMA NextInv == IInv /\ [Next]_vars => IInv'
  <1> SUFFICES ASSUME IInv, [Next]_vars PROVE IInv'
    OBVIOUS
  <1>1. CASE UNCHANGED vars
    <2>1. UNCHANGED <<tree, image, pc, diskPtr, strings, frames, answer, beyond>>
      BY <1>1 DEF vars
    <2>2. TypeOK /\ Cut BY DEF IInv, Straight, Astray
    <2>3. Cut' /\ (Complete' <=> Complete) /\ TypeOK' BY <2>1, <2>2, Steady DEF TypeOK
    <2>4. ASSUME Straight PROVE Straight'
      <3>1. Reached' BY <2>1, <2>3, <2>4 DEF Straight, Reached
      <3>2. Answered' BY <2>1, <2>3, <2>4 DEF Straight, Answered
      <3> QED BY <2>1, <2>3, <2>4, <3>1, <3>2 DEF Straight
    <2>5. ASSUME Astray PROVE Astray'
      BY <2>1, <2>3, <2>5 DEF Astray, Shape
    <2> QED BY <2>4, <2>5 DEF IInv
  <1>2. CASE Next BY <1>2, StraightStep, StayAstray DEF IInv
  <1> QED BY <1>1, <1>2

\* The inductive invariant holds.
THEOREM Invariance == Spec => []IInv
  BY InitInv, NextInv, PTL DEF Spec

\* Every variable keeps its shape, whatever is packed, however much of it is on
\* the disk, and whatever lies behind it.
THEOREM TypesKept == Spec => []TypeOK
  <1>1. IInv => TypeOK BY DEF IInv, Straight, Astray
  <1> QED BY <1>1, Invariance, PTL

\* A complete image always mounts, is read to its last byte and no farther, and
\* delivers every file.
THEOREM CompleteImagesMount == Spec => []CompleteReads
  <1>1. IInv => CompleteReads
    <2> SUFFICES ASSUME IInv, Complete
                 PROVE  /\ pc \in {"header", "entries", "mounted"} /\ ~beyond
                        /\ pc = "mounted" => diskPtr = Len(image)
                        /\ answer = NoAnswer \/ answer.err # "OUT_OF_BOUNDS_DISK"
      BY DEF CompleteReads
    <2>1. Straight BY DEF IInv, Astray
    <2>2. pc \in {"header", "entries", "mounted"} /\ ~beyond
      BY <2>1 DEF Straight, Reached, TypeOK, Place
    <2>3. pc = "mounted" => diskPtr = Len(Full) BY <2>1 DEF Straight, Reached, Whole, Full
    <2>4. Len(image) = Len(Full) BY <2>1, Facts
    <2> QED BY <2>1, <2>2, <2>3, <2>4 DEF Straight, Answered
  <1> QED BY <1>1, Invariance, PTL

\* The reader is a drive, until it has read an entry from behind the disk: it
\* mounts what the archiver packed, or less of it than that but never something
\* else.
THEOREM ReaderIsDrive == Spec => DrivePromise
  <1> DEFINE c == [path \in Path |-> At(tree, path)]
             told == IF beyond THEN NoAnswer ELSE answer
  <1>1. Init => D!Init BY DEF Init, D!Init
  <1>2. IInv /\ [Next]_vars => [D!Next]_D!vars
    <2> SUFFICES ASSUME IInv, [Next]_vars PROVE D!Next \/ UNCHANGED D!vars
      BY DEF D!vars
    <2>1. UNCHANGED tree => UNCHANGED c OBVIOUS
    <2>2. UNCHANGED <<tree, told>> => UNCHANGED D!vars BY <2>1 DEF D!vars
    <2>3. UNCHANGED tree
      BY DEF Next, vars, ReadHeader, EnterFolder, PassFile, EntryFails, LeaveFolder, Mount, Read
    <2>4. CASE Astray
      <3>1. beyond = TRUE BY <2>4 DEF Astray
      <3>2. beyond' = TRUE
        BY <3>1 DEF Next, vars, ReadHeader, EnterFolder, PassFile, EntryFails, LeaveFolder,
                    Mount, Read, Advance
      <3> QED BY <2>2, <2>3, <3>1, <3>2
    <2>5. ASSUME Straight, NEW path \in Path, Read(path) PROVE D!Next
      <3>1. /\ UNCHANGED <<tree, beyond>> /\ beyond = FALSE
            /\ \/ At(tree, path) = Nothing /\ answer' = Answer(path, "FILE_NOT_FOUND", Nothing)
               \/ At(tree, path) = Folder /\ answer' = Answer(path, "NOT_A_FILE", Nothing)
               \/ /\ At(tree, path) \in Seq(Nat)
                  /\ \/ answer' = Answer(path, "OUT_OF_BOUNDS_DISK", Nothing)
                     \/ answer' = Answer(path, "SUCCESS", At(tree, path))
        BY <2>5, ReadAnswer DEF Straight
      <3>2. c[path] = At(tree, path) /\ UNCHANGED c /\ told' = answer' BY <3>1, <2>1
      <3>3. Nothing # Folder BY DEF Nothing, Folder
      <3>4. ASSUME At(tree, path) \in Seq(Nat)
            PROVE  At(tree, path) # Nothing /\ At(tree, path) # Folder
        <4>1. Nothing \notin Seq(Nat) /\ Folder \notin Seq(Nat) BY DEF Nothing, Folder
        <4> QED BY <3>4, <4>1
      <3> HIDE DEF c, told
      <3>5. D!Read(path) BY <3>1, <3>2, <3>3, <3>4 DEF D!Read, D!Answer, Answer, c, told
      <3> QED BY <3>5 DEF D!Next
    <2>6. ASSUME Straight, EnterFolder \/ PassFile PROVE UNCHANGED told
      <3>1. pc = "entries" /\ answer' = answer BY <2>6 DEF EnterFolder, PassFile, Reading
      <3>2. answer = NoAnswer BY <2>6, <3>1 DEF Straight, Answered
      <3> QED BY <3>1, <3>2
    <2>7. ASSUME Straight,
                 ReadHeader \/ EntryFails \/ LeaveFolder \/ Mount \/ UNCHANGED vars
          PROVE  UNCHANGED told
      BY <2>7 DEF vars, ReadHeader, EntryFails, LeaveFolder, Mount
    <2> HIDE DEF told
    <2> QED BY <2>2, <2>3, <2>4, <2>5, <2>6, <2>7 DEF IInv, Next
  <1> QED BY <1>1, <1>2, Invariance, PTL DEF Spec, DrivePromise, D!Spec
=============================================================================
