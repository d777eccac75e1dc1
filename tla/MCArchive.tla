----------------------------- MODULE MCArchive ------------------------------
(***************************************************************************)
(* A small instance for TLC: folders of up to two entries, nested two deep *)
(* in the root, two names, files of nothing or of two bytes; behind the    *)
(* disk two entries at most, files or folders, with good names or bad ones.*)
(***************************************************************************)
EXTENDS ArchiveProps

UpTo2(S) == {<<>>} \cup {<<a>> : a \in S} \cup (S \X S)

Files == [name : {1, 2}, folder : {FALSE}, data : {<<8, 9>>}]
         \cup [name : {1}, folder : {FALSE}, data : {<<>>}]

MCTrees == UpTo2(Files \cup [name : {1, 2}, folder : {TRUE}, entries : UpTo2(Files)])

MCStrings == <<1, 2>>

\* The format read off the reader, entry by entry.
RECURSIVE Packed(_)
Packed(es) ==
  LET e == Head(es)
      at == CHOOSE i \in DOMAIN MCStrings : MCStrings[i] = e.name
  IN  IF es = <<>> THEN <<>>
      ELSE IF e.folder THEN <<1, 0, at - 1, Len(e.entries)>> \o Packed(e.entries) \o Packed(Tail(es))
      ELSE <<0, Len(e.data), at - 1>> \o e.data \o Packed(Tail(es))

MCPath == UpTo2({1, 2}) \cup {<<1, 1, 1>>, <<3>>}
=============================================================================
