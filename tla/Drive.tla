-------------------------------- MODULE Drive -------------------------------
(***************************************************************************)
(* What a drive that cannot be written to promises its readers: it has     *)
(* contents, which never change, and every answer is the contents of the   *)
(* path asked for or the reason there are none.  Reading a file may also   *)
(* fail, but never to deliver something else.                              *)
(***************************************************************************)
CONSTANTS Path, Nothing, Folder, NoAnswer

VARIABLES
  contents,     \* for each path the data there, Nothing or Folder
  answer

vars == <<contents, answer>>

Answer(p, err, data) == [path |-> p, err |-> err, data |-> data]

Init == answer = NoAnswer

Read(p) ==
  /\ CASE contents[p] = Nothing -> answer' = Answer(p, "FILE_NOT_FOUND", Nothing)
       [] contents[p] = Folder  -> answer' = Answer(p, "NOT_A_FILE", Nothing)
       [] OTHER -> answer' \in {Answer(p, "SUCCESS", contents[p]),
                                Answer(p, "OUT_OF_BOUNDS_DISK", Nothing)}
  /\ UNCHANGED contents

Next == \E p \in Path : Read(p)

Spec == Init /\ [][Next]_vars
=============================================================================
