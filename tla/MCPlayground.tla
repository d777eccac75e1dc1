--------------------------- MODULE MCPlayground -----------------------------
(***************************************************************************)
(* Small instances for TLC: addresses of 2 bytes, at most 1 byte to spare, *)
(* a reserve that takes back an address or a part of one.                  *)
(***************************************************************************)
EXTENDS PlaygroundProps, TLC

BackOverAddress == {-2, 1}
BackIntoAddress == {-1}

Symmetry == Permutations(Name) \cup Permutations(File) \cup Permutations(Buffer)
=============================================================================
