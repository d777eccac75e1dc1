------------------------------ MODULE MCDrives ------------------------------
(***************************************************************************)
(* A small instance for TLC: a table of two drives, three flags, streams   *)
(* that hold back one byte.                                                *)
(***************************************************************************)
EXTENDS DrivesProps, TLC

MCText == {<<1>>, <<2, 0, 3>>}

Symmetry == Permutations(Block)
=============================================================================
