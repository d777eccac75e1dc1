---------------------------- MODULE MCAllocator -----------------------------
(***************************************************************************)
(* Small zones for TLC.  A header takes 2 bytes, the smallest leftover is  *)
(* 1 byte.                                                                 *)
(***************************************************************************)
EXTENDS AllocatorProps
=============================================================================
