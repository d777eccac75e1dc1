-------------------------------- MODULE MCVM --------------------------------
(* The machine with words of one bit and stacks of a few words.            *)
EXTENDS VMProps
=============================================================================
