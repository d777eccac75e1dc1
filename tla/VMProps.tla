------------------------------ MODULE VMProps -------------------------------
(***************************************************************************)
(* What the machine of VM promises.                                        *)
(***************************************************************************)
EXTENDS VM

(* The pointers stay from the first word of their array to one past its    *)
(* last, and the arrays and registers hold words.                          *)
TypeOK == /\ dStack \in [0 .. Depth - 1 -> Word] /\ dsp \in 0 .. Depth
          /\ rStack \in [0 .. RDepth - 1 -> Word] /\ rsp \in 0 .. RDepth
          /\ reg \in [0 .. NumRegs - 1 -> Word]
          /\ ip \in Word /\ areaPtr \in Word
          /\ op \in Op \cup {"none"} /\ status \in {"running", "halted", "wild", "fault"}

Machine == INSTANCE StackMachine WITH
  ds <- [i \in 1 .. dsp |-> dStack[i - 1]], rs <- [i \in 1 .. rsp |-> rStack[i - 1]],
  area <- areaPtr

(* The pointer arithmetic of vm.c:20-253 and the handlers of calls.c keep  *)
(* the promise of a stack machine: each takes and leaves its own words and *)
(* no other, in their order, whatever earlier pops have left above the     *)
(* top, and goes astray only for a program that leaves the stacks.         *)
StackPromise == Machine!Spec
=============================================================================
