----------------------------- MODULE Playground -----------------------------
(***************************************************************************)
(* The loop of programs/playground.asm around the assembler, and the       *)
(* system calls of source/calls.c it is made of: one Assembler, one line   *)
(* of input after the other, each assembled with completion, followed by   *)
(* a RET and called.                                                       *)
(***************************************************************************)
EXTENDS Assembler

VARIABLES
  line,     \* where the loop is, while it is not in the assembler
  size      \* the length Assemble reported

vars == <<asmVars, line, size>>

(***************************************************************************)
(* "refs" "freeze" "reset" "input"   the calls before the line is read     *)
(* "busy"                            in the Assemble call                  *)
(* "extend" "ret" "call"             the line assembled                    *)
(***************************************************************************)
Line == {"refs", "freeze", "reset", "input", "busy", "extend", "ret", "call"}

Init ==
  /\ AsmInit
  /\ pc = "assembled"
  /\ line = "refs"
  /\ size = 0

Running == pc \notin {"exited", "wild"}

\* Mutant: nothing is freed.
FreeNothing ==
  /\ Running /\ line = "refs"
  /\ line' = "freeze"
  /\ UNCHANGED <<asmVars, size>>

FreeIncompleteAssemblerRef ==
  /\ Running /\ line = "refs"
  /\ incomplete' = <<>>
  /\ line' = "freeze"
  /\ UNCHANGED <<data, binVars, dataPtr, values, macros, included, frames,
                 pending, links, history, pc, size>>

\* Mutant: labels stay relative.
FreezeNothing ==
  /\ Running /\ line = "freeze"
  /\ line' = "reset"
  /\ UNCHANGED <<asmVars, size>>

\* A label of the binary becomes the address it has now.
FreezeAssemblerLabels ==
  /\ Running /\ line = "freeze"
  /\ values' = [i \in DOMAIN values |->
                  IF values[i].code
                    THEN [values[i] EXCEPT !.code = FALSE, !.buf = bin, !.off = 0]
                    ELSE values[i]]
  /\ line' = "reset"
  /\ UNCHANGED <<data, binVars, dataPtr, incomplete, macros, included, frames,
                 pending, links, history, pc, size>>

ResetAssemblerBinary ==
  /\ Running /\ line = "reset"
  /\ bin' = NULL /\ binCap' = 0 /\ binPtr' = [buf |-> NULL, off |-> 0] /\ binLen' = 0
  /\ links' = {} /\ rewound' = 0
  /\ line' = "input"
  /\ UNCHANGED <<data, dataPtr, tables, frames, pending, swallowed, pc, size>>

\* A line is read and handed to Assemble.
RunAssembler ==
  /\ Running /\ line = "input"
  /\ line' = "busy"
  /\ pc' = "assemble"
  /\ swallowed' = FALSE
  /\ UNCHANGED <<data, binVars, dataPtr, tables, frames, pending, links, rewound, size>>

\* Within the call.
Assembling ==
  /\ line = "busy"
  /\ Assemble
  /\ UNCHANGED <<line, size>>

\* Assemble has pushed size and success; JZi fail
Returned ==
  /\ line = "busy"
  /\ \/ pc = "assembled" /\ line' = "extend" /\ size' = binLen
     \/ pc = "failed" /\ line' = "refs" /\ UNCHANGED size
  /\ UNCHANGED asmVars

\* Room for the RET: in code mode in the binary, if there is memory, in data mode
\* in the area.  What the call answers is dropped.
ExtendAssemblerBinary ==
  /\ Running /\ line = "extend"
  /\ \/ /\ data
        /\ UNCHANGED <<binVars, pc>>
     \/ /\ ~data /\ Astray
        /\ pc' = "wild"
        /\ UNCHANGED binVars
     \/ /\ ~data /\ ~Astray /\ Full(1)
        /\ pc' = "exited"
        /\ UNCHANGED binVars
     \/ /\ ~data
        /\ MakeRoom(1)
        /\ binPtr' = [binPtr EXCEPT !.buf = bin']
        /\ UNCHANGED pc
  /\ line' = "ret"
  /\ UNCHANGED <<data, dataPtr, tables, frames, pending, links, history, size>>

\* The RET goes to bin + size.
WriteRet ==
  /\ Running /\ line = "ret"
  /\ IF bin = NULL \/ size + 1 > binCap THEN pc' = "wild" ELSE UNCHANGED pc
  /\ line' = "call"
  /\ UNCHANGED <<data, binVars, dataPtr, tables, frames, pending, links, history, size>>

\* The line runs and returns.
CallLine ==
  /\ Running /\ line = "call"
  /\ line' = "refs"
  /\ size' = 0
  /\ UNCHANGED asmVars

Next ==
  \/ FreeIncompleteAssemblerRef \/ FreezeAssemblerLabels \/ ResetAssemblerBinary
  \/ RunAssembler \/ Assembling \/ Returned
  \/ ExtendAssemblerBinary \/ WriteRet \/ CallLine

Spec == Init /\ [][Next]_vars
=============================================================================
