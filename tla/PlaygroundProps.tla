--------------------------- MODULE PlaygroundProps --------------------------
(***************************************************************************)
(* What should be true of source/asm.c under programs/playground.asm.      *)
(***************************************************************************)
EXTENDS Playground

\* Every variable has the shape the code gives it.
TypeOK ==
  /\ data \in BOOLEAN /\ swallowed \in BOOLEAN /\ rewound \in Nat
  /\ bin \in Buffer \cup {NULL}
  /\ binCap \in 0 .. MaxBin /\ binLen \in 0 .. MaxWord - 1 /\ size \in 0 .. MaxWord - 1
  /\ binPtr \in Pointer
  /\ dataPtr \in 0 .. AreaSize
  /\ values \in Seq(Value) /\ incomplete \in Seq(IncompValue)
  /\ macros \in 0 .. MaxMacros /\ included \subseteq File
  /\ frames \in Seq(Include \cup Macro)
  /\ pending \subseteq DOMAIN values /\ links \subseteq Link
  /\ pc \in Outcome /\ line \in Line

\* An included file that fails puts binPtr back to where it was, while the
\* binary may have grown into another block meanwhile (asm.c:359-363).  binPtr
\* is left astray only by an error that a macro then hides, or by one that ends
\* the line: as long as every error has been passed on, what the assembler
\* emits goes by the binary of the moment.
OnlyHiddenErrorsStray ==
  line = "busy" /\ pc \in {"assemble", "assembled"} /\ ~swallowed => ~Astray

\* Wherever the binary moves, whatever files are included and lines have failed
\* before: each open reference lies within the binary that completion will patch.
\* Unless an error was hidden, no two overlap and nothing more is emitted over
\* them.  All this until a negative reserve: that takes binPtr back over what was
\* emitted, and before the binary, and nothing is claimed then (asm.c:460-465).
RefsInRoom ==
  line \in {"input", "busy", "extend"} /\ rewound = 0 =>
    /\ \A i \in DOMAIN incomplete : InBinary(incomplete[i])
    /\ ~swallowed /\ pc = "assemble" =>
         \A i \in DOMAIN incomplete :
           incomplete[i].off + WordSize <= IF i < Len(incomplete)
                                             THEN incomplete[i + 1].off
                                             ELSE binPtr.off

\* A code label that is not frozen yet lies in the binary of this line or just
\* past it, so its address can be taken; unless a negative reserve has put binPtr,
\* and a label with it, before the binary (asm.c:281, 460-465).
LabelsInRoom ==
  line \in {"reset", "input", "busy", "extend"} /\ rewound = 0 =>
    \A i \in DOMAIN values : values[i].code => values[i].off \in 0 .. binCap

\* When a line has been assembled, every address of a code label of this line in
\* it leads into the binary as it stands: a label used before a later growth of
\* the binary is not left with an address from before it.  Addresses frozen by an
\* earlier line lead into binaries that are gone, and are not spoken of.
AddressesCurrent == line = "extend" => \A l \in links : ~l.frozen => l.buf = bin

\* The RET goes where Assemble said the binary ends, after the call that made
\* room for it where binPtr stands: it fits, unless the line ended in data mode,
\* or an error was hidden that put binPtr back and left the length as it was, or
\* a negative reserve took the length back, perhaps below zero (asm.c:117).
RetInRoom == line = "call" /\ ~data /\ ~swallowed /\ rewound = 0 => pc # "wild"

Including == {k \in DOMAIN frames : frames[k].call = "include"}

\* No file is read while it is being read, however includes and macros nest, so
\* includes cannot go round in circles.
IncludesNest ==
  /\ \A k \in Including : frames[k].file \in included
  /\ \A j, k \in Including : j # k => frames[j].file # frames[k].file

-----------------------------------------------------------------------------
(* What the repository says of the assembler and the code does not do *)

\* "call user's code": the addresses of labels in the code that is called lead
\* into that code, after the RET was added too.
CodeInPlace == line = "call" => \A l \in links : ~l.frozen => l.buf = bin
=============================================================================
