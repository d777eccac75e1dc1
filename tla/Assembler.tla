------------------------------ MODULE Assembler -----------------------------
(***************************************************************************)
(* The assembler, source/asm.c: Assembler_Assemble on one piece of source  *)
(* text, with the state an Assembler struct keeps from one text to the     *)
(* next.                                                                   *)
(*                                                                         *)
(* Text is abstracted to what its next token is: at every step the text    *)
(* may hold any token, or end; the contents of a macro and of an included  *)
(* file likewise.  Blanks and comments change nothing; a size marker only  *)
(* fixes the width of the number after it, which may be any width anyway.  *)
(*                                                                         *)
(* An address is a block of memory and an offset into it, before the block *)
(* too.  SafeRealloc may leave the binary where it is or move it to        *)
(* another block.  Bytes are not modelled, but for the addresses of code   *)
(* among them.                                                             *)
(***************************************************************************)
EXTENDS Integers, Sequences

CONSTANTS
  Name,         \* names of labels and constants
  File,         \* paths to include
  Buffer,       \* blocks the binary can live in
  NULL,         \* the NULL pointer's block
  Widths,       \* bytes of a number (1, 2, 4 in the code)
  Lengths,      \* bytes of a string
  Reserves,     \* what follows `reserve', of either sign
  MaxInt,       \* the greatest number strtol gives (2^31 - 1 in the code)
  WordSize,     \* bytes of an address (4 in the code)
  Slack,        \* bytes to spare in a grown binary (32 in the code)
  AreaSize,     \* bytes of the data area
  MaxBin,       \* bound on the memory for the binary
  MaxBack,      \* bound on how far before the binary a reserve leaves binPtr
  MaxRewinds,   \* bound on the reserves that move binPtr back in one binary
  MaxValues,    \* bound on the labels and constants
  MaxRefs,      \* bound on the open references
  MaxMacros,    \* bound on the macros
  MaxDepth      \* bound on the nesting of includes and macros

ASSUME AssemblerAssumption ==
  /\ NULL \notin Buffer
  /\ MaxInt \in Nat
  /\ Widths \subseteq 1 .. MaxInt
  /\ Lengths \subseteq 0 .. MaxInt
  /\ Reserves \subseteq -MaxInt - 1 .. MaxInt
  /\ WordSize \in Widths /\ WordSize < MaxInt
  /\ Slack \in Nat
  /\ AreaSize \in 0 .. MaxInt
  /\ MaxBin \in 0 .. MaxInt /\ MaxBack \in 0 .. MaxInt /\ MaxRewinds \in Nat
  /\ MaxValues \in Nat /\ MaxRefs \in Nat /\ MaxMacros \in Nat /\ MaxDepth \in Nat

\* A size_t wraps here.
MaxWord == 2 * (MaxInt + 1)

VARIABLES
  data,         \* assembling into the data area, not the binary
  bin,          \* the block the binary lives in
  binCap,       \* its size
  binPtr,       \* where the next byte of code goes
  binLen,       \* the length of the binary as callers are told it
  dataPtr,      \* where in the area the next byte of data goes
  values,       \* labels and constants in the order of their definition
  incomplete,   \* references to be patched on completion, in order
  macros,       \* the macros defined are 1 .. macros
  included,     \* the files marked as included
  frames,       \* the nested calls of Assembler_Assemble
  pending,      \* the places in values that the present token has still to emit
  links,        \* blocks that addresses in the binary lead to
  swallowed,    \* history: an error in this text went no further than a macro
  rewound,      \* history: how many reserves have moved binPtr back since the
                \* binary was last reset
  pc            \* "assemble", an outcome, or where the client is

binVars == <<bin, binCap, binPtr, binLen>>
tables  == <<values, incomplete, macros, included>>
history == <<swallowed, rewound>>
asmVars == <<data, binVars, dataPtr, tables, frames, pending, links, history, pc>>

(***************************************************************************)
(* "assemble"  within Assembler_Assemble                                   *)
(* "assembled" it returned true                                            *)
(* "failed"    it returned false                                           *)
(* "exited"    after exit(1)                                               *)
(* "wild"      after a store outside the binary, or through a pointer that *)
(*             has nothing to do with it                                   *)
(***************************************************************************)
Outcome == {"assemble", "assembled", "failed", "exited", "wild"}

Pointer == [buf : Buffer \cup {NULL}, off : Int]

\* A code label has its offset into the binary; frozen, it has the address
\* instead.  Other values are numbers and addresses of data.
Value == [name : Name, code : BOOLEAN, size : Widths,
          buf : Buffer \cup {NULL}, off : Int]

IncompValue == [name : Name, off : Int]

\* An address of code in the binary, put there by patching a reference or by
\* emitting a frozen label.
Link == [frozen : BOOLEAN, buf : Buffer \cup {NULL}]

Include == [call : {"include"}, file : File, oldBinPtr : Pointer]
Macro   == [call : {"macro"}, at : 1 .. MaxMacros]

Astray == binPtr.buf # bin

-----------------------------------------------------------------------------
(* Room for what is emitted *)

\* Mutant: the last byte is not counted.
FullLater(n) == (binPtr.off + n) % MaxWord > binCap + 1

\* Assembler_AssertBinSpace in code mode finds the binary too small, also for an
\* end before its beginning: the distance is unsigned.
Full(n) == (binPtr.off + n) % MaxWord > binCap

\* Blocks that nothing leads to: a block allocated anew is another block, also
\* where the allocator uses the address of a freed one again.
Unused == {b \in Buffer :
             /\ b \notin {bin, binPtr.buf}
             /\ \A i \in DOMAIN values : values[i].buf # b
             /\ \A l \in links : l.buf # b
             /\ \A i \in DOMAIN frames :
                  frames[i].call = "include" => frames[i].oldBinPtr.buf # b}

\* Assembler_AssertBinSpace in code mode.  SafeRealloc to no bytes gives NULL.
MakeRoom(n) ==
  /\ ~Astray
  /\ \/ /\ ~Full(n)
        /\ UNCHANGED <<bin, binCap>>
     \/ /\ Full(n)
        /\ binCap' = binCap + n + Slack
        /\ binCap' \in 0 .. MaxBin
        /\ bin' \in IF binCap' = 0 /\ bin # NULL THEN {NULL}
                                              ELSE Unused \cup ({bin} \ {NULL})
  /\ binLen' = (binLen + n) % MaxWord

\* binPtr moves on over n bytes, wherever the binary is then.
Advance(n) ==
  /\ MakeRoom(n)
  /\ binPtr' = [buf |-> bin', off |-> binPtr.off + n]

\* n bytes written to the binary.
EmitCode(n) ==
  /\ Advance(n)
  /\ n > 0 => binPtr.off \in 0 .. binCap' - n

\* What is written goes outside the binary, made larger or not.
Outside == binPtr.off \notin 0 .. binCap + Slack

\* Mutant: the byte after the area counts as part of it.
RoomInLargerArea(n) == (dataPtr + n) % MaxWord <= AreaSize + 1

RoomInArea(n) == (dataPtr + n) % MaxWord <= AreaSize

\* n bytes written to where the mode says.
Emit(n) ==
  IF data THEN /\ RoomInArea(n)
               /\ dataPtr' = dataPtr + n
               /\ UNCHANGED binVars
          ELSE /\ EmitCode(n)
               /\ UNCHANGED dataPtr

-----------------------------------------------------------------------------
(* Leaving a call of Assembler_Assemble *)

\* The frames left when the expansion that is frame k ends: a later macro may
\* be expanded as well, as the loop over the macros goes on with whatever token
\* the expansion left behind.
AfterMacro(k) ==
  {SubSeq(frames, 1, k - 1)} \cup
  {Append(SubSeq(frames, 1, k - 1), [call |-> "macro", at |-> j]) :
     j \in frames[k].at + 1 .. macros}

MacroFrames == {k \in DOMAIN frames : frames[k].call = "macro"}

\* `return false'.  Every include on the way out puts back the binPtr it found;
\* a macro expansion ignores the result.
Fail ==
  /\ \E k \in MacroFrames \cup {0} :
       /\ \A j \in MacroFrames : j <= k
       /\ binPtr' = IF Len(frames) > k THEN frames[k + 1].oldBinPtr ELSE binPtr
       /\ IF k = 0 THEN /\ frames' = <<>>
                        /\ pc' = "failed"
                        /\ UNCHANGED swallowed
                   ELSE /\ frames' \in AfterMacro(k)
                        /\ swallowed' = TRUE
                        /\ UNCHANGED pc
  /\ pending' = {}
  /\ UNCHANGED <<data, bin, binCap, binLen, dataPtr, links, rewound>>

-----------------------------------------------------------------------------
(* Tokens *)

Reading == pc = "assemble" /\ pending = {}

\* `#', an instruction.
Opcode ==
  /\ Reading /\ ~data
  /\ EmitCode(1)
  /\ UNCHANGED <<data, dataPtr, tables, frames, pending, links, history, pc>>

\* `{': push the address of the data that follow.
OpenData ==
  /\ Reading /\ ~data
  /\ EmitCode(1 + WordSize)
  /\ data' = TRUE
  /\ UNCHANGED <<dataPtr, tables, frames, pending, links, history, pc>>

\* An instruction, or `{', in data mode: room is looked for in the area, and
\* then the binary is written to.
CodeInData(n) ==
  /\ Reading /\ data
  /\ RoomInArea(n)
  /\ IF bin = NULL \/ Astray \/ Outside \/ Full(n)
       THEN pc' = "wild" /\ UNCHANGED binPtr
       ELSE binPtr' = [binPtr EXCEPT !.off = @ + n] /\ UNCHANGED pc
  /\ UNCHANGED <<data, bin, binCap, binLen, dataPtr, tables, frames, pending,
                 links, history>>

\* A string, a number.
Bytes(n) ==
  /\ Reading
  /\ Emit(n)
  /\ UNCHANGED <<data, tables, frames, pending, links, history, pc>>

\* reserve n: nothing is written, and n may be negative.
Reserve(n) ==
  /\ Reading
  /\ IF data THEN /\ RoomInArea(n)
                  /\ dataPtr' = dataPtr + n
                  /\ UNCHANGED <<binVars, rewound>>
             ELSE /\ Advance(n)
                  /\ binPtr.off + n >= -MaxBack
                  /\ IF n < 0 THEN rewound < MaxRewinds /\ rewound' = rewound + 1
                              ELSE UNCHANGED rewound
                  /\ UNCHANGED dataPtr
  /\ UNCHANGED <<data, tables, frames, pending, links, swallowed, pc>>

\* `}', %code, %data.
SetMode(mode) ==
  /\ Reading
  /\ data' = mode
  /\ UNCHANGED <<binVars, dataPtr, tables, frames, pending, links, history, pc>>

AddValue(v) ==
  /\ Len(values) < MaxValues
  /\ values' = Append(values, v)
  /\ UNCHANGED <<data, binVars, dataPtr, incomplete, macros, included, frames,
                 pending, links, history, pc>>

\* @name
Label(name) ==
  /\ Reading
  /\ ~data => ~Astray
  /\ AddValue([name |-> name, code |-> ~data, size |-> WordSize, buf |-> NULL,
               off |-> IF data THEN 0 ELSE binPtr.off])

\* define name number
Define(name, w) ==
  /\ Reading
  /\ AddValue([name |-> name, code |-> FALSE, size |-> w, buf |-> NULL, off |-> 0])

\* :name contents :
DefineMacro ==
  /\ Reading
  /\ macros < MaxMacros
  /\ macros' = macros + 1
  /\ UNCHANGED <<data, binVars, dataPtr, values, incomplete, included, frames,
                 pending, links, history, pc>>

-----------------------------------------------------------------------------
(* Identifiers *)

Named(name) == {i \in DOMAIN values : values[i].name = name}

\* Mutant: code labels are emitted like any other value, as an address.
EmittedWithLabels(name) == Named(name)

\* What a name is replaced by: the values of that name up to the first code
\* label ("prevent broken addresses from being put into the binary").
Emitted(name) == {i \in Named(name) : \A j \in Named(name) : j <= i => ~values[j].code}

\* name, a value
Use(name) ==
  /\ Reading
  /\ Emitted(name) # {}
  /\ pending' = Emitted(name)
  /\ UNCHANGED <<data, binVars, dataPtr, tables, frames, links, history, pc>>

\* The value of those pending that is next, in the order of the table.
Due == {i \in pending : \A j \in pending : i <= j}

\* The address a value leaves in the binary, if it is one of code.
LinkTo(v) == [frozen |-> ~v.code, buf |-> IF v.code THEN bin ELSE v.buf]
Addresses(found) == {l \in {LinkTo(values[i]) : i \in found} : l.buf # NULL}

\* One of the values a name stands for.
EmitValue ==
  /\ pc = "assemble"
  /\ \E i \in Due :
       /\ Emit(values[i].size)
       /\ links' = IF data THEN links ELSE links \cup Addresses({i})
       /\ pending' = pending \ {i}
  /\ UNCHANGED <<data, tables, frames, history, pc>>

\* name, not a value yet: leave room for an address.
Refer(name) ==
  /\ Reading /\ ~data
  /\ Emitted(name) = {}
  /\ Advance(WordSize)
  /\ Len(incomplete) < MaxRefs
  /\ incomplete' = Append(incomplete, [name |-> name, off |-> binPtr.off])
  /\ UNCHANGED <<data, dataPtr, values, macros, included, frames, pending, links,
                 history, pc>>

\* name, a macro
Expand(i) ==
  /\ Reading
  /\ Len(frames) < MaxDepth
  /\ frames' = Append(frames, [call |-> "macro", at |-> i])
  /\ UNCHANGED <<data, binVars, dataPtr, tables, pending, links, history, pc>>

-----------------------------------------------------------------------------
(* Included files *)

\* Mutant: the file is not marked.
IncludeUnmarked(f) ==
  /\ Reading
  /\ f \notin included
  /\ Len(frames) < MaxDepth
  /\ frames' = Append(frames, [call |-> "include", file |-> f, oldBinPtr |-> binPtr])
  /\ UNCHANGED <<data, binVars, dataPtr, tables, pending, links, history, pc>>

\* %include "file", the first time.
IncludeFile(f) ==
  /\ Reading
  /\ f \notin included
  /\ Len(frames) < MaxDepth
  /\ included' = included \cup {f}
  /\ frames' = Append(frames, [call |-> "include", file |-> f, oldBinPtr |-> binPtr])
  /\ UNCHANGED <<data, binVars, dataPtr, values, incomplete, macros, pending, links,
                 history, pc>>

\* The file cannot be read; it stays marked as included.
IncludeMissing(f) ==
  /\ Reading
  /\ f \notin included
  /\ included' = included \cup {f}
  /\ Fail
  /\ UNCHANGED <<values, incomplete, macros>>

\* Mutant: an include puts binPtr back when it ends well, too.
EndNestedRestores ==
  /\ Reading
  /\ frames # <<>>
  /\ LET top == frames[Len(frames)]
     IN  IF top.call = "macro" THEN /\ frames' \in AfterMacro(Len(frames))
                                    /\ UNCHANGED binPtr
                               ELSE /\ frames' = SubSeq(frames, 1, Len(frames) - 1)
                                    /\ binPtr' = top.oldBinPtr
  /\ UNCHANGED <<data, bin, binCap, binLen, dataPtr, tables, pending, links,
                 history, pc>>

\* The included file, or the macro, ends.
EndNested ==
  /\ Reading
  /\ frames # <<>>
  /\ frames' \in IF Len(frames) \in MacroFrames THEN AfterMacro(Len(frames))
                                           ELSE {SubSeq(frames, 1, Len(frames) - 1)}
  /\ UNCHANGED <<data, binVars, dataPtr, tables, pending, links, history, pc>>

-----------------------------------------------------------------------------
(* The ends of a text *)

\* A token that is no good: an unknown marker or directive, a number of odd
\* length, `#' or an unknown name in data mode.  Or, while a token of data or a
\* value is emitted, the area is full.
Reject ==
  /\ pc = "assemble"
  /\ pending # {} => data /\ \E i \in Due : ~RoomInArea(values[i].size)
  /\ Fail
  /\ UNCHANGED tables

\* The value an open reference is patched with: the first of its name.
FirstNamed(name) == {i \in Named(name) : \A j \in Named(name) : i <= j}

Patchable(r) == \E i \in FirstNamed(r.name) : values[i].size = WordSize

\* The bytes of the reference are in the binary.
InBinary(r) == r.off \in 0 .. binCap - WordSize

\* Completion: patch every open reference in the binary as it stands now.
Complete ==
  /\ Reading /\ frames = <<>>
  /\ \A k \in DOMAIN incomplete : Patchable(incomplete[k]) /\ InBinary(incomplete[k])
  /\ links' = links \cup Addresses(UNION {FirstNamed(incomplete[k].name) : k \in DOMAIN incomplete})
  /\ pc' = "assembled"
  /\ UNCHANGED <<data, binVars, dataPtr, tables, frames, pending, history>>

\* "Couldn't find value", "Incomplete value must be 4 bytes", when those before
\* have been patched.
CompletionFails ==
  /\ Reading /\ frames = <<>>
  /\ \E i \in DOMAIN incomplete :
       /\ ~Patchable(incomplete[i])
       /\ \A k \in 1 .. i - 1 : Patchable(incomplete[k]) /\ InBinary(incomplete[k])
  /\ Fail
  /\ UNCHANGED tables

\* A reference outside the binary is patched.
PatchAstray ==
  /\ Reading /\ frames = <<>>
  /\ \E i \in DOMAIN incomplete :
       /\ ~InBinary(incomplete[i])
       /\ \A k \in 1 .. i : Patchable(incomplete[k])
  /\ pc' = "wild"
  /\ UNCHANGED <<data, binVars, dataPtr, tables, frames, pending, links, history>>

\* No memory for a table or the binary, or an %include without its quote.
Exit ==
  /\ pc = "assemble"
  /\ pc' = "exited"
  /\ UNCHANGED <<data, binVars, dataPtr, tables, frames, pending, links, history>>

\* The distance of a stale binPtr from the binary is taken, to emit or to place
\* a label; or something is written outside the binary.
GoAstray ==
  /\ pc = "assemble" /\ ~data /\ (Astray \/ Outside)
  /\ pc' = "wild"
  /\ UNCHANGED <<data, binVars, dataPtr, tables, frames, pending, links, history>>

-----------------------------------------------------------------------------
\* Assembler_InitBasic, and the area set.
AsmInit ==
  /\ data = FALSE
  /\ bin = NULL /\ binCap = 0 /\ binPtr = [buf |-> NULL, off |-> 0] /\ binLen = 0
  /\ dataPtr = 0
  /\ values = <<>> /\ incomplete = <<>> /\ macros = 0 /\ included = {}
  /\ frames = <<>> /\ pending = {} /\ links = {}
  /\ swallowed = FALSE /\ rewound = 0

Token ==
  \/ Opcode \/ OpenData
  \/ \E n \in {1, 1 + WordSize} : CodeInData(n)
  \/ \E n \in Widths \cup Lengths : Bytes(n)
  \/ \E n \in Reserves : Reserve(n)
  \/ \E mode \in BOOLEAN : SetMode(mode)
  \/ \E name \in Name : Label(name)
  \/ \E name \in Name, w \in Widths : Define(name, w)
  \/ DefineMacro
  \/ \E name \in Name : Use(name) \/ Refer(name)
  \/ EmitValue
  \/ \E i \in 1 .. macros : Expand(i)
  \/ \E f \in File : IncludeFile(f) \/ IncludeMissing(f)
  \/ EndNested

Assemble ==
  Token \/ Reject \/ Complete \/ CompletionFails \/ PatchAstray \/ Exit \/ GoAstray
=============================================================================
