-------------------------- MODULE PlaygroundProofs --------------------------
(***************************************************************************)
(* The assembler under the playground for any text, any number of lines,   *)
(* labels, references, files and macros, any nesting, and binaries that    *)
(* grow and move in any way SafeRealloc may move them.                     *)
(***************************************************************************)
EXTENDS PlaygroundProps, TLAPS

-----------------------------------------------------------------------------
(* The inductive invariant *)

\* Outside Assemble no call is open, and the loop goes on from a line that
\* was assembled or failed.
PlaceInv ==
  /\ line # "busy" \/ pc \in {"assembled", "failed"} => frames = <<>> /\ pending = {}
  /\ line \in {"refs", "freeze", "reset", "input"} => pc \in {"assembled", "failed"}
  /\ line = "extend" => pc = "assembled"
  /\ line \in {"ret", "call"} => pc \in {"assembled", "wild", "exited"}

\* Unless a negative reserve took it back, binPtr, also once an include has put it
\* back, is no further than the room there is.
RoomInv ==
  /\ bin = NULL => binCap = 0
  /\ rewound = 0 => /\ binPtr.off \in 0 .. binCap
                    /\ \A k \in Including : frames[k].oldBinPtr.off \in 0 .. binCap

\* Open references have their room, and there are none when the binary goes.
RefsInv ==
  /\ rewound = 0 =>
       \A i \in DOMAIN incomplete :
         0 <= incomplete[i].off /\ incomplete[i].off + WordSize <= binCap
  /\ line \in {"freeze", "reset", "input"} => incomplete = <<>>

\* They lie one after the other, before what is emitted next.
OrderInv ==
  pc = "assemble" /\ ~swallowed /\ rewound = 0 =>
    \A i \in DOMAIN incomplete :
      incomplete[i].off + WordSize <= IF i < Len(incomplete)
                                        THEN incomplete[i + 1].off
                                        ELSE binPtr.off

\* Labels not frozen lie in the binary, and there are none when it goes.
LabelInv ==
  /\ rewound = 0 => \A i \in DOMAIN values : values[i].code => values[i].off \in 0 .. binCap
  /\ line \in {"reset", "input"} => \A i \in DOMAIN values : ~values[i].code
  /\ \A i \in pending : ~values[i].code

\* Before completion every address of code is a frozen one; completion adds
\* those into the binary as it stands.
LinkInv ==
  /\ line = "input" \/ pc = "assemble" => \A l \in links : l.frozen
  /\ line \in {"busy", "extend"} /\ pc = "assembled" =>
       \A l \in links : ~l.frozen => l.buf = bin

\* Unless an error was hidden, binPtr goes by the binary, and unless it was taken
\* back it is not before the end that callers are told.
SaneInv ==
  (\/ line = "input"
   \/ line \in {"busy", "extend"} /\ pc \in {"assemble", "assembled"} /\ ~swallowed)
    => ~Astray /\ (rewound = 0 => binLen <= binPtr.off)

\* The RET has the room that was made for it.
RetInv ==
  /\ line = "extend" => size = binLen
  /\ line = "ret" /\ ~data /\ ~swallowed /\ rewound = 0 /\ pc # "exited" =>
       pc = "assembled" /\ bin # NULL /\ size + 1 <= binCap
  /\ RetInRoom

IInv == TypeOK /\ IncludesNest /\ PlaceInv /\ RoomInv /\ RefsInv /\ OrderInv
        /\ LabelInv /\ LinkInv /\ SaneInv /\ RetInv

-----------------------------------------------------------------------------
(* Lemmas about the operators *)

\* The constants are numbers, and NULL is no block.
LEMMA Sizes ==
  /\ NULL \notin Buffer
  /\ WordSize \in Widths /\ WordSize \in Nat /\ WordSize > 0 /\ 1 + WordSize \in 0 .. MaxInt
  /\ 1 \in 0 .. MaxInt
  /\ \A w \in Widths : w \in 0 .. MaxInt /\ w > 0
  /\ Lengths \subseteq 0 .. MaxInt
  /\ Slack \in Nat /\ AreaSize \in Nat /\ MaxBin \in Nat /\ MaxMacros \in Nat
  /\ 0 .. MaxInt \subseteq Nat /\ MaxInt \in Nat
<1>1. Widths \subseteq 1 .. MaxInt /\ WordSize \in Widths /\ WordSize < MaxInt /\ MaxInt \in Nat
  BY AssemblerAssumption
<1> QED BY <1>1, AssemblerAssumption

\* A size_t counts from zero, and small numbers are what they are in it.
LEMMA Wrapped ==
  /\ MaxWord \in Nat /\ 0 \in 0 .. MaxWord - 1
  /\ \A x \in Int : x % MaxWord \in 0 .. MaxWord - 1
  /\ \A x \in Int : 0 <= x /\ x < MaxWord => x % MaxWord = x
  /\ \A x \in Int : -MaxWord <= x /\ x < 0 => x % MaxWord = x + MaxWord
<1>1. MaxWord \in Nat /\ MaxWord > 0 BY AssemblerAssumption DEF MaxWord
<1>2. \A m \in Nat, x \in Int :
        m > 0 => /\ x % m \in 0 .. m - 1
                 /\ 0 <= x /\ x < m => x % m = x
                 /\ -m <= x /\ x < 0 => x % m = x + m
  OBVIOUS
<1> QED BY <1>1, <1>2

\* Room in the area keeps dataPtr in it, also when a reserve moves it back.
LEMMA AreaKept ==
  ASSUME dataPtr \in 0 .. AreaSize, NEW n \in -MaxInt - 1 .. MaxInt, RoomInArea(n)
  PROVE  dataPtr + n \in 0 .. AreaSize
<1>1. AreaSize \in 0 .. MaxInt /\ MaxInt \in Nat BY AssemblerAssumption
<1>2. MaxWord = 2 * MaxInt + 2 BY <1>1 DEF MaxWord
<1>3. dataPtr + n \in Int /\ dataPtr + n < MaxWord /\ -MaxWord <= dataPtr + n /\ dataPtr \in Nat
  BY <1>1, <1>2
<1>4. CASE dataPtr + n < 0
  <2>1. (dataPtr + n) % MaxWord = dataPtr + n + MaxWord BY <1>3, <1>4, Wrapped
  <2> QED BY <1>1, <1>2, <1>3, <2>1 DEF RoomInArea
<1>5. CASE 0 <= dataPtr + n
  <2>1. (dataPtr + n) % MaxWord = dataPtr + n BY <1>3, <1>5, Wrapped
  <2> QED BY <1>1, <1>3, <1>5, <2>1 DEF RoomInArea
<1> QED BY <1>3, <1>4, <1>5

\* Sequences that are cut at the end.
LEMMA Cut ==
  ASSUME NEW S, NEW s \in Seq(S), NEW n \in 0 .. Len(s)
  PROVE  /\ SubSeq(s, 1, n) \in Seq(S) /\ Len(SubSeq(s, 1, n)) = n
         /\ \A i \in 1 .. n : SubSeq(s, 1, n)[i] = s[i]
  OBVIOUS

\* And ones that grow.
LEMMA Grown ==
  ASSUME NEW S, NEW s \in Seq(S), NEW e \in S
  PROVE  /\ Append(s, e) \in Seq(S) /\ Len(Append(s, e)) = Len(s) + 1
         /\ \A i \in 1 .. Len(s) : Append(s, e)[i] = s[i]
         /\ Append(s, e)[Len(s) + 1] = e
         /\ DOMAIN Append(s, e) = DOMAIN s \cup {Len(s) + 1}
  OBVIOUS

\* What making room does to the binary, for any number of bytes.
LEMMA Room ==
  ASSUME TypeOK, NEW n \in Int, MakeRoom(n)
  PROVE  /\ bin' \in Buffer \cup {NULL} /\ binCap' \in 0 .. MaxBin
         /\ binLen' \in 0 .. MaxWord - 1
         /\ (bin = NULL => binCap = 0) => (bin' = NULL => binCap' = 0)
         /\ ~Astray
<1>1. binCap \in 0 .. MaxBin /\ binLen \in 0 .. MaxWord - 1 /\ bin \in Buffer \cup {NULL}
  BY DEF TypeOK
<1>2. binLen' \in 0 .. MaxWord - 1
  <2>1. binLen + n \in Int BY <1>1, Wrapped
  <2> QED BY <2>1, Wrapped DEF MakeRoom
<1>3. CASE ~Full(n) /\ bin' = bin /\ binCap' = binCap
  BY <1>1, <1>2, <1>3 DEF MakeRoom
<1>4. CASE /\ binCap' = binCap + n + Slack /\ binCap' \in 0 .. MaxBin
           /\ bin' \in IF binCap' = 0 /\ bin # NULL THEN {NULL}
                                                  ELSE Unused \cup ({bin} \ {NULL})
  <2>1. CASE binCap' = 0 /\ bin # NULL BY <1>2, <1>4, <2>1 DEF MakeRoom
  <2>2. CASE ~(binCap' = 0 /\ bin # NULL)
    <3>1. bin' \in Buffer BY <1>1, <1>4, <2>2 DEF Unused
    <3> QED BY <1>2, <1>4, <3>1, Sizes DEF MakeRoom
  <2> QED BY <2>1, <2>2
<1> QED BY <1>3, <1>4 DEF MakeRoom

\* For so many bytes, where binPtr is in the binary, there is room for them.
LEMMA RoomMade ==
  ASSUME TypeOK, NEW n \in 0 .. MaxInt, MakeRoom(n), binPtr.off \in 0 .. binCap
  PROVE  /\ binCap <= binCap' /\ binPtr.off + n <= binCap'
         /\ binLen <= binPtr.off => binLen' = binLen + n
<1>1. /\ binCap \in 0 .. MaxBin /\ binLen \in 0 .. MaxWord - 1 /\ binPtr.off \in 0 .. binCap
      /\ MaxBin \in 0 .. MaxInt /\ MaxInt \in Nat /\ Slack \in Nat
  BY AssemblerAssumption DEF TypeOK
<1>2. MaxWord = 2 * MaxInt + 2 /\ MaxWord \in Nat BY <1>1 DEF MaxWord
<1>3. binPtr.off + n \in Int /\ 0 <= binPtr.off + n /\ binPtr.off + n < MaxWord BY <1>1, <1>2
<1>4. (binPtr.off + n) % MaxWord = binPtr.off + n BY <1>3, Wrapped
<1>5. ASSUME binLen <= binPtr.off PROVE binLen' = binLen + n
  <2>1. binLen + n \in Int /\ 0 <= binLen + n /\ binLen + n < MaxWord BY <1>1, <1>2, <1>5
  <2>2. (binLen + n) % MaxWord = binLen + n BY <2>1, Wrapped
  <2> QED BY <2>2 DEF MakeRoom
<1>6. CASE ~Full(n) /\ binCap' = binCap BY <1>1, <1>4, <1>5, <1>6 DEF Full
<1>7. CASE binCap' = binCap + n + Slack BY <1>1, <1>5, <1>7
<1> QED BY <1>6, <1>7 DEF MakeRoom

\* And where binPtr is when it has moved on.
LEMMA Advancing ==
  ASSUME TypeOK, NEW n \in Int, Advance(n)
  PROVE  /\ MakeRoom(n)
         /\ binPtr' \in Pointer /\ binPtr'.buf = bin' /\ binPtr'.off = binPtr.off + n
<1>1. MakeRoom(n) /\ binPtr' = [buf |-> bin', off |-> binPtr.off + n] BY DEF Advance
<1>2. binPtr.off \in Int BY DEF TypeOK, Pointer
<1>3. bin' \in Buffer \cup {NULL} BY <1>1, Room
<1>4. binPtr' \in Pointer BY <1>1, <1>2, <1>3 DEF Pointer
<1> QED BY <1>1, <1>4

\* Where the frames of a failed call are cut.
LEMMA Ending ==
  ASSUME TypeOK, NEW k \in MacroFrames, NEW f \in AfterMacro(k)
  PROVE  /\ k \in 1 .. Len(frames)
         /\ \/ f = SubSeq(frames, 1, k - 1)
            \/ \E j \in 1 .. MaxMacros :
                 f = Append(SubSeq(frames, 1, k - 1), [call |-> "macro", at |-> j])
<1>1. k \in 1 .. Len(frames) /\ frames[k].call = "macro" BY DEF MacroFrames, TypeOK
<1>2. frames[k] \in Macro BY <1>1 DEF TypeOK, Include, Macro
<1>3. \A j \in frames[k].at + 1 .. macros : j \in 1 .. MaxMacros
  BY <1>2, Sizes DEF Macro, TypeOK
<1> QED BY <1>1, <1>3 DEF AfterMacro

\* What is left of the frames is frames.
LEMMA EndingType ==
  ASSUME TypeOK, NEW k \in MacroFrames, NEW f \in AfterMacro(k)
  PROVE  f \in Seq(Include \cup Macro)
<1>1. k \in 1 .. Len(frames) /\ frames \in Seq(Include \cup Macro) BY Ending DEF TypeOK
<1>2. SubSeq(frames, 1, k - 1) \in Seq(Include \cup Macro) BY <1>1
<1>3. \A j \in 1 .. MaxMacros : [call |-> "macro", at |-> j] \in Macro BY DEF Macro
<1>4. CASE f = SubSeq(frames, 1, k - 1) BY <1>2, <1>4
<1>5. CASE f # SubSeq(frames, 1, k - 1)
  <2>1. PICK j \in 1 .. MaxMacros :
          f = Append(SubSeq(frames, 1, k - 1), [call |-> "macro", at |-> j])
    BY <1>5, Ending
  <2>2. [call |-> "macro", at |-> j] \in Include \cup Macro BY <1>3
  <2> QED BY <1>2, <2>1, <2>2, Grown
<1> QED BY <1>4, <1>5

\* What a failure does.
LEMMA Failing ==
  ASSUME TypeOK, Fail
  PROVE  /\ binPtr' = binPtr \/ \E i \in Including : binPtr' = frames[i].oldBinPtr
         /\ pending' = {}
         /\ UNCHANGED <<data, bin, binCap, binLen, dataPtr, links, rewound>>
         /\ \/ frames' = <<>> /\ pc' = "failed" /\ UNCHANGED swallowed
            \/ /\ swallowed' = TRUE /\ UNCHANGED pc
               /\ \E k \in MacroFrames : frames' \in AfterMacro(k)
<1>1. pending' = {} /\ UNCHANGED <<data, bin, binCap, binLen, dataPtr, links, rewound>> BY DEF Fail
<1>2. PICK k \in MacroFrames \cup {0} :
        /\ \A j \in MacroFrames : j <= k
        /\ binPtr' = IF Len(frames) > k THEN frames[k + 1].oldBinPtr ELSE binPtr
        /\ IF k = 0 THEN /\ frames' = <<>>
                         /\ pc' = "failed"
                         /\ UNCHANGED swallowed
                    ELSE /\ frames' \in AfterMacro(k)
                         /\ swallowed' = TRUE
                         /\ UNCHANGED pc
  BY DEF Fail
<1>3. k \in Nat /\ (k # 0 => k \in MacroFrames) BY <1>2 DEF MacroFrames, TypeOK
<1>4. binPtr' = binPtr \/ \E i \in Including : binPtr' = frames[i].oldBinPtr
  <2>1. CASE Len(frames) > k
    <3>1. k + 1 \in 1 .. Len(frames) BY <1>3, <2>1 DEF TypeOK
    <3>2. k + 1 \notin MacroFrames BY <1>2, <1>3
    <3>3. frames[k + 1].call = "include" BY <3>1, <3>2 DEF MacroFrames, TypeOK, Include, Macro
    <3>4. k + 1 \in Including BY <3>1, <3>3 DEF Including, TypeOK
    <3> QED BY <1>2, <2>1, <3>4
  <2>2. CASE ~(Len(frames) > k) BY <1>2, <2>2
  <2> QED BY <2>1, <2>2
<1>5. CASE k = 0 BY <1>1, <1>2, <1>4, <1>5
<1>6. CASE k # 0 BY <1>1, <1>2, <1>3, <1>4, <1>6
<1> QED BY <1>5, <1>6
-----------------------------------------------------------------------------
(* Tokens *)

\* The offsets in the tables are numbers.
LEMMA Offsets ==
  ASSUME TypeOK
  PROVE  /\ \A i \in DOMAIN incomplete : incomplete[i].off \in Int
         /\ \A i \in DOMAIN values : values[i].off \in Int
<1>1. \A i \in DOMAIN incomplete : incomplete[i] \in IncompValue BY DEF TypeOK
<1>2. \A i \in DOMAIN values : values[i] \in Value BY DEF TypeOK
<1> QED BY <1>1, <1>2 DEF IncompValue, Value

\* What any token moves on by, in either mode.
Moves(n) ==
  \/ RoomInArea(n) /\ dataPtr' = dataPtr + n /\ UNCHANGED binVars
  \/ Advance(n) /\ UNCHANGED dataPtr

\* Emission moves on.
LEMMA EmitMoves == ASSUME NEW n, Emit(n) \/ (EmitCode(n) /\ UNCHANGED dataPtr) PROVE Moves(n)
  BY DEF Emit, EmitCode, Moves

\* Moving, in either mode and direction, keeps the types and follows the binary.
LEMMA Moving ==
  ASSUME TypeOK, NEW n \in -MaxInt - 1 .. MaxInt, Moves(n)
  PROVE  /\ bin' \in Buffer \cup {NULL} /\ binCap' \in 0 .. MaxBin /\ binLen' \in 0 .. MaxWord - 1
         /\ binPtr' \in Pointer /\ dataPtr' \in 0 .. AreaSize
         /\ (bin = NULL => binCap = 0) => (bin' = NULL => binCap' = 0)
         /\ binPtr.buf = bin => binPtr'.buf = bin'
<1>1. n \in Int /\ dataPtr \in 0 .. AreaSize BY Sizes DEF TypeOK
<1>2. CASE Advance(n) /\ UNCHANGED dataPtr
  <2>1. MakeRoom(n) /\ binPtr' \in Pointer /\ binPtr'.buf = bin' BY <1>1, <1>2, Advancing
  <2> QED BY <1>1, <1>2, <2>1, Room
<1>3. CASE RoomInArea(n) /\ dataPtr' = dataPtr + n /\ UNCHANGED binVars
  <2>1. UNCHANGED <<bin, binCap, binPtr, binLen>> BY <1>3 DEF binVars
  <2>2. dataPtr' \in 0 .. AreaSize BY <1>1, <1>3, AreaKept
  <2> QED BY <2>1, <2>2 DEF TypeOK
<1> QED BY <1>2, <1>3 DEF Moves

\* Moving on, where binPtr is in the binary, leaves it in its room.
LEMMA Writing ==
  ASSUME TypeOK, NEW n \in 0 .. MaxInt, Moves(n), binPtr.off \in 0 .. binCap
  PROVE  /\ binCap <= binCap' /\ binPtr.off <= binPtr'.off
         /\ binPtr'.off \in 0 .. binCap'
         /\ binLen <= binPtr.off => binLen' <= binPtr'.off
<1>1. /\ n \in Nat /\ binPtr.off \in Nat /\ binCap \in Nat /\ binLen \in Nat /\ n \in Int
  BY Sizes, Wrapped DEF TypeOK
<1>2. CASE Advance(n) /\ UNCHANGED dataPtr
  <2>1. MakeRoom(n) /\ binPtr'.off = binPtr.off + n BY <1>1, <1>2, Advancing
  <2>2. binCap' \in 0 .. MaxBin /\ MaxBin \in Nat BY <1>1, <2>1, Room, Sizes
  <2>3. /\ binCap <= binCap' /\ binPtr.off + n <= binCap'
        /\ binLen <= binPtr.off => binLen' = binLen + n
    BY <2>1, RoomMade
  <2> QED BY <1>1, <2>1, <2>2, <2>3
<1>3. CASE UNCHANGED binVars
  <2>1. UNCHANGED <<bin, binCap, binPtr, binLen>> BY <1>3 DEF binVars
  <2> QED BY <1>1, <2>1
<1> QED BY <1>2, <1>3 DEF Moves

\* Tokens that only move on.
LEMMA WritingKeeps ==
  ASSUME IInv, line = "busy", pc = "assemble", data' \in BOOLEAN, NEW n \in 0 .. MaxInt, Moves(n),
         UNCHANGED <<tables, frames, swallowed, rewound, pc, line, size>>,
         pending' \subseteq pending, links' \subseteq Link, \A l \in links' : l.frozen
  PROVE  IInv'
<1>a. TypeOK /\ n \in -MaxInt - 1 .. MaxInt BY Sizes DEF IInv
<1>b. /\ bin' \in Buffer \cup {NULL} /\ binCap' \in 0 .. MaxBin /\ binLen' \in 0 .. MaxWord - 1
      /\ binPtr' \in Pointer /\ dataPtr' \in 0 .. AreaSize
      /\ (bin = NULL => binCap = 0) => (bin' = NULL => binCap' = 0)
      /\ binPtr.buf = bin => binPtr'.buf = bin'
  BY <1>a, Moving
<1>c. rewound = 0 =>
         /\ binCap <= binCap' /\ binPtr.off <= binPtr'.off /\ binPtr.off \in 0 .. binCap
         /\ binPtr'.off \in 0 .. binCap'
         /\ binLen <= binPtr.off => binLen' <= binPtr'.off
  BY <1>a, Writing DEF IInv, RoomInv
<1>d. binCap \in Int /\ binCap' \in Int /\ binPtr.off \in Int /\ binPtr'.off \in Int
  BY <1>a, <1>b, Sizes DEF TypeOK, Pointer
<1>e. UNCHANGED <<values, incomplete, macros, included>> BY DEF tables
<1> USE DEF IInv
<1>1. TypeOK' BY <1>b, <1>e DEF TypeOK
<1>2. IncludesNest' BY <1>e DEF IncludesNest, Including
<1>3. PlaceInv' BY DEF PlaceInv
<1>4. RoomInv'
  <2>1. ASSUME rewound = 0, NEW k \in Including' PROVE frames'[k].oldBinPtr.off \in 0 .. binCap'
    <3>1. k \in Including /\ frames[k].oldBinPtr.off \in 0 .. binCap BY <2>1 DEF Including, RoomInv
    <3> QED BY <1>c, <1>d, <2>1, <3>1
  <2> QED BY <1>b, <1>c, <2>1 DEF RoomInv
<1>5. RefsInv'
  <2>1. \A i \in DOMAIN incomplete : incomplete[i].off \in Int BY <1>a, Offsets
  <2> QED BY <1>c, <1>d, <1>e, <2>1, Sizes DEF RefsInv
<1>6. OrderInv'
  <2>1. \A i \in DOMAIN incomplete : incomplete[i].off \in Int BY <1>a, Offsets
  <2> QED BY <1>c, <1>d, <1>e, <2>1, Sizes DEF OrderInv
<1>7. LabelInv'
  <2>1. \A i \in DOMAIN values : values[i].off \in Int BY <1>a, Offsets
  <2> QED BY <1>c, <1>d, <1>e, <2>1 DEF LabelInv
<1>8. LinkInv' BY DEF LinkInv
<1>9. SaneInv' BY <1>b, <1>c DEF SaneInv, Astray
<1>10. RetInv' BY DEF RetInv, RetInRoom
<1> QED BY <1>1, <1>2, <1>3, <1>4, <1>5, <1>6, <1>7, <1>8, <1>9, <1>10

\* Links are frozen while a text is read.
LEMMA Frozen == ASSUME IInv, pc = "assemble" PROVE links \subseteq Link /\ \A l \in links : l.frozen
  BY DEF IInv, TypeOK, LinkInv

\* An instruction keeps the invariant.
LEMMA OpcodeInv ==
  ASSUME IInv, line = "busy", UNCHANGED <<line, size>>, Opcode
  PROVE  IInv'
<1>1. data' \in BOOLEAN /\ Moves(1) BY EmitMoves DEF Opcode, IInv, TypeOK
<1>2. 1 \in 0 .. MaxInt BY Sizes
<1> QED BY <1>1, <1>2, WritingKeeps, Frozen DEF Opcode, Reading, history

\* So does the opening of data.
LEMMA OpenDataInv ==
  ASSUME IInv, line = "busy", UNCHANGED <<line, size>>, OpenData
  PROVE  IInv'
<1>1. data' \in BOOLEAN /\ Moves(1 + WordSize) BY EmitMoves DEF OpenData
<1>2. 1 + WordSize \in 0 .. MaxInt BY Sizes
<1> QED BY <1>1, <1>2, WritingKeeps, Frozen DEF OpenData, Reading, history

\* So do strings and numbers.
LEMMA BytesInv ==
  ASSUME IInv, line = "busy", UNCHANGED <<line, size>>, NEW n \in Widths \cup Lengths, Bytes(n)
  PROVE  IInv'
<1>1. data' \in BOOLEAN BY DEF Bytes, IInv, TypeOK
<1>3. Moves(n) BY EmitMoves DEF Bytes
<1>2. n \in 0 .. MaxInt BY Sizes
<1> QED BY <1>1, <1>2, <1>3, WritingKeeps, Frozen DEF Bytes, Reading, history

\* A reserve that moves binPtr back keeps what does not depend on where it is.
LEMMA MovingBack ==
  ASSUME IInv, line = "busy", pc = "assemble", NEW n \in -MaxInt - 1 .. MaxInt, Moves(n),
         rewound' \in Nat, rewound' # 0,
         UNCHANGED <<data, tables, frames, pending, links, swallowed, pc, line, size>>
  PROVE  IInv'
<1>a. TypeOK BY DEF IInv
<1>b. /\ bin' \in Buffer \cup {NULL} /\ binCap' \in 0 .. MaxBin /\ binLen' \in 0 .. MaxWord - 1
      /\ binPtr' \in Pointer /\ dataPtr' \in 0 .. AreaSize
      /\ (bin = NULL => binCap = 0) => (bin' = NULL => binCap' = 0)
      /\ binPtr.buf = bin => binPtr'.buf = bin'
  BY <1>a, Moving
<1>e. UNCHANGED <<values, incomplete, macros, included>> BY DEF tables
<1> USE DEF IInv
<1>1. TypeOK' BY <1>b, <1>e DEF TypeOK
<1>2. IncludesNest' BY <1>e DEF IncludesNest, Including
<1>3. PlaceInv' BY DEF PlaceInv
<1>4. RoomInv' BY <1>b DEF RoomInv
<1>5. RefsInv' /\ OrderInv' BY <1>e DEF RefsInv, OrderInv
<1>7. LabelInv' BY <1>e DEF LabelInv
<1>8. LinkInv' BY DEF LinkInv
<1>9. SaneInv' BY <1>b DEF SaneInv, Astray
<1>10. RetInv' BY DEF RetInv, RetInRoom
<1> QED BY <1>1, <1>2, <1>3, <1>4, <1>5, <1>7, <1>8, <1>9, <1>10

\* A reserve keeps the invariant, whatever its number.
LEMMA ReserveInv ==
  ASSUME IInv, line = "busy", UNCHANGED <<line, size>>, NEW n \in Reserves, Reserve(n)
  PROVE  IInv'
<1>1. n \in -MaxInt - 1 .. MaxInt /\ MaxInt \in Nat /\ rewound \in Nat /\ data' \in BOOLEAN
  BY AssemblerAssumption DEF IInv, TypeOK, Reserve
<1>2. Moves(n) BY DEF Reserve, Moves
<1>3. UNCHANGED <<data, tables, frames, pending, links, swallowed, pc>> /\ pc = "assemble"
  BY DEF Reserve, Reading
<1>4. CASE n < 0 /\ ~data
  <2>1. rewound' = rewound + 1 BY <1>4 DEF Reserve
  <2> QED BY <1>1, <1>2, <1>3, <2>1, MovingBack
<1>5. CASE n \in 0 .. MaxInt
  <2>1. rewound' = rewound BY <1>1, <1>5 DEF Reserve
  <2> QED BY <1>1, <1>2, <1>3, <1>5, <2>1, WritingKeeps, Frozen
<1>6. CASE data
  <2>1. /\ RoomInArea(n) /\ dataPtr' = dataPtr + n
        /\ UNCHANGED <<bin, binCap, binPtr, binLen, rewound>>
    BY <1>6 DEF Reserve, binVars
  <2>2. dataPtr' \in 0 .. AreaSize BY <1>1, <2>1, AreaKept DEF IInv, TypeOK
  <2>3. UNCHANGED <<values, incomplete, macros, included>> BY <1>3 DEF tables
  <2> USE DEF IInv
  <2>4. TypeOK' BY <1>1, <1>3, <2>1, <2>2, <2>3 DEF TypeOK
  <2>5. IncludesNest' BY <1>3, <2>3 DEF IncludesNest, Including
  <2>6. PlaceInv' BY <1>3 DEF PlaceInv
  <2>7. RoomInv' BY <1>3, <2>1 DEF RoomInv, Including
  <2>8. RefsInv' /\ OrderInv' BY <1>3, <2>1, <2>3 DEF RefsInv, OrderInv
  <2>9. LabelInv' BY <1>3, <2>1, <2>3 DEF LabelInv
  <2>10. LinkInv' BY <1>3, <2>1 DEF LinkInv
  <2>11. SaneInv' BY <1>3, <2>1 DEF SaneInv, Astray
  <2>12. RetInv' BY <1>3, <2>1 DEF RetInv, RetInRoom
  <2> QED BY <2>4, <2>5, <2>6, <2>7, <2>8, <2>9, <2>10, <2>11, <2>12
<1> QED BY <1>1, <1>4, <1>5, <1>6

\* A value emitted is no code label that may move, so its link is frozen.
LEMMA EmitValueInv ==
  ASSUME IInv, line = "busy", UNCHANGED <<line, size>>, EmitValue
  PROVE  IInv'
<1>1. PICK i \in Due : /\ Emit(values[i].size)
                       /\ links' = IF data THEN links ELSE links \cup Addresses({i})
                       /\ pending' = pending \ {i}
  BY DEF EmitValue
<1>2. i \in pending /\ i \in DOMAIN values /\ values[i] \in Value /\ ~values[i].code
  BY DEF Due, IInv, TypeOK, LabelInv
<1>3. values[i].size \in 0 .. MaxInt /\ Moves(values[i].size)
  <2>1. values[i].size \in Widths BY <1>2 DEF Value
  <2>2. Emit(values[i].size) BY <1>1
  <2>3. Moves(values[i].size) BY <2>2, EmitMoves
  <2> QED BY <2>1, <2>3, Sizes
<1>4. \A l \in Addresses({i}) : l \in Link /\ l.frozen
  <2>1. values[i].buf \in Buffer \cup {NULL} BY <1>2 DEF Value
  <2>2. LinkTo(values[i]) = [frozen |-> TRUE, buf |-> values[i].buf] BY <1>2 DEF LinkTo
  <2>3. \A l \in Addresses({i}) : l = LinkTo(values[i]) BY DEF Addresses
  <2>4. LinkTo(values[i]) \in Link /\ LinkTo(values[i]).frozen BY <2>1, <2>2 DEF Link
  <2> QED BY <2>3, <2>4
<1>5. links' \subseteq Link /\ \A l \in links' : l.frozen
  BY <1>1, <1>4, Frozen DEF EmitValue
<1>6. pending' \subseteq pending /\ data' \in BOOLEAN BY <1>1 DEF EmitValue, IInv, TypeOK
<1> QED BY <1>3, <1>5, <1>6, WritingKeeps DEF EmitValue, history

\* A reference left open lies where the next byte would have gone.
LEMMA ReferInv ==
  ASSUME IInv, line = "busy", UNCHANGED <<line, size>>, NEW name \in Name, Refer(name)
  PROVE  IInv'
<1> DEFINE r == [name |-> name, off |-> binPtr.off]
<1>1. Advance(WordSize) /\ incomplete' = Append(incomplete, r) /\ pc = "assemble"
  BY DEF Refer, Reading
<1>2. UNCHANGED <<data, dataPtr, values, macros, included, frames, pending, links, swallowed, rewound, pc>>
  BY DEF Refer, history
<1>0. /\ TypeOK /\ binPtr.off \in Int /\ WordSize \in 0 .. MaxInt /\ WordSize \in Int
      /\ WordSize > 0 /\ binCap \in Int /\ MaxBin \in Int
  BY Sizes DEF IInv, TypeOK, Pointer
<1>a. MakeRoom(WordSize) /\ Moves(WordSize) BY <1>0, <1>1, <1>2, Advancing DEF Moves
<1>3. /\ bin' \in Buffer \cup {NULL} /\ binCap' \in 0 .. MaxBin /\ binLen' \in 0 .. MaxWord - 1
      /\ binPtr' \in Pointer /\ binPtr'.buf = bin' /\ binPtr'.off = binPtr.off + WordSize
      /\ (bin' = NULL => binCap' = 0)
  BY <1>0, <1>1, <1>a, Advancing, Room DEF IInv, RoomInv
<1>b. rewound = 0 =>
        /\ binPtr.off \in 0 .. binCap /\ binCap <= binCap' /\ binPtr'.off \in 0 .. binCap'
        /\ binLen <= binPtr.off => binLen' <= binPtr'.off
  BY <1>0, <1>a, Writing DEF IInv, RoomInv
<1>4. r \in IncompValue BY <1>0 DEF IncompValue
<1>5. /\ incomplete' \in Seq(IncompValue) /\ Len(incomplete') = Len(incomplete) + 1
      /\ \A i \in 1 .. Len(incomplete) : incomplete'[i] = incomplete[i]
      /\ incomplete'[Len(incomplete) + 1] = r /\ Len(incomplete) \in Nat
      /\ DOMAIN incomplete = 1 .. Len(incomplete) /\ DOMAIN incomplete' = 1 .. Len(incomplete) + 1
  BY <1>1, <1>4, Grown DEF IInv, TypeOK
<1> HIDE DEF r
<1>6. r.off = binPtr.off BY DEF r
<1>7. \A i \in 1 .. Len(incomplete) : incomplete[i].off \in Int BY <1>5, Offsets DEF IInv
<1>8. binCap' \in Int /\ binPtr'.off \in Int BY <1>0, <1>3
<1>11. TypeOK' BY <1>2, <1>3, <1>5 DEF IInv, TypeOK
<1>12. IncludesNest' BY <1>2 DEF IInv, IncludesNest, Including
<1>13. PlaceInv' BY <1>1, <1>2 DEF IInv, PlaceInv
<1>14. RoomInv'
  <2>1. ASSUME rewound = 0, NEW k \in Including' PROVE frames'[k].oldBinPtr.off \in 0 .. binCap'
    <3>1. k \in Including /\ frames'[k] = frames[k] BY <1>2, <2>1 DEF Including
    <3>2. frames[k].oldBinPtr.off \in 0 .. binCap BY <2>1, <3>1 DEF IInv, RoomInv
    <3> QED BY <1>0, <1>8, <1>b, <2>1, <3>1, <3>2
  <2> QED BY <1>2, <1>3, <1>b, <2>1 DEF RoomInv
<1>15. RefsInv'
  <2>1. ASSUME rewound = 0, NEW i \in 1 .. Len(incomplete)
        PROVE  0 <= incomplete'[i].off /\ incomplete'[i].off + WordSize <= binCap'
    <3>1. 0 <= incomplete[i].off /\ incomplete[i].off + WordSize <= binCap
      BY <1>5, <2>1 DEF IInv, RefsInv
    <3> QED BY <1>0, <1>5, <1>7, <1>8, <1>b, <2>1, <3>1
  <2>2. ASSUME rewound = 0
        PROVE  0 <= incomplete'[Len(incomplete) + 1].off
               /\ incomplete'[Len(incomplete) + 1].off + WordSize <= binCap'
    BY <1>0, <1>3, <1>5, <1>6, <1>8, <1>b, <2>2
  <2> QED BY <1>2, <1>5, <2>1, <2>2 DEF RefsInv, IInv
<1>16. OrderInv'
  <2> SUFFICES ASSUME ~swallowed, rewound = 0, NEW i \in DOMAIN incomplete'
               PROVE  incomplete'[i].off + WordSize <=
                        IF i < Len(incomplete') THEN incomplete'[i + 1].off ELSE binPtr'.off
    BY <1>2 DEF OrderInv
  <2>1. CASE i = Len(incomplete) + 1
    <3>1. incomplete'[i].off = binPtr.off /\ Len(incomplete') = i BY <1>5, <1>6, <2>1
    <3>2. incomplete'[i].off + WordSize = binPtr'.off BY <1>3, <3>1
    <3>3. binPtr'.off \in Int BY <1>3 DEF Pointer
    <3>4. ~(i < Len(incomplete')) BY <1>5, <2>1, <3>1
    <3> QED BY <3>2, <3>3, <3>4
  <2>2. CASE i = Len(incomplete)
    <3>1. incomplete[i].off + WordSize <= binPtr.off BY <1>1, <1>5, <2>2 DEF IInv, OrderInv
    <3>2. incomplete'[i] = incomplete[i] /\ incomplete'[i + 1].off = binPtr.off
      BY <1>5, <1>6, <2>2
    <3> QED BY <1>5, <2>2, <3>1, <3>2
  <2>3. CASE i < Len(incomplete)
    <3>1. incomplete[i].off + WordSize <= incomplete[i + 1].off BY <1>1, <1>5, <2>3 DEF IInv, OrderInv
    <3>2. incomplete'[i] = incomplete[i] /\ incomplete'[i + 1] = incomplete[i + 1] BY <1>5, <2>3
    <3> QED BY <1>5, <2>3, <3>1, <3>2
  <2> QED BY <1>5, <2>1, <2>2, <2>3
<1>17. LabelInv'
  <2>1. \A i \in DOMAIN values : values[i].off \in Int BY Offsets DEF IInv
  <2> QED BY <1>0, <1>2, <1>8, <1>b, <2>1 DEF IInv, LabelInv
<1>18. LinkInv' BY <1>1, <1>2 DEF IInv, LinkInv
<1>19. SaneInv' BY <1>1, <1>2, <1>3, <1>b DEF IInv, SaneInv, Astray
<1>20. RetInv' BY DEF IInv, RetInv, RetInRoom
<1> QED BY <1>11, <1>12, <1>13, <1>14, <1>15, <1>16, <1>17, <1>18, <1>19, <1>20 DEF IInv

\* Tokens after which only a table, the mode or pending differ.
LEMMA SetModeInv ==
  ASSUME IInv, line = "busy", UNCHANGED <<line, size>>, NEW mode \in BOOLEAN, SetMode(mode)
  PROVE  IInv'
<1> USE DEF IInv, SetMode, Reading, binVars, tables, history
<1>1. TypeOK' BY DEF TypeOK
<1>2. IncludesNest' BY DEF IncludesNest, Including
<1>3. PlaceInv' BY DEF PlaceInv
<1>4. RoomInv' BY DEF RoomInv, Including
<1>5. RefsInv' BY DEF RefsInv
<1>6. OrderInv' BY DEF OrderInv
<1>7. LabelInv' BY DEF LabelInv
<1>8. LinkInv' BY DEF LinkInv
<1>9. SaneInv' BY DEF SaneInv, Astray
<1>10. RetInv' BY DEF RetInv, RetInRoom
<1> QED BY <1>1, <1>2, <1>3, <1>4, <1>5, <1>6, <1>7, <1>8, <1>9, <1>10

\* A macro is remembered.
LEMMA DefineMacroInv ==
  ASSUME IInv, line = "busy", UNCHANGED <<line, size>>, DefineMacro
  PROVE  IInv'
<1> USE DEF IInv, DefineMacro, Reading, binVars, history
<1>1. TypeOK' BY Sizes DEF TypeOK
<1>2. IncludesNest' BY DEF IncludesNest, Including
<1>3. PlaceInv' BY DEF PlaceInv
<1>4. RoomInv' BY DEF RoomInv, Including
<1>5. RefsInv' BY DEF RefsInv
<1>6. OrderInv' BY DEF OrderInv
<1>7. LabelInv' BY DEF LabelInv
<1>8. LinkInv' BY DEF LinkInv
<1>9. SaneInv' BY DEF SaneInv, Astray
<1>10. RetInv' BY DEF RetInv, RetInRoom
<1> QED BY <1>1, <1>2, <1>3, <1>4, <1>5, <1>6, <1>7, <1>8, <1>9, <1>10

\* What a name stands for has no code label in it.
LEMMA UseInv ==
  ASSUME IInv, line = "busy", UNCHANGED <<line, size>>, NEW name \in Name, Use(name)
  PROVE  IInv'
<1>0. /\ pending' \subseteq DOMAIN values /\ \A i \in pending' : ~values[i].code
      /\ UNCHANGED <<data, bin, binCap, binPtr, binLen, dataPtr, values, incomplete, macros,
                     included, frames, links, swallowed, rewound, pc, line, size>>
      /\ pc = "assemble"
  <2>1. pending' = Emitted(name) BY DEF Use
  <2>2. Emitted(name) \subseteq Named(name) /\ Named(name) \subseteq DOMAIN values
    BY DEF Emitted, Named
  <2>3. DOMAIN values = 1 .. Len(values) /\ Len(values) \in Nat BY DEF IInv, TypeOK
  <2>4. \A i \in Emitted(name) : ~values[i].code BY <2>2, <2>3 DEF Emitted
  <2> QED BY <2>1, <2>2, <2>4 DEF Use, Reading, binVars, tables, history
<1> USE DEF IInv
<1>1. TypeOK' BY <1>0 DEF TypeOK
<1>2. IncludesNest' BY <1>0 DEF IncludesNest, Including
<1>3. PlaceInv' BY <1>0 DEF PlaceInv
<1>4. RoomInv' BY <1>0 DEF RoomInv, Including
<1>5. RefsInv' BY <1>0 DEF RefsInv
<1>6. OrderInv' BY <1>0 DEF OrderInv
<1>7. LabelInv' BY <1>0 DEF LabelInv
<1>8. LinkInv' BY <1>0 DEF LinkInv
<1>9. SaneInv' BY <1>0 DEF SaneInv, Astray
<1>10. RetInv' BY <1>0 DEF RetInv, RetInRoom
<1> QED BY <1>1, <1>2, <1>3, <1>4, <1>5, <1>6, <1>7, <1>8, <1>9, <1>10

\* A label or a constant.
LEMMA AddingInv ==
  ASSUME IInv, line = "busy", UNCHANGED <<line, size>>, Reading,
         NEW v \in Value, rewound = 0 /\ v.code => v.off \in 0 .. binCap, AddValue(v)
  PROVE  IInv'
<1>0. /\ UNCHANGED <<data, bin, binCap, binPtr, binLen, dataPtr, incomplete, macros,
                     included, frames, pending, links, swallowed, rewound, pc, line, size>>
      /\ pc = "assemble" /\ pending = {}
  BY DEF AddValue, Reading, binVars, history
<1>a. /\ values' \in Seq(Value) /\ DOMAIN values' = DOMAIN values \cup {Len(values) + 1}
      /\ \A i \in DOMAIN values : values'[i] = values[i]
      /\ values'[Len(values) + 1] = v
  <2>1. values \in Seq(Value) /\ values' = Append(values, v) BY DEF AddValue, IInv, TypeOK
  <2>2. DOMAIN values = 1 .. Len(values) BY <2>1
  <2> QED BY <2>1, <2>2, Grown
<1> USE DEF IInv
<1>1. TypeOK' BY <1>0, <1>a DEF TypeOK
<1>2. IncludesNest' BY <1>0 DEF IncludesNest, Including
<1>3. PlaceInv' BY <1>0 DEF PlaceInv
<1>4. RoomInv' BY <1>0 DEF RoomInv, Including
<1>5. RefsInv' BY <1>0 DEF RefsInv
<1>6. OrderInv' BY <1>0 DEF OrderInv
<1>7. LabelInv' BY <1>0, <1>a DEF LabelInv
<1>8. LinkInv' BY <1>0 DEF LinkInv
<1>9. SaneInv' BY <1>0 DEF SaneInv, Astray
<1>10. RetInv' BY <1>0 DEF RetInv, RetInRoom
<1> QED BY <1>1, <1>2, <1>3, <1>4, <1>5, <1>6, <1>7, <1>8, <1>9, <1>10

\* A label is placed where binPtr stands, no further than the room there is.
LEMMA LabelTokenInv ==
  ASSUME IInv, line = "busy", UNCHANGED <<line, size>>, NEW name \in Name, Label(name)
  PROVE  IInv'
<1> DEFINE v == [name |-> name, code |-> ~data, size |-> WordSize, buf |-> NULL,
                 off |-> IF data THEN 0 ELSE binPtr.off]
<1>1. Reading /\ AddValue(v) BY DEF Label
<1>2. binPtr.off \in Int /\ data \in BOOLEAN /\ (rewound = 0 => binPtr.off \in 0 .. binCap)
  BY DEF IInv, RoomInv, TypeOK, Pointer
<1>3. rewound = 0 /\ v.code => v.off \in 0 .. binCap BY <1>2
<1>4. v \in Value
  <2>1. (~data) \in BOOLEAN OBVIOUS
  <2>2. v.off \in Int BY <1>2
  <2> QED BY <2>1, <2>2, Sizes DEF Value
<1> HIDE DEF v
<1> QED BY <1>1, <1>3, <1>4, AddingInv

\* A constant.
LEMMA DefineInv ==
  ASSUME IInv, line = "busy", UNCHANGED <<line, size>>, NEW name \in Name, NEW w \in Widths,
         Define(name, w)
  PROVE  IInv'
<1> DEFINE v == [name |-> name, code |-> FALSE, size |-> w, buf |-> NULL, off |-> 0]
<1>1. Reading /\ AddValue(v) BY DEF Define
<1>2. v \in Value /\ ~v.code BY DEF Value
<1> HIDE DEF v
<1> QED BY <1>1, <1>2, AddingInv

-----------------------------------------------------------------------------
(* Includes, macros and the ends of a text *)

\* A call is opened within the text: a macro, or a file not read so far.
LEMMA OpeningInv ==
  ASSUME IInv, line = "busy", pc = "assemble", NEW f \in Include \cup Macro,
         frames' = Append(frames, f),
         f.call = "include" => f.oldBinPtr = binPtr /\ f.file \notin included /\ f.file \in included',
         included \subseteq included', included' \subseteq File,
         UNCHANGED <<data, bin, binCap, binPtr, binLen, dataPtr, values, incomplete, macros,
                     pending, links, swallowed, rewound, pc, line, size>>
  PROVE  IInv'
<1>0. /\ frames' \in Seq(Include \cup Macro) /\ DOMAIN frames' = DOMAIN frames \cup {Len(frames) + 1}
      /\ \A i \in DOMAIN frames : frames'[i] = frames[i]
      /\ frames'[Len(frames) + 1] = f
  <2>1. frames \in Seq(Include \cup Macro) BY DEF IInv, TypeOK
  <2>2. DOMAIN frames = 1 .. Len(frames) BY <2>1
  <2> QED BY <2>1, <2>2, Grown
<1>a. \A k \in Including' :
        \/ k \in Including /\ frames'[k] = frames[k]
        \/ k = Len(frames) + 1 /\ frames'[k] = f /\ f.call = "include"
  BY <1>0 DEF Including
<1> USE DEF IInv
<1>1. TypeOK' BY <1>0 DEF TypeOK
<1>2. IncludesNest' BY <1>a DEF IncludesNest
<1>3. PlaceInv' BY DEF PlaceInv
<1>4. RoomInv'
  <2>1. rewound = 0 => \A k \in Including' : frames'[k].oldBinPtr.off \in 0 .. binCap
    BY <1>a DEF RoomInv
  <2> QED BY <2>1 DEF RoomInv
<1>5. RefsInv' BY DEF RefsInv
<1>6. OrderInv' BY DEF OrderInv
<1>7. LabelInv' BY DEF LabelInv
<1>8. LinkInv' BY DEF LinkInv
<1>9. SaneInv' BY DEF SaneInv, Astray
<1>10. RetInv' BY DEF RetInv, RetInRoom
<1> QED BY <1>1, <1>2, <1>3, <1>4, <1>5, <1>6, <1>7, <1>8, <1>9, <1>10

\* A macro is expanded.
LEMMA ExpandInv ==
  ASSUME IInv, line = "busy", UNCHANGED <<line, size>>, NEW i \in 1 .. macros, Expand(i)
  PROVE  IInv'
<1> DEFINE f == [call |-> "macro", at |-> i]
<1>1. i \in 1 .. MaxMacros BY Sizes DEF IInv, TypeOK
<1>2. f \in Macro /\ f.call = "macro" BY <1>1 DEF Macro
<1>3. frames' = Append(frames, f) /\ pc = "assemble" BY DEF Expand, Reading
<1>4. included' = included /\ included \subseteq File BY DEF Expand, tables, history, IInv, TypeOK
<1>5. UNCHANGED <<data, bin, binCap, binPtr, binLen, dataPtr, values, incomplete, macros,
                  pending, links, swallowed, rewound, pc>>
  BY DEF Expand, binVars, tables, history
<1> HIDE DEF f
<1> QED BY <1>2, <1>3, <1>4, <1>5, OpeningInv

\* A file is included for the first time.
LEMMA IncludeFileInv ==
  ASSUME IInv, line = "busy", UNCHANGED <<line, size>>, NEW p \in File, IncludeFile(p)
  PROVE  IInv'
<1> DEFINE f == [call |-> "include", file |-> p, oldBinPtr |-> binPtr]
<1>1. f \in Include BY DEF Include, IInv, TypeOK
<1>2. f.oldBinPtr = binPtr /\ f.file = p OBVIOUS
<1>3. frames' = Append(frames, f) /\ pc = "assemble" /\ p \notin included
  BY DEF IncludeFile, Reading
<1>4. included' = included \cup {p} /\ included \subseteq File BY DEF IncludeFile, IInv, TypeOK
<1>5. UNCHANGED <<data, bin, binCap, binPtr, binLen, dataPtr, values, incomplete, macros,
                  pending, links, swallowed, rewound, pc>>
  BY DEF IncludeFile, binVars, history
<1> HIDE DEF f
<1> QED BY <1>1, <1>2, <1>3, <1>4, <1>5, OpeningInv

\* The calls left open, and where a failure or the end of a text puts binPtr.
LEMMA ClosingInv ==
  ASSUME IInv, line = "busy", pc = "assemble",
         frames' \in Seq(Include \cup Macro),
         \A k \in Including' : k \in Including /\ frames'[k] = frames[k],
         included \subseteq included', included' \subseteq File,
         \/ binPtr' = binPtr
         \/ \E k \in Including : binPtr' = frames[k].oldBinPtr,
         \/ UNCHANGED <<binPtr, swallowed, pc, pending>>
         \/ pending' = {} /\ swallowed' = TRUE /\ pc' = pc
         \/ pending' = {} /\ swallowed' = swallowed /\ pc' = "failed" /\ frames' = <<>>,
         UNCHANGED <<data, bin, binCap, binLen, dataPtr, values, incomplete, macros, links,
                     rewound, line, size>>
  PROVE  IInv'
<1>0. binPtr' \in Pointer /\ (rewound = 0 => binPtr'.off \in 0 .. binCap)
  <2>1. CASE binPtr' = binPtr BY <2>1 DEF IInv, TypeOK, RoomInv
  <2>2. CASE \E k \in Including : binPtr' = frames[k].oldBinPtr
    <3>1. PICK k \in Including : binPtr' = frames[k].oldBinPtr BY <2>2
    <3>2. frames[k] \in Include \cup Macro /\ frames[k].call = "include" BY DEF Including, IInv, TypeOK
    <3>3. frames[k].oldBinPtr \in Pointer BY <3>2 DEF Include, Macro
    <3> QED BY <3>1, <3>3 DEF IInv, RoomInv
  <2> QED BY <2>1, <2>2
<1>a. /\ swallowed' \in BOOLEAN /\ pc' \in {"assemble", "failed"} /\ pending' \subseteq pending
      /\ pc' = "failed" => pending' = {} /\ frames' = <<>>
      /\ pc' = "assemble" /\ ~swallowed' => binPtr' = binPtr /\ ~swallowed
  BY DEF IInv, TypeOK
<1> USE DEF IInv
<1>1. TypeOK' BY <1>0, <1>a DEF TypeOK, Outcome
<1>2. IncludesNest' BY DEF IncludesNest
<1>3. PlaceInv' BY <1>a DEF PlaceInv
<1>4. RoomInv'
  <2>1. rewound = 0 => \A k \in Including' : frames'[k].oldBinPtr.off \in 0 .. binCap
    BY DEF RoomInv
  <2> QED BY <1>0, <2>1 DEF RoomInv
<1>5. RefsInv' BY DEF RefsInv
<1>6. OrderInv' BY <1>a DEF OrderInv
<1>7. LabelInv' BY <1>a DEF LabelInv
<1>8. LinkInv' BY <1>a DEF LinkInv
<1>9. SaneInv' BY <1>a DEF SaneInv, Astray
<1>10. RetInv' BY DEF RetInv, RetInRoom
<1> QED BY <1>1, <1>2, <1>3, <1>4, <1>5, <1>6, <1>7, <1>8, <1>9, <1>10

\* The includes still open when a macro ends are open before.
LEMMA EndingIncludes ==
  ASSUME TypeOK, NEW k \in MacroFrames, frames' \in AfterMacro(k)
  PROVE  /\ frames' \in Seq(Include \cup Macro)
         /\ \A i \in Including' : i \in Including /\ frames'[i] = frames[i]
<1>1. frames' \in Seq(Include \cup Macro) BY EndingType
<1> DEFINE s == SubSeq(frames, 1, k - 1)
<1>2. k \in 1 .. Len(frames) /\ frames \in Seq(Include \cup Macro) BY Ending DEF TypeOK
<1>3. s \in Seq(Include \cup Macro) /\ Len(s) = k - 1 /\ \A i \in 1 .. k - 1 : s[i] = frames[i]
  BY <1>2, Cut
<1> HIDE DEF s
<1>4. ASSUME NEW i \in 1 .. k - 1, frames'[i] = s[i], i \in Including'
      PROVE  i \in Including /\ frames'[i] = frames[i]
  BY <1>2, <1>3, <1>4 DEF Including
<1>5. CASE frames' = s
  <2>1. DOMAIN frames' = 1 .. k - 1 BY <1>3, <1>5
  <2> QED BY <1>1, <1>4, <1>5, <2>1 DEF Including
<1>6. CASE \E j \in 1 .. MaxMacros : frames' = Append(s, [call |-> "macro", at |-> j])
  <2>1. PICK j \in 1 .. MaxMacros : frames' = Append(s, [call |-> "macro", at |-> j]) BY <1>6
  <2> DEFINE m == [call |-> "macro", at |-> j]
  <2>2. m \in Include \cup Macro /\ m.call = "macro" BY DEF Macro
  <2> HIDE DEF m
  <2>3. frames' = Append(s, m) BY <2>1 DEF m
  <2>4. /\ DOMAIN frames' = (1 .. k - 1) \cup {k}
        /\ \A i \in 1 .. k - 1 : frames'[i] = s[i]
        /\ frames'[k] = m
    BY <1>2, <1>3, <2>2, <2>3, Grown
  <2>5. \A i \in Including' : i \in 1 .. k - 1 BY <2>2, <2>4 DEF Including
  <2> QED BY <1>1, <1>4, <2>4, <2>5
<1>7. frames' = s \/ \E j \in 1 .. MaxMacros : frames' = Append(s, [call |-> "macro", at |-> j])
  BY Ending DEF s
<1> QED BY <1>5, <1>6, <1>7

\* A failure keeps the invariant, wherever it is caught.
LEMMA FailInv ==
  ASSUME IInv, line = "busy", pc = "assemble", UNCHANGED <<line, size>>, Fail,
         UNCHANGED <<values, incomplete, macros>>,
         included \subseteq included', included' \subseteq File
  PROVE  IInv'
<1>1. TypeOK BY DEF IInv
<1>2. /\ binPtr' = binPtr \/ \E i \in Including : binPtr' = frames[i].oldBinPtr
      /\ pending' = {}
      /\ UNCHANGED <<data, bin, binCap, binLen, dataPtr, links, rewound>>
      /\ \/ frames' = <<>> /\ pc' = "failed" /\ UNCHANGED swallowed
         \/ /\ swallowed' = TRUE /\ UNCHANGED pc
            /\ \E k \in MacroFrames : frames' \in AfterMacro(k)
  BY <1>1, Failing
<1>3. /\ frames' \in Seq(Include \cup Macro)
      /\ \A k \in Including' : k \in Including /\ frames'[k] = frames[k]
  <2>1. CASE frames' = <<>> BY <2>1 DEF Including
  <2>2. CASE \E k \in MacroFrames : frames' \in AfterMacro(k) BY <1>1, <2>2, EndingIncludes
  <2> QED BY <1>2, <2>1, <2>2
<1> QED BY <1>2, <1>3, ClosingInv

\* A file that cannot be read.
LEMMA IncludeMissingInv ==
  ASSUME IInv, line = "busy", UNCHANGED <<line, size>>, NEW f \in File, IncludeMissing(f)
  PROVE  IInv'
<1>1. included \subseteq included' /\ included' \subseteq File BY DEF IncludeMissing, IInv, TypeOK
<1> QED BY <1>1, FailInv DEF IncludeMissing, Reading

\* A token that is no good, or an open reference that cannot be patched.
LEMMA RejectInv ==
  ASSUME IInv, line = "busy", UNCHANGED <<line, size>>, Reject \/ CompletionFails
  PROVE  IInv'
<1>1. pc = "assemble" /\ Fail /\ UNCHANGED tables BY DEF Reject, CompletionFails, Reading
<1>2. included' = included /\ included \subseteq File /\ UNCHANGED <<values, incomplete, macros>>
  BY <1>1 DEF tables, history, IInv, TypeOK
<1> QED BY <1>1, <1>2, FailInv

\* An included file or a macro ends.
LEMMA EndNestedInv ==
  ASSUME IInv, line = "busy", UNCHANGED <<line, size>>, EndNested
  PROVE  IInv'
<1>1. /\ UNCHANGED <<data, bin, binCap, binPtr, binLen, dataPtr, values, incomplete, macros,
                     included, pending, links, swallowed, rewound, pc>>
      /\ pc = "assemble" /\ included \subseteq File
  BY DEF EndNested, Reading, binVars, tables, history, IInv, TypeOK
<1>2. TypeOK BY DEF IInv
<1>3. /\ frames' \in Seq(Include \cup Macro)
      /\ \A k \in Including' : k \in Including /\ frames'[k] = frames[k]
  <2>1. CASE Len(frames) \in MacroFrames BY <1>2, <2>1, EndingIncludes DEF EndNested
  <2>2. CASE Len(frames) \notin MacroFrames
    <3>1. frames' = SubSeq(frames, 1, Len(frames) - 1) BY <2>2 DEF EndNested
    <3>2. frames # <<>> /\ frames \in Seq(Include \cup Macro) BY <1>2 DEF EndNested, TypeOK
    <3>3. Len(frames) - 1 \in 0 .. Len(frames) BY <3>2
    <3>4. /\ frames' \in Seq(Include \cup Macro) /\ Len(frames') = Len(frames) - 1
          /\ \A i \in 1 .. Len(frames) - 1 : frames'[i] = frames[i]
      BY <3>1, <3>2, <3>3, Cut
    <3>5. DOMAIN frames' = 1 .. Len(frames) - 1 /\ DOMAIN frames = 1 .. Len(frames)
      BY <3>2, <3>4
    <3>6. \A i \in 1 .. Len(frames) - 1 : i \in 1 .. Len(frames) BY <3>2
    <3> QED BY <3>4, <3>5, <3>6 DEF Including
  <2> QED BY <2>1, <2>2
<1> QED BY <1>1, <1>3, ClosingInv

\* The program ends.
LEMMA ExitInv ==
  ASSUME IInv, line = "busy", UNCHANGED <<line, size>>, Exit \/ GoAstray \/ PatchAstray
  PROVE  IInv'
<1>0. /\ UNCHANGED <<data, bin, binCap, binPtr, binLen, dataPtr, values, incomplete, macros,
                     included, frames, pending, links, swallowed, rewound>>
      /\ pc' \in {"exited", "wild"}
  BY DEF Exit, GoAstray, PatchAstray, binVars, tables, history
<1> USE DEF IInv
<1>1. TypeOK' BY <1>0 DEF TypeOK, Outcome
<1>2. IncludesNest' BY <1>0 DEF IncludesNest, Including
<1>3. PlaceInv' BY <1>0 DEF PlaceInv
<1>4. RoomInv' BY <1>0 DEF RoomInv, Including
<1>5. RefsInv' BY <1>0 DEF RefsInv
<1>6. OrderInv' BY <1>0 DEF OrderInv
<1>7. LabelInv' BY <1>0 DEF LabelInv
<1>8. LinkInv' BY <1>0 DEF LinkInv
<1>9. SaneInv' BY <1>0 DEF SaneInv
<1>10. RetInv' BY <1>0 DEF RetInv, RetInRoom
<1> QED BY <1>1, <1>2, <1>3, <1>4, <1>5, <1>6, <1>7, <1>8, <1>9, <1>10

\* Code in data mode goes to the binary if that has room, and else astray.
LEMMA CodeInDataInv ==
  ASSUME IInv, line = "busy", UNCHANGED <<line, size>>, NEW n \in {1, 1 + WordSize}, CodeInData(n)
  PROVE  IInv'
<1>0. /\ UNCHANGED <<data, bin, binCap, binLen, dataPtr, values, incomplete, macros,
                     included, frames, pending, links, swallowed, rewound>>
      /\ pc = "assemble"
  BY DEF CodeInData, Reading, tables, history
<1>a. /\ binPtr \in Pointer /\ binPtr.off \in Int /\ n \in 0 .. MaxInt /\ n \in Int /\ n > 0
      /\ binCap \in 0 .. MaxBin /\ MaxBin \in 0 .. MaxInt /\ MaxInt \in Nat
  BY Sizes, AssemblerAssumption DEF IInv, TypeOK, Pointer
<1>b. \/ pc' = "wild" /\ binPtr' = binPtr
      \/ /\ pc' = "assemble" /\ binPtr' \in Pointer /\ ~Astray
         /\ binPtr'.buf = binPtr.buf /\ binPtr'.off = binPtr.off + n
         /\ rewound = 0 => binPtr.off \in 0 .. binCap /\ binPtr'.off \in 0 .. binCap
  <2>1. CASE bin = NULL \/ Astray \/ Outside \/ Full(n) BY <2>1 DEF CodeInData
  <2>2. CASE ~(bin = NULL \/ Astray \/ Outside \/ Full(n))
    <3>1. binPtr' = [binPtr EXCEPT !.off = @ + n] /\ pc' = "assemble" BY <1>0, <2>2 DEF CodeInData
    <3>2. binPtr' = [buf |-> binPtr.buf, off |-> binPtr.off + n] BY <1>a, <3>1 DEF Pointer
    <3>3. ASSUME rewound = 0 PROVE binPtr.off \in 0 .. binCap /\ binPtr.off + n \in 0 .. binCap
      <4>1. binPtr.off \in 0 .. binCap BY <3>3 DEF IInv, RoomInv
      <4>2. MaxWord = 2 * MaxInt + 2 BY <1>a DEF MaxWord
      <4>3. binPtr.off + n \in Int /\ 0 <= binPtr.off + n /\ binPtr.off + n < MaxWord
        BY <1>a, <4>1, <4>2
      <4>4. (binPtr.off + n) % MaxWord = binPtr.off + n BY <4>3, Wrapped
      <4> QED BY <1>a, <2>2, <4>1, <4>3, <4>4 DEF Full
    <3>4. binPtr' \in Pointer /\ binPtr'.buf = binPtr.buf /\ binPtr'.off = binPtr.off + n
      BY <1>a, <3>2 DEF Pointer
    <3> QED BY <2>2, <3>1, <3>3, <3>4
  <2> QED BY <2>1, <2>2
<1> USE DEF IInv
<1>1. TypeOK' BY <1>0, <1>a, <1>b DEF TypeOK, Outcome
<1>2. IncludesNest' BY <1>0 DEF IncludesNest, Including
<1>3. PlaceInv' BY <1>0, <1>b DEF PlaceInv
<1>4. RoomInv' BY <1>0, <1>b DEF RoomInv, Including
<1>5. RefsInv' BY <1>0 DEF RefsInv
<1>6. OrderInv' BY <1>0, <1>a, <1>b, Offsets, Sizes DEF OrderInv
<1>7. LabelInv' BY <1>0 DEF LabelInv
<1>8. LinkInv' BY <1>0, <1>b DEF LinkInv
<1>9. SaneInv'
  <2>1. binLen \in Nat BY Wrapped DEF TypeOK
  <2> QED BY <1>0, <1>a, <1>b, <2>1 DEF SaneInv, Astray
<1>10. RetInv' BY <1>0 DEF RetInv, RetInRoom
<1> QED BY <1>1, <1>2, <1>3, <1>4, <1>5, <1>6, <1>7, <1>8, <1>9, <1>10

\* Completion puts addresses into the binary as it stands.
LEMMA CompleteInv ==
  ASSUME IInv, line = "busy", UNCHANGED <<line, size>>, Complete
  PROVE  IInv'
<1>0. /\ UNCHANGED <<data, bin, binCap, binPtr, binLen, dataPtr, values, incomplete, macros,
                     included, frames, pending, swallowed, rewound>>
      /\ pc = "assemble" /\ pc' = "assembled" /\ frames = <<>> /\ pending = {}
  BY DEF Complete, Reading, binVars, tables, history
<1>a. \A i \in DOMAIN values : LinkTo(values[i]) \in Link
                               /\ (~LinkTo(values[i]).frozen => LinkTo(values[i]).buf = bin)
  <2> TAKE i \in DOMAIN values
  <2>1. values[i] \in Value /\ bin \in Buffer \cup {NULL} BY DEF IInv, TypeOK
  <2>2. values[i].code \in BOOLEAN /\ values[i].buf \in Buffer \cup {NULL} BY <2>1 DEF Value
  <2>3. CASE values[i].code
    <3>1. LinkTo(values[i]) = [frozen |-> FALSE, buf |-> bin] BY <2>3 DEF LinkTo
    <3> QED BY <2>1, <3>1 DEF Link
  <2>4. CASE ~values[i].code
    <3>1. LinkTo(values[i]) = [frozen |-> TRUE, buf |-> values[i].buf] BY <2>4 DEF LinkTo
    <3> QED BY <2>2, <3>1 DEF Link
  <2> QED BY <2>3, <2>4
<1> DEFINE found == UNION {FirstNamed(incomplete[k].name) : k \in DOMAIN incomplete}
<1>b. found \subseteq DOMAIN values BY DEF FirstNamed, Named
<1>c. links' = links \cup Addresses(found) BY DEF Complete
<1> HIDE DEF found
<1>d. \A l \in Addresses(found) : l \in Link /\ (~l.frozen => l.buf = bin)
  BY <1>a, <1>b DEF Addresses
<1>e. links' \subseteq Link /\ \A l \in links' : ~l.frozen => l.buf = bin
  BY <1>0, <1>c, <1>d, Frozen
<1> USE DEF IInv
<1>1. TypeOK' BY <1>0, <1>e DEF TypeOK, Outcome
<1>2. IncludesNest' BY <1>0 DEF IncludesNest, Including
<1>3. PlaceInv' BY <1>0 DEF PlaceInv
<1>4. RoomInv' BY <1>0 DEF RoomInv, Including
<1>5. RefsInv' BY <1>0 DEF RefsInv
<1>6. OrderInv' BY <1>0 DEF OrderInv
<1>7. LabelInv' BY <1>0 DEF LabelInv
<1>8. LinkInv' BY <1>0, <1>e DEF LinkInv
<1>9. SaneInv' BY <1>0 DEF SaneInv, Astray
<1>10. RetInv' BY <1>0 DEF RetInv, RetInRoom
<1> QED BY <1>1, <1>2, <1>3, <1>4, <1>5, <1>6, <1>7, <1>8, <1>9, <1>10

\* Within the call of Assemble.
LEMMA AssemblingInv == ASSUME IInv, Assembling PROVE IInv'
<1>1. line = "busy" /\ UNCHANGED <<line, size>> BY DEF Assembling
<1>2. CASE Opcode BY <1>1, <1>2, OpcodeInv
<1>3. CASE OpenData BY <1>1, <1>3, OpenDataInv
<1>4. CASE \E n \in {1, 1 + WordSize} : CodeInData(n) BY <1>1, <1>4, CodeInDataInv
<1>5. CASE \E n \in Widths \cup Lengths : Bytes(n) BY <1>1, <1>5, BytesInv
<1>20. CASE \E n \in Reserves : Reserve(n) BY <1>1, <1>20, ReserveInv
<1>6. CASE \E mode \in BOOLEAN : SetMode(mode) BY <1>1, <1>6, SetModeInv
<1>7. CASE \E name \in Name : Label(name) BY <1>1, <1>7, LabelTokenInv
<1>8. CASE \E name \in Name, w \in Widths : Define(name, w) BY <1>1, <1>8, DefineInv
<1>9. CASE DefineMacro BY <1>1, <1>9, DefineMacroInv
<1>10. CASE \E name \in Name : Use(name) BY <1>1, <1>10, UseInv
<1>11. CASE \E name \in Name : Refer(name) BY <1>1, <1>11, ReferInv
<1>12. CASE EmitValue BY <1>1, <1>12, EmitValueInv
<1>13. CASE \E i \in 1 .. macros : Expand(i) BY <1>1, <1>13, ExpandInv
<1>14. CASE \E f \in File : IncludeFile(f) BY <1>1, <1>14, IncludeFileInv
<1>15. CASE \E f \in File : IncludeMissing(f) BY <1>1, <1>15, IncludeMissingInv
<1>16. CASE EndNested BY <1>1, <1>16, EndNestedInv
<1>17. CASE Reject \/ CompletionFails BY <1>1, <1>17, RejectInv
<1>18. CASE Complete BY <1>1, <1>18, CompleteInv
<1>19. CASE Exit \/ GoAstray \/ PatchAstray BY <1>1, <1>19, ExitInv
<1> QED BY <1>2, <1>3, <1>4, <1>5, <1>6, <1>7, <1>8, <1>9, <1>10, <1>11, <1>12, <1>13,
           <1>14, <1>15, <1>16, <1>17, <1>18, <1>19, <1>20 DEF Assembling, Assemble, Token

-----------------------------------------------------------------------------
(* The loop *)

\* Open references are dropped.
LEMMA FreeInv == ASSUME IInv, FreeIncompleteAssemblerRef PROVE IInv'
<1>0. /\ UNCHANGED <<data, bin, binCap, binPtr, binLen, dataPtr, values, macros,
                     included, frames, pending, links, swallowed, rewound, pc, size>>
      /\ line = "refs" /\ line' = "freeze" /\ incomplete' = <<>>
  BY DEF FreeIncompleteAssemblerRef, binVars, history
<1> USE DEF IInv
<1>1. TypeOK' BY <1>0 DEF TypeOK, Line
<1>2. IncludesNest' BY <1>0 DEF IncludesNest, Including
<1>3. PlaceInv' BY <1>0 DEF PlaceInv
<1>4. RoomInv' BY <1>0 DEF RoomInv, Including
<1>5. RefsInv' BY <1>0 DEF RefsInv
<1>6. OrderInv' BY <1>0 DEF OrderInv
<1>7. LabelInv' BY <1>0 DEF LabelInv
<1>8. LinkInv' BY <1>0 DEF LinkInv, PlaceInv
<1>9. SaneInv' BY <1>0 DEF SaneInv
<1>10. RetInv' BY <1>0 DEF RetInv, RetInRoom
<1> QED BY <1>1, <1>2, <1>3, <1>4, <1>5, <1>6, <1>7, <1>8, <1>9, <1>10

\* No label is relative to the binary once it is frozen.
LEMMA FreezeInv == ASSUME IInv, FreezeAssemblerLabels PROVE IInv'
<1>0. /\ UNCHANGED <<data, bin, binCap, binPtr, binLen, dataPtr, incomplete, macros,
                     included, frames, pending, links, swallowed, rewound, pc, size>>
      /\ line = "freeze" /\ line' = "reset"
  BY DEF FreezeAssemblerLabels, binVars, history
<1> DEFINE Ice(v) == IF v.code THEN [v EXCEPT !.code = FALSE, !.buf = bin, !.off = 0] ELSE v
<1>a. values \in Seq(Value) /\ DOMAIN values = 1 .. Len(values) /\ bin \in Buffer \cup {NULL}
  BY DEF IInv, TypeOK
<1>b. \A v \in Value : Ice(v) \in Value /\ ~Ice(v).code
  <2> TAKE v \in Value
  <2>1. CASE v.code
    <3>1. Ice(v) = [name |-> v.name, code |-> FALSE, size |-> v.size, buf |-> bin, off |-> 0]
      BY <2>1 DEF Value
    <3>2. v.name \in Name /\ v.size \in Widths BY DEF Value
    <3>3. [name |-> v.name, code |-> FALSE, size |-> v.size, buf |-> bin, off |-> 0] \in Value
      BY <1>a, <3>2 DEF Value
    <3> HIDE DEF Ice
    <3> QED BY <3>1, <3>3
  <2>2. CASE ~v.code BY <2>2
  <2> QED BY <2>1, <2>2
<1>c. values' = [i \in DOMAIN values |-> Ice(values[i])] BY DEF FreezeAssemblerLabels
<1> HIDE DEF Ice
<1>d. /\ DOMAIN values' = DOMAIN values /\ values' \in Seq(Value)
      /\ \A i \in DOMAIN values' : ~values'[i].code
  <2>1. \A i \in DOMAIN values : values[i] \in Value BY <1>a
  <2>2. values' \in [1 .. Len(values) -> Value] BY <1>a, <1>b, <1>c, <2>1
  <2>3. Len(values) \in Nat BY <1>a
  <2>4. values' \in Seq(Value) BY <2>2, <2>3
  <2> QED BY <1>b, <1>c, <2>1, <2>4
<1> USE DEF IInv
<1>1. TypeOK' BY <1>0, <1>d DEF TypeOK, Line
<1>2. IncludesNest' BY <1>0 DEF IncludesNest, Including
<1>3. PlaceInv' BY <1>0 DEF PlaceInv
<1>4. RoomInv' BY <1>0 DEF RoomInv, Including
<1>5. RefsInv' BY <1>0 DEF RefsInv
<1>6. OrderInv' BY <1>0 DEF OrderInv
<1>7. LabelInv' BY <1>0, <1>d DEF LabelInv, TypeOK
<1>8. LinkInv' BY <1>0 DEF LinkInv, PlaceInv
<1>9. SaneInv' BY <1>0 DEF SaneInv
<1>10. RetInv' BY <1>0 DEF RetInv, RetInRoom
<1> QED BY <1>1, <1>2, <1>3, <1>4, <1>5, <1>6, <1>7, <1>8, <1>9, <1>10

\* The binary goes when nothing refers to it any more.
LEMMA ResetInv == ASSUME IInv, ResetAssemblerBinary PROVE IInv'
<1>0. /\ UNCHANGED <<data, dataPtr, values, incomplete, macros, included, frames, pending,
                     swallowed, pc, size>>
      /\ bin' = NULL /\ binCap' = 0 /\ binLen' = 0 /\ links' = {}
      /\ binPtr' = [buf |-> NULL, off |-> 0] /\ rewound' = 0
      /\ line = "reset" /\ line' = "input"
  BY DEF ResetAssemblerBinary, tables, history
<1>a. binPtr' \in Pointer /\ binPtr'.buf = NULL /\ binPtr'.off = 0 BY <1>0 DEF Pointer
<1> USE DEF IInv
<1>b. frames = <<>> /\ incomplete = <<>> /\ \A i \in DOMAIN values : ~values[i].code
  BY <1>0 DEF PlaceInv, RefsInv, LabelInv
<1>1. TypeOK' BY <1>0, <1>a, Sizes, Wrapped DEF TypeOK, Line
<1>2. IncludesNest' BY <1>0 DEF IncludesNest, Including
<1>3. PlaceInv' BY <1>0 DEF PlaceInv
<1>4. RoomInv' BY <1>0, <1>a, <1>b DEF RoomInv, Including
<1>5. RefsInv' BY <1>0, <1>b DEF RefsInv
<1>6. OrderInv' BY <1>0, <1>b DEF OrderInv
<1>7. LabelInv' BY <1>0, <1>b DEF LabelInv
<1>8. LinkInv' BY <1>0 DEF LinkInv
<1>9. SaneInv' BY <1>0, <1>a DEF SaneInv, Astray
<1>10. RetInv' BY <1>0 DEF RetInv, RetInRoom
<1> QED BY <1>1, <1>2, <1>3, <1>4, <1>5, <1>6, <1>7, <1>8, <1>9, <1>10

\* A line is begun.
LEMMA RunInv == ASSUME IInv, RunAssembler PROVE IInv'
<1>0. /\ UNCHANGED <<data, bin, binCap, binPtr, binLen, dataPtr, values, incomplete, macros,
                     included, frames, pending, links, rewound, size>>
      /\ line = "input" /\ line' = "busy" /\ pc' = "assemble" /\ swallowed' = FALSE
  BY DEF RunAssembler, binVars, tables, history
<1> USE DEF IInv
<1>1. TypeOK' BY <1>0 DEF TypeOK, Line, Outcome
<1>2. IncludesNest' BY <1>0 DEF IncludesNest, Including
<1>3. PlaceInv' BY <1>0 DEF PlaceInv
<1>4. RoomInv' BY <1>0 DEF RoomInv, Including
<1>5. RefsInv' BY <1>0 DEF RefsInv
<1>6. OrderInv' BY <1>0 DEF OrderInv, RefsInv
<1>7. LabelInv' BY <1>0 DEF LabelInv
<1>8. LinkInv' BY <1>0 DEF LinkInv
<1>9. SaneInv' BY <1>0 DEF SaneInv, Astray
<1>10. RetInv' BY <1>0 DEF RetInv, RetInRoom
<1> QED BY <1>1, <1>2, <1>3, <1>4, <1>5, <1>6, <1>7, <1>8, <1>9, <1>10

\* Assemble returns.
LEMMA ReturnedInv == ASSUME IInv, Returned PROVE IInv'
<1>0. /\ UNCHANGED <<data, bin, binCap, binPtr, binLen, dataPtr, values, incomplete, macros,
                     included, frames, pending, links, swallowed, rewound, pc>>
      /\ line = "busy"
      /\ \/ pc = "assembled" /\ line' = "extend" /\ size' = binLen
         \/ pc = "failed" /\ line' = "refs" /\ size' = size
  BY DEF Returned, asmVars, binVars, tables, history
<1> USE DEF IInv
<1>1. TypeOK' BY <1>0 DEF TypeOK, Line
<1>2. IncludesNest' BY <1>0 DEF IncludesNest, Including
<1>3. PlaceInv' BY <1>0 DEF PlaceInv
<1>4. RoomInv' BY <1>0 DEF RoomInv, Including
<1>5. RefsInv' BY <1>0 DEF RefsInv
<1>6. OrderInv' BY <1>0 DEF OrderInv
<1>7. LabelInv' BY <1>0 DEF LabelInv
<1>8. LinkInv' BY <1>0 DEF LinkInv
<1>9. SaneInv' BY <1>0 DEF SaneInv, Astray
<1>10. RetInv' BY <1>0 DEF RetInv, RetInRoom
<1> QED BY <1>1, <1>2, <1>3, <1>4, <1>5, <1>6, <1>7, <1>8, <1>9, <1>10

\* Room for the RET: the one place where the binary grows and nothing is
\* written.
LEMMA ExtendInv == ASSUME IInv, ExtendAssemblerBinary PROVE IInv'
<1>0. /\ UNCHANGED <<data, dataPtr, values, incomplete, macros, included, frames, pending,
                     links, swallowed, rewound, size>>
      /\ line = "extend" /\ line' = "ret" /\ pc = "assembled" /\ pending = {} /\ frames = <<>>
      /\ size = binLen
  BY DEF ExtendAssemblerBinary, tables, history, IInv, PlaceInv, RetInv
<1>a. /\ TypeOK /\ binPtr \in Pointer /\ binPtr.off \in Int /\ binCap \in Int
      /\ binLen \in Int /\ (bin = NULL => binCap = 0) /\ 1 \in 0 .. MaxInt /\ MaxBin \in Int
      /\ bin \in Buffer \cup {NULL} /\ binCap \in 0 .. MaxBin /\ binLen \in 0 .. MaxWord - 1
  BY Sizes, Wrapped DEF IInv, TypeOK, Pointer, RoomInv
<1>b. /\ bin' \in Buffer \cup {NULL} /\ binCap' \in 0 .. MaxBin /\ binLen' \in 0 .. MaxWord - 1
      /\ binPtr' \in Pointer /\ binPtr'.off = binPtr.off
      /\ bin' = NULL => binCap' = 0
      /\ pc' \in {"assembled", "wild", "exited"}
  <2>1. CASE UNCHANGED binVars /\ pc' \in {"assembled", "wild", "exited"}
    BY <1>a, <2>1 DEF binVars
  <2>2. CASE MakeRoom(1) /\ binPtr' = [binPtr EXCEPT !.buf = bin'] /\ UNCHANGED pc
    <3>1. /\ bin' \in Buffer \cup {NULL} /\ binCap' \in 0 .. MaxBin /\ binLen' \in 0 .. MaxWord - 1
          /\ bin' = NULL => binCap' = 0
      BY <1>a, <2>2, Room
    <3>2. binPtr' = [buf |-> bin', off |-> binPtr.off] BY <1>a, <2>2 DEF Pointer
    <3>3. binPtr' \in Pointer /\ binPtr'.off = binPtr.off BY <1>a, <3>1, <3>2 DEF Pointer
    <3> QED BY <1>0, <2>2, <3>1, <3>3
  <2> QED BY <1>0, <2>1, <2>2 DEF ExtendAssemblerBinary
<1>c. ASSUME rewound = 0 PROVE binPtr.off \in 0 .. binCap /\ binCap <= binCap'
  <2>1. binPtr.off \in 0 .. binCap BY <1>c DEF IInv, RoomInv
  <2>2. CASE UNCHANGED binVars BY <1>a, <2>1, <2>2 DEF binVars
  <2>3. CASE MakeRoom(1) BY <1>a, <2>1, <2>3, RoomMade
  <2> QED BY <2>1, <2>2, <2>3 DEF ExtendAssemblerBinary
<1>d. ASSUME rewound = 0, ~data, ~Astray
      PROVE  pc' = "exited" \/ (pc' = "assembled" /\ binPtr.off + 1 <= binCap')
  <2>1. binPtr.off \in 0 .. binCap BY <1>d DEF IInv, RoomInv
  <2>2. CASE MakeRoom(1) /\ UNCHANGED pc BY <1>0, <1>a, <2>1, <2>2, RoomMade
  <2>3. CASE pc' = "exited" BY <2>3
  <2> QED BY <1>d, <2>2, <2>3 DEF ExtendAssemblerBinary
<1>e. binCap' \in Int BY <1>a, <1>b
<1>1. TypeOK' BY <1>0, <1>b DEF IInv, TypeOK, Line, Outcome
<1>2. IncludesNest' BY <1>0 DEF IInv, IncludesNest, Including
<1>3. PlaceInv' BY <1>0, <1>b DEF PlaceInv
<1>4. RoomInv'
  <2>1. Including' = {} BY <1>0 DEF Including
  <2> QED BY <1>0, <1>a, <1>b, <1>c, <1>e, <2>1 DEF RoomInv
<1>5. RefsInv'
  <2>1. \A i \in DOMAIN incomplete : incomplete[i].off \in Int BY Offsets DEF IInv
  <2> QED BY <1>0, <1>a, <1>c, <1>e, <2>1, Sizes DEF IInv, RefsInv
<1>6. OrderInv' BY <1>0, <1>b DEF OrderInv
<1>7. LabelInv'
  <2>1. \A i \in DOMAIN values : values[i].off \in Int BY Offsets DEF IInv
  <2> QED BY <1>0, <1>a, <1>c, <1>e, <2>1 DEF IInv, LabelInv
<1>8. LinkInv' BY <1>0, <1>b DEF LinkInv
<1>9. SaneInv' BY <1>0 DEF SaneInv
<1>10. RetInv'
  <2>1. ASSUME ~data, ~swallowed, rewound = 0, pc' # "exited"
        PROVE  pc' = "assembled" /\ bin' # NULL /\ size + 1 <= binCap'
    <3>1. ~Astray /\ binLen <= binPtr.off BY <1>0, <2>1 DEF IInv, SaneInv
    <3>2. pc' = "assembled" /\ binPtr.off + 1 <= binCap' BY <1>d, <2>1, <3>1
    <3>3. binPtr.off >= 0 BY <1>a, <1>c, <2>1
    <3> QED BY <1>0, <1>a, <1>b, <1>e, <3>1, <3>2, <3>3
  <2> QED BY <1>0, <2>1 DEF RetInv, RetInRoom
<1> QED BY <1>1, <1>2, <1>3, <1>4, <1>5, <1>6, <1>7, <1>8, <1>9, <1>10 DEF IInv

\* The RET is written.
LEMMA WriteRetInv == ASSUME IInv, WriteRet PROVE IInv'
<1>0. /\ UNCHANGED <<data, bin, binCap, binPtr, binLen, dataPtr, values, incomplete, macros,
                     included, frames, pending, links, swallowed, rewound, size>>
      /\ line = "ret" /\ line' = "call"
      /\ IF bin = NULL \/ size + 1 > binCap THEN pc' = "wild" ELSE pc' = pc
      /\ pc # "exited"
  BY DEF WriteRet, Running, binVars, tables, history
<1>a. size \in Int /\ binCap \in Int BY Sizes, Wrapped DEF IInv, TypeOK
<1> USE DEF IInv
<1>b. pc' \in {"assembled", "wild", "exited"} BY <1>0 DEF PlaceInv
<1>1. TypeOK' BY <1>0, <1>b DEF TypeOK, Line, Outcome
<1>2. IncludesNest' BY <1>0 DEF IncludesNest, Including
<1>3. PlaceInv' BY <1>0, <1>b DEF PlaceInv
<1>4. RoomInv' BY <1>0 DEF RoomInv, Including
<1>5. RefsInv' BY <1>0 DEF RefsInv
<1>6. OrderInv' BY <1>b DEF OrderInv
<1>7. LabelInv' BY <1>0 DEF LabelInv
<1>8. LinkInv' BY <1>0, <1>b DEF LinkInv
<1>9. SaneInv' BY <1>0 DEF SaneInv
<1>10. RetInv' BY <1>0, <1>a DEF RetInv, RetInRoom
<1> QED BY <1>1, <1>2, <1>3, <1>4, <1>5, <1>6, <1>7, <1>8, <1>9, <1>10

\* The line is called.
LEMMA CallLineInv == ASSUME IInv, CallLine PROVE IInv'
<1>0. /\ UNCHANGED <<data, bin, binCap, binPtr, binLen, dataPtr, values, incomplete, macros,
                     included, frames, pending, links, swallowed, rewound, pc>>
      /\ line = "call" /\ line' = "refs" /\ size' = 0 /\ pc \notin {"wild", "exited"}
  BY DEF CallLine, Running, asmVars, binVars, tables, history
<1> USE DEF IInv
<1>1. TypeOK' BY <1>0, Sizes, Wrapped DEF TypeOK, Line
<1>2. IncludesNest' BY <1>0 DEF IncludesNest, Including
<1>3. PlaceInv' BY <1>0 DEF PlaceInv
<1>4. RoomInv' BY <1>0 DEF RoomInv, Including
<1>5. RefsInv' BY <1>0 DEF RefsInv
<1>6. OrderInv' BY <1>0 DEF OrderInv
<1>7. LabelInv' BY <1>0 DEF LabelInv
<1>8. LinkInv' BY <1>0 DEF LinkInv, PlaceInv
<1>9. SaneInv' BY <1>0 DEF SaneInv
<1>10. RetInv' BY <1>0 DEF RetInv, RetInRoom
<1> QED BY <1>1, <1>2, <1>3, <1>4, <1>5, <1>6, <1>7, <1>8, <1>9, <1>10

\* The session begins.
LEMMA InitInv == Init => IInv
<1> SUFFICES ASSUME Init PROVE IInv OBVIOUS
<1> USE DEF Init, AsmInit
<1>1. TypeOK
  <2>1. binPtr \in Pointer BY DEF Pointer
  <2>2. /\ values \in Seq(Value) /\ incomplete \in Seq(IncompValue)
        /\ frames \in Seq(Include \cup Macro)
    OBVIOUS
  <2>3. pc \in Outcome /\ line \in Line BY DEF Outcome, Line
  <2>4. /\ binCap \in 0 .. MaxBin /\ binLen \in 0 .. MaxWord - 1 /\ size \in 0 .. MaxWord - 1
        /\ dataPtr \in 0 .. AreaSize /\ macros \in 0 .. MaxMacros
    BY Sizes, Wrapped
  <2>5. included \subseteq File /\ pending \subseteq DOMAIN values /\ links \subseteq Link
    OBVIOUS
  <2>6. data \in BOOLEAN /\ swallowed \in BOOLEAN /\ rewound \in Nat /\ bin \in Buffer \cup {NULL} OBVIOUS
  <2> HIDE DEF Init, AsmInit
  <2> QED BY <2>1, <2>2, <2>3, <2>4, <2>5, <2>6 DEF TypeOK
<1>2. RoomInv BY DEF RoomInv, Including
<1>3. IncludesNest BY DEF IncludesNest, Including
<1> QED BY <1>1, <1>2, <1>3 DEF IInv, PlaceInv, RefsInv, OrderInv, LabelInv, LinkInv, SaneInv,
                                RetInv, RetInRoom

\* Every step keeps the invariant.
LEMMA NextInv == IInv /\ [Next]_vars => IInv'
<1> SUFFICES ASSUME IInv, [Next]_vars PROVE IInv' OBVIOUS
<1>1. CASE FreeIncompleteAssemblerRef BY <1>1, FreeInv
<1>2. CASE FreezeAssemblerLabels BY <1>2, FreezeInv
<1>3. CASE ResetAssemblerBinary BY <1>3, ResetInv
<1>4. CASE RunAssembler BY <1>4, RunInv
<1>5. CASE Assembling BY <1>5, AssemblingInv
<1>6. CASE Returned BY <1>6, ReturnedInv
<1>7. CASE ExtendAssemblerBinary BY <1>7, ExtendInv
<1>8. CASE WriteRet BY <1>8, WriteRetInv
<1>9. CASE CallLine BY <1>9, CallLineInv
<1>10. CASE UNCHANGED vars
  <2>0. UNCHANGED <<data, bin, binCap, binPtr, binLen, dataPtr, values, incomplete, macros,
                    included, frames, pending, links, swallowed, rewound, pc, line, size>>
    BY <1>10 DEF vars, asmVars, binVars, tables, history
  <2> USE DEF IInv
  <2>1. TypeOK' BY <2>0 DEF TypeOK
  <2>2. IncludesNest' BY <2>0 DEF IncludesNest, Including
  <2>3. PlaceInv' BY <2>0 DEF PlaceInv
  <2>4. RoomInv' BY <2>0 DEF RoomInv, Including
  <2>5. RefsInv' /\ OrderInv' BY <2>0 DEF RefsInv, OrderInv
  <2>6. LabelInv' BY <2>0 DEF LabelInv
  <2>7. LinkInv' /\ SaneInv' BY <2>0 DEF LinkInv, SaneInv, Astray
  <2>8. RetInv' BY <2>0 DEF RetInv, RetInRoom
  <2> QED BY <2>1, <2>2, <2>3, <2>4, <2>5, <2>6, <2>7, <2>8
<1> QED BY <1>1, <1>2, <1>3, <1>4, <1>5, <1>6, <1>7, <1>8, <1>9, <1>10 DEF Next

-----------------------------------------------------------------------------
(* The theorems *)

\* The invariant holds however many lines of whatever text are assembled
\* (asm.c:130-610, playground.asm:16-45).
THEOREM PlaygroundInv == Spec => []IInv
<1>1. Init => IInv BY InitInv
<1>2. IInv /\ [Next]_vars => IInv' BY NextInv
<1> QED BY <1>1, <1>2, PTL DEF Spec

\* Every variable keeps its type, whatever the constants.
THEOREM TypesKept == Spec => []TypeOK
<1>1. IInv => TypeOK BY DEF IInv
<1> QED BY <1>1, PlaygroundInv, PTL

\* References left open lie in the binary, one after the other, however often it
\* grows, moves, is extended and reset (asm.c:539-590).
THEOREM RefsStayInRoom == Spec => []RefsInRoom
<1>1. ASSUME IInv PROVE RefsInRoom
  <2>1. \A i \in DOMAIN incomplete : incomplete[i].off \in Int BY <1>1, Offsets DEF IInv
  <2>2. binCap \in Int /\ WordSize \in Int BY <1>1, Sizes DEF IInv, TypeOK
  <2>3. ASSUME rewound = 0 PROVE \A i \in DOMAIN incomplete : InBinary(incomplete[i])
    BY <1>1, <2>1, <2>2, <2>3 DEF IInv, RefsInv, InBinary
  <2> QED BY <1>1, <2>3 DEF IInv, RefsInRoom, OrderInv
<1> QED BY <1>1, PlaygroundInv, PTL

\* Labels not frozen yet lie in the binary (asm.c:271-292, calls.c:272-284).
THEOREM LabelsStayInRoom == Spec => []LabelsInRoom
<1>1. IInv => LabelsInRoom BY DEF IInv, LabelsInRoom, LabelInv
<1> QED BY <1>1, PlaygroundInv, PTL

\* When Assemble has answered that a line is good, no address in it leads to a
\* block the binary has left (asm.c:485-493, 575-590).
THEOREM AddressesStayCurrent == Spec => []AddressesCurrent
<1>1. IInv => AddressesCurrent BY DEF IInv, AddressesCurrent, LinkInv, PlaceInv
<1> QED BY <1>1, PlaygroundInv, PTL

\* Only an error that a macro hides leaves binPtr astray while a line is
\* assembled (asm.c:359-363, 527).
THEOREM StraysAreHidden == Spec => []OnlyHiddenErrorsStray
<1>1. IInv => OnlyHiddenErrorsStray BY DEF IInv, OnlyHiddenErrorsStray, SaneInv
<1> QED BY <1>1, PlaygroundInv, PTL

\* The RET after a line in code mode is written into the binary, unless an error
\* was hidden (calls.c:238-249, playground.asm:27-36).
THEOREM RetStaysInRoom == Spec => []RetInRoom
<1>1. IInv => RetInRoom BY DEF IInv, RetInv
<1> QED BY <1>1, PlaygroundInv, PTL

\* However deep includes and macros nest, no file is read inside itself
\* (asm.c:319-357).
THEOREM NoCircularInclude == Spec => []IncludesNest
<1>1. IInv => IncludesNest BY DEF IInv
<1> QED BY <1>1, PlaygroundInv, PTL
=============================================================================
