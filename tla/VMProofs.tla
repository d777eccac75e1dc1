------------------------------ MODULE VMProofs ------------------------------
(***************************************************************************)
(* The machine of VM keeps the promise of StackMachine for every word      *)
(* width, every size of the stacks and every number of registers.  The     *)
(* invariant the refinement rests on is only that the pointers stay inside *)
(* their arrays, and that the arrays have their shape: which words lie     *)
(* below a pointer is what the refinement itself says.                     *)
(***************************************************************************)
EXTENDS VMProps, TLAPS

\* The stacks the abstract machine sees: the words below the pointers.
DS == [i \in 1 .. dsp |-> dStack[i - 1]]
RS == [i \in 1 .. rsp |-> rStack[i - 1]]

\* A function on the indices of an array, whatever its values.
IsArray(f, n) == f = [i \in 0 .. n - 1 |-> f[i]]

Pointers == dsp \in 0 .. Depth /\ rsp \in 0 .. RDepth
Arrays   == IsArray(dStack, Depth) /\ IsArray(rStack, RDepth)
IInv     == Pointers /\ Arrays /\ IsArray(reg, NumRegs)

\* The data stack is as long as its pointer says.
LEMMA LenDS == ASSUME IInv PROVE Len(DS) = dsp
  BY MachineAssumption DEF DS, IInv, Pointers

\* And so is the return stack.
LEMMA LenRS == ASSUME IInv PROVE Len(RS) = rsp
  BY MachineAssumption DEF RS, IInv, Pointers

\* To give up n words for k is a matter of the pointer alone.
LEMMA FitsDS ==
  ASSUME IInv, NEW n \in Nat, NEW k \in Nat
  PROVE  Machine!Fits(n, k) <=> n <= dsp /\ dsp - n + k <= Depth
  <1>1. Len(DS) = dsp BY LenDS
  <1> QED BY <1>1, MachineAssumption DEF Machine!Fits, DS, IInv, Pointers

\* The n words on top, in the array.
LEMMA ArgsDS ==
  ASSUME IInv, NEW n \in 0 .. dsp
  PROVE  Machine!Args(n) = [i \in 1 .. n |-> dStack[dsp - n + i - 1]]
  <1>1. Len(DS) = dsp BY LenDS
  <1>a. Machine!Args(n) = [i \in 1 .. n |-> DS[Len(DS) - n + i]]
    BY Zenon DEF Machine!Args, DS
  <1>2. Machine!Args(n) = [i \in 1 .. n |-> DS[dsp - n + i]]
    BY <1>a, <1>1
  <1>3. \A i \in 1 .. n : DS[dsp - n + i] = dStack[dsp - n + i - 1]
    BY MachineAssumption DEF DS, IInv, Pointers
  <1> QED BY <1>2, <1>3

\* When the words from n below the pointer on become new, the top n words are
\* replaced.
LEMMA ReplacedDS ==
  ASSUME IInv, NEW n \in 0 .. dsp, NEW new, NEW m \in Nat, Len(new) = m,
         dsp' = dsp - n + m,
         \A i \in 0 .. dsp - n - 1 : dStack'[i] = dStack[i],
         \A j \in 1 .. m : dStack'[dsp - n + j - 1] = new[j]
  PROVE  DS' = Machine!Replaced(n, new)
  <1>1. Len(DS) = dsp BY LenDS
  <1>d. dsp \in Nat BY MachineAssumption DEF IInv, Pointers
  <1>a. Machine!Replaced(n, new) =
          [i \in 1 .. Len(DS) - n + Len(new) |->
             IF i <= Len(DS) - n THEN DS[i] ELSE new[i - (Len(DS) - n)]]
    BY Zenon DEF Machine!Replaced, DS
  <1>2. Machine!Replaced(n, new) =
          [i \in 1 .. dsp - n + m |-> IF i <= dsp - n THEN DS[i] ELSE new[i - (dsp - n)]]
    BY <1>a, <1>1
  <1>3. DS' = [i \in 1 .. dsp - n + m |-> dStack'[i - 1]]
    BY DEF DS
  <1>4. ASSUME NEW i \in 1 .. dsp - n + m
        PROVE dStack'[i - 1] = IF i <= dsp - n THEN DS[i] ELSE new[i - (dsp - n)]
    <2>1. CASE i <= dsp - n
      <3>1. i - 1 \in 0 .. dsp - n - 1 /\ i \in 1 .. dsp BY <2>1, <1>d
      <3>2. DS[i] = dStack[i - 1] BY <3>1 DEF DS
      <3> QED BY <3>1, <3>2, <2>1
    <2>2. CASE ~(i <= dsp - n)
      <3>1. i - (dsp - n) \in 1 .. m BY <2>2, <1>d
      <3>2. dsp - n + (i - (dsp - n)) - 1 = i - 1 BY <1>d
      <3> QED BY <3>1, <3>2, <2>2
    <2> QED BY <2>1, <2>2
  <1> QED BY <1>2, <1>3, <1>4

\* The instructions that touch the data stack only.
DataOp == Op \ {"WREG", "R2D", "D2R", "JUMP", "JNZ", "JZ", "CALL", "RET", "HALT", "ECALL", "INVALID"}

\* The step gives up n words for the m words of new.
Replaces(n, new, m) ==
  /\ n \in 0 .. 3 /\ m \in 0 .. 3 /\ n <= dsp
  /\ Len(new) = m /\ dsp' = dsp - n + m /\ dsp' <= Depth
  /\ \A i \in 0 .. dsp - n - 1 : dStack'[i] = dStack[i]
  /\ \A j \in 1 .. m : dStack'[dsp - n + j - 1] = new[j]

\* An instruction that replaces its words in the array is a step of the stack
\* machine.
LEMMA DataStep ==
  ASSUME IInv, op \in DataOp, status = "running", OnlyData,
         NEW n, n = Machine!Takes(op), NEW m,
         NEW new \in Machine!Leaves(op, Machine!Args(n)),
         ~Machine!ByZero(Machine!Args(n)), Replaces(n, new, m)
  PROVE  Machine!Execute
  <1>d. dsp \in Nat BY MachineAssumption DEF IInv, Pointers
  <1>0. n \in 0 .. dsp /\ m \in Nat BY <1>d DEF Replaces
  <1>1. DS' = Machine!Replaced(n, new)
    <2>1. /\ Len(new) = m /\ dsp' = dsp - n + m
          /\ \A i \in 0 .. dsp - n - 1 : dStack'[i] = dStack[i]
          /\ \A j \in 1 .. m : dStack'[dsp - n + j - 1] = new[j]
      BY DEF Replaces
    <2> QED BY <1>0, <2>1, ReplacedDS
  <1>2. RS' = RS BY DEF RS, OnlyData
  <1>3. Machine!Fits(n, 0) /\ Machine!Fits(n, Len(new))
    BY <1>0, FitsDS, <1>d, MachineAssumption DEF IInv, Pointers, Replaces
  <1>4. op \notin {"WREG", "R2D", "D2R", "JUMP", "JNZ", "JZ", "CALL", "RET", "HALT", "ECALL", "INVALID", "none"}
    BY DEF DataOp, Op, Binary, Unary, Load, Store, Other
  <1>5. Machine!ReturnFits BY <1>4 DEF Machine!ReturnFits
  <1>6. Machine!ReturnStack(Machine!Args(n)) = RS
    BY <1>4 DEF Machine!ReturnStack, RS
  <1>7. Machine!Target(Machine!Args(n)) = ip
    BY <1>4 DEF Machine!Target
  <1> QED BY <1>1, <1>2, <1>3, <1>4, <1>5, <1>6, <1>7
       DEF Machine!Execute, Machine!Executes, OnlyData, DS, RS

\* What instructions take and leave.
LEMMA Effects ==
  ASSUME NEW a
  PROVE  /\ \A o \in Binary : Machine!Takes(o) = 2 /\ Machine!Leaves(o, a) = {<<Alu(o, a[1], a[2])>>}
         /\ \A o \in Unary : Machine!Takes(o) = 1 /\ Machine!Leaves(o, a) = {<<Inverse(o, a[1])>>}
         /\ \A o \in Load : Machine!Takes(o) = 1 /\ Machine!Leaves(o, a) = {<<w>> : w \in Word}
         /\ \A o \in Store \cup {"WREG", "JNZ", "JZ"} : Machine!Takes(o) = 2 /\ Machine!Leaves(o, a) = {<<>>}
         /\ \A o \in {"DROP", "D2R", "JUMP", "CALL"} : Machine!Takes(o) = 1 /\ Machine!Leaves(o, a) = {<<>>}
         /\ \A o \in {"NOP", "RET"} : Machine!Takes(o) = 0 /\ Machine!Leaves(o, a) = {<<>>}
         /\ Machine!Takes("DIVMOD") = 2
         /\ Machine!Leaves("DIVMOD", a) = {<<Alu("MOD", a[1], a[2]), Alu("DIV", a[1], a[2])>>}
         /\ Machine!Takes("REG") = 1 /\ Machine!Leaves("REG", a) = {<<reg[a[1] % NumRegs]>>}
         /\ Machine!Takes("DUP") = 1 /\ Machine!Leaves("DUP", a) = {<<a[1], a[1]>>}
         /\ Machine!Takes("OVER") = 2 /\ Machine!Leaves("OVER", a) = {<<a[1], a[2], a[1]>>}
         /\ Machine!Takes("ROT") = 3 /\ Machine!Leaves("ROT", a) = {<<a[2], a[3], a[1]>>}
         /\ Machine!Takes("SWAP") = 2 /\ Machine!Leaves("SWAP", a) = {<<a[2], a[1]>>}
         /\ Machine!Takes("R2D") = 0 /\ Machine!Leaves("R2D", a) = {<<RS[Len(RS)]>>}
         /\ Machine!Takes("ECALL") = 1 /\ Machine!Takes("INVALID") = 0 /\ Machine!Takes("HALT") = 0
<1> USE DEF Machine!Takes, Machine!Leaves, Machine!Binary, Machine!Store, Machine!Unary, Machine!Load,
        Binary, Unary, Load, Store, Machine!Word, Word
<1>1. \A o \in Binary : Machine!Takes(o) = 2 /\ Machine!Leaves(o, a) = {<<Alu(o, a[1], a[2])>>} OBVIOUS
<1>2. \A o \in Unary : Machine!Takes(o) = 1 /\ Machine!Leaves(o, a) = {<<Inverse(o, a[1])>>} OBVIOUS
<1>3. \A o \in Load : Machine!Takes(o) = 1 /\ Machine!Leaves(o, a) = {<<w>> : w \in Word} OBVIOUS
<1>4. \A o \in Store \cup {"WREG", "JNZ", "JZ"} : Machine!Takes(o) = 2 /\ Machine!Leaves(o, a) = {<<>>} OBVIOUS
<1>5. \A o \in {"DROP", "D2R", "JUMP", "CALL"} : Machine!Takes(o) = 1 /\ Machine!Leaves(o, a) = {<<>>} OBVIOUS
<1>6. \A o \in {"NOP", "RET"} : Machine!Takes(o) = 0 /\ Machine!Leaves(o, a) = {<<>>} OBVIOUS
<1>7. Machine!Takes("DIVMOD") = 2 /\ Machine!Leaves("DIVMOD", a) = {<<Alu("MOD", a[1], a[2]), Alu("DIV", a[1], a[2])>>} OBVIOUS
<1>8. Machine!Takes("REG") = 1 /\ Machine!Leaves("REG", a) = {<<reg[a[1] % NumRegs]>>} OBVIOUS
<1>9. Machine!Takes("DUP") = 1 /\ Machine!Leaves("DUP", a) = {<<a[1], a[1]>>} OBVIOUS
<1>10. Machine!Takes("OVER") = 2 /\ Machine!Leaves("OVER", a) = {<<a[1], a[2], a[1]>>} OBVIOUS
<1>11. Machine!Takes("ROT") = 3 /\ Machine!Leaves("ROT", a) = {<<a[2], a[3], a[1]>>} OBVIOUS
<1>12. Machine!Takes("SWAP") = 2 /\ Machine!Leaves("SWAP", a) = {<<a[2], a[1]>>} OBVIOUS
<1>13. Machine!Takes("R2D") = 0 /\ Machine!Leaves("R2D", a) = {<<RS[Len(RS)]>>} BY DEF RS
<1>14. Machine!Takes("ECALL") = 1 /\ Machine!Takes("INVALID") = 0 /\ Machine!Takes("HALT") = 0 OBVIOUS
<1> QED BY <1>1, <1>2, <1>3, <1>4, <1>5, <1>6, <1>7, <1>8, <1>9, <1>10, <1>11, <1>12, <1>13, <1>14

\* The words taken, in terms of the pointer.
LEMMA ArgsTop ==
  ASSUME IInv
  PROVE  /\ 1 <= dsp => Machine!Args(1)[1] = Top(1)
         /\ 2 <= dsp => Machine!Args(2)[1] = Top(2) /\ Machine!Args(2)[2] = Top(1)
         /\ 3 <= dsp => /\ Machine!Args(3)[1] = Top(3) /\ Machine!Args(3)[2] = Top(2)
                        /\ Machine!Args(3)[3] = Top(1)
<1>d. dsp \in Nat BY MachineAssumption DEF IInv, Pointers
<1>1. ASSUME NEW n \in 1 .. 3, n <= dsp, NEW k \in 1 .. n PROVE Machine!Args(n)[k] = Top(n + 1 - k)
  <2>1. Machine!Args(n) = [i \in 1 .. n |-> dStack[dsp - n + i - 1]] BY <1>1, <1>d, ArgsDS
  <2>2. dsp - n + k - 1 = dsp - (n + 1 - k) BY <1>d
  <2> QED BY <2>1, <2>2 DEF Top
<1>2. \A n \in 1 .. 3 : n <= dsp => \A k \in 1 .. n : Machine!Args(n)[k] = Top(n + 1 - k) BY <1>1
<1> QED BY <1>2

\* A store below the top keeps the array an array.
LEMMA KeepsArray ==
  ASSUME NEW f, NEW n, IsArray(f, n), NEW i, NEW w
  PROVE  IsArray([f EXCEPT ![i] = w], n)
  BY DEF IsArray

\* Binary operations take two words and leave one.
LEMMA ArithmeticStep == ASSUME IInv, Arithmetic PROVE Machine!Execute /\ IInv'
<1> DEFINE w == Alu(op, Top(2), Top(1))
           a == Machine!Args(2)
<1>d. dsp \in Nat /\ Depth \in Nat BY MachineAssumption DEF IInv, Pointers
<1>1. /\ op \in Binary /\ status = "running" /\ 2 <= dsp /\ dsp <= Depth /\ ~DividesByZero
      /\ dsp' = dsp - 1 /\ dStack' = [dStack EXCEPT ![dsp - 2] = w] /\ OnlyData
  BY <1>d DEF Arithmetic, Executes, InReach, Leave, Top, IInv, Pointers
<1>2. a[1] = Top(2) /\ a[2] = Top(1) BY <1>1, ArgsTop
<1>3. Machine!Takes(op) = 2 /\ <<w>> \in Machine!Leaves(op, a) BY <1>1, <1>2, Effects
<1>4. ~Machine!ByZero(a) BY <1>1, <1>2 DEF Machine!ByZero, DividesByZero
<1>5. op \in DataOp BY <1>1 DEF DataOp, Op, Binary
<1>6. IsArray(dStack', Depth) BY <1>1, KeepsArray DEF IInv, Arrays
<1>7. \A i \in 0 .. Depth - 1 : dStack'[i] = IF i = dsp - 2 THEN w ELSE dStack[i]
  BY <1>1 DEF IInv, Arrays, IsArray
<1>8. Replaces(2, <<w>>, 1) BY <1>1, <1>7, <1>d DEF Replaces
<1>0. Machine!Execute BY <1>1, <1>3, <1>4, <1>5, <1>8, DataStep
<1>9. IInv' BY <1>1, <1>6, <1>d DEF IInv, Pointers, Arrays, OnlyData
<1> QED BY <1>0, <1>9

\* NEG and NOT change the top word in place.
LEMMA InPlaceStep == ASSUME IInv, InPlace PROVE Machine!Execute /\ IInv'
<1> DEFINE a == Machine!Args(1)
<1>d. dsp \in Nat /\ Depth \in Nat BY MachineAssumption DEF IInv, Pointers
<1>1. /\ op \in Unary /\ status = "running" /\ 1 <= dsp /\ dsp <= Depth
      /\ dsp' = dsp /\ dsp' <= Depth
      /\ dStack' = [dStack EXCEPT ![dsp - 1] = Inverse(op, Top(1))] /\ OnlyData
  BY <1>d DEF InPlace, Executes, InReach, Leave, Top, IInv, Pointers
<1>2. a[1] = Top(1) BY <1>1, ArgsTop
<1>3. Machine!Takes(op) = 1 /\ <<Inverse(op, Top(1))>> \in Machine!Leaves(op, a)
  BY <1>1, <1>2, Effects
<1>4. ~Machine!ByZero(a) BY <1>1, <1>2 DEF Machine!ByZero, DividesByZero, Unary
<1>5. op \in DataOp BY <1>1 DEF DataOp, Op, Binary, Unary, Load, Store, Other
<1>6. IsArray(dStack', Depth) BY <1>1 DEF IInv, Arrays, IsArray
<1>7. Replaces(1, <<Inverse(op, Top(1))>>, 1)
  BY <1>1, <1>d DEF Replaces, IInv, Arrays, IsArray, Top
<1>8. Machine!Execute BY <1>1, <1>3, <1>4, <1>5, <1>7, DataStep
<1>9. IInv' BY <1>1, <1>6, <1>d DEF IInv, Pointers, Arrays, OnlyData
<1> QED BY <1>8, <1>9

\* DIVMOD leaves the remainder below the quotient.
LEMMA DivModStep == ASSUME IInv, DivMod PROVE Machine!Execute /\ IInv'
<1> DEFINE a == Machine!Args(2)
<1>d. dsp \in Nat /\ Depth \in Nat BY MachineAssumption DEF IInv, Pointers
<1>1. /\ op = "DIVMOD" /\ status = "running" /\ 2 <= dsp /\ dsp <= Depth /\ ~DividesByZero
      /\ dsp' = dsp /\ dsp' <= Depth
      /\ dStack' = [dStack EXCEPT ![dsp - 2] = Alu("MOD", Top(2), Top(1)),
                                 ![dsp - 1] = Alu("DIV", Top(2), Top(1))] /\ OnlyData
  BY <1>d DEF DivMod, Executes, InReach, Leave, Top, IInv, Pointers
<1>2. a[1] = Top(2) /\ a[2] = Top(1) BY <1>1, ArgsTop
<1>3. /\ Machine!Takes(op) = 2
      /\ <<Alu("MOD", Top(2), Top(1)), Alu("DIV", Top(2), Top(1))>> \in Machine!Leaves(op, a)
  BY <1>1, <1>2, Effects
<1>4. ~Machine!ByZero(a) BY <1>1, <1>2 DEF Machine!ByZero, DividesByZero
<1>5. op \in DataOp BY <1>1 DEF DataOp, Op, Binary, Unary, Load, Store, Other
<1>6. IsArray(dStack', Depth) BY <1>1 DEF IInv, Arrays, IsArray
<1>7. Replaces(2, <<Alu("MOD", Top(2), Top(1)), Alu("DIV", Top(2), Top(1))>>, 2)
  BY <1>1, <1>d DEF Replaces, IInv, Arrays, IsArray, Top
<1>8. Machine!Execute BY <1>1, <1>3, <1>4, <1>5, <1>7, DataStep
<1>9. IInv' BY <1>1, <1>6, <1>d DEF IInv, Pointers, Arrays, OnlyData
<1> QED BY <1>8, <1>9

\* A store takes the value and the address.
LEMMA StoresStep == ASSUME IInv, Stores PROVE Machine!Execute /\ IInv'
<1> DEFINE a == Machine!Args(2)
<1>d. dsp \in Nat /\ Depth \in Nat BY MachineAssumption DEF IInv, Pointers
<1>1. /\ op \in Store /\ status = "running" /\ 2 <= dsp /\ dsp <= Depth
      /\ dsp' = dsp - 2 /\ dsp' <= Depth /\ dStack' = dStack /\ OnlyData
  BY <1>d DEF Stores, Executes, InReach, Leave, Top, IInv, Pointers
<1>2. a[1] = Top(2) /\ a[2] = Top(1) BY <1>1, ArgsTop
<1>3. Machine!Takes(op) = 2 /\ <<>> \in Machine!Leaves(op, a) BY <1>1, <1>2, Effects
<1>4. ~Machine!ByZero(a) BY <1>1, <1>2 DEF Machine!ByZero, DividesByZero, Store
<1>5. op \in DataOp BY <1>1 DEF DataOp, Op, Binary, Unary, Load, Store, Other
<1>6. IsArray(dStack', Depth) BY <1>1 DEF IInv, Arrays, IsArray
<1>7. Replaces(2, <<>>, 0) BY <1>1, <1>d DEF Replaces, IInv, Arrays, IsArray, Top
<1>8. Machine!Execute BY <1>1, <1>3, <1>4, <1>5, <1>7, DataStep
<1>9. IInv' BY <1>1, <1>6, <1>d DEF IInv, Pointers, Arrays, OnlyData
<1> QED BY <1>8, <1>9

\* NOP leaves the stack alone.
LEMMA NopStep == ASSUME IInv, Nop PROVE Machine!Execute /\ IInv'
<1> DEFINE a == Machine!Args(0)
<1>d. dsp \in Nat /\ Depth \in Nat BY MachineAssumption DEF IInv, Pointers
<1>1. /\ op = "NOP" /\ status = "running" /\ 0 <= dsp /\ dsp <= Depth
      /\ dsp' = dsp /\ dsp' <= Depth /\ dStack' = dStack /\ OnlyData
  BY <1>d DEF Nop, Executes, InReach, Leave, Top, IInv, Pointers
<1>2. TRUE BY <1>1, ArgsTop
<1>3. Machine!Takes(op) = 0 /\ <<>> \in Machine!Leaves(op, a) BY <1>1, <1>2, Effects
<1>4. ~Machine!ByZero(a) BY <1>1, <1>2 DEF Machine!ByZero, DividesByZero
<1>5. op \in DataOp BY <1>1 DEF DataOp, Op, Binary, Unary, Load, Store, Other
<1>6. IsArray(dStack', Depth) BY <1>1 DEF IInv, Arrays, IsArray
<1>7. Replaces(0, <<>>, 0) BY <1>1, <1>d DEF Replaces, IInv, Arrays, IsArray, Top
<1>8. Machine!Execute BY <1>1, <1>3, <1>4, <1>5, <1>7, DataStep
<1>9. IInv' BY <1>1, <1>6, <1>d DEF IInv, Pointers, Arrays, OnlyData
<1> QED BY <1>8, <1>9

\* DUP copies the top word.
LEMMA DupStep == ASSUME IInv, Dup PROVE Machine!Execute /\ IInv'
<1> DEFINE a == Machine!Args(1)
<1>d. dsp \in Nat /\ Depth \in Nat BY MachineAssumption DEF IInv, Pointers
<1>1. /\ op = "DUP" /\ status = "running" /\ 1 <= dsp /\ dsp <= Depth
      /\ dsp' = dsp + 1 /\ dsp' <= Depth /\ dStack' = [dStack EXCEPT ![dsp] = Top(1)] /\ OnlyData
  BY <1>d DEF Dup, Executes, InReach, Leave, Top, IInv, Pointers
<1>2. a[1] = Top(1) BY <1>1, ArgsTop
<1>3. Machine!Takes(op) = 1 /\ <<Top(1), Top(1)>> \in Machine!Leaves(op, a) BY <1>1, <1>2, Effects
<1>4. ~Machine!ByZero(a) BY <1>1, <1>2 DEF Machine!ByZero, DividesByZero
<1>5. op \in DataOp BY <1>1 DEF DataOp, Op, Binary, Unary, Load, Store, Other
<1>6. IsArray(dStack', Depth) BY <1>1 DEF IInv, Arrays, IsArray
<1>7. Replaces(1, <<Top(1), Top(1)>>, 2) BY <1>1, <1>d DEF Replaces, IInv, Arrays, IsArray, Top
<1>8. Machine!Execute BY <1>1, <1>3, <1>4, <1>5, <1>7, DataStep
<1>9. IInv' BY <1>1, <1>6, <1>d DEF IInv, Pointers, Arrays, OnlyData
<1> QED BY <1>8, <1>9

\* OVER copies the word below the top.
LEMMA OverStep == ASSUME IInv, Over PROVE Machine!Execute /\ IInv'
<1> DEFINE a == Machine!Args(2)
<1>d. dsp \in Nat /\ Depth \in Nat BY MachineAssumption DEF IInv, Pointers
<1>1. /\ op = "OVER" /\ status = "running" /\ 2 <= dsp /\ dsp <= Depth
      /\ dsp' = dsp + 1 /\ dsp' <= Depth /\ dStack' = [dStack EXCEPT ![dsp] = Top(2)] /\ OnlyData
  BY <1>d DEF Over, Executes, InReach, Leave, Top, IInv, Pointers
<1>2. a[1] = Top(2) /\ a[2] = Top(1) BY <1>1, ArgsTop
<1>3. Machine!Takes(op) = 2 /\ <<Top(2), Top(1), Top(2)>> \in Machine!Leaves(op, a)
  BY <1>1, <1>2, Effects
<1>4. ~Machine!ByZero(a) BY <1>1, <1>2 DEF Machine!ByZero, DividesByZero
<1>5. op \in DataOp BY <1>1 DEF DataOp, Op, Binary, Unary, Load, Store, Other
<1>6. IsArray(dStack', Depth) BY <1>1 DEF IInv, Arrays, IsArray
<1>7. Replaces(2, <<Top(2), Top(1), Top(2)>>, 3)
  BY <1>1, <1>d DEF Replaces, IInv, Arrays, IsArray, Top
<1>8. Machine!Execute BY <1>1, <1>3, <1>4, <1>5, <1>7, DataStep
<1>9. IInv' BY <1>1, <1>6, <1>d DEF IInv, Pointers, Arrays, OnlyData
<1> QED BY <1>8, <1>9

\* DROP only moves the pointer: the word stays above it.
LEMMA DropStep == ASSUME IInv, Drop PROVE Machine!Execute /\ IInv'
<1> DEFINE a == Machine!Args(1)
<1>d. dsp \in Nat /\ Depth \in Nat BY MachineAssumption DEF IInv, Pointers
<1>1. /\ op = "DROP" /\ status = "running" /\ 1 <= dsp /\ dsp <= Depth
      /\ dsp' = dsp - 1 /\ dsp' <= Depth /\ dStack' = dStack /\ OnlyData
  BY <1>d DEF Drop, Executes, InReach, Leave, Top, IInv, Pointers
<1>2. a[1] = Top(1) BY <1>1, ArgsTop
<1>3. Machine!Takes(op) = 1 /\ <<>> \in Machine!Leaves(op, a) BY <1>1, <1>2, Effects
<1>4. ~Machine!ByZero(a) BY <1>1, <1>2 DEF Machine!ByZero, DividesByZero
<1>5. op \in DataOp BY <1>1 DEF DataOp, Op, Binary, Unary, Load, Store, Other
<1>6. IsArray(dStack', Depth) BY <1>1 DEF IInv, Arrays, IsArray
<1>7. Replaces(1, <<>>, 0) BY <1>1, <1>d DEF Replaces, IInv, Arrays, IsArray, Top
<1>8. Machine!Execute BY <1>1, <1>3, <1>4, <1>5, <1>7, DataStep
<1>9. IInv' BY <1>1, <1>6, <1>d DEF IInv, Pointers, Arrays, OnlyData
<1> QED BY <1>8, <1>9

\* ROT brings the third word to the top.
LEMMA RotStep == ASSUME IInv, Rot PROVE Machine!Execute /\ IInv'
<1> DEFINE a == Machine!Args(3)
<1>d. dsp \in Nat /\ Depth \in Nat BY MachineAssumption DEF IInv, Pointers
<1>1. /\ op = "ROT" /\ status = "running" /\ 3 <= dsp /\ dsp <= Depth
      /\ dsp' = dsp /\ dsp' <= Depth
      /\ dStack' = [dStack EXCEPT ![dsp - 3] = Top(2), ![dsp - 2] = Top(1),
                                 ![dsp - 1] = Top(3)] /\ OnlyData
  BY <1>d DEF Rot, Executes, InReach, Leave, Top, IInv, Pointers
<1>2. a[1] = Top(3) /\ a[2] = Top(2) /\ a[3] = Top(1) BY <1>1, ArgsTop
<1>3. Machine!Takes(op) = 3 /\ <<Top(2), Top(1), Top(3)>> \in Machine!Leaves(op, a)
  BY <1>1, <1>2, Effects
<1>4. ~Machine!ByZero(a) BY <1>1, <1>2 DEF Machine!ByZero, DividesByZero
<1>5. op \in DataOp BY <1>1 DEF DataOp, Op, Binary, Unary, Load, Store, Other
<1>6. IsArray(dStack', Depth) BY <1>1 DEF IInv, Arrays, IsArray
<1>7. Replaces(3, <<Top(2), Top(1), Top(3)>>, 3)
  <2>1. \A i \in 0 .. dsp - 3 - 1 : dStack'[i] = dStack[i]
    BY <1>1, <1>d DEF IInv, Arrays, IsArray
  <2>2. dStack'[dsp - 3] = Top(2) /\ dStack'[dsp - 2] = Top(1) /\ dStack'[dsp - 1] = Top(3)
    BY <1>1, <1>d DEF IInv, Arrays, IsArray
  <2>3. dsp - 3 + 1 - 1 = dsp - 3 /\ dsp - 3 + 2 - 1 = dsp - 2 /\ dsp - 3 + 3 - 1 = dsp - 1
    BY <1>d
  <2>4. \A j \in 1 .. 3 : dStack'[dsp - 3 + j - 1] = <<Top(2), Top(1), Top(3)>>[j]
    BY <2>2, <2>3
  <2>5. Len(<<Top(2), Top(1), Top(3)>>) = 3 OBVIOUS
  <2>6. 3 \in 0 .. 3 /\ 3 <= dsp /\ dsp' = dsp - 3 + 3 /\ dsp' <= Depth BY <1>1, <1>d
  <2> QED BY <2>1, <2>4, <2>5, <2>6 DEF Replaces
<1>8. Machine!Execute BY <1>1, <1>3, <1>4, <1>5, <1>7, DataStep
<1>9. IInv' BY <1>1, <1>6, <1>d DEF IInv, Pointers, Arrays, OnlyData
<1> QED BY <1>8, <1>9

\* SWAP exchanges the top two.
LEMMA SwapStep == ASSUME IInv, Swap PROVE Machine!Execute /\ IInv'
<1> DEFINE a == Machine!Args(2)
<1>d. dsp \in Nat /\ Depth \in Nat BY MachineAssumption DEF IInv, Pointers
<1>1. /\ op = "SWAP" /\ status = "running" /\ 2 <= dsp /\ dsp <= Depth
      /\ dsp' = dsp /\ dsp' <= Depth
      /\ dStack' = [dStack EXCEPT ![dsp - 2] = Top(1), ![dsp - 1] = Top(2)] /\ OnlyData
  BY <1>d DEF Swap, Executes, InReach, Leave, Top, IInv, Pointers
<1>2. a[1] = Top(2) /\ a[2] = Top(1) BY <1>1, ArgsTop
<1>3. Machine!Takes(op) = 2 /\ <<Top(1), Top(2)>> \in Machine!Leaves(op, a) BY <1>1, <1>2, Effects
<1>4. ~Machine!ByZero(a) BY <1>1, <1>2 DEF Machine!ByZero, DividesByZero
<1>5. op \in DataOp BY <1>1 DEF DataOp, Op, Binary, Unary, Load, Store, Other
<1>6. IsArray(dStack', Depth) BY <1>1 DEF IInv, Arrays, IsArray
<1>7. Replaces(2, <<Top(1), Top(2)>>, 2) BY <1>1, <1>d DEF Replaces, IInv, Arrays, IsArray, Top
<1>8. Machine!Execute BY <1>1, <1>3, <1>4, <1>5, <1>7, DataStep
<1>9. IInv' BY <1>1, <1>6, <1>d DEF IInv, Pointers, Arrays, OnlyData
<1> QED BY <1>8, <1>9

\* REG replaces the number of a register by what it holds.
LEMMA RegStep == ASSUME IInv, Reg PROVE Machine!Execute /\ IInv'
<1> DEFINE a == Machine!Args(1)
<1>d. dsp \in Nat /\ Depth \in Nat BY MachineAssumption DEF IInv, Pointers
<1>1. /\ op = "REG" /\ status = "running" /\ 1 <= dsp /\ dsp <= Depth
      /\ dsp' = dsp /\ dsp' <= Depth
      /\ dStack' = [dStack EXCEPT ![dsp - 1] = reg[Top(1) % NumRegs]] /\ OnlyData
  BY <1>d DEF Reg, Executes, InReach, Leave, Top, IInv, Pointers
<1>2. a[1] = Top(1) BY <1>1, ArgsTop
<1>3. Machine!Takes(op) = 1 /\ <<reg[Top(1) % NumRegs]>> \in Machine!Leaves(op, a)
  BY <1>1, <1>2, Effects
<1>4. ~Machine!ByZero(a) BY <1>1, <1>2 DEF Machine!ByZero, DividesByZero
<1>5. op \in DataOp BY <1>1 DEF DataOp, Op, Binary, Unary, Load, Store, Other
<1>6. IsArray(dStack', Depth) BY <1>1 DEF IInv, Arrays, IsArray
<1>7. Replaces(1, <<reg[Top(1) % NumRegs]>>, 1)
  BY <1>1, <1>d DEF Replaces, IInv, Arrays, IsArray, Top
<1>8. Machine!Execute BY <1>1, <1>3, <1>4, <1>5, <1>7, DataStep
<1>9. IInv' BY <1>1, <1>6, <1>d DEF IInv, Pointers, Arrays, OnlyData
<1> QED BY <1>8, <1>9

\* A load replaces an address by what lies there.
LEMMA LoadsStep == ASSUME IInv, Loads PROVE Machine!Execute /\ IInv'
<1> DEFINE a == Machine!Args(1)
<1>d. dsp \in Nat /\ Depth \in Nat BY MachineAssumption DEF IInv, Pointers
<1>1. PICK w \in Word : Leave(dsp, [dStack EXCEPT ![dsp - 1] = w]) BY DEF Loads
<1>e. Executes(Load) /\ InReach(1, 0) /\ OnlyData BY DEF Loads
<1>f. op \in Load /\ status = "running" /\ 1 <= dsp /\ dsp <= Depth
  BY <1>e, <1>d DEF Executes, InReach, IInv, Pointers
<1>2. /\ op \in Load /\ status = "running" /\ 1 <= dsp /\ dsp <= Depth
      /\ dsp' = dsp /\ dStack' = [dStack EXCEPT ![dsp - 1] = w] /\ OnlyData
  BY <1>1, <1>e, <1>f DEF Leave
<1>3. Machine!Takes(op) = 1 /\ <<w>> \in Machine!Leaves(op, a)
  <2>1. Machine!Takes(op) = 1 /\ Machine!Leaves(op, a) = {<<v>> : v \in Word} BY <1>f, Effects
  <2> QED BY <2>1
<1>4. ~Machine!ByZero(a) BY <1>2 DEF Machine!ByZero, Load
<1>5. op \in DataOp BY <1>2 DEF DataOp, Op, Load
<1>6. IsArray(dStack', Depth) BY <1>2 DEF IInv, Arrays, IsArray
<1>7. Replaces(1, <<w>>, 1) BY <1>2, <1>d DEF Replaces, IInv, Arrays, IsArray
<1>8. Machine!Execute BY <1>2, <1>3, <1>4, <1>5, <1>7, DataStep
<1>9. IInv' BY <1>2, <1>6, <1>d DEF IInv, Pointers, Arrays, OnlyData
<1> QED BY <1>8, <1>9

\* The other instructions take n words for good.
LEMMA Popped ==
  ASSUME IInv, NEW n \in 0 .. 2, n <= dsp, dsp' = dsp - n, dStack' = dStack
  PROVE  DS' = Machine!Replaced(n, <<>>)
<1>d. dsp \in Nat BY MachineAssumption DEF IInv, Pointers
<1>1. /\ n \in 0 .. dsp /\ Len(<<>>) = 0 /\ dsp' = dsp - n + 0
      /\ \A i \in 0 .. dsp - n - 1 : dStack'[i] = dStack[i]
      /\ \A j \in 1 .. 0 : dStack'[dsp - n + j - 1] = <<>>[j]
  BY <1>d
<1> QED BY <1>1, ReplacedDS

\* The registers after an instruction that has taken the words a.
Written(a) == IF op = "WREG" THEN [reg EXCEPT ![a[2] % NumRegs] = a[1]] ELSE reg

\* What makes an instruction a step of the stack machine.
LEMMA Executed ==
  ASSUME NEW n, n = Machine!Takes(op), NEW a, a = Machine!Args(n), NEW new \in Machine!Leaves(op, a),
         status = "running", op \notin {"none", "ECALL", "HALT", "INVALID"},
         Machine!Fits(n, 0), Machine!Fits(n, Len(new)), Machine!ReturnFits, ~Machine!ByZero(a),
         DS' = Machine!Replaced(n, new), RS' = Machine!ReturnStack(a), ip' = Machine!Target(a),
         reg' = Written(a),
         op' = "none", areaPtr' = areaPtr, status' = status
  PROVE  Machine!Execute
  BY DEF Machine!Execute, Machine!Executes, Written, DS, RS

\* For one that only takes words.
LEMMA Pops ==
  ASSUME IInv, NEW n \in 0 .. 2, n = Machine!Takes(op), n <= dsp, NEW a, a = Machine!Args(n),
         Machine!Leaves(op, a) = {<<>>},
         status = "running", op \notin {"none", "ECALL", "HALT", "INVALID"},
         Machine!ReturnFits, ~Machine!ByZero(a), dsp' = dsp - n, dStack' = dStack,
         RS' = Machine!ReturnStack(a), ip' = Machine!Target(a),
         reg' = Written(a),
         op' = "none", areaPtr' = areaPtr, status' = status
  PROVE  Machine!Execute
<1>d. dsp \in Nat BY MachineAssumption DEF IInv, Pointers
<1>0. Len(<<>>) = 0 OBVIOUS
<1>1. DS' = Machine!Replaced(n, <<>>) BY Popped
<1>2. n \in Nat /\ 0 \in Nat /\ dsp - n + 0 <= Depth BY <1>d, MachineAssumption DEF IInv, Pointers
<1>3. Machine!Fits(n, 0) BY <1>2, FitsDS
<1>4. Machine!Fits(n, Len(<<>>)) BY <1>3, <1>0
<1>5. <<>> \in Machine!Leaves(op, a) OBVIOUS
<1> QED BY <1>1, <1>3, <1>4, <1>5, Executed

\* The return stack as the abstract machine sees it.
LEMMA ReturnDS ==
  ASSUME IInv
  PROVE  /\ rsp \in Nat
         /\ 1 <= rsp <=> RS # <<>>
         /\ rsp + 1 <= RDepth <=> Len(RS) < RDepth
         /\ 1 <= rsp => RS[Len(RS)] = rStack[rsp - 1]
<1>1. rsp \in Nat /\ RDepth \in Nat BY MachineAssumption DEF IInv, Pointers
<1>2. Len(RS) = rsp BY LenRS
<1>3. RS # <<>> <=> 1 <= rsp BY <1>1, <1>2 DEF RS
<1>4. 1 <= rsp => RS[rsp] = rStack[rsp - 1] BY <1>1 DEF RS
<1> QED BY <1>1, <1>2, <1>3, <1>4

\* To move the pointer of the return stack down takes its last word off.
LEMMA ReturnPopped ==
  ASSUME IInv, 1 <= rsp, rsp' = rsp - 1, rStack' = rStack
  PROVE  RS' = SubSeq(RS, 1, Len(RS) - 1)
<1>1. rsp \in Nat BY MachineAssumption DEF IInv, Pointers
<1>2. Len(RS) = rsp BY LenRS
<1>3. RS' = [i \in 1 .. rsp - 1 |-> rStack[i - 1]] BY DEF RS
<1>4. SubSeq(RS, 1, rsp - 1) = [i \in 1 .. rsp - 1 |-> RS[i]] BY <1>1 DEF RS
<1>5. \A i \in 1 .. rsp - 1 : RS[i] = rStack[i - 1] BY <1>1 DEF RS
<1> QED BY <1>2, <1>3, <1>4, <1>5

\* To store at the pointer and move it up appends the word.
LEMMA ReturnPushed ==
  ASSUME IInv, rsp + 1 <= RDepth, NEW w, rsp' = rsp + 1, rStack' = [rStack EXCEPT ![rsp] = w]
  PROVE  RS' = Append(RS, w) /\ IsArray(rStack', RDepth)
<1>1. rsp \in Nat /\ RDepth \in Nat BY MachineAssumption DEF IInv, Pointers
<1>2. Len(RS) = rsp BY LenRS
<1>3. RS' = [i \in 1 .. rsp + 1 |-> rStack'[i - 1]] BY DEF RS
<1>4. Append(RS, w) = [i \in 1 .. rsp + 1 |-> IF i = rsp + 1 THEN w ELSE RS[i]]
  BY <1>1, <1>2 DEF RS
<1>5. \A j \in 0 .. RDepth - 1 : rStack'[j] = IF j = rsp THEN w ELSE rStack[j]
  BY DEF IInv, Arrays, IsArray
<1>6. ASSUME NEW i \in 1 .. rsp + 1
      PROVE  rStack'[i - 1] = IF i = rsp + 1 THEN w ELSE RS[i]
  <2>1. i - 1 \in 0 .. RDepth - 1 /\ (i - 1 = rsp <=> i = rsp + 1) BY <1>1
  <2>2. i # rsp + 1 => RS[i] = rStack[i - 1] BY <1>1 DEF RS
  <2> QED BY <2>1, <2>2, <1>5
<1>7. IsArray(rStack', RDepth) BY DEF IInv, Arrays, IsArray
<1> QED BY <1>3, <1>4, <1>6, <1>7

\* WREG writes the lower of its words into the register the upper one names.
LEMMA WRegStep == ASSUME IInv, WReg PROVE Machine!Execute /\ IInv'
<1> DEFINE a == Machine!Args(2)
<1>d. dsp \in Nat /\ Depth \in Nat BY MachineAssumption DEF IInv, Pointers
<1>e. Executes({"WREG"}) /\ InReach(2, 0) /\ Leave(dsp - 2, dStack)
  BY DEF WReg
<1>1. /\ op = "WREG" /\ status = "running" /\ 2 <= dsp /\ dsp <= Depth
      /\ dsp' = dsp - 2 /\ dStack' = dStack
  BY <1>d, <1>e DEF Executes, InReach, Leave, IInv, Pointers
<1>2. /\ rStack' = rStack /\ rsp' = rsp
      /\ ip' = ip /\ areaPtr' = areaPtr /\ op' = "none" /\ status' = status
  BY DEF WReg
<1>r. reg' = [reg EXCEPT ![Top(1) % NumRegs] = Top(2)] BY DEF WReg
<1>3. a[1] = Top(2) /\ a[2] = Top(1) BY <1>1, ArgsTop
<1>4. Machine!Takes(op) = 2 /\ Machine!Leaves(op, a) = {<<>>} BY <1>1, Effects
<1>5. ~Machine!ByZero(a) BY <1>1 DEF Machine!ByZero
<1>6. Machine!ReturnFits BY <1>1 DEF Machine!ReturnFits
<1>7. RS' = Machine!ReturnStack(a) BY <1>1, <1>2 DEF Machine!ReturnStack, RS
<1>8. ip' = Machine!Target(a) BY <1>1, <1>2 DEF Machine!Target
<1>9. reg' = Written(a) BY <1>1, <1>r, <1>3 DEF Written
<1>10. Machine!Execute BY <1>1, <1>2, <1>4, <1>5, <1>6, <1>7, <1>8, <1>9, Pops
<1>11. IsArray(reg', NumRegs) BY <1>r, KeepsArray DEF IInv
<1>12. IInv' BY <1>1, <1>2, <1>11, <1>d DEF IInv, Pointers, Arrays
<1> QED BY <1>10, <1>12

\* JUMP takes the address.
LEMMA JumpStep == ASSUME IInv, Jump PROVE Machine!Execute /\ IInv'
<1> DEFINE a == Machine!Args(1)
<1>d. dsp \in Nat /\ Depth \in Nat BY MachineAssumption DEF IInv, Pointers
<1>1. /\ op = "JUMP" /\ status = "running" /\ 1 <= dsp /\ dsp <= Depth
      /\ dsp' = dsp - 1 /\ dStack' = dStack /\ rStack' = rStack /\ rsp' = rsp
      /\ ip' = Top(1) /\ areaPtr' = areaPtr /\ op' = "none" /\ status' = status /\ reg' = reg
  BY <1>d DEF Jump, Executes, InReach, Leave, IInv, Pointers
<1>3. a[1] = Top(1) BY <1>1, ArgsTop
<1>4. Machine!Takes(op) = 1 /\ Machine!Leaves(op, a) = {<<>>} BY <1>1, Effects
<1>5. ~Machine!ByZero(a) BY <1>1 DEF Machine!ByZero
<1>6. Machine!ReturnFits BY <1>1 DEF Machine!ReturnFits
<1>7. RS' = Machine!ReturnStack(a) BY <1>1 DEF Machine!ReturnStack, RS
<1>8. ip' = Machine!Target(a) BY <1>1, <1>3 DEF Machine!Target
<1>w. reg' = Written(a) BY <1>1 DEF Written
<1>10. Machine!Execute BY <1>1, <1>w, <1>4, <1>5, <1>6, <1>7, <1>8, Pops
<1>12. IInv' BY <1>1, <1>d DEF IInv, Pointers, Arrays, IsArray
<1> QED BY <1>10, <1>12

\* JNZ and JZ take the condition and the address above it.
LEMMA BranchStep == ASSUME IInv, Branch PROVE Machine!Execute /\ IInv'
<1> DEFINE a == Machine!Args(2)
<1>d. dsp \in Nat /\ Depth \in Nat BY MachineAssumption DEF IInv, Pointers
<1>1. /\ op \in {"JNZ", "JZ"} /\ status = "running" /\ 2 <= dsp /\ dsp <= Depth
      /\ dsp' = dsp - 2 /\ dStack' = dStack /\ rStack' = rStack /\ rsp' = rsp
      /\ ip' = (IF (Top(2) = 0) = (op = "JZ") THEN Top(1) ELSE ip)
      /\ areaPtr' = areaPtr /\ op' = "none" /\ status' = status /\ reg' = reg
  BY <1>d DEF Branch, Executes, InReach, Leave, IInv, Pointers
<1>3. a[1] = Top(2) /\ a[2] = Top(1) BY <1>1, ArgsTop
<1>4. Machine!Takes(op) = 2 /\ Machine!Leaves(op, a) = {<<>>} BY <1>1, Effects
<1>5. ~Machine!ByZero(a) BY <1>1 DEF Machine!ByZero
<1>6. Machine!ReturnFits BY <1>1 DEF Machine!ReturnFits
<1>7. RS' = Machine!ReturnStack(a) BY <1>1 DEF Machine!ReturnStack, RS
<1>8. ip' = Machine!Target(a)
  <2>1. CASE op = "JZ" BY <1>1, <1>3, <2>1 DEF Machine!Target
  <2>2. CASE op = "JNZ" BY <1>1, <1>3, <2>2 DEF Machine!Target
  <2> QED BY <1>1, <2>1, <2>2
<1>9. op \notin {"none", "ECALL", "HALT", "INVALID", "WREG"} BY <1>1
<1>w. reg' = Written(a) BY <1>1 DEF Written
<1>10. Machine!Execute BY <1>1, <1>w, <1>4, <1>5, <1>6, <1>7, <1>8, <1>9, Pops
<1>12. IInv' BY <1>1, <1>d DEF IInv, Pointers, Arrays, IsArray
<1> QED BY <1>10, <1>12

\* D2R moves a word to the return stack.
LEMMA D2RStep == ASSUME IInv, D2R PROVE Machine!Execute /\ IInv'
<1> DEFINE a == Machine!Args(1)
<1>d. dsp \in Nat /\ Depth \in Nat /\ rsp \in Nat /\ RDepth \in Nat
  BY MachineAssumption DEF IInv, Pointers
<1>1. /\ op = "D2R" /\ status = "running" /\ 1 <= dsp /\ dsp <= Depth /\ rsp + 1 <= RDepth
      /\ dsp' = dsp - 1 /\ dStack' = dStack /\ rsp' = rsp + 1
      /\ ip' = ip /\ areaPtr' = areaPtr /\ op' = "none" /\ status' = status /\ reg' = reg
  BY <1>d DEF D2R, Executes, InReach, RInReach, Leave, IInv, Pointers
<1>2. rStack' = [rStack EXCEPT ![rsp] = Top(1)] BY DEF D2R
<1>3. a[1] = Top(1) BY <1>1, ArgsTop
<1>4. Machine!Takes(op) = 1 /\ Machine!Leaves(op, a) = {<<>>} BY <1>1, Effects
<1>5. ~Machine!ByZero(a) BY <1>1 DEF Machine!ByZero
<1>p. RS' = Append(RS, Top(1)) /\ IsArray(rStack', RDepth) BY <1>1, <1>2, ReturnPushed
<1>6. Machine!ReturnFits
  <2>1. Len(RS) < RDepth BY <1>1, ReturnDS
  <2> QED BY <1>1, <2>1 DEF Machine!ReturnFits, RS
<1>7. RS' = Machine!ReturnStack(a)
  <2>1. Machine!ReturnStack(a) = Append(RS, a[1]) BY <1>1 DEF Machine!ReturnStack, RS
  <2> QED BY <1>3, <1>p, <2>1
<1>8. ip' = Machine!Target(a) BY <1>1 DEF Machine!Target
<1>w. reg' = Written(a) BY <1>1 DEF Written
<1>10. Machine!Execute BY <1>1, <1>w, <1>4, <1>5, <1>6, <1>7, <1>8, Pops
<1>12. IInv' BY <1>1, <1>d, <1>p DEF IInv, Pointers, Arrays, IsArray
<1> QED BY <1>10, <1>12

\* CALL keeps the address of the next instruction on the return stack.
LEMMA CallStep == ASSUME IInv, Call PROVE Machine!Execute /\ IInv'
<1> DEFINE a == Machine!Args(1)
<1>d. dsp \in Nat /\ Depth \in Nat /\ rsp \in Nat /\ RDepth \in Nat
  BY MachineAssumption DEF IInv, Pointers
<1>1. /\ op = "CALL" /\ status = "running" /\ 1 <= dsp /\ dsp <= Depth /\ rsp + 1 <= RDepth
      /\ dsp' = dsp - 1 /\ dStack' = dStack /\ rsp' = rsp + 1
      /\ ip' = Top(1) /\ areaPtr' = areaPtr /\ op' = "none" /\ status' = status /\ reg' = reg
  BY <1>d DEF Call, Executes, InReach, RInReach, Leave, IInv, Pointers
<1>2. rStack' = [rStack EXCEPT ![rsp] = ip] BY DEF Call
<1>3. a[1] = Top(1) BY <1>1, ArgsTop
<1>4. Machine!Takes(op) = 1 /\ Machine!Leaves(op, a) = {<<>>} BY <1>1, Effects
<1>5. ~Machine!ByZero(a) BY <1>1 DEF Machine!ByZero
<1>p. RS' = Append(RS, ip) /\ IsArray(rStack', RDepth) BY <1>1, <1>2, ReturnPushed
<1>6. Machine!ReturnFits
  <2>1. Len(RS) < RDepth BY <1>1, ReturnDS
  <2> QED BY <1>1, <2>1 DEF Machine!ReturnFits, RS
<1>7. RS' = Machine!ReturnStack(a)
  <2>1. Machine!ReturnStack(a) = Append(RS, ip) BY <1>1 DEF Machine!ReturnStack, RS
  <2> QED BY <1>p, <2>1
<1>8. ip' = Machine!Target(a) BY <1>1, <1>3 DEF Machine!Target
<1>w. reg' = Written(a) BY <1>1 DEF Written
<1>10. Machine!Execute BY <1>1, <1>w, <1>4, <1>5, <1>6, <1>7, <1>8, Pops
<1>12. IInv' BY <1>1, <1>d, <1>p DEF IInv, Pointers, Arrays, IsArray
<1> QED BY <1>10, <1>12

\* RET continues at the address on top of the return stack.
LEMMA RetStep == ASSUME IInv, Ret PROVE Machine!Execute /\ IInv'
<1> DEFINE a == Machine!Args(0)
<1>d. dsp \in Nat /\ Depth \in Nat /\ rsp \in Nat /\ RDepth \in Nat
  BY MachineAssumption DEF IInv, Pointers
<1>1. /\ op = "RET" /\ status = "running" /\ 0 <= dsp /\ 1 <= rsp
      /\ dsp' = dsp - 0 /\ dStack' = dStack /\ rStack' = rStack /\ rsp' = rsp - 1
      /\ ip' = rStack[rsp - 1]
      /\ areaPtr' = areaPtr /\ op' = "none" /\ status' = status /\ reg' = reg
  BY <1>d DEF Ret, Executes, RInReach, Leave, IInv, Pointers
<1>4. Machine!Takes(op) = 0 /\ Machine!Leaves(op, a) = {<<>>} BY <1>1, Effects
<1>5. ~Machine!ByZero(a) BY <1>1 DEF Machine!ByZero
<1>p. RS' = SubSeq(RS, 1, Len(RS) - 1) BY <1>1, ReturnPopped
<1>6. Machine!ReturnFits
  <2>1. RS # <<>> BY <1>1, ReturnDS
  <2> QED BY <1>1, <2>1 DEF Machine!ReturnFits, RS
<1>7. RS' = Machine!ReturnStack(a)
  <2>1. Machine!ReturnStack(a) = SubSeq(RS, 1, Len(RS) - 1) BY <1>1 DEF Machine!ReturnStack, RS
  <2> QED BY <1>p, <2>1
<1>8. ip' = Machine!Target(a)
  <2>1. Machine!Target(a) = RS[Len(RS)] BY <1>1 DEF Machine!Target, RS
  <2> QED BY <1>1, <2>1, ReturnDS
<1>w. reg' = Written(a) BY <1>1 DEF Written
<1>10. Machine!Execute BY <1>1, <1>w, <1>4, <1>5, <1>6, <1>7, <1>8, Pops
<1>12. IInv' BY <1>1, <1>d DEF IInv, Pointers, Arrays, IsArray
<1> QED BY <1>10, <1>12

\* R2D brings a word back from the return stack.
LEMMA R2DStep == ASSUME IInv, R2D PROVE Machine!Execute /\ IInv'
<1> DEFINE a == Machine!Args(0)
           w == rStack[rsp - 1]
<1>d. dsp \in Nat /\ Depth \in Nat /\ rsp \in Nat /\ RDepth \in Nat
  BY MachineAssumption DEF IInv, Pointers
<1>1. /\ op = "R2D" /\ status = "running" /\ dsp + 1 <= Depth /\ 1 <= rsp
      /\ dsp' = dsp + 1 /\ rStack' = rStack /\ rsp' = rsp - 1
      /\ ip' = ip /\ areaPtr' = areaPtr /\ op' = "none" /\ status' = status /\ reg' = reg
  BY <1>d DEF R2D, Executes, InReach, RInReach, Leave, IInv, Pointers
<1>2. dStack' = [dStack EXCEPT ![dsp] = w] BY DEF R2D, Leave
<1>3. RS[Len(RS)] = w BY <1>1, ReturnDS
<1>4. Machine!Takes(op) = 0 /\ <<w>> \in Machine!Leaves(op, a)
  <2>1. Machine!Takes(op) = 0 /\ Machine!Leaves(op, a) = {<<RS[Len(RS)]>>} BY <1>1, Effects
  <2> QED BY <2>1, <1>3
<1>5. ~Machine!ByZero(a) BY <1>1 DEF Machine!ByZero
<1>p. RS' = SubSeq(RS, 1, Len(RS) - 1) BY <1>1, ReturnPopped
<1>6. Machine!ReturnFits
  <2>1. RS # <<>> BY <1>1, ReturnDS
  <2> QED BY <1>1, <2>1 DEF Machine!ReturnFits, RS
<1>7. RS' = Machine!ReturnStack(a)
  <2>1. Machine!ReturnStack(a) = SubSeq(RS, 1, Len(RS) - 1) BY <1>1 DEF Machine!ReturnStack, RS
  <2> QED BY <1>p, <2>1
<1>8. ip' = Machine!Target(a) BY <1>1 DEF Machine!Target
<1>m. Len(<<w>>) = 1 /\ <<w>>[1] = w OBVIOUS
<1>n. \A i \in 0 .. Depth - 1 : dStack'[i] = IF i = dsp THEN w ELSE dStack[i]
  BY <1>2 DEF IInv, Arrays, IsArray
<1>9. DS' = Machine!Replaced(0, <<w>>)
  <2>1. dsp' = dsp - 0 + 1 /\ 0 \in 0 .. dsp /\ 1 \in Nat BY <1>1, <1>d
  <2>2. \A i \in 0 .. dsp - 0 - 1 : dStack'[i] = dStack[i] BY <1>n, <1>1, <1>d
  <2>3. \A j \in 1 .. 1 : dStack'[dsp - 0 + j - 1] = <<w>>[j]
    <3>1. dsp - 0 + 1 - 1 = dsp /\ dsp \in 0 .. Depth - 1 BY <1>d, <1>1
    <3> QED BY <3>1, <1>n, <1>m
  <2> QED BY <2>1, <2>2, <2>3, <1>m, ReplacedDS
<1>f. Machine!Fits(0, 0) /\ Machine!Fits(0, Len(<<w>>))
  <2>1. Machine!Fits(0, 0) /\ Machine!Fits(0, 1) BY <1>1, <1>d, FitsDS
  <2> QED BY <2>1, <1>m
<1>w. reg' = Written(a) BY <1>1 DEF Written
<1>10. Machine!Execute BY <1>1, <1>w, <1>4, <1>5, <1>6, <1>7, <1>8, <1>9, <1>f, Executed
<1>11. IsArray(dStack', Depth) BY <1>2, KeepsArray DEF IInv, Arrays
<1>12. IInv' BY <1>1, <1>d, <1>11 DEF IInv, Pointers, Arrays, IsArray
<1> QED BY <1>10, <1>12

\* HALT ends the run and touches nothing.
LEMMA HaltStep == ASSUME IInv, Halt PROVE Machine!Halt /\ IInv'
<1>1. /\ op = "HALT" /\ status = "running" /\ status' = "halted" /\ op' = "none"
      /\ UNCHANGED <<dStack, rStack, dsp, rsp, reg, ip, areaPtr>>
  BY DEF Halt, Executes, Ends
<1>2. DS' = DS /\ RS' = RS BY <1>1 DEF DS, RS
<1>3. Machine!Halt BY <1>1, <1>2 DEF Machine!Halt, Machine!Executes, DS, RS
<1>4. IInv' BY <1>1 DEF IInv, Pointers, Arrays, IsArray
<1> QED BY <1>3, <1>4

\* A step that only ends the run.
LEMMA EndsStep ==
  ASSUME IInv, NEW how, Ends(how)
  PROVE  Machine!Breaks(how) /\ IInv'
<1>1. status' = how /\ op' = "none" /\ UNCHANGED <<dStack, rStack, dsp, rsp, reg, ip, areaPtr>>
  BY DEF Ends
<1>2. DS' = DS /\ RS' = RS BY <1>1 DEF DS, RS
<1>3. Machine!Breaks(how) BY <1>1, <1>2 DEF Machine!Breaks, DS, RS
<1>4. IInv' BY <1>1 DEF IInv, Pointers, Arrays, IsArray
<1> QED BY <1>3, <1>4

\* A division by zero ends the run after both words were found.
LEMMA DivisionFaultStep == ASSUME IInv, DivisionFault PROVE Machine!Execute /\ IInv'
<1> DEFINE a == Machine!Args(2)
<1>d. dsp \in Nat /\ Depth \in Nat BY MachineAssumption DEF IInv, Pointers
<1>1. /\ op \in {"DIV", "MOD", "DIVMOD"} /\ status = "running" /\ 2 <= dsp /\ dsp <= Depth
      /\ Top(1) = 0 /\ Ends("fault")
  BY <1>d DEF DivisionFault, Executes, InReach, DividesByZero, IInv, Pointers
<1>2. Machine!Breaks("fault") /\ IInv' BY <1>1, EndsStep
<1>3. a[2] = 0 BY <1>1, ArgsTop
<1>4. Machine!Takes(op) = 2
  <2>1. op \in Binary \/ op = "DIVMOD" BY <1>1 DEF Binary
  <2> QED BY <2>1, Effects
<1>5. Machine!ByZero(a) BY <1>1, <1>3 DEF Machine!ByZero
<1>6. Machine!ReturnFits BY <1>1 DEF Machine!ReturnFits
<1>7. Machine!Fits(2, 0) BY <1>1, <1>d, FitsDS
<1>8. Machine!Execute
  BY <1>1, <1>2, <1>4, <1>5, <1>6, <1>7 DEF Machine!Execute, Machine!Executes
<1> QED BY <1>2, <1>8

\* A fault of memory is an exit of the stack machine.
LEMMA MemoryFaultStep == ASSUME IInv, MemoryFault PROVE Machine!Exit /\ IInv'
<1>d. dsp \in Nat /\ Depth \in Nat BY MachineAssumption DEF IInv, Pointers
<1>1. /\ status = "running" /\ Ends("fault")
      /\ (op \in Load /\ 1 <= dsp) \/ (op \in Store /\ 2 <= dsp)
  BY <1>d DEF MemoryFault, Executes, InReach, IInv, Pointers
<1>2. Machine!Breaks("fault") /\ IInv' BY <1>1, EndsStep
<1>3. Machine!Fits(Machine!Takes(op), 0)
  <2>1. CASE op \in Load /\ 1 <= dsp
    <3>1. Machine!Takes(op) = 1 BY <2>1, Effects
    <3>2. Machine!Fits(1, 0) BY <2>1, <1>d, FitsDS DEF IInv, Pointers
    <3> QED BY <3>1, <3>2
  <2>2. CASE op \in Store /\ 2 <= dsp
    <3>1. Machine!Takes(op) = 2 BY <2>2, Effects
    <3>2. Machine!Fits(2, 0) BY <2>2, <1>d, FitsDS DEF IInv, Pointers
    <3> QED BY <3>1, <3>2
  <2> QED BY <1>1, <2>1, <2>2
<1>4. op \in Machine!Load \cup Machine!Store /\ op # "none"
  BY <1>1 DEF Machine!Load, Machine!Store, Load, Store
<1>5. Machine!Exit BY <1>1, <1>2, <1>3, <1>4 DEF Machine!Exit, Machine!Executes
<1> QED BY <1>2, <1>5

\* So is an instruction or a call that does not exist.
LEMMA ExitsStep == ASSUME IInv, Exits PROVE Machine!Exit /\ IInv'
<1>d. dsp \in Nat /\ Depth \in Nat BY MachineAssumption DEF IInv, Pointers
<1>1. /\ status = "running" /\ Ends("fault")
      /\ op = "INVALID" \/ (op = "ECALL" /\ 1 <= dsp)
  BY <1>d DEF Exits, Executes, InReach, IInv, Pointers
<1>2. Machine!Breaks("fault") /\ IInv' BY <1>1, EndsStep
<1>3. 1 <= dsp => Machine!Fits(1, 0) BY <1>d, FitsDS DEF IInv, Pointers
<1>5. Machine!Exit BY <1>1, <1>2, <1>3 DEF Machine!Exit, Machine!Executes
<1> QED BY <1>2, <1>5

\* An immediate that does not fit sends the stack machine astray as well.
LEMMA FetchWildStep == ASSUME IInv, FetchWild PROVE Machine!Fetch /\ IInv'
<1>d. dsp \in Nat /\ Depth \in Nat BY MachineAssumption DEF IInv, Pointers
<1>1. status = "running" /\ op = "none" /\ ~(dsp + 1 <= Depth) /\ Ends("wild")
  BY <1>d DEF FetchWild, InReach
<1>2. Machine!Breaks("wild") /\ IInv' BY <1>1, EndsStep
<1>3. PICK w \in Word : TRUE BY MachineAssumption DEF Word
<1>4. ~Machine!Fits(0, Len(<<w>>))
  <2>1. ~Machine!Fits(0, 1) BY <1>1, <1>d, FitsDS
  <2>2. Len(<<w>>) = 1 OBVIOUS
  <2> QED BY <2>1, <2>2
<1>5. <<w>> \in {<<>>} \cup {<<v>> : v \in Machine!Word} BY <1>3 DEF Word, Machine!Word
<1>6. "NOP" \in Machine!Op BY DEF Machine!Op
<1>7. Machine!Fetch BY <1>1, <1>2, <1>4, <1>5, <1>6 DEF Machine!Fetch
<1> QED BY <1>2, <1>7

\* Where no memory is, the run breaks off before anything was pushed.
LEMMA FetchFaultStep == ASSUME IInv, FetchFault PROVE Machine!Lost /\ IInv'
<1>1. status = "running" /\ op = "none" /\ Ends("fault") BY DEF FetchFault
<1>2. Machine!Breaks("fault") /\ IInv' BY <1>1, EndsStep
<1> QED BY <1>1, <1>2 DEF Machine!Lost

\* A fetch, with or without an immediate, is a fetch of the stack machine.
LEMMA FetchStep == ASSUME IInv, Fetch PROVE Machine!Fetch /\ IInv'
<1>d. dsp \in Nat /\ Depth \in Nat BY MachineAssumption DEF IInv, Pointers
<1>o. Op = Machine!Op BY DEF Op, Machine!Op, Binary, Unary, Load, Store, Other,
                            Machine!Binary, Machine!Unary, Machine!Load, Machine!Store
<1>1. status = "running" /\ op = "none" BY DEF Fetch
<1>2. PICK o \in Op :
       \/ /\ op' = o /\ ip' = (ip + 1) % W
          /\ UNCHANGED <<dStack, dsp>> /\ UNCHANGED <<rStack, rsp, reg, areaPtr, status>>
       \/ \E word \in Word :
            /\ InReach(0, 1)
            /\ op' = o /\ ip' = (ip + 5) % W
            /\ dStack' = [dStack EXCEPT ![dsp] = word] /\ dsp' = dsp + 1
            /\ UNCHANGED <<rStack, rsp, reg, areaPtr, status>>
  BY DEF Fetch
<1>3. CASE /\ op' = o /\ ip' = (ip + 1) % W
           /\ UNCHANGED <<dStack, dsp>> /\ UNCHANGED <<rStack, rsp, reg, areaPtr, status>>
  <2>1. RS' = RS BY <1>3 DEF RS
  <2>2. DS' = Machine!Replaced(0, <<>>)
    <3>1. dsp' = dsp - 0 /\ 0 <= dsp /\ dStack' = dStack /\ 0 \in 0 .. 2 BY <1>3, <1>d
    <3> QED BY <3>1, Popped
  <2>3. Machine!Fits(0, Len(<<>>))
    <3>1. Machine!Fits(0, 0) BY <1>d, FitsDS DEF IInv, Pointers
    <3>2. Len(<<>>) = 0 OBVIOUS
    <3> QED BY <3>1, <3>2
  <2>4. <<>> \in {<<>>} \cup {<<w>> : w \in Machine!Word} OBVIOUS
  <2>5. ip' = (ip + (IF <<>> = <<>> THEN 1 ELSE 5)) % W BY <1>3
  <2>6. Machine!Fetch
    BY <1>1, <1>3, <1>o, <2>1, <2>2, <2>3, <2>4, <2>5 DEF Machine!Fetch, DS, RS
  <2>7. IInv' BY <1>3 DEF IInv, Pointers, Arrays, IsArray
  <2> QED BY <2>6, <2>7
<1>4. ASSUME NEW word \in Word, InReach(0, 1), op' = o, ip' = (ip + 5) % W,
             dStack' = [dStack EXCEPT ![dsp] = word], dsp' = dsp + 1,
             UNCHANGED <<rStack, rsp, reg, areaPtr, status>>
      PROVE  Machine!Fetch /\ IInv'
  <2>0. dsp + 1 <= Depth BY <1>4, <1>d DEF InReach
  <2>1. RS' = RS BY <1>4 DEF RS
  <2>m. Len(<<word>>) = 1 /\ <<word>>[1] = word /\ <<word>> # <<>> OBVIOUS
  <2>n. \A i \in 0 .. Depth - 1 : dStack'[i] = IF i = dsp THEN word ELSE dStack[i]
    BY <1>4 DEF IInv, Arrays, IsArray
  <2>2. DS' = Machine!Replaced(0, <<word>>)
    <3>1. dsp' = dsp - 0 + 1 /\ 0 \in 0 .. dsp /\ 1 \in Nat BY <1>4, <1>d
    <3>2. \A i \in 0 .. dsp - 0 - 1 : dStack'[i] = dStack[i] BY <2>n, <2>0, <1>d
    <3>3. \A j \in 1 .. 1 : dStack'[dsp - 0 + j - 1] = <<word>>[j]
      <4>1. dsp - 0 + 1 - 1 = dsp /\ dsp \in 0 .. Depth - 1 BY <1>d, <2>0
      <4> QED BY <4>1, <2>n, <2>m
    <3> QED BY <3>1, <3>2, <3>3, <2>m, ReplacedDS
  <2>3. Machine!Fits(0, Len(<<word>>))
    <3>1. Machine!Fits(0, 1) BY <2>0, <1>d, FitsDS
    <3> QED BY <3>1, <2>m
  <2>4. <<word>> \in {<<>>} \cup {<<w>> : w \in Machine!Word} BY DEF Word, Machine!Word
  <2>5. ip' = (ip + (IF <<word>> = <<>> THEN 1 ELSE 5)) % W BY <1>4, <2>m
  <2>6. Machine!Fetch
    BY <1>1, <1>4, <1>o, <2>1, <2>2, <2>3, <2>4, <2>5 DEF Machine!Fetch, DS, RS
  <2>7. IsArray(dStack', Depth) BY <1>4, KeepsArray DEF IInv, Arrays
  <2>8. IInv' BY <1>4, <1>d, <2>0, <2>7 DEF IInv, Pointers, Arrays, IsArray
  <2> QED BY <2>6, <2>8
<1> QED BY <1>2, <1>3, <1>4

\* What the calls take and leave.
LEMMA CallEffects ==
  /\ \A call \in CallNames : Taking(call) \in Nat /\ Leaving(call) \in Nat
  /\ Leaving("GetAreaPtr") = 1
<1>1. \A call \in DOMAIN IOCalls : IOCalls[call] \in Nat \X Nat BY DEF IOCalls
<1>2. \A call \in DOMAIN MemoryCalls : MemoryCalls[call] \in Nat \X Nat BY DEF MemoryCalls
<1>3. \A call \in DOMAIN VMCalls : VMCalls[call] \in Nat \X Nat BY DEF VMCalls
<1>4. \A call \in DOMAIN AssemblerCalls : AssemblerCalls[call] \in Nat \X Nat
  BY DEF AssemblerCalls
<1>5. \A call \in DOMAIN FileCalls : FileCalls[call] \in Nat \X Nat BY DEF FileCalls
<1>6. \A call \in CallNames : Calls[call] \in Nat \X Nat
  BY <1>1, <1>2, <1>3, <1>4, <1>5 DEF CallNames, Calls
<1>7. "GetAreaPtr" \notin DOMAIN IOCalls /\ "GetAreaPtr" \notin DOMAIN MemoryCalls
  BY DEF IOCalls, MemoryCalls
<1>8. "GetAreaPtr" \notin DOMAIN AssemblerCalls /\ "GetAreaPtr" \notin DOMAIN FileCalls
  BY DEF AssemblerCalls, FileCalls
<1>v. "GetAreaPtr" \in DOMAIN VMCalls /\ VMCalls["GetAreaPtr"][2] = 1 BY DEF VMCalls
<1>9. Calls["GetAreaPtr"] = VMCalls["GetAreaPtr"]
  <2> DEFINE Sections == {IOCalls, MemoryCalls, VMCalls, AssemblerCalls, FileCalls}
  <2>1. \A s \in Sections : "GetAreaPtr" \in DOMAIN s => s = VMCalls BY <1>7, <1>8
  <2>2. VMCalls \in Sections OBVIOUS
  <2>3. Calls = [call \in UNION {DOMAIN s : s \in Sections} |->
                   (CHOOSE s \in Sections : call \in DOMAIN s)[call]]
    BY DEF Calls
  <2> HIDE DEF Sections
  <2>4. "GetAreaPtr" \in UNION {DOMAIN s : s \in Sections} BY <1>v, <2>2
  <2>5. (CHOOSE s \in Sections : "GetAreaPtr" \in DOMAIN s) = VMCalls BY <1>v, <2>1, <2>2
  <2> QED BY <2>3, <2>4, <2>5
<1> QED BY <1>6, <1>v, <1>9 DEF Taking, Leaving

\* An instruction that reaches out of an array is one whose words or room the
\* stack machine misses.
LEMMA OutOfReachStep == ASSUME IInv, OutOfReach PROVE Machine!Astray /\ IInv'
<1>d. dsp \in Nat /\ Depth \in Nat /\ dsp <= Depth BY MachineAssumption DEF IInv, Pointers
<1>1. op \in Op /\ status = "running" /\ Ends("wild") BY DEF OutOfReach, Executes
<1>2. Machine!Breaks("wild") /\ IInv' BY <1>1, EndsStep
<1>3. \/ ~InReach(Reach[op][1], Reach[op][2])
      \/ op \in {"R2D", "RET"} /\ ~RInReach(1, 0)
      \/ op \in {"D2R", "CALL"} /\ ~RInReach(0, 1)
      \/ op = "ECALL" /\ \E call \in CallNames :
                           ~InReach(1 + Taking(call), Leaving(call) - 1 - Taking(call))
  BY DEF OutOfReach
<1>4. Machine!Executes BY <1>1 DEF Machine!Executes, Op, Binary, Unary, Load, Store, Other
<1>5. CASE ~InReach(Reach[op][1], Reach[op][2])
  <2>1. Machine!Takes(op) \in Nat
    BY DEF Machine!Takes
  <2>2. /\ Reach[op][1] = Machine!Takes(op)
        /\ Reach[op][2] = IF op \in {"DUP", "OVER", "R2D"} THEN 1 ELSE 0
    BY <1>1 DEF Reach, Machine!Takes, Op, Binary, Unary, Load, Store, Other,
                Machine!Binary, Machine!Unary, Machine!Load, Machine!Store
  <2>3. ~Machine!Fits(Machine!Takes(op), 0) \/ (op \in {"DUP", "OVER", "R2D"} /\ Len(DS) = Depth)
    BY <1>5, <2>1, <2>2, <1>d, FitsDS, LenDS DEF InReach
  <2> QED BY <1>2, <1>4, <2>3 DEF Machine!Astray, DS
<1>6. CASE op \in {"R2D", "RET"} /\ ~RInReach(1, 0)
  <2>1. ~(1 <= rsp) BY <1>6 DEF RInReach, IInv, Pointers
  <2>2. RS = <<>> BY <2>1, ReturnDS
  <2>3. ~Machine!ReturnFits BY <1>6, <2>2 DEF Machine!ReturnFits, RS
  <2> QED BY <1>2, <1>4, <2>3 DEF Machine!Astray
<1>7. CASE op \in {"D2R", "CALL"} /\ ~RInReach(0, 1)
  <2>1. ~(rsp + 1 <= RDepth) BY <1>7 DEF RInReach, IInv, Pointers
  <2>2. ~(Len(RS) < RDepth) BY <2>1, ReturnDS
  <2>3. ~Machine!ReturnFits BY <1>7, <2>2 DEF Machine!ReturnFits, RS
  <2> QED BY <1>2, <1>4, <2>3 DEF Machine!Astray
<1>8. ASSUME op = "ECALL", NEW call \in CallNames,
             ~InReach(1 + Taking(call), Leaving(call) - 1 - Taking(call))
      PROVE  Machine!Astray
  <2>1. Taking(call) \in Nat /\ Leaving(call) \in Nat BY CallEffects
  <2>2. ~Machine!Fits(1 + Taking(call), Leaving(call)) BY <1>8, <2>1, <1>d, FitsDS DEF InReach
  <2>3. ~Machine!Fits(1 + Calls[call][1], Calls[call][2]) BY <2>2 DEF Taking, Leaving
  <2>4. \E c \in DOMAIN Calls : ~Machine!Fits(1 + Calls[c][1], Calls[c][2]) BY <2>3 DEF CallNames
  <2> QED BY <1>2, <1>4, <1>8, <2>4 DEF Machine!Astray
<1> QED BY <1>2, <1>3, <1>5, <1>6, <1>7, <1>8

\* The words a call stores are what the abstract machine puts in the place of
\* the number and the words taken.
LEMMA ECallStep == ASSUME IInv, ECall PROVE Machine!ECall /\ IInv'
<1>d. dsp \in Nat /\ Depth \in Nat BY MachineAssumption DEF IInv, Pointers
<1>1. /\ op = "ECALL" /\ status = "running" /\ op' = "none"
      /\ rStack' = rStack /\ rsp' = rsp /\ reg' = reg /\ ip' = ip /\ status' = status
  BY DEF ECall, Executes
<1>2. PICK call \in CallNames :
       LET at == dsp - 1 - Taking(call) IN
       /\ at >= 0 /\ at + Leaving(call) <= Depth
       /\ \E words \in Answers(call, at) : Leave(at + Leaving(call), words)
       /\ areaPtr' = IF call = "SetAreaPtr" THEN dStack[at] ELSE areaPtr
  BY DEF ECall
<1> DEFINE n == 1 + Taking(call)
           m == Leaving(call)
           at == dsp - 1 - Taking(call)
<1>3. Taking(call) \in Nat /\ m \in Nat BY CallEffects
<1>4. at \in 0 .. dsp /\ n \in 1 .. dsp /\ at = dsp - n /\ at + m <= Depth BY <1>2, <1>3, <1>d
<1>5. PICK words \in Answers(call, at) : Leave(at + m, words) BY <1>2
<1>6. dStack' = words /\ dsp' = at + m BY <1>5 DEF Leave
<1>7. areaPtr' = IF call = "SetAreaPtr" THEN dStack[at] ELSE areaPtr BY <1>2
<1>8. call = "GetAreaPtr" => m = 1 BY CallEffects
<1>9. \E new \in Machine!CallLeaves(call) :
        /\ Len(new) = m
        /\ \A j \in 1 .. m : dStack'[at + j - 1] = new[j]
        /\ \A i \in 0 .. at - 1 : dStack'[i] = dStack[i]
        /\ IsArray(dStack', Depth)
  <2>1. CASE call = "GetAreaPtr"
    <3>1. dStack' = [dStack EXCEPT ![at] = areaPtr] BY <1>6, <2>1 DEF Answers
    <3>2. <<areaPtr>> \in Machine!CallLeaves(call) BY <2>1 DEF Machine!CallLeaves
    <3>3. Len(<<areaPtr>>) = 1 /\ <<areaPtr>>[1] = areaPtr OBVIOUS
    <3>4. at \in 0 .. Depth - 1 /\ at + 1 - 1 = at BY <1>4, <1>8, <2>1, <1>d
    <3>5. \A i \in 0 .. Depth - 1 : dStack'[i] = IF i = at THEN areaPtr ELSE dStack[i]
      BY <3>1 DEF IInv, Arrays, IsArray
    <3>6. \A i \in 0 .. at - 1 : dStack'[i] = dStack[i] BY <3>4, <3>5, <1>d
    <3>7. IsArray(dStack', Depth) BY <3>1, KeepsArray DEF IInv, Arrays
    <3>8. \A j \in 1 .. 1 : dStack'[at + j - 1] = <<areaPtr>>[j] BY <3>3, <3>4, <3>5
    <3> QED BY <1>8, <2>1, <3>2, <3>3, <3>6, <3>7, <3>8
  <2>2. CASE call # "GetAreaPtr"
    <3>0. PICK new \in [0 .. m - 1 -> Word] :
            words = [i \in DOMAIN dStack |-> IF i >= at /\ i < at + m THEN new[i - at] ELSE dStack[i]]
      BY <1>5, <2>2 DEF Answers
    <3> DEFINE left == [j \in 1 .. m |-> new[j - 1]]
    <3>1. left \in [1 .. m -> Word]
      <4>1. \A j \in 1 .. m : new[j - 1] \in Word BY <1>3
      <4> QED BY <4>1
    <3>2. left \in Machine!CallLeaves(call)
      BY <3>1, <2>2 DEF Machine!CallLeaves, Leaving, Machine!Word, Word
    <3>3. Len(left) = m BY <1>3
    <3>4. DOMAIN dStack = 0 .. Depth - 1 BY DEF IInv, Arrays, IsArray
    <3>5. dStack' = [i \in 0 .. Depth - 1 |->
                       IF i >= at /\ i < at + m THEN new[i - at] ELSE dStack[i]]
      BY <1>6, <3>0, <3>4
    <3>a. at \in Nat /\ m \in Nat /\ at + m <= Depth BY <1>3, <1>4, <1>d
    <3>6. ASSUME NEW i \in 0 .. at - 1 PROVE dStack'[i] = dStack[i]
      <4> HIDE DEF at, m
      <4>1. i \in 0 .. Depth - 1 /\ ~(i >= at) BY <3>a, <1>d
      <4> QED BY <4>1, <3>5
    <3>7. IsArray(dStack', Depth) BY <3>5 DEF IsArray
    <3>8. ASSUME NEW j \in 1 .. m PROVE dStack'[at + j - 1] = left[j]
      <4> HIDE DEF at, m
      <4>1. at + j - 1 \in 0 .. Depth - 1 /\ at + j - 1 >= at /\ at + j - 1 < at + m
            /\ (at + j - 1) - at = j - 1
        BY <3>a, <1>d
      <4> QED BY <4>1, <3>5
    <3> HIDE DEF left
    <3> QED BY <3>2, <3>3, <3>6, <3>7, <3>8
  <2> QED BY <2>1, <2>2
<1>10. PICK new \in Machine!CallLeaves(call) :
        /\ Len(new) = m
        /\ \A j \in 1 .. m : dStack'[at + j - 1] = new[j]
        /\ \A i \in 0 .. at - 1 : dStack'[i] = dStack[i]
        /\ IsArray(dStack', Depth)
  BY <1>9
<1>11. DS' = Machine!Replaced(n, new)
  <2>1. n \in 0 .. dsp /\ dsp' = dsp - n + m BY <1>4, <1>6, <1>d
  <2>2. \A i \in 0 .. dsp - n - 1 : dStack'[i] = dStack[i] BY <1>10, <1>4
  <2>3. \A j \in 1 .. m : dStack'[dsp - n + j - 1] = new[j] BY <1>10, <1>4
  <2> QED BY <2>1, <2>2, <2>3, <1>3, <1>10, ReplacedDS
<1>12. Machine!Fits(n, m) BY <1>3, <1>4, <1>d, FitsDS
<1>13. RS' = RS BY <1>1 DEF RS
<1>14. areaPtr' = IF call = "SetAreaPtr" THEN Machine!Args(n)[1] ELSE areaPtr
  <2>1. n \in 0 .. dsp /\ 1 \in 1 .. n /\ dsp - n + 1 - 1 = at BY <1>4, <1>3, <1>d
  <2>2. Machine!Args(n) = [i \in 1 .. n |-> dStack[dsp - n + i - 1]] BY <2>1, ArgsDS
  <2> QED BY <1>7, <2>1, <2>2
<1>15. n = 1 + Calls[call][1] /\ m = Calls[call][2] /\ call \in DOMAIN Calls
  BY DEF Taking, Leaving, CallNames
<1>16. IInv'
  <2>1. dsp' \in 0 .. Depth BY <1>3, <1>4, <1>6, <1>d
  <2> QED BY <2>1, <1>1, <1>10 DEF IInv, Pointers, Arrays, IsArray
<1> HIDE DEF n, m
<1>17. Machine!ECall
  BY <1>1, <1>10, <1>11, <1>12, <1>13, <1>14, <1>15 DEF Machine!ECall, Machine!Executes, DS, RS
<1> QED BY <1>16, <1>17

\* Every step is one of the stack machine.
LEMMA NextStep == ASSUME IInv, [Next]_vars PROVE [Machine!Next]_(Machine!vars) /\ IInv'
<1>1. CASE Next
  <2>1. (Machine!Fetch \/ Machine!Lost \/ Machine!Execute \/ Machine!ECall \/ Machine!Halt
         \/ Machine!Astray \/ Machine!Exit) /\ IInv'
    BY <1>1, FetchStep, FetchWildStep, FetchFaultStep, ArithmeticStep, DivModStep, DivisionFaultStep, InPlaceStep,
       LoadsStep, StoresStep, MemoryFaultStep, NopStep, DupStep, OverStep, DropStep, RotStep,
       SwapStep, RegStep, WRegStep, R2DStep, D2RStep, JumpStep, BranchStep, CallStep, RetStep,
       HaltStep, ECallStep, ExitsStep, OutOfReachStep
    DEF Next
  <2> QED BY <2>1 DEF Machine!Next
<1>2. CASE UNCHANGED vars
  <2>1. UNCHANGED <<dStack, rStack, dsp, rsp, reg, ip, areaPtr, op, status>> BY <1>2 DEF vars
  <2>2. DS' = DS /\ RS' = RS BY <2>1 DEF DS, RS
  <2>3. UNCHANGED Machine!vars BY <2>1, <2>2 DEF Machine!vars, DS, RS
  <2>4. IInv' BY <2>1 DEF IInv, Pointers, Arrays, IsArray
  <2> QED BY <2>3, <2>4
<1> QED BY <1>1, <1>2

\* Both machines begin with empty stacks.
LEMMA InitStep == ASSUME Init PROVE IInv /\ Machine!Init
<1>1. dsp = 0 /\ rsp = 0 /\ op = "none" /\ status = "running" BY DEF Init
<1>2. dsp \in 0 .. Depth /\ rsp \in 0 .. RDepth BY <1>1, MachineAssumption
<1>3. IInv BY <1>2 DEF Init, IInv, Pointers, Arrays, IsArray
<1>4. [i \in 1 .. dsp |-> dStack[i - 1]] = <<>> /\ [i \in 1 .. rsp |-> rStack[i - 1]] = <<>>
  BY <1>1
<1>5. reg \in [0 .. NumRegs - 1 -> Machine!Word] /\ ip \in Machine!Word /\ areaPtr \in Machine!Word
  BY DEF Init, Word, Machine!Word
<1>6. Machine!Init BY <1>1, <1>4, <1>5 DEF Machine!Init
<1> QED BY <1>3, <1>6

\* Whatever the program, no pointer leaves its array, and the arrays keep
\* their size: a step that would reach out makes the machine wild instead.
THEOREM PointersStay == Spec => []IInv
<1>1. Init => IInv BY InitStep
<1>2. IInv /\ [Next]_vars => IInv' BY NextStep
<1> QED BY <1>1, <1>2, PTL DEF Spec

\* For every width, depth and number of registers the pointer arithmetic of
\* vm.c and the handlers of calls.c implement the stack machine.
THEOREM KeepsStackPromise == Spec => StackPromise
<1>1. Init => IInv /\ Machine!Init BY InitStep
<1>2. IInv /\ [Next]_vars => IInv' BY NextStep
<1>3. IInv /\ [Next]_vars => [Machine!Next]_(Machine!vars) BY NextStep
<1> QED BY <1>1, <1>2, <1>3, PTL DEF Spec, StackPromise, Machine!Spec

\* The result of a binary instruction is a word, if it does not divide by zero.
LEMMA AluWord ==
  ASSUME NEW o, NEW a \in Word, NEW b \in Word, o \in {"DIV", "MOD"} => b # 0
  PROVE  Alu(o, a, b) \in Word
  <1>w. W \in Nat /\ W >= 1 BY MachineAssumption
  <1>1. ASSUME NEW table \in [BitPair -> {0, 1}]
        PROVE  Bits(table, a, b) \in Word
    BY <1>1, WordAssumption DEF Bits
  <1> DEFINE both == [p \in BitPair |-> p[1] * p[2]]
             differ == [p \in BitPair |-> (p[1] + p[2]) % 2]
             either == [p \in BitPair |-> p[1] + p[2] - p[1] * p[2]]
  <1>2. both \in [BitPair -> {0, 1}] /\ differ \in [BitPair -> {0, 1}] /\ either \in [BitPair -> {0, 1}]
    BY DEF BitPair
  <1>3. /\ Bits(both, a, b) \in Word /\ Bits(differ, a, b) \in Word
        /\ Bits(either, a, b) \in Word
    BY <1>1, <1>2
  <1>4. a + b \in Int /\ a - b \in Int /\ a * b \in Int BY <1>w DEF Word
  <1>5. \A x \in Int : x % W \in Word BY <1>w DEF Word
  <1>6. (a + b) % W \in Word /\ (a - b) % W \in Word /\ (a * b) % W \in Word
    BY <1>4, <1>5
  <1>7. b # 0 => a \div b \in Word /\ a % b \in Word
    <2>1. ASSUME b # 0 PROVE a \div b \in 0 .. a /\ a % b \in 0 .. b - 1
      BY <2>1, <1>w DEF Word
    <2> QED BY <2>1, <1>w DEF Word
  <1>8. \A t : Truth(t) \in Word BY WordAssumption, <1>w DEF Truth, Word
  <1> HIDE DEF both, differ, either
  <1>9. CASE o \in {"ADD", "SUB", "MUL", "DIV", "MOD"}
    BY <1>6, <1>7, <1>9 DEF Alu
  <1>10. CASE o \in {"EQU", "LESS", "GREATER", "LE", "GE"}
    BY <1>8, <1>10 DEF Alu
  <1>11. CASE o = "AND"
    BY <1>3, <1>11 DEF Alu, both
  <1>12. CASE o = "XOR"
    BY <1>3, <1>12 DEF Alu, differ
  <1>13. CASE o \notin Binary \ {"OR"}
    BY <1>3, <1>13 DEF Alu, either, Binary
  <1> QED
    BY <1>9, <1>10, <1>11, <1>12, <1>13 DEF Binary

\* An instruction that leaves words of the array, or one new word, keeps the types.
LEMMA TypesStep == ASSUME TypeOK, [Next]_vars PROVE TypeOK'
  <1>w. W \in Nat /\ Depth \in Nat /\ RDepth \in Nat /\ NumRegs \in Nat \ {0}
    BY MachineAssumption
  <1>o. W > 1 BY WordAssumption
  <1> DEFINE Data(d, words) == d \in 0 .. Depth /\ words \in [0 .. Depth - 1 -> Word]
  <1>1. ASSUME NEW d, NEW words, Leave(d, words), Data(d, words), OnlyData PROVE TypeOK'
    BY <1>1 DEF TypeOK, Leave, OnlyData, Op
  <1>2. \A k \in 1 .. dsp : Top(k) \in Word
    BY <1>w DEF TypeOK, Top
  <1>3. ASSUME NEW how \in {"running", "halted", "wild", "fault"}, Ends(how) PROVE TypeOK'
    BY <1>3 DEF TypeOK, Ends
  <1>4. CASE UNCHANGED vars BY <1>4 DEF vars, TypeOK
  <1>5. ASSUME Fetch PROVE TypeOK'
    <2>1. \A n \in Int : (ip + n) % W \in Word BY <1>w DEF TypeOK, Word
    <2> QED BY <2>1, <1>5, <1>w DEF Fetch, TypeOK, InReach
  <1>6. ASSUME Arithmetic PROVE TypeOK'
    <2>1. /\ dsp - 2 \in 0 .. Depth - 1 /\ dsp - 1 \in 0 .. Depth
          /\ Top(1) \in Word /\ dStack[dsp - 2] \in Word
      BY <1>6, <1>2, <1>w DEF Arithmetic, InReach, TypeOK
    <2>2. op \in {"DIV", "MOD"} => Top(1) # 0
      BY <1>6 DEF Arithmetic, DividesByZero
    <2>3. Alu(op, dStack[dsp - 2], Top(1)) \in Word BY <2>1, <2>2, AluWord
    <2>4. /\ Leave(dsp - 1, [dStack EXCEPT ![dsp - 2] = Alu(op, dStack[dsp - 2], Top(1))])
          /\ OnlyData
      BY <1>6 DEF Arithmetic
    <2>5. [dStack EXCEPT ![dsp - 2] = Alu(op, dStack[dsp - 2], Top(1))]
            \in [0 .. Depth - 1 -> Word]
      BY <2>1, <2>3 DEF TypeOK
    <2> QED BY <2>1, <2>4, <2>5, <1>1
  <1>7. ASSUME DivMod PROVE TypeOK'
    <2>1. /\ dsp - 2 \in 0 .. Depth - 1 /\ dsp - 1 \in 0 .. Depth - 1 /\ dsp \in 0 .. Depth
          /\ Top(1) \in Word /\ Top(2) \in Word
      BY <1>7, <1>2, <1>w DEF DivMod, InReach, TypeOK
    <2>2. op = "DIVMOD" /\ Top(1) # 0
      BY <1>7 DEF DivMod, DividesByZero, Executes
    <2>3. Alu("MOD", Top(2), Top(1)) \in Word /\ Alu("DIV", Top(2), Top(1)) \in Word
      BY <2>1, <2>2, AluWord
    <2> QED BY <2>1, <2>3, <1>1, <1>7 DEF DivMod, TypeOK
  <1>8. ASSUME InPlace PROVE TypeOK'
    <2>1. dsp - 1 \in 0 .. Depth - 1 BY <1>8, <1>w DEF InPlace, InReach, TypeOK
    <2>2. \A a \in Word : Inverse(op, a) \in Word BY <1>w, <1>o DEF Inverse, Truth, Word
    <2> QED BY <2>1, <2>2, <1>1, <1>8 DEF InPlace, TypeOK
  <1>9. ASSUME Loads \/ Stores \/ Nop \/ Drop PROVE TypeOK'
    <2>1. CASE Loads
      <3>1. PICK w \in Word : Leave(dsp, [dStack EXCEPT ![dsp - 1] = w])
        BY <2>1 DEF Loads
      <3>2. dsp \in 0 .. Depth /\ OnlyData /\ [dStack EXCEPT ![dsp - 1] = w] \in [0 .. Depth - 1 -> Word]
        BY <2>1 DEF Loads, TypeOK
      <3> QED BY <3>1, <3>2, <1>1
    <2>2. CASE Stores
      <3>1. dsp - 2 \in 0 .. Depth /\ Leave(dsp - 2, dStack) /\ OnlyData
        BY <2>2, <1>w DEF Stores, InReach, TypeOK
      <3> QED BY <3>1, <1>1 DEF TypeOK
    <2>3. CASE Nop \/ Drop
      <3>1. PICK d \in 0 .. Depth : Leave(d, dStack) /\ OnlyData
        BY <2>3, <1>w DEF Nop, Drop, InReach, TypeOK
      <3> QED BY <3>1, <1>1 DEF TypeOK
    <2> QED BY <1>9, <2>1, <2>2, <2>3
  <1>10. ASSUME Dup \/ Over \/ Rot \/ Swap PROVE TypeOK'
    <2>1. CASE Dup
      <3>1. dsp + 1 \in 0 .. Depth /\ OnlyData /\ Leave(dsp + 1, [dStack EXCEPT ![dsp] = Top(1)])
        BY <2>1, <1>w DEF Dup, InReach, TypeOK
      <3>2. Top(1) \in Word BY <2>1, <1>2, <1>w DEF Dup, InReach, TypeOK
      <3>3. [dStack EXCEPT ![dsp] = Top(1)] \in [0 .. Depth - 1 -> Word] BY <3>2 DEF TypeOK
      <3> QED BY <3>1, <3>3, <1>1
    <2>2. CASE Over
      <3>1. dsp + 1 \in 0 .. Depth /\ OnlyData /\ Leave(dsp + 1, [dStack EXCEPT ![dsp] = Top(2)])
        BY <2>2, <1>w DEF Over, InReach, TypeOK
      <3>2. Top(2) \in Word BY <2>2, <1>2, <1>w DEF Over, InReach, TypeOK
      <3>3. [dStack EXCEPT ![dsp] = Top(2)] \in [0 .. Depth - 1 -> Word] BY <3>2 DEF TypeOK
      <3> QED BY <3>1, <3>3, <1>1
    <2>3. CASE Rot
      <3>1. Top(1) \in Word /\ Top(2) \in Word /\ Top(3) \in Word
        BY <2>3, <1>2, <1>w DEF Rot, InReach, TypeOK
      <3> DEFINE new == [dStack EXCEPT ![dsp - 3] = Top(2), ![dsp - 2] = Top(1),
                                       ![dsp - 1] = Top(3)]
      <3>2. new \in [0 .. Depth - 1 -> Word] BY <3>1 DEF TypeOK
      <3>3. dsp \in 0 .. Depth /\ OnlyData /\ Leave(dsp, new) BY <2>3 DEF Rot, TypeOK
      <3> QED BY <3>2, <3>3, <1>1
    <2>4. CASE Swap
      <3>1. Top(1) \in Word /\ Top(2) \in Word
        BY <2>4, <1>2, <1>w DEF Swap, InReach, TypeOK
      <3> DEFINE new == [dStack EXCEPT ![dsp - 2] = Top(1), ![dsp - 1] = Top(2)]
      <3>2. new \in [0 .. Depth - 1 -> Word] BY <3>1 DEF TypeOK
      <3>3. dsp \in 0 .. Depth /\ OnlyData /\ Leave(dsp, new) BY <2>4 DEF Swap, TypeOK
      <3> QED BY <3>2, <3>3, <1>1
    <2> QED BY <1>10, <2>1, <2>2, <2>3, <2>4
  <1>11. ASSUME Reg PROVE TypeOK'
    <2>1. dsp - 1 \in 0 .. Depth - 1 BY <1>11, <1>w DEF Reg, InReach, TypeOK
    <2>2. dStack[dsp - 1] % NumRegs \in 0 .. NumRegs - 1 BY <2>1, <1>w DEF TypeOK, Word
    <2> QED BY <2>1, <2>2, <1>1, <1>11 DEF Reg, TypeOK
  <1>12. ASSUME WReg PROVE TypeOK'
    <2>1. dsp - 2 \in 0 .. Depth /\ Top(2) \in Word
      BY <1>12, <1>2, <1>w DEF WReg, InReach, TypeOK
    <2> QED BY <2>1, <1>12 DEF WReg, TypeOK, Leave
  <1>13. ASSUME R2D \/ D2R PROVE TypeOK'
    <2>1. CASE R2D
      <3>1. dsp + 1 \in 0 .. Depth /\ rsp - 1 \in 0 .. RDepth /\ rStack[rsp - 1] \in Word
        BY <2>1, <1>w DEF R2D, InReach, RInReach, TypeOK
      <3>2. [dStack EXCEPT ![dsp] = rStack[rsp - 1]] \in [0 .. Depth - 1 -> Word]
        BY <3>1 DEF TypeOK
      <3> QED BY <2>1, <3>1, <3>2 DEF R2D, Leave, TypeOK
    <2>2. CASE D2R
      <3>1. dsp - 1 \in 0 .. Depth /\ rsp + 1 \in 0 .. RDepth /\ Top(1) \in Word
        BY <2>2, <1>2, <1>w DEF D2R, InReach, RInReach, TypeOK
      <3>2. [rStack EXCEPT ![rsp] = Top(1)] \in [0 .. RDepth - 1 -> Word]
        BY <3>1 DEF TypeOK
      <3> QED BY <2>2, <3>1, <3>2 DEF D2R, Leave, TypeOK
    <2> QED BY <1>13, <2>1, <2>2
  <1>14. ASSUME Jump \/ Branch \/ Call \/ Ret PROVE TypeOK'
    BY <1>14, <1>2, <1>w DEF Jump, Branch, Call, Ret, InReach, RInReach, Leave, TypeOK
  <1>15. ASSUME \/ FetchWild \/ FetchFault \/ DivisionFault \/ MemoryFault \/ Halt \/ Exits
                \/ OutOfReach
         PROVE TypeOK'
    BY <1>15, <1>3 DEF FetchWild, FetchFault, DivisionFault, MemoryFault, Halt, Exits, OutOfReach
  <1>16. ASSUME ECall PROVE TypeOK'
    <2>1. PICK call \in CallNames :
            LET at == dsp - 1 - Taking(call) IN
            /\ at >= 0 /\ at + Leaving(call) <= Depth
            /\ \E words \in Answers(call, at) : Leave(at + Leaving(call), words)
            /\ areaPtr' = IF call = "SetAreaPtr" THEN dStack[at] ELSE areaPtr
      BY <1>16 DEF ECall
    <2> DEFINE at == dsp - 1 - Taking(call)
    <2>2. Taking(call) \in Nat /\ Leaving(call) \in Nat
      BY CallEffects
    <2>3. at \in 0 .. Depth - 1 /\ at + Leaving(call) \in 0 .. Depth
      BY <2>1, <2>2, <1>w DEF TypeOK
    <2>4. PICK words \in Answers(call, at) : Leave(at + Leaving(call), words)
      BY <2>1
    <2>5. words \in [0 .. Depth - 1 -> Word]
      <3>1. CASE call = "GetAreaPtr" BY <3>1, <2>3 DEF Answers, TypeOK
      <3>2. CASE call # "GetAreaPtr"
        <4>1. PICK new \in [0 .. Leaving(call) - 1 -> Word] :
                words = [i \in DOMAIN dStack |->
                           IF i >= at /\ i < at + Leaving(call) THEN new[i - at] ELSE dStack[i]]
          BY <3>2 DEF Answers
        <4>2. \A i \in 0 .. Depth - 1 : i >= at /\ i < at + Leaving(call)
                 => i - at \in 0 .. Leaving(call) - 1
          BY <2>2, <2>3, <1>w
        <4> QED BY <4>1, <4>2 DEF TypeOK
      <3> QED BY <3>1, <3>2
    <2>6. areaPtr' \in Word BY <2>1, <2>3 DEF TypeOK
    <2> QED BY <2>3, <2>4, <2>5, <2>6, <1>16 DEF ECall, Leave, TypeOK
  <1> QED
    BY <1>4, <1>5, <1>6, <1>7, <1>8, <1>9, <1>10, <1>11, <1>12, <1>13, <1>14, <1>15, <1>16
    DEF Next
\* Whatever words a program pushes and whatever it does with them, the arrays and
\* the registers hold words (vm.h:74-78: uint32_t) and the pointers stay on them.
THEOREM TypesKept == Spec => []TypeOK
  <1>1. Init => TypeOK
    BY MachineAssumption DEF Init, TypeOK
  <1>2. TypeOK /\ [Next]_vars => TypeOK'
    BY TypesStep
  <1> QED BY <1>1, <1>2, PTL DEF Spec
=============================================================================
