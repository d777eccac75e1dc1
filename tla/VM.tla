--------------------------------- MODULE VM ---------------------------------
(***************************************************************************)
(* The virtual machine of source/vm.c: two arrays of words that are never  *)
(* cleared, and for each a pointer to the word after its top.  Pushes and  *)
(* pops move the pointers and compare them with nothing.  A step that      *)
(* would touch a word outside an array makes the status "wild": what       *)
(* follows is undefined.  What lies at an address is left open: a load     *)
(* yields any word or faults, and a store does not hit the stacks.         *)
(***************************************************************************)
EXTENDS Integers, Sequences, Calls

CONSTANTS W, Depth, RDepth, NumRegs

ASSUME MachineAssumption == {W, Depth, RDepth, NumRegs} \subseteq Nat \ {0}

VARIABLES
  dStack, rStack,   \* the arrays
  dsp, rsp,         \* where the pointers are
  reg, ip, areaPtr,
  op,               \* the instruction fetched and not yet executed, or "none"
  status            \* "running", "halted", "wild", "fault"

vars == <<dStack, rStack, dsp, rsp, reg, ip, areaPtr, op, status>>

Word == 0 .. W - 1

Truth(b) == IF b THEN 1 ELSE 0

\* Operations on words bit by bit, by their tables.
Bit(x, i) == (x \div 2 ^ i) % 2
BitPair == {0, 1} \X {0, 1}
IsBits(w, table, a, b) ==
  \A i \in 0 .. W : 2 ^ i < W => Bit(w, i) = table[<<Bit(a, i), Bit(b, i)>>]
Bits(table, a, b) == CHOOSE w \in Word : IsBits(w, table, a, b)

\* A word is a uint32_t: 1 is one, and whatever is done to two words bit by bit.
ASSUME WordAssumption ==
  /\ W > 1
  /\ \A table \in [BitPair -> {0, 1}], a, b \in Word : \E w \in Word : IsBits(w, table, a, b)

Alu(o, a, b) ==
  CASE o = "ADD" -> (a + b) % W
    [] o = "SUB" -> (a - b) % W
    [] o = "MUL" -> (a * b) % W
    [] o = "DIV" -> a \div b
    [] o = "MOD" -> a % b
    [] o = "EQU"     -> Truth(a = b)
    [] o = "LESS"    -> Truth(a < b)
    [] o = "GREATER" -> Truth(a > b)
    [] o = "LE"      -> Truth(a <= b)
    [] o = "GE"      -> Truth(a >= b)
    [] o = "AND" -> Bits([p \in BitPair |-> p[1] * p[2]], a, b)
    [] o = "XOR" -> Bits([p \in BitPair |-> (p[1] + p[2]) % 2], a, b)
    [] OTHER     -> Bits([p \in BitPair |-> p[1] + p[2] - p[1] * p[2]], a, b)

Inverse(o, a) == IF o = "NEG" THEN Truth(a = 0) ELSE W - 1 - a

Binary == {"ADD", "SUB", "MUL", "DIV", "MOD", "EQU", "LESS", "GREATER", "LE", "GE",
           "AND", "XOR", "OR"}
Unary  == {"NEG", "NOT"}
Load   == {"AREA", "READ", "READ8", "READ16"}
Store  == {"WRITE", "WRITE8", "WRITE16"}
Other  == {"NOP", "DIVMOD", "REG", "WREG", "R2D", "D2R", "DUP", "OVER", "DROP", "ROT",
           "SWAP", "JUMP", "JNZ", "JZ", "CALL", "RET", "HALT", "ECALL", "INVALID"}
Op == Binary \cup Unary \cup Load \cup Store \cup Other

Init == /\ dStack \in [0 .. Depth - 1 -> Word] /\ dsp = 0
        /\ rStack \in [0 .. RDepth - 1 -> Word] /\ rsp = 0
        /\ reg \in [0 .. NumRegs - 1 -> Word]
        /\ ip \in Word /\ areaPtr \in Word
        /\ op = "none" /\ status = "running"

\* dsp[-k], and whether the words dsp[-down] .. dsp[up - 1] are in the array.
Top(k) == dStack[dsp - k]
InReach(down, up) == down <= dsp /\ dsp + up <= Depth
RInReach(down, up) == down <= rsp /\ rsp + up <= RDepth

Ends(how) == status' = how /\ op' = "none" /\ UNCHANGED <<dStack, rStack, dsp, rsp, reg, ip, areaPtr>>

\* The head of the loop of VM_Run: the word of an immediate is pushed before
\* the opcode is looked up.
Fetch ==
  /\ status = "running" /\ op = "none"
  /\ \E o \in Op :
       \/ /\ op' = o /\ ip' = (ip + 1) % W
          /\ UNCHANGED <<dStack, dsp>> /\ UNCHANGED <<rStack, rsp, reg, areaPtr, status>>
       \/ \E word \in Word :
            /\ InReach(0, 1)
            /\ op' = o /\ ip' = (ip + 5) % W
            /\ dStack' = [dStack EXCEPT ![dsp] = word] /\ dsp' = dsp + 1
            /\ UNCHANGED <<rStack, rsp, reg, areaPtr, status>>

FetchWild == status = "running" /\ op = "none" /\ ~InReach(0, 1) /\ Ends("wild")

\* There is no memory where ip points, or where an immediate would be.
FetchFault == status = "running" /\ op = "none" /\ Ends("fault")

\* An instruction that works on the data stack: its pointer and the array.
Executes(ops) == status = "running" /\ op \in ops
Leave(d, words) == dsp' = d /\ dStack' = words
OnlyData == op' = "none" /\ UNCHANGED <<rStack, rsp, reg, ip, areaPtr, status>>

DividesByZero == op \in {"DIV", "MOD", "DIVMOD"} /\ Top(1) = 0

Arithmetic ==
  /\ Executes(Binary) /\ InReach(2, 0) /\ ~DividesByZero
  /\ Leave(dsp - 1, [dStack EXCEPT ![dsp - 2] = Alu(op, @, Top(1))]) /\ OnlyData

DivMod ==
  /\ Executes({"DIVMOD"}) /\ InReach(2, 0) /\ ~DividesByZero
  /\ Leave(dsp, [dStack EXCEPT ![dsp - 2] = Alu("MOD", Top(2), Top(1)),
                               ![dsp - 1] = Alu("DIV", Top(2), Top(1))])
  /\ OnlyData

DivisionFault == Executes({"DIV", "MOD", "DIVMOD"}) /\ InReach(2, 0) /\ DividesByZero /\ Ends("fault")

InPlace ==
  /\ Executes(Unary) /\ InReach(1, 0)
  /\ Leave(dsp, [dStack EXCEPT ![dsp - 1] = Inverse(op, @)]) /\ OnlyData

\* AREA adds reg[8], one past the registers.
Loads == /\ Executes(Load) /\ InReach(1, 0)
         /\ \E w \in Word : Leave(dsp, [dStack EXCEPT ![dsp - 1] = w])
         /\ OnlyData

Stores == Executes(Store) /\ InReach(2, 0) /\ Leave(dsp - 2, dStack) /\ OnlyData

MemoryFault == \/ Executes(Load) /\ InReach(1, 0) /\ Ends("fault")
               \/ Executes(Store) /\ InReach(2, 0) /\ Ends("fault")

Nop  == Executes({"NOP"}) /\ Leave(dsp, dStack) /\ OnlyData
Dup  == /\ Executes({"DUP"}) /\ InReach(1, 1)
        /\ Leave(dsp + 1, [dStack EXCEPT ![dsp] = Top(1)]) /\ OnlyData
Over == /\ Executes({"OVER"}) /\ InReach(2, 1)
        /\ Leave(dsp + 1, [dStack EXCEPT ![dsp] = Top(2)]) /\ OnlyData

\* Mutant: the pointer moves below the first word unnoticed.
DropAnyway == Executes({"DROP"}) /\ Leave(dsp - 1, dStack) /\ OnlyData

Drop == Executes({"DROP"}) /\ InReach(1, 0) /\ Leave(dsp - 1, dStack) /\ OnlyData

Rot  == /\ Executes({"ROT"}) /\ InReach(3, 0)
        /\ Leave(dsp, [dStack EXCEPT ![dsp - 3] = Top(2), ![dsp - 2] = Top(1), ![dsp - 1] = Top(3)])
        /\ OnlyData
Swap == /\ Executes({"SWAP"}) /\ InReach(2, 0)
        /\ Leave(dsp, [dStack EXCEPT ![dsp - 2] = Top(1), ![dsp - 1] = Top(2)]) /\ OnlyData
Reg  == /\ Executes({"REG"}) /\ InReach(1, 0)
        /\ Leave(dsp, [dStack EXCEPT ![dsp - 1] = reg[@ % NumRegs]]) /\ OnlyData

WReg == /\ Executes({"WREG"}) /\ InReach(2, 0) /\ Leave(dsp - 2, dStack)
        /\ reg' = [reg EXCEPT ![Top(1) % NumRegs] = Top(2)]
        /\ op' = "none" /\ UNCHANGED <<rStack, rsp, ip, areaPtr, status>>

R2D == /\ Executes({"R2D"}) /\ RInReach(1, 0) /\ InReach(0, 1)
       /\ rsp' = rsp - 1 /\ Leave(dsp + 1, [dStack EXCEPT ![dsp] = rStack[rsp - 1]])
       /\ op' = "none" /\ UNCHANGED <<rStack, reg, ip, areaPtr, status>>

D2R == /\ Executes({"D2R"}) /\ InReach(1, 0) /\ RInReach(0, 1)
       /\ rsp' = rsp + 1 /\ rStack' = [rStack EXCEPT ![rsp] = Top(1)]
       /\ Leave(dsp - 1, dStack)
       /\ op' = "none" /\ UNCHANGED <<reg, ip, areaPtr, status>>

Jump == /\ Executes({"JUMP"}) /\ InReach(1, 0) /\ Leave(dsp - 1, dStack) /\ ip' = Top(1)
        /\ op' = "none" /\ UNCHANGED <<rStack, rsp, reg, areaPtr, status>>

\* Mutant: the address is taken from below the condition.
BranchSwapped ==
  /\ Executes({"JNZ", "JZ"}) /\ InReach(2, 0) /\ Leave(dsp - 2, dStack)
  /\ ip' = IF (Top(1) = 0) = (op = "JZ") THEN Top(2) ELSE ip
  /\ op' = "none" /\ UNCHANGED <<rStack, rsp, reg, areaPtr, status>>

\* The condition lies below the address.
Branch == /\ Executes({"JNZ", "JZ"}) /\ InReach(2, 0) /\ Leave(dsp - 2, dStack)
          /\ ip' = IF (Top(2) = 0) = (op = "JZ") THEN Top(1) ELSE ip
          /\ op' = "none" /\ UNCHANGED <<rStack, rsp, reg, areaPtr, status>>

Call == /\ Executes({"CALL"}) /\ InReach(1, 0) /\ RInReach(0, 1)
        /\ rStack' = [rStack EXCEPT ![rsp] = ip] /\ rsp' = rsp + 1
        /\ Leave(dsp - 1, dStack) /\ ip' = Top(1)
        /\ op' = "none" /\ UNCHANGED <<reg, areaPtr, status>>

Ret == /\ Executes({"RET"}) /\ RInReach(1, 0) /\ rsp' = rsp - 1 /\ ip' = rStack[rsp - 1]
       /\ Leave(dsp, dStack)
       /\ op' = "none" /\ UNCHANGED <<rStack, reg, areaPtr, status>>

Halt == Executes({"HALT"}) /\ Ends("halted")

\* What a call stores from the word `at' on; which call the number of the top
\* word names is left open.
Answers(call, at) ==
  IF call = "GetAreaPtr" THEN {[dStack EXCEPT ![at] = areaPtr]}
  ELSE {[i \in DOMAIN dStack |-> IF i >= at /\ i < at + Leaving(call) THEN new[i - at] ELSE dStack[i]]
          : new \in [0 .. Leaving(call) - 1 -> Word]}

ECall ==
  /\ Executes({"ECALL"})
  /\ \E call \in CallNames :
       LET at == dsp - 1 - Taking(call) IN
       /\ at >= 0 /\ at + Leaving(call) <= Depth
       /\ \E words \in Answers(call, at) : Leave(at + Leaving(call), words)
       /\ areaPtr' = IF call = "SetAreaPtr" THEN dStack[at] ELSE areaPtr
  /\ op' = "none" /\ UNCHANGED <<rStack, rsp, reg, ip, status>>

\* A section, a call or an opcode that is not there, or a call that does not
\* come back.
Exits == \/ Executes({"INVALID"}) /\ Ends("fault")
         \/ Executes({"ECALL"}) /\ InReach(1, 0) /\ Ends("fault")

\* How far below and above the pointers an instruction reaches.
Reach == [o \in Op |->
  IF o \in Binary \cup Store \cup {"DIVMOD", "WREG", "SWAP", "JNZ", "JZ"} THEN <<2, 0>>
  ELSE IF o = "ROT"  THEN <<3, 0>>
  ELSE IF o = "OVER" THEN <<2, 1>>
  ELSE IF o = "DUP"  THEN <<1, 1>>
  ELSE IF o = "R2D"  THEN <<0, 1>>
  ELSE IF o \in {"NOP", "RET", "HALT", "INVALID"} THEN <<0, 0>> ELSE <<1, 0>>]

OutOfReach ==
  /\ Executes(Op)
  /\ \/ ~InReach(Reach[op][1], Reach[op][2])
     \/ op \in {"R2D", "RET"} /\ ~RInReach(1, 0)
     \/ op \in {"D2R", "CALL"} /\ ~RInReach(0, 1)
     \/ op = "ECALL" /\ \E call \in CallNames :
                          ~InReach(1 + Taking(call), Leaving(call) - 1 - Taking(call))
  /\ Ends("wild")

Next == \/ Fetch \/ FetchWild \/ FetchFault
        \/ Arithmetic \/ DivMod \/ DivisionFault \/ InPlace
        \/ Loads \/ Stores \/ MemoryFault
        \/ Nop \/ Dup \/ Over \/ Drop \/ Rot \/ Swap
        \/ Reg \/ WReg \/ R2D \/ D2R
        \/ Jump \/ Branch \/ Call \/ Ret \/ Halt
        \/ ECall \/ Exits \/ OutOfReach

Spec == Init /\ [][Next]_vars
=============================================================================
