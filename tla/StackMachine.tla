---------------------------- MODULE StackMachine ----------------------------
(***************************************************************************)
(* The machine a program for Nitron is written for: two stacks that are    *)
(* sequences, with instructions that take words off the top of the data    *)
(* stack and put others there.  There is nothing above the top, and an     *)
(* instruction looks at nothing below what it takes.  The machine promises *)
(* this as long as the program stays inside the stacks.                    *)
(***************************************************************************)
EXTENDS Integers, Sequences

CONSTANTS
  W,              \* words are 0 .. W - 1
  Depth, RDepth,  \* words the stacks have room for
  NumRegs,
  Calls,          \* call |-> <<words taken, words left>>
  Alu(_, _, _), Inverse(_, _)   \* operations on two words, on one

VARIABLES
  ds, rs,   \* the data stack and the return stack
  reg, ip,
  area,     \* the area pointer
  op,       \* the instruction fetched, or "none"
  status    \* "running", "halted", or how the machine broke off

vars == <<ds, rs, reg, ip, area, op, status>>

Word == 0 .. W - 1

Binary == {"ADD", "SUB", "MUL", "DIV", "MOD", "EQU", "LESS", "GREATER", "LE", "GE",
           "AND", "XOR", "OR"}
Unary  == {"NEG", "NOT"}
Load   == {"AREA", "READ", "READ8", "READ16"}   \* what these yield is for memory to say
Store  == {"WRITE", "WRITE8", "WRITE16"}
Op == Binary \cup Unary \cup Load \cup Store \cup
      {"NOP", "DIVMOD", "REG", "WREG", "R2D", "D2R", "DUP", "OVER", "DROP", "ROT",
       "SWAP", "JUMP", "JNZ", "JZ", "CALL", "RET", "HALT", "ECALL", "INVALID"}

\* The words an instruction takes off the data stack.
Takes(o) ==
  CASE o = "ROT" -> 3
    [] o \in Binary \cup Store \cup {"DIVMOD", "WREG", "OVER", "SWAP", "JNZ", "JZ"} -> 2
    [] o \in Unary \cup Load \cup {"REG", "D2R", "DUP", "DROP", "JUMP", "CALL", "ECALL"} -> 1
    [] OTHER -> 0

\* What it leaves there for the words a it has taken, the topmost last.
Leaves(o, a) ==
  CASE o \in Binary -> {<<Alu(o, a[1], a[2])>>}
    [] o \in Unary  -> {<<Inverse(o, a[1])>>}
    [] o \in Load   -> {<<w>> : w \in Word}
    [] o = "DIVMOD" -> {<<Alu("MOD", a[1], a[2]), Alu("DIV", a[1], a[2])>>}
    [] o = "REG"    -> {<<reg[a[1] % NumRegs]>>}
    [] o = "R2D"    -> {<<rs[Len(rs)]>>}
    [] o = "DUP"    -> {<<a[1], a[1]>>}
    [] o = "OVER"   -> {<<a[1], a[2], a[1]>>}
    [] o = "ROT"    -> {<<a[2], a[3], a[1]>>}
    [] o = "SWAP"   -> {<<a[2], a[1]>>}
    [] OTHER        -> {<<>>}

\* The top n words, and the stack when they give way to others.
Args(n) == [i \in 1 .. n |-> ds[Len(ds) - n + i]]
Replaced(n, new) ==
  [i \in 1 .. Len(ds) - n + Len(new) |->
     IF i <= Len(ds) - n THEN ds[i] ELSE new[i - (Len(ds) - n)]]
Fits(n, m) == Len(ds) >= n /\ Len(ds) - n + m <= Depth

ReturnFits == /\ op \in {"R2D", "RET"} => rs # <<>>
              /\ op \in {"D2R", "CALL"} => Len(rs) < RDepth

ReturnStack(a) ==
  CASE op = "D2R"  -> Append(rs, a[1])
    [] op = "CALL" -> Append(rs, ip)
    [] op \in {"R2D", "RET"} -> SubSeq(rs, 1, Len(rs) - 1)
    [] OTHER -> rs

Target(a) ==
  CASE op \in {"JUMP", "CALL"} -> a[1]
    [] op = "JNZ" -> IF a[1] # 0 THEN a[2] ELSE ip
    [] op = "JZ"  -> IF a[1] = 0 THEN a[2] ELSE ip
    [] op = "RET" -> rs[Len(rs)]
    [] OTHER -> ip

ByZero(a) == op \in {"DIV", "MOD", "DIVMOD"} /\ a[2] = 0
-----------------------------------------------------------------------------
Init == /\ ds = <<>> /\ rs = <<>>
        /\ reg \in [0 .. NumRegs - 1 -> Word] /\ ip \in Word /\ area \in Word
        /\ op = "none" /\ status = "running"

Breaks(how) == status' = how /\ op' = "none" /\ UNCHANGED <<ds, rs, reg, ip, area>>

\* An instruction, and the word that comes with it when it is immediate.
Fetch == /\ status = "running" /\ op = "none"
         /\ \E o \in Op, word \in {<<>>} \cup {<<w>> : w \in Word} :
              IF Fits(0, Len(word))
                THEN /\ ds' = Replaced(0, word) /\ op' = o
                     /\ ip' = (ip + (IF word = <<>> THEN 1 ELSE 5)) % W
                     /\ UNCHANGED <<rs, reg, area, status>>
                ELSE Breaks("wild")

\* A program may run off into addresses where nothing is.
Lost == status = "running" /\ op = "none" /\ Breaks("fault")

Executes == status = "running" /\ op # "none"

Execute ==
  /\ Executes /\ op \notin {"ECALL", "HALT", "INVALID"}
  /\ Fits(Takes(op), 0) /\ ReturnFits
  /\ LET a == Args(Takes(op)) IN
       IF ByZero(a) THEN Breaks("fault")
       ELSE \E new \in Leaves(op, a) :
              /\ Fits(Takes(op), Len(new))
              /\ ds' = Replaced(Takes(op), new) /\ rs' = ReturnStack(a) /\ ip' = Target(a)
              /\ reg' = IF op = "WREG" THEN [reg EXCEPT ![a[2] % NumRegs] = a[1]] ELSE reg
              /\ op' = "none" /\ UNCHANGED <<area, status>>

\* The words a call leaves, the words a and the number of the call being taken.
CallLeaves(call) ==
  IF call = "GetAreaPtr" THEN {<<area>>} ELSE [1 .. Calls[call][2] -> Word]

ECall == /\ Executes /\ op = "ECALL"
         /\ \E call \in DOMAIN Calls :
              LET n == 1 + Calls[call][1] IN
              /\ Fits(n, Calls[call][2])
              /\ \E new \in CallLeaves(call) : ds' = Replaced(n, new)
              /\ area' = IF call = "SetAreaPtr" THEN Args(n)[1] ELSE area
         /\ op' = "none" /\ UNCHANGED <<rs, reg, ip, status>>

Halt == /\ Executes /\ op = "HALT" /\ status' = "halted" /\ op' = "none"
        /\ UNCHANGED <<ds, rs, reg, ip, area>>

\* Only a program that leaves the stacks sends the machine astray; one that
\* names no instruction or call, or no memory, ends the emulator.
Astray ==
  /\ Executes
  /\ \/ ~Fits(Takes(op), 0) \/ ~ReturnFits
     \/ op \in {"DUP", "OVER", "R2D"} /\ Len(ds) = Depth
     \/ op = "ECALL" /\ \E call \in DOMAIN Calls : ~Fits(1 + Calls[call][1], Calls[call][2])
  /\ Breaks("wild")

Exit == /\ Executes
        /\ \/ op = "INVALID"
           \/ op = "ECALL" /\ Fits(1, 0)
           \/ op \in Load \cup Store /\ Fits(Takes(op), 0)
        /\ Breaks("fault")

Next == Fetch \/ Lost \/ Execute \/ ECall \/ Halt \/ Astray \/ Exit

Spec == Init /\ [][Next]_vars
=============================================================================
