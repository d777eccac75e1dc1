-------------------------------- MODULE Calls -------------------------------
(***************************************************************************)
(* The stack effects of the system calls of source/calls.c: how many cells *)
(* each takes off the data stack, and how many it leaves there.  What else *)
(* a call does is in the modules of the parts it calls.                    *)
(***************************************************************************)

EXTENDS Integers

IOCalls == [
  PrintCh    |-> <<1, 0>>, PrintStr   |-> <<2, 0>>, PrintHex |-> <<1, 0>>,
  InputChar  |-> <<0, 1>>, PrintNTStr |-> <<1, 0>>, InputLine |-> <<2, 0>>,
  PrintDec   |-> <<1, 0>>]

MemoryCalls == [CallAlloc |-> <<1, 1>>, CallRealloc |-> <<2, 1>>, CallFree |-> <<1, 0>>]

\* RunFile is empty: the path it is given stays.
VMCalls == [
  Dump       |-> <<0, 0>>, UserCallSize   |-> <<0, 1>>, ErrorToStringCall |-> <<1, 1>>,
  DumpMemory |-> <<2, 0>>, GetMemoryUsage |-> <<0, 2>>, SetAreaPtr |-> <<1, 0>>,
  GetAreaPtr |-> <<0, 1>>, Nothing        |-> <<0, 0>>, RunFile    |-> <<0, 0>>]

AssemblerCalls == [
  Assemble              |-> <<3, 2>>, NewAssembler          |-> <<0, 1>>,
  FreeAssembler         |-> <<1, 0>>, GetAssemblerBinPtr    |-> <<1, 1>>,
  SetAssemblerArea      |-> <<3, 0>>, GetAssemblerDataPtr   |-> <<1, 1>>,
  SetAssemblerDataPtr   |-> <<2, 0>>, SetAssemblerBinary    |-> <<3, 0>>,
  FreeIncompleteAssemblerRef |-> <<1, 0>>, ResetAssemblerBinLen |-> <<1, 0>>,
  SetAssemblerBinPtr    |-> <<2, 0>>, ExtendAssemblerBinary |-> <<2, 1>>,
  SetAssemblerMode      |-> <<2, 0>>, ResetAssemblerBinary  |-> <<1, 0>>,
  FreezeAssemblerLabels |-> <<1, 0>>, GetAssemblerBinary    |-> <<1, 1>>]

FileCalls == [ReadFile  |-> <<1, 3>>, ReadTextFile  |-> <<1, 2>>,
              WriteFile |-> <<3, 1>>, WriteTextFile |-> <<2, 1>>]

\* All of them, by name.
Calls ==
  LET Sections == {IOCalls, MemoryCalls, VMCalls, AssemblerCalls, FileCalls}
  IN [call \in UNION {DOMAIN s : s \in Sections} |-> (CHOOSE s \in Sections : call \in DOMAIN s)[call]]
CallNames == DOMAIN Calls
Taking(call)  == Calls[call][1]
Leaving(call) == Calls[call][2]
=============================================================================
