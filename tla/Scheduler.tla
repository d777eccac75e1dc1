------------------------------ MODULE Scheduler -----------------------------
(***************************************************************************)
(* The process scheduler, source/scheduler.c: a doubly linked list of      *)
(* processes, kept by the ends `firstProcess' and `processes' (the last),  *)
(* run round robin by Scheduler_Run, five instructions a slice.            *)
(*                                                                         *)
(* main starts the first process and then runs the scheduler.  Further     *)
(* processes can only be started from inside a slice, by a system call:    *)
(* vm.md calls it "Run file"; its body, calls.c RunFile, is still empty.   *)
(* MaxID = 1 is the program as main uses it today.                         *)
(*                                                                         *)
(* The heap is the set of objects now allocated; what a slice computes is  *)
(* left out, but for whether it halts and which processes it starts.       *)
(***************************************************************************)
EXTENDS Integers

CONSTANT MaxID      \* bound on the processes ever started

ASSUME SchedulerAssumption == MaxID \in Nat \ {0}

VARIABLES
  next, prev,       \* the links of each Process
  first,            \* scheduler.firstProcess
  last,             \* scheduler.processes
  current,          \* scheduler.currentProcess
  nextID,           \* scheduler.nextID
  status,           \* what became of each process; only its halting is code state
  mem,              \* the allocated objects, <<process, what it is>>
  pc                \* where the one thread of the program is

vars == <<next, prev, first, last, current, nextID, status, mem, pc>>

NULL == 0
Pid  == 1 .. MaxID
Link == Pid \cup {NULL}

\* "killed" after Scheduler_Kill, "failed" after FreeProcess.
Status == {"unused", "live", "killed", "failed"}

\* The Process struct, its strings and stacks, the program, its source text.
Kind == {"struct", "name", "dStack", "rStack", "code", "file"}

(***************************************************************************)
(* "boot"     main, before the first Scheduler_StartProcess                *)
(* "ready"    main, before Scheduler_Run                                   *)
(* "top"      the head of the loop of Scheduler_Run                        *)
(* "slice"    in VM_Run                                                    *)
(* "returned" main, after Scheduler_Run                                    *)
(* "freed"    after Scheduler_Free                                         *)
(* "exited"   after exit or a return from main that reports an error       *)
(* "badFree"  Free met memory that is not allocated ("Double free")        *)
(* "fault"    after a load or store through NULL                           *)
(***************************************************************************)
Place == {"boot", "ready", "top", "slice", "returned", "freed",
          "exited", "badFree", "fault"}

Objects(p, kinds) == {<<p, k>> : k \in kinds}

-----------------------------------------------------------------------------
(* Scheduler_StartProcess *)

\* Mutant: the id counter is moved on twice.
AppendCountsTwice(p) ==
  /\ next' = IF last = NULL THEN [next EXCEPT ![p] = NULL]
                            ELSE [next EXCEPT ![last] = p, ![p] = NULL]
  /\ prev' = [prev EXCEPT ![p] = last]
  /\ first' = IF last = NULL THEN p ELSE first
  /\ last' = p
  /\ nextID' = nextID + 2

\* Lines 65-80: a new Process at the end of the list.
Append(p) ==
  /\ next' = IF last = NULL THEN [next EXCEPT ![p] = NULL]
                            ELSE [next EXCEPT ![last] = p, ![p] = NULL]
  /\ prev' = [prev EXCEPT ![p] = last]
  /\ first' = IF last = NULL THEN p ELSE first
  /\ last' = p
  /\ nextID' = nextID + 1

\* The program assembles.  An empty one has no code: the assembler allocates
\* its binary when it emits the first byte.
StartOk(p) ==
  /\ Append(p)
  /\ status' = [status EXCEPT ![p] = "live"]
  /\ \E code \in {{}, {"code"}} :
       mem' = mem \cup Objects(p, {"struct", "name", "dStack", "rStack"} \cup code)

\* The process is already in the list when its source turns out not to
\* assemble, or when there is no memory for the NUL after it.  FreeProcess takes
\* it out at one end only, and frees only its name.
StartFails(p) ==
  /\ last # NULL
  /\ next' = [next EXCEPT ![p] = NULL, ![last] = NULL]
  /\ prev' = [prev EXCEPT ![p] = last]
  /\ last' = p
  /\ nextID' = nextID + 1
  /\ status' = [status EXCEPT ![p] = "failed"]
  /\ \E code \in {{}, {"code"}} :
       mem' = mem \cup Objects(p, {"struct", "dStack", "rStack", "file"} \cup code)
  /\ UNCHANGED first

\* Without a predecessor FreeProcess stores through NULL.
StartFaults(p) ==
  /\ last = NULL
  /\ Append(p)
  /\ status' = [status EXCEPT ![p] = "failed"]
  /\ \E code \in {{}, {"code"}} :
       mem' = mem \cup Objects(p, {"struct", "name", "dStack", "rStack", "file"} \cup code)

-----------------------------------------------------------------------------
(* main: the autostart program *)

BootOk ==
  /\ pc = "boot"
  /\ StartOk(nextID)
  /\ pc' = "ready"
  /\ UNCHANGED current

BootFaults ==
  /\ pc = "boot"
  /\ StartFaults(nextID)
  /\ pc' = "fault"
  /\ UNCHANGED current

\* The file cannot be read, or SafeAlloc exits.
BootExits ==
  /\ pc = "boot"
  /\ pc' = "exited"
  /\ UNCHANGED <<next, prev, first, last, current, nextID, status, mem>>

\* The head of Scheduler_Run.
EnterRun ==
  /\ pc = "ready"
  /\ current' = first
  /\ pc' = "top"
  /\ UNCHANGED <<next, prev, first, last, nextID, status, mem>>

\* The processes met from p on by following a link.
Chain(p, link) ==
  {q \in Pid : \A S \in SUBSET Pid :
                 /\ p # NULL => p \in S
                 /\ \A r \in S : link[r] # NULL => link[r] \in S
                 => q \in S}

\* Scheduler_Free follows prev from the last process and frees every struct.
FreeAll ==
  /\ pc = "returned"
  /\ LET structs == {<<p, "struct">> : p \in Chain(last, prev)}
     IN  IF structs \subseteq mem
           THEN mem' = mem \ structs /\ pc' = "freed"
           ELSE pc' = "badFree" /\ UNCHANGED mem
  /\ UNCHANGED <<next, prev, first, last, current, nextID, status>>

-----------------------------------------------------------------------------
(* Scheduler_Run *)

Dispatch ==
  /\ pc = "top" /\ current # NULL
  /\ pc' = "slice"
  /\ UNCHANGED <<next, prev, first, last, current, nextID, status, mem>>

\* "(no processes)"
Return ==
  /\ pc = "top" /\ current = NULL
  /\ pc' = "returned"
  /\ UNCHANGED <<next, prev, first, last, current, nextID, status, mem>>

\* The first fetch of an empty program is from NULL.
FetchFaults ==
  /\ pc = "slice" /\ <<current, "code">> \notin mem
  /\ pc' = "fault"
  /\ UNCHANGED <<next, prev, first, last, current, nextID, status, mem>>

Executing == pc = "slice" /\ <<current, "code">> \in mem

\* A system call of the running program starts another.
SpawnOk ==
  /\ Executing /\ nextID \in Pid
  /\ StartOk(nextID)
  /\ UNCHANGED <<current, pc>>

SpawnFails ==
  /\ Executing /\ nextID \in Pid
  /\ StartFails(nextID)
  /\ UNCHANGED <<current, pc>>

\* exit(1) or a fault of the program itself.
Crash ==
  /\ Executing
  /\ pc' = "exited"
  /\ UNCHANGED <<next, prev, first, last, current, nextID, status, mem>>

\* Mutant: the wrap goes to the first process as it was before the slice.
AfterCurrentStale(newFirst) == IF next[current] = NULL THEN first ELSE next[current]

\* The next process to run, back to the (new) first at the end of the list.
AfterCurrent(newFirst) == IF next[current] = NULL THEN newFirst ELSE next[current]

\* Mutant: every slice is followed by one of the first process.
YieldToFirst ==
  /\ Executing
  /\ current' = first
  /\ pc' = "top"
  /\ UNCHANGED <<next, prev, first, last, nextID, status, mem>>

\* The slice ends without halting.
Yield ==
  /\ Executing
  /\ current' = AfterCurrent(first)
  /\ pc' = "top"
  /\ UNCHANGED <<next, prev, first, last, nextID, status, mem>>

\* Mutant: the process after the dead one keeps its prev.
UnlinkForwardOnly(p) ==
  /\ next' = IF prev[p] = NULL THEN next ELSE [next EXCEPT ![prev[p]] = next[p]]
  /\ prev' = prev

\* Lines 113-118 of Scheduler_Kill.  The links of the dead process stay.
Unlink(p) ==
  /\ next' = IF prev[p] = NULL THEN next ELSE [next EXCEPT ![prev[p]] = next[p]]
  /\ prev' = IF next[p] = NULL THEN prev ELSE [prev EXCEPT ![next[p]] = prev[p]]

\* Mutant: the struct is freed as well.
KilledAndStruct(p) == Objects(p, {"struct", "name", "dStack", "rStack", "code"})

\* Lines 119-121; the struct stays allocated ("TODO: free all memory").
Killed(p) == Objects(p, {"name", "dStack", "rStack", "code"})

\* Mutant: after a kill the scheduler starts over from the first process.
HaltStartsOver ==
  /\ Executing
  /\ first' = IF current = first THEN next[current] ELSE first
  /\ last' = IF current = last THEN prev[current] ELSE last
  /\ current' = first'
  /\ Unlink(current)
  /\ status' = [status EXCEPT ![current] = "killed"]
  /\ mem' = mem \ Killed(current)
  /\ pc' = IF Killed(current) \subseteq mem THEN "top" ELSE "badFree"
  /\ UNCHANGED nextID

\* The slice ends with a halt, and Scheduler_Kill ends the process.
Halt ==
  /\ Executing
  /\ first' = IF current = first THEN next[current] ELSE first
  /\ last' = IF current = last THEN prev[current] ELSE last
  /\ current' = AfterCurrent(first')
  /\ Unlink(current)
  /\ status' = [status EXCEPT ![current] = "killed"]
  /\ mem' = mem \ Killed(current)
  /\ pc' = IF Killed(current) \subseteq mem THEN "top" ELSE "badFree"
  /\ UNCHANGED nextID

-----------------------------------------------------------------------------
\* Scheduler_Init
Init ==
  /\ next = [p \in Pid |-> NULL]
  /\ prev = [p \in Pid |-> NULL]
  /\ first = NULL /\ last = NULL /\ current = NULL
  /\ nextID = 1
  /\ status = [p \in Pid |-> "unused"]
  /\ mem = {}
  /\ pc = "boot"

Main == BootOk \/ BootFaults \/ BootExits \/ EnterRun \/ FreeAll

Run == Dispatch \/ Return \/ FetchFaults \/ Yield \/ Halt

Program == SpawnOk \/ SpawnFails \/ Crash

Next == Main \/ Run \/ Program

Spec == Init /\ [][Next]_vars

\* One thread runs main and the scheduler.  That a slice ends rests on its
\* length of five instructions and on input arriving when one of them reads it.
FairSpec == Spec /\ WF_vars(Main) /\ WF_vars(Run)
=============================================================================
