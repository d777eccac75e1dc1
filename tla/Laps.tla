-------------------------------- MODULE Laps --------------------------------
(***************************************************************************)
(* What round robin promises, with no list in sight: time is cut into laps *)
(* and in each lap every process gets exactly one slice; a process started *)
(* during a lap still gets its slice in that lap, and only a process that  *)
(* has the slice can end.                                                  *)
(***************************************************************************)
CONSTANTS Process, NoProcess

VARIABLES
  alive,    \* the processes that take part
  todo,     \* those that still have their slice of this lap to come, or have it
  running   \* the process that has the slice, or NoProcess

vars == <<alive, todo, running>>

Init == /\ alive = {}
        /\ todo = {}
        /\ running = NoProcess

Start(p) ==
  /\ p \notin alive
  /\ alive' = alive \cup {p}
  /\ todo' = todo \cup {p}
  /\ UNCHANGED running

Dispatch(p) ==
  /\ running = NoProcess
  /\ p \in todo
  /\ running' = p
  /\ UNCHANGED <<alive, todo>>

\* The slice ends, and the lap with it when nobody else is left to run.
Finish ==
  /\ running # NoProcess
  /\ alive' \in {alive, alive \ {running}}
  /\ todo' = IF todo = {running} THEN alive' ELSE todo \ {running}
  /\ running' = NoProcess

Next == \/ \E p \in Process : Start(p) \/ Dispatch(p)
        \/ Finish

Spec == Init /\ [][Next]_vars
=============================================================================
