--------------------------- MODULE SchedulerProps ---------------------------
(***************************************************************************)
(* What should be true of source/scheduler.c.                              *)
(***************************************************************************)
EXTENDS Scheduler

\* Every variable has the shape the code gives it.
TypeOK ==
  /\ next \in [Pid -> Link]
  /\ prev \in [Pid -> Link]
  /\ first \in Link /\ last \in Link /\ current \in Link
  /\ nextID \in 1 .. MaxID + 1
  /\ status \in [Pid -> Status]
  /\ mem \subseteq Pid \X Kind
  /\ pc \in Place

Live   == {p \in Pid : status[p] = "live"}
Failed == {p \in Pid : status[p] = "failed"}

\* The processes the scheduler can reach: those started before the first start
\* that failed after it had entered the list.  FreeProcess leaves scheduler.processes
\* at the failed process, so that later ones are hung behind it and never run.
Queue == {p \in Live : \A f \in Failed : p < f}

\* x is the smallest (largest) member of S, NULL if there is none.
IsFirstOf(x, S) == /\ S = {} => x = NULL
                   /\ S # {} => x \in S /\ \A p \in S : x <= p
IsLastOf(x, S)  == /\ S = {} => x = NULL
                   /\ S # {} => x \in S /\ \A p \in S : p <= x

After(p, S)  == {q \in S : q > p}
Before(p, S) == {q \in S : q < p}

\* From f on, nx leads through the members of S in rising order, and pv back.
Linked(f, nx, pv, S) ==
  /\ IsFirstOf(f, S)
  /\ \A p \in S : /\ IsFirstOf(nx[p], After(p, S))
                 /\ IsLastOf(pv[p], Before(p, S))

\* While no start has failed, the list that starts at firstProcess links every
\* living process, forwards and backwards, in the order they were started, and
\* `processes' points to the last of them (scheduler.h), whichever have been
\* killed and from inside whichever slice.  A failed start leaves `processes' at
\* the failed process (scheduler.c:47), and nothing is claimed from then on.
QueueLinked ==
  pc # "fault" /\ Failed = {} => /\ Linked(first, next, prev, Live)
                                /\ IsLastOf(last, Live)

\* Scheduler_Run takes the next process from the one that ran before it kills
\* that one, and still never hands a slice to a dead process, nor to one whose
\* struct or stacks were freed; it returns only when the queue is empty.
CurrentRuns ==
  /\ pc = "slice" => /\ current \in Queue
                     /\ Objects(current, {"struct", "dStack", "rStack"}) \subseteq mem
  /\ pc = "top" => current \in Queue \/ (current = NULL /\ Queue = {})
  /\ pc \in {"returned", "freed"} => Queue = {}

\* Scheduler_Kill and Scheduler_Free together free nothing twice, also when the
\* prev chain that Scheduler_Free follows leads through killed and failed
\* processes.
NoBadFree == pc # "badFree"

\* The scheduler implements round robin: in every lap each queued process gets
\* one slice, even as processes start and end while the lap is under way.
Round == INSTANCE Laps WITH
  Process   <- Pid,
  NoProcess <- NULL,
  alive     <- Queue,
  todo      <- {p \in Queue : p >= current},
  running   <- IF pc \in {"boot", "ready", "top", "returned", "freed"}
                 THEN NULL ELSE current
RoundRobin == Round!Spec

\* No queued process waits for ever for its next slice, unless the whole
\* program goes down.
EveryoneRuns ==
  \A p \in Pid :
    [](p \in Queue => <>(\/ pc = "slice" /\ current = p
                         \/ pc \in {"fault", "exited"}))

-----------------------------------------------------------------------------
(* What the repository says of the scheduler and the code does not do *)

\* main reports "Failed to start first process" (main.c:107-110).
FirstFailureReported == ~(pc = "fault" /\ current = NULL)
=============================================================================
