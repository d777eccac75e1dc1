-------------------------------- MODULE Heap --------------------------------
(***************************************************************************)
(* What the allocator of source/mem.h promises to its callers, with no     *)
(* block list in sight: at any time some byte ranges of the zone are       *)
(* granted; a range is granted only if it lies in the zone and touches no  *)
(* other granted range; a range stays where it is, with the size it has,   *)
(* until its owner gives it back.                                          *)
(***************************************************************************)
EXTENDS Integers

CONSTANT ZoneSize    \* bytes in the zone

VARIABLE live        \* the granted ranges, records [ptr, size]

Inside(r) == /\ r.ptr >= 0
             /\ r.size > 0
             /\ r.ptr + r.size <= ZoneSize

Apart(r, q) == \/ r.ptr + r.size <= q.ptr
               \/ q.ptr + q.size <= r.ptr

Grant(r) ==
  /\ Inside(r)
  /\ \A q \in live : Apart(r, q)
  /\ live' = live \cup {r}

Release(r) == live' = live \ {r}

Init == live = {}

Next == \/ \E r \in live' : Grant(r)
        \/ \E r \in live : Release(r)

Spec == Init /\ [][Next]_live
=============================================================================
