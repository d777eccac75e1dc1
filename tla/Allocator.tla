------------------------------ MODULE Allocator -----------------------------
(***************************************************************************)
(* The built-in memory allocator, source/mem.c compiled without            *)
(* N_SYS_ALLOC and N_REI_ALLOC: one zone, cut into blocks that form a      *)
(* doubly linked list, searched next-fit from a roving cursor.             *)
(*                                                                         *)
(* Addresses are offsets from the start of the zone.  A block is named by  *)
(* the address of its MemBlock header; its data begin HeaderSize further   *)
(* on (BLOCK_DATA), so the pointer a caller holds and the block's name     *)
(* determine each other (MEM_BLOCK).  The magic word is abstracted to      *)
(* "the header is in the list".                                            *)
(***************************************************************************)
EXTENDS Integers

CONSTANTS
  ZoneSize,      \* bytes in the zone (64 MiB in the code)
  HeaderSize,    \* sizeof(MemBlock) (24 on the -m32 build)
  MinLeftover,   \* MIN_LEFTOVER_SIZE (32 in the code)
  Requests       \* the sizes callers ask for; size 0 returns before any effect

ASSUME AllocatorAssumption ==
  /\ HeaderSize \in Nat \ {0}
  /\ MinLeftover \in Nat \ {0}
  /\ ZoneSize \in Nat
  /\ ZoneSize > HeaderSize
  /\ Requests \subseteq Nat \ {0}

VARIABLES
  block,      \* the list: header address -> header
  nextBlock,  \* the cursor, NULL when it has run off the list
  pc,         \* where the allocator is
  call,       \* the arguments and locals of the call being served
  held        \* what the callers own: block -> the size they asked for

vars == <<block, nextBlock, pc, call, held>>

NULL == -1
Base == 0
Addr == 0 .. ZoneSize - HeaderSize

Header == [size : 1 .. ZoneSize, free : BOOLEAN,
           prev : Addr \cup {NULL}, next : Addr \cup {NULL}]

(***************************************************************************)
(* "idle"    between calls                                                 *)
(* "search"  in the while loop of Alloc                                    *)
(* "move"    in Realloc, before its memmove                                *)
(* "exited"  after exit(1) or FreeAllocator                                *)
(* "fault"   after a load through an invalid pointer                       *)
(***************************************************************************)
Phase == {"idle", "search", "move", "exited", "fault"}

NoCall == [op |-> "none", size |-> 0, start |-> NULL,
           old |-> NULL, oldSize |-> 0, new |-> NULL]

Call == [op : {"none", "alloc", "safe", "realloc"}, size : Nat,
         start : Addr \cup {NULL}, old : Addr \cup {NULL},
         oldSize : 0 .. ZoneSize, new : Addr \cup {NULL}]

-----------------------------------------------------------------------------
(* Operations on the list *)

End(bs, b) == b + HeaderSize + bs[b].size    \* one past the block's last byte

\* Mutant: room for the header counted as room for data.
FitsWithHeader(bs, b, n) == bs[b].free /\ n <= bs[b].size + HeaderSize

\* Mutant: the test of the free flag is lost.
FitsUsed(bs, b, n) == n <= bs[b].size

Fits(bs, b, n) == bs[b].free /\ n <= bs[b].size

\* Mutant: MIN_LEFTOVER_SIZE is forgotten.
WorthSplittingAnyRest(bs, b, n) ==
  /\ n < bs[b].size
  /\ bs[b].size - n >= HeaderSize

WorthSplitting(bs, b, n) ==
  /\ n < bs[b].size
  /\ bs[b].size - n >= HeaderSize + MinLeftover

\* Cut block b after n bytes; the rest becomes a free block of its own.
Split(bs, b, n) ==
  LET rest == b + HeaderSize + n
      after == bs[b].next
  IN  [a \in DOMAIN bs \cup {rest} |->
         CASE a = b     -> [bs[b] EXCEPT !.size = n, !.free = FALSE, !.next = rest]
           [] a = rest  -> [size |-> bs[b].size - n - HeaderSize, free |-> TRUE,
                            prev |-> b, next |-> after]
           [] a = after -> [bs[a] EXCEPT !.prev = rest]
           [] OTHER     -> bs[a]]

\* Use block b for n bytes.
Take(bs, b, n) ==
  IF WorthSplitting(bs, b, n) THEN Split(bs, b, n)
                              ELSE [bs EXCEPT ![b].free = FALSE]

\* Mutant: the block after the absorbed one keeps its prev.
MergeNextKeepsPrev(bs, b) ==
  LET gone == bs[b].next
  IN  [a \in DOMAIN bs \ {gone} |->
         IF a = b THEN [bs[b] EXCEPT !.size = @ + bs[gone].size + HeaderSize,
                                     !.next = bs[gone].next]
                  ELSE bs[a]]

\* Mutant: the absorbed header is not added to the data.
MergeNextLosesHeader(bs, b) ==
  LET gone == bs[b].next
      after == bs[gone].next
  IN  [a \in DOMAIN bs \ {gone} |->
         CASE a = b     -> [bs[b] EXCEPT !.size = @ + bs[gone].size, !.next = after]
           [] a = after -> [bs[a] EXCEPT !.prev = b]
           [] OTHER     -> bs[a]]

\* Absorb the block after b.
MergeNext(bs, b) ==
  LET gone == bs[b].next
      after == bs[gone].next
  IN  [a \in DOMAIN bs \ {gone} |->
         CASE a = b     -> [bs[b] EXCEPT !.size = @ + bs[gone].size + HeaderSize,
                                         !.next = after]
           [] a = after -> [bs[a] EXCEPT !.prev = b]
           [] OTHER     -> bs[a]]

\* Mark b free and absorb a free block after it; never one before it.
Freed(bs, b) ==
  LET marked == [bs EXCEPT ![b].free = TRUE]
      after  == bs[b].next
  IN  IF after # NULL /\ marked[after].free THEN MergeNext(marked, b) ELSE marked

-----------------------------------------------------------------------------
(* The calls *)

\* Alloc, and SafeAlloc, which exits when Alloc returns NULL.  Realloc of a
\* NULL pointer is this call too.
Alloc(n, op) ==
  /\ pc = "idle"
  /\ pc' = "search"
  /\ call' = [NoCall EXCEPT !.op = op, !.size = n, !.start = nextBlock]
  /\ UNCHANGED <<block, nextBlock, held>>

\* Mutant: Free leaves the cursor where it was.
FreeKeepsCursor(b) ==
  /\ pc = "idle"
  /\ b \in DOMAIN held
  /\ block' = Freed(block, b)
  /\ held' = [a \in DOMAIN held \ {b} |-> held[a]]
  /\ UNCHANGED <<nextBlock, pc, call>>

\* Free, and Realloc to size 0, of a block the caller holds.
Free(b) ==
  /\ pc = "idle"
  /\ b \in DOMAIN held
  /\ block' = Freed(block, b)
  /\ nextBlock' = b
  /\ held' = [a \in DOMAIN held \ {b} |-> held[a]]
  /\ UNCHANGED <<pc, call>>

\* Mutant: Free also merges with a free block before it, as the lines of mem.c
\* commented out "until bug resolved" do.
ReallocMergingBack(b, n) ==
  LET before == block[b].prev
      back   == before # NULL /\ block[before].free
      from   == IF back THEN before ELSE b
  IN  /\ pc = "idle"
      /\ b \in DOMAIN held
      /\ block' = IF back THEN MergeNext(Freed(block, b), before)
                          ELSE Freed(block, b)
      /\ nextBlock' = from
      /\ held' = [a \in DOMAIN held \ {b} |-> held[a]]
      /\ call' = [op |-> "realloc", size |-> n, start |-> from,
                  old |-> b, oldSize |-> block[b].size, new |-> NULL]
      /\ pc' = "search"

\* Realloc frees the block first and only then looks for n bytes.
Realloc(b, n) ==
  /\ pc = "idle"
  /\ b \in DOMAIN held
  /\ block' = Freed(block, b)
  /\ nextBlock' = b
  /\ held' = [a \in DOMAIN held \ {b} |-> held[a]]
  /\ call' = [op |-> "realloc", size |-> n, start |-> b,
              old |-> b, oldSize |-> block[b].size, new |-> NULL]
  /\ pc' = "search"

\* Free or Realloc of a pointer whose header is not in the list ("Freeing
\* invalid block") or is marked free ("Double free", "Re-allocating freed
\* block"): exit(1).
RejectPointer(b) ==
  /\ pc = "idle"
  /\ b \in DOMAIN block => block[b].free
  /\ pc' = "exited"
  /\ UNCHANGED <<block, nextBlock, call, held>>

\* Free(NULL) reads a header below address zero.
FreeNull ==
  /\ pc = "idle"
  /\ pc' = "fault"
  /\ UNCHANGED <<block, nextBlock, call, held>>

\* FreeAllocator, at the end of main.
FreeAllocator ==
  /\ pc = "idle"
  /\ pc' = "exited"
  /\ UNCHANGED <<block, nextBlock, call, held>>

-----------------------------------------------------------------------------
(* The search of Alloc, one loop iteration at a time *)

Searching == pc = "search" /\ nextBlock # NULL

\* What a NULL from Alloc becomes: Realloc takes MEM_BLOCK of it, which is not
\* NULL, and reads the size field there.
AfterNull(op) == CASE op = "alloc"   -> "idle"
                   [] op = "safe"    -> "exited"
                   [] op = "realloc" -> "fault"

\* The loop condition reads through the cursor before anything checks it.
CursorFault ==
  /\ pc = "search" /\ nextBlock = NULL
  /\ pc' = "fault"
  /\ UNCHANGED <<block, nextBlock, call, held>>

\* Mutant: the search does not stop where it began.
AdvancePastStart ==
  /\ Searching
  /\ ~Fits(block, nextBlock, call.size)
  /\ block[nextBlock].next # NULL
  /\ nextBlock' = block[nextBlock].next
  /\ UNCHANGED <<block, pc, call, held>>

Advance ==
  /\ Searching
  /\ ~Fits(block, nextBlock, call.size)
  /\ block[nextBlock].next \notin {NULL, call.start}
  /\ nextBlock' = block[nextBlock].next
  /\ UNCHANGED <<block, pc, call, held>>

\* Mutant: the search gives up at the end of the list.
WrapAroundGivesUp ==
  /\ Searching
  /\ ~Fits(block, nextBlock, call.size)
  /\ block[nextBlock].next = NULL
  /\ nextBlock' = Base
  /\ pc' = AfterNull(call.op)
  /\ call' = IF call.op = "realloc" THEN call ELSE NoCall
  /\ UNCHANGED <<block, held>>

\* At the end of the list the cursor returns to base, and this branch of the
\* loop does not compare it with start.
WrapAround ==
  /\ Searching
  /\ ~Fits(block, nextBlock, call.size)
  /\ block[nextBlock].next = NULL
  /\ nextBlock' = Base
  /\ UNCHANGED <<block, pc, call, held>>

GiveUp ==
  /\ Searching
  /\ ~Fits(block, nextBlock, call.size)
  /\ block[nextBlock].next # NULL
  /\ block[nextBlock].next = call.start
  /\ nextBlock' = call.start
  /\ pc' = AfterNull(call.op)
  /\ call' = IF call.op = "realloc" THEN call ELSE NoCall
  /\ UNCHANGED <<block, held>>

\* Alloc found its block and returns it to the caller.
Found ==
  /\ Searching
  /\ call.op # "realloc"
  /\ Fits(block, nextBlock, call.size)
  /\ block' = Take(block, nextBlock, call.size)
  /\ nextBlock' = block'[nextBlock].next
  /\ held' = [a \in DOMAIN held \cup {nextBlock} |->
                IF a = nextBlock THEN call.size ELSE held[a]]
  /\ pc' = "idle"
  /\ call' = NoCall

\* Alloc found its block and returns it to Realloc.
FoundForRealloc ==
  /\ Searching
  /\ call.op = "realloc"
  /\ Fits(block, nextBlock, call.size)
  /\ block' = Take(block, nextBlock, call.size)
  /\ nextBlock' = block'[nextBlock].next
  /\ call' = [call EXCEPT !.new = nextBlock]
  /\ pc' = "move"
  /\ UNCHANGED held

\* Bytes the memmove of Realloc carries over (all stay in place if new = old).
MoveLen == IF call.oldSize > block[call.new].size THEN block[call.new].size
                                                  ELSE call.oldSize

Move ==
  /\ pc = "move"
  /\ held' = [a \in DOMAIN held \cup {call.new} |->
                IF a = call.new THEN call.size ELSE held[a]]
  /\ pc' = "idle"
  /\ call' = NoCall
  /\ UNCHANGED <<block, nextBlock>>

-----------------------------------------------------------------------------
(* GetMemUsage: the walk that adds up the used blocks *)

UsedFrom(bs) ==
  LET sum[b \in DOMAIN bs \cup {NULL}] ==
        IF b = NULL THEN 0
        ELSE (IF bs[b].free THEN 0 ELSE bs[b].size + HeaderSize) + sum[bs[b].next]
  IN  sum

MemUsage == UsedFrom(block)[Base]

-----------------------------------------------------------------------------
\* InitAllocator
Init ==
  /\ block = [b \in {Base} |-> [size |-> ZoneSize - HeaderSize, free |-> TRUE,
                                prev |-> NULL, next |-> NULL]]
  /\ nextBlock = Base
  /\ pc = "idle"
  /\ call = NoCall
  /\ held = [b \in {} |-> 0]

Caller ==
  \/ \E n \in Requests, op \in {"alloc", "safe"} : Alloc(n, op)
  \/ \E b \in DOMAIN held : Free(b)
  \/ \E b \in DOMAIN held, n \in Requests : Realloc(b, n)
  \/ \E b \in Addr : RejectPointer(b)
  \/ FreeNull
  \/ FreeAllocator

Step == CursorFault \/ Advance \/ WrapAround \/ GiveUp
        \/ Found \/ FoundForRealloc \/ Move

Next == Caller \/ Step

Spec == Init /\ [][Next]_vars

\* The program is one thread: a call, once begun, runs on.
FairSpec == Spec /\ WF_vars(Step)
=============================================================================
