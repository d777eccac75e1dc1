--------------------------- MODULE AllocatorProps ---------------------------
(***************************************************************************)
(* What should be true of the allocator of source/mem.c.                   *)
(***************************************************************************)
EXTENDS Allocator, FiniteSets

\* Every variable has the shape the code gives it.
TypeOK ==
  /\ DOMAIN block \subseteq Addr
  /\ block \in [DOMAIN block -> Header]
  /\ nextBlock \in Addr \cup {NULL}
  /\ pc \in Phase
  /\ call \in Call
  /\ DOMAIN held \subseteq Addr
  /\ held \in [DOMAIN held -> Nat]

\* Every block but the last ends where the next one begins, the last one ends
\* with the zone, no two blocks overlap.
Tiles(bs) ==
  /\ Base \in DOMAIN bs
  /\ \A b \in DOMAIN bs :
       /\ End(bs, b) <= ZoneSize
       /\ bs[b].next = NULL => End(bs, b) = ZoneSize
       /\ bs[b].next # NULL => /\ bs[b].next \in DOMAIN bs
                               /\ bs[b].next = End(bs, b)
  /\ \A a, b \in DOMAIN bs : a < b => End(bs, a) <= b

\* prev and next mirror each other, what DumpAllocator (mem.c:228-233) calls
\* FATAL when it fails.
LinksMirror(bs) ==
  \A b \in DOMAIN bs :
    /\ bs[b].next # NULL => bs[bs[b].next].prev = b
    /\ bs[b].prev = NULL <=> b = Base
    /\ bs[b].prev # NULL => /\ bs[b].prev \in DOMAIN bs
                            /\ bs[bs[b].prev].next = b

\* However calls of Alloc, Free and Realloc are mixed, the list walks the whole
\* zone in address order, without a gap and without an overlap, and can be
\* walked backwards as well.
ListTilesZone == Tiles(block) /\ LinksMirror(block)

\* The cursor, and the block where a search began, never point at a header
\* that a merge has taken out of the list.
CursorListed ==
  /\ nextBlock \in DOMAIN block \cup {NULL}
  /\ pc \in {"search", "move"} => call.start \in DOMAIN block \cup {NULL}

\* Between calls the used blocks are exactly the blocks that callers hold, and
\* each has the room its holder asked for; during Realloc the new block is the
\* only used block nobody holds yet.
HeldBlocksUsed ==
  /\ \A b \in DOMAIN held : /\ b \in DOMAIN block
                            /\ ~block[b].free
                            /\ held[b] <= block[b].size
  /\ \A b \in DOMAIN block :
       ~block[b].free => b \in DOMAIN held \/ (pc = "move" /\ b = call.new)

\* Realloc frees the old block before it searches, so the search may cut the
\* very block whose contents are still to be moved.  When the memmove starts,
\* no header of the list has been written over the bytes to be kept, and they
\* are as many as the smaller of the old size and the new request.
ReallocKeepsContents ==
  pc = "move" =>
    /\ \A b \in DOMAIN block : \/ b <= call.old
                               \/ b >= call.old + HeaderSize + MoveLen
    /\ MoveLen >= call.oldSize \/ MoveLen >= call.size

\* GetMemUsage (mem.c:203-216) counts every byte of the zone that no free block
\* has, and counts it once: its walk from base misses no used block, and no byte
\* is in no block.
InFreeBlock(bs, x) == \E b \in DOMAIN bs : bs[b].free /\ b <= x /\ x < End(bs, b)
UsageBalances ==
  MemUsage = Cardinality({x \in Base .. ZoneSize - 1 : ~InFreeBlock(block, x)})

\* Alloc returns NULL (and Realloc meets its NULL) only when no free block of
\* the whole list has room, wherever the cursor stood when the search began.
NullMeansFull ==
  [][(Searching /\ pc' \in {"idle", "exited", "fault"} /\ held' = held)
       => \A b \in DOMAIN block : ~Fits(block, b, call.size)]_vars

\* The byte ranges callers hold never overlap, never leave the zone, and never
\* move, grow or shrink until given back: mem.c implements the abstract heap.
Promise == INSTANCE Heap WITH
  live <- {[ptr |-> b + HeaderSize, size |-> held[b]] : b \in DOMAIN held}
HeapPromise == Promise!Spec

\* A search ends if it did not begin at base, or if some block has room.
SearchEnds ==
  (pc = "search" /\ (\/ call.start # Base
                     \/ \E b \in DOMAIN block : Fits(block, b, call.size)))
    ~> pc # "search"

-----------------------------------------------------------------------------
(* What the repository says of the allocator and the code does not do *)

\* SafeAlloc (mem.c:13-16) waits for a NULL and reports "Malloc returned NULL":
\* a call to Alloc that cannot be served comes back.
AllocAnswers == pc = "search" ~> pc # "search"
=============================================================================
