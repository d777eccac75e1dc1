--------------------------- MODULE AllocatorProofs --------------------------
(***************************************************************************)
(* The safety of source/mem.c for every size of zone, header and request.  *)
(***************************************************************************)
EXTENDS AllocatorProps, FiniteSetTheorems, WellFoundedInduction, TLAPS

\* A list of blocks as mem.c keeps it.
WellFormed(bs) ==
  /\ DOMAIN bs \subseteq Addr
  /\ bs \in [DOMAIN bs -> Header]
  /\ Tiles(bs)
  /\ LinksMirror(bs)

-----------------------------------------------------------------------------
(* The operators on lists *)

\* A list that differs from bs in the free flag of block b alone.
MarkResult(new, bs, b, f) ==
  /\ WellFormed(new)
  /\ DOMAIN new = DOMAIN bs
  /\ \A a \in DOMAIN bs : /\ new[a].size = bs[a].size
                          /\ new[a].next = bs[a].next
                          /\ new[a].free = IF a = b THEN f ELSE bs[a].free

\* Setting the flag (mem.c:92, 145) yields that, a well formed list.
LEMMA Marking ==
  ASSUME NEW bs, WellFormed(bs), NEW b \in DOMAIN bs, NEW f \in BOOLEAN
  PROVE  MarkResult([bs EXCEPT ![b].free = f], bs, b, f)
  <1> DEFINE new == [bs EXCEPT ![b].free = f]
  <1>1. DOMAIN new = DOMAIN bs
    OBVIOUS
  <1>2. /\ DOMAIN bs \subseteq Addr
        /\ bs \in [DOMAIN bs -> Header]
    BY DEF WellFormed
  <1>3. new \in [DOMAIN new -> Header]
    BY <1>2 DEF Header
  <1>4. \A a \in DOMAIN bs : /\ new[a].size = bs[a].size
                             /\ new[a].next = bs[a].next
                             /\ new[a].prev = bs[a].prev
                             /\ new[a].free = IF a = b THEN f ELSE bs[a].free
    BY <1>2 DEF Header
  <1>5. Tiles(new)
    BY <1>1, <1>4 DEF WellFormed, Tiles, End
  <1>6. LinksMirror(new)
    BY <1>1, <1>4 DEF WellFormed, LinksMirror, Tiles
  <1> QED
    BY <1>1, <1>2, <1>3, <1>4, <1>5, <1>6 DEF WellFormed, MarkResult

\* What cutting block b yields, field by field (mem.c:98-109).
SplitResult(new, bs, b, n) ==
  LET rest == b + HeaderSize + n
  IN  /\ DOMAIN new = DOMAIN bs \cup {rest}
      /\ rest \notin DOMAIN bs
      /\ rest \in Addr
      /\ new[b] = [size |-> n, free |-> FALSE, prev |-> bs[b].prev, next |-> rest]
      /\ new[rest] = [size |-> bs[b].size - n - HeaderSize, free |-> TRUE,
                      prev |-> b, next |-> bs[b].next]
      /\ \A a \in DOMAIN bs \ {b} :
           new[a] = [size |-> bs[a].size, free |-> bs[a].free,
                     prev |-> IF a = bs[b].next THEN rest ELSE bs[a].prev,
                     next |-> bs[a].next]

\* Alloc cuts a block into exactly that.
LEMMA SplitFields ==
  ASSUME NEW bs, WellFormed(bs), NEW b \in DOMAIN bs, NEW n \in Nat \ {0},
         WorthSplitting(bs, b, n)
  PROVE  SplitResult(Split(bs, b, n), bs, b, n)
  <1> DEFINE new == Split(bs, b, n)
             rest == b + HeaderSize + n
  <1>1. /\ DOMAIN bs \subseteq Addr
        /\ bs \in [DOMAIN bs -> Header]
        /\ ZoneSize \in Nat /\ HeaderSize \in Nat \ {0} /\ MinLeftover \in Nat \ {0}
    BY AllocatorAssumption DEF WellFormed
  <1>2. /\ bs[b].size \in Nat /\ b \in Int /\ b >= 0
        /\ b + HeaderSize + bs[b].size <= ZoneSize
    BY <1>1 DEF WellFormed, Tiles, End, Header, Addr
  <1>3. /\ b < rest
        /\ rest < b + HeaderSize + bs[b].size
        /\ rest + HeaderSize < b + HeaderSize + bs[b].size
    BY <1>1, <1>2 DEF WorthSplitting
  <1>4. rest \in Addr
    BY <1>1, <1>2, <1>3 DEF Addr
  <1>5. rest \notin DOMAIN bs
    BY <1>1, <1>2, <1>3 DEF WellFormed, Tiles, End, Addr
  <1>6. DOMAIN new = DOMAIN bs \cup {rest}
    BY DEF Split
  <1>7. b # rest
    BY <1>1, <1>2, <1>3
  <1>8. bs[b].next # rest
    BY <1>1, <1>2, <1>3 DEF WellFormed, Tiles, End, NULL
  <1>9. bs[b].next # b
    BY <1>1, <1>2 DEF WellFormed, Tiles, End, NULL
  <1>10. new[b] = [size |-> n, free |-> FALSE, prev |-> bs[b].prev, next |-> rest]
    BY <1>1, <1>7, <1>9 DEF Split, Header
  <1>11. new[rest] = [size |-> bs[b].size - n - HeaderSize, free |-> TRUE,
                      prev |-> b, next |-> bs[b].next]
    BY <1>7, <1>8 DEF Split
  <1>12. ASSUME NEW a \in DOMAIN bs \ {b}
         PROVE  new[a] = [size |-> bs[a].size, free |-> bs[a].free,
                          prev |-> IF a = bs[b].next THEN rest ELSE bs[a].prev,
                          next |-> bs[a].next]
    <2>1. a # rest /\ a \in DOMAIN bs \cup {rest}
      BY <1>5
    <2>2. CASE a = bs[b].next
      <3>1. new[a] = [bs[a] EXCEPT !.prev = rest]
        BY <2>1, <2>2 DEF Split
      <3> QED
        BY <3>1, <2>2, <1>1 DEF Header
    <2>3. CASE a # bs[b].next
      <3>1. new[a] = bs[a]
        BY <2>1, <2>3 DEF Split
      <3> QED
        BY <3>1, <2>3, <1>1 DEF Header
    <2> QED
      BY <2>2, <2>3
  <1> QED
    BY <1>4, <1>5, <1>6, <1>10, <1>11, <1>12 DEF SplitResult

\* Cutting a block leaves a well formed list.
LEMMA SplitWell ==
  ASSUME NEW bs, WellFormed(bs), NEW b \in DOMAIN bs, NEW n \in Nat \ {0},
         WorthSplitting(bs, b, n)
  PROVE  WellFormed(Split(bs, b, n))
  <1> DEFINE new  == Split(bs, b, n)
             rest == b + HeaderSize + n
             after == bs[b].next
  <1>1. /\ DOMAIN bs \subseteq Addr
        /\ bs \in [DOMAIN bs -> Header]
        /\ ZoneSize \in Nat /\ HeaderSize \in Nat \ {0} /\ MinLeftover \in Nat \ {0}
        /\ \A a \in DOMAIN bs : a \in Nat /\ bs[a].size \in Nat
    BY AllocatorAssumption DEF WellFormed, Header, Addr
  <1>2. /\ DOMAIN new = DOMAIN bs \cup {rest}
        /\ rest \notin DOMAIN bs
        /\ rest \in Addr
        /\ new[b] = [size |-> n, free |-> FALSE, prev |-> bs[b].prev, next |-> rest]
        /\ new[rest] = [size |-> bs[b].size - n - HeaderSize, free |-> TRUE,
                        prev |-> b, next |-> after]
        /\ \A a \in DOMAIN bs \ {b} :
             new[a] = [size |-> bs[a].size, free |-> bs[a].free,
                       prev |-> IF a = after THEN rest ELSE bs[a].prev,
                       next |-> bs[a].next]
    <2>1. SplitResult(new, bs, b, n)
      BY SplitFields
    <2> QED
      BY <2>1 DEF SplitResult
  <1> HIDE DEF new
  <1>3. /\ b \in Nat /\ rest \in Nat /\ b < rest
        /\ rest + HeaderSize + (bs[b].size - n - HeaderSize) = End(bs, b)
        /\ rest < End(bs, b)
        /\ bs[b].size - n - HeaderSize \in 1 .. ZoneSize
        /\ n \in 1 .. ZoneSize
    <2>1. bs[b].size \in 1 .. ZoneSize
      BY <1>1 DEF Header
    <2> QED
      BY <1>1, <2>1 DEF WorthSplitting, End
  <1>4. /\ End(new, b) = rest
        /\ End(new, rest) = End(bs, b)
        /\ \A a \in DOMAIN bs \ {b} : End(new, a) = End(bs, a)
    BY <1>2, <1>3 DEF End
  <1>5. DOMAIN new \subseteq Addr
    BY <1>1, <1>2
  <1>6. new \in [DOMAIN new -> Header]
    <2>1. new = [a \in DOMAIN new |-> new[a]]
      BY DEF new, Split
    <2>2. new[b] \in Header
      BY <1>1, <1>2, <1>3 DEF Header
    <2>3. new[rest] \in Header
      <3>1. b \in Addr /\ after \in Addr \cup {NULL}
        BY <1>1 DEF Header
      <3> QED
        BY <3>1, <1>2, <1>3 DEF Header
    <2>4. ASSUME NEW a \in DOMAIN bs \ {b}
          PROVE  new[a] \in Header
      BY <1>1, <1>2 DEF Header
    <2> QED
      BY <2>1, <2>2, <2>3, <2>4, <1>2
  <1>7. Tiles(new)
    <2>1. Base \in DOMAIN new
      BY <1>2 DEF WellFormed, Tiles
    <2>2. ASSUME NEW a \in DOMAIN new
          PROVE  /\ End(new, a) <= ZoneSize
                 /\ new[a].next = NULL => End(new, a) = ZoneSize
                 /\ new[a].next # NULL => /\ new[a].next \in DOMAIN new
                                          /\ new[a].next = End(new, a)
      <3>1. CASE a = b
        <4>1. rest # NULL /\ rest <= ZoneSize
          BY <1>1, <1>2, <1>3 DEF NULL, Addr
        <4> QED
          BY <3>1, <4>1, <1>2, <1>4
      <3>2. CASE a = rest
        BY <3>2, <1>2, <1>4 DEF WellFormed, Tiles
      <3>3. CASE a \in DOMAIN bs \ {b}
        BY <3>3, <1>2, <1>4 DEF WellFormed, Tiles
      <3> QED
        BY <3>1, <3>2, <3>3, <1>2
    <2>3. ASSUME NEW a \in DOMAIN new, NEW c \in DOMAIN new, a < c
          PROVE  End(new, a) <= c
      <3>1. \A x, y \in DOMAIN bs : x < y => End(bs, x) <= y
        BY DEF WellFormed, Tiles
      <3>2. \A x \in DOMAIN bs : End(bs, x) \in Nat /\ End(bs, x) > x
        BY <1>1 DEF End
      <3>3. CASE a = rest /\ c = rest
        BY <3>3, <2>3, <1>3
      <3>4. CASE a = rest /\ c \in DOMAIN bs
        BY <3>4, <2>3, <3>1, <3>2, <1>1, <1>3, <1>4
      <3>5. CASE c = rest /\ a \in DOMAIN bs \ {b}
        BY <3>5, <2>3, <3>1, <3>2, <1>1, <1>3, <1>4
      <3>6. CASE c = rest /\ a = b
        BY <3>6, <1>3, <1>4
      <3>7. CASE a \in DOMAIN bs /\ c \in DOMAIN bs
        BY <3>7, <2>3, <3>1, <3>2, <1>1, <1>3, <1>4
      <3> QED
        BY <3>3, <3>4, <3>5, <3>6, <3>7, <1>2
    <2> QED
      BY <2>1, <2>2, <2>3 DEF Tiles
  <1>8. LinksMirror(new)
    <2>1. /\ \A a \in DOMAIN bs :
               /\ bs[a].next # NULL => /\ bs[a].next \in DOMAIN bs
                                       /\ bs[bs[a].next].prev = a
               /\ bs[a].prev = NULL <=> a = Base
               /\ bs[a].prev # NULL => /\ bs[a].prev \in DOMAIN bs
                                       /\ bs[bs[a].prev].next = a
          /\ Base \in DOMAIN bs
      BY DEF WellFormed, LinksMirror, Tiles
    <2>2. /\ rest # NULL /\ b # NULL /\ rest # b
          /\ NULL \notin DOMAIN bs
      BY <1>1, <1>3 DEF NULL, Addr
    <2>3. ASSUME NEW a \in DOMAIN new
          PROVE  /\ new[a].next # NULL => new[new[a].next].prev = a
                 /\ new[a].prev = NULL <=> a = Base
                 /\ new[a].prev # NULL => /\ new[a].prev \in DOMAIN new
                                          /\ new[new[a].prev].next = a
      <3>1. after # b
        BY <1>1, <2>2 DEF WellFormed, Tiles, End
      <3>2. CASE a = rest
        BY <3>2, <3>1, <2>1, <2>2, <1>2
      <3>3. CASE a = b
        <4>1. new[a].next = rest /\ new[rest].prev = b /\ new[a].prev = bs[b].prev
          BY <3>3, <1>2
        <4>2. bs[b].prev # NULL => bs[b].prev # b /\ bs[b].prev \in DOMAIN bs
          BY <2>1, <3>1
        <4> QED
          BY <3>3, <4>1, <4>2, <2>1, <1>2
      <3>4. CASE a \in DOMAIN bs \ {b, after}
        <4>1. new[a].next = bs[a].next /\ new[a].prev = bs[a].prev
          BY <3>4, <1>2
        <4>2. bs[a].next # NULL => bs[a].next # after \/ a = b
          BY <3>4, <2>1
        <4>3. bs[a].next # NULL => new[bs[a].next].prev = a
          BY <3>4, <4>2, <2>1, <1>2
        <4>4. bs[a].prev # NULL => bs[a].prev # b
          BY <3>4, <2>1
        <4> QED
          BY <3>4, <4>1, <4>3, <4>4, <2>1, <1>2
      <3>5. CASE a = after /\ a \in DOMAIN bs
        <4>1. new[a].next = bs[a].next /\ new[a].prev = rest
          BY <3>5, <3>1, <1>2
        <4>2. bs[a].prev = b
          BY <3>5, <2>1, <2>2
        <4>3. a # Base
          BY <4>2, <2>1, <2>2, <3>5
        <4>4. bs[a].next # NULL => bs[a].next # a /\ bs[a].next # b
          BY <3>5, <1>1, <1>3 DEF WellFormed, Tiles, End, NULL
        <4>5. bs[a].next # NULL => new[bs[a].next].prev = a
          BY <3>5, <4>4, <2>1, <1>2
        <4> QED
          BY <3>5, <4>1, <4>3, <4>5, <2>2, <1>2
      <3> QED
        BY <3>2, <3>3, <3>4, <3>5, <1>2
    <2> QED
      BY <2>3 DEF LinksMirror
  <1> QED
    BY <1>5, <1>6, <1>7, <1>8 DEF WellFormed, new

\* What absorbing the block after b yields, field by field (mem.c:119-124).
MergeResult(new, bs, b) ==
  LET gone  == bs[b].next
      after == bs[gone].next
  IN  /\ DOMAIN new = DOMAIN bs \ {gone}
      /\ new[b] = [size |-> bs[b].size + bs[gone].size + HeaderSize,
                   free |-> bs[b].free, prev |-> bs[b].prev, next |-> after]
      /\ \A a \in DOMAIN bs : a # b /\ a # gone =>
           new[a] = [size |-> bs[a].size, free |-> bs[a].free,
                     prev |-> IF a = after THEN b ELSE bs[a].prev,
                     next |-> bs[a].next]

\* MergeNext absorbs exactly that.
LEMMA MergeFields ==
  ASSUME NEW bs, WellFormed(bs), NEW b \in DOMAIN bs, bs[b].next # NULL
  PROVE  MergeResult(MergeNext(bs, b), bs, b)
  <1> DEFINE new == MergeNext(bs, b)
             gone == bs[b].next
             after == bs[gone].next
  <1>1. /\ DOMAIN bs \subseteq Addr
        /\ bs \in [DOMAIN bs -> Header]
        /\ ZoneSize \in Nat /\ HeaderSize \in Nat \ {0}
        /\ \A a \in DOMAIN bs : a \in Nat /\ bs[a].size \in Nat
    BY AllocatorAssumption DEF WellFormed, Header, Addr
  <1>2. /\ gone \in DOMAIN bs
        /\ gone = End(bs, b)
        /\ b < gone
    BY <1>1 DEF WellFormed, Tiles, End
  <1>3. after # b /\ gone # b
    BY <1>1, <1>2 DEF WellFormed, Tiles, End, NULL
  <1>4. DOMAIN new = DOMAIN bs \ {gone}
    BY DEF MergeNext
  <1>5. new[b] = [size |-> bs[b].size + bs[gone].size + HeaderSize,
                  free |-> bs[b].free, prev |-> bs[b].prev, next |-> after]
    BY <1>1, <1>3 DEF MergeNext, Header
  <1>6. ASSUME NEW a \in DOMAIN bs, a # b, a # gone
        PROVE  new[a] = [size |-> bs[a].size, free |-> bs[a].free,
                         prev |-> IF a = after THEN b ELSE bs[a].prev,
                         next |-> bs[a].next]
    <2>1. CASE a = after
      <3>1. new[a] = [bs[a] EXCEPT !.prev = b]
        BY <1>6, <2>1 DEF MergeNext
      <3> QED
        BY <1>6, <3>1, <2>1, <1>1 DEF Header
    <2>2. CASE a # after
      <3>1. new[a] = bs[a]
        BY <1>6, <2>2 DEF MergeNext
      <3> QED
        BY <1>6, <3>1, <2>2, <1>1 DEF Header
    <2> QED
      BY <2>1, <2>2
  <1> QED
    BY <1>4, <1>5, <1>6 DEF MergeResult

\* Absorbing a block leaves a well formed list.
LEMMA MergeWell ==
  ASSUME NEW bs, WellFormed(bs), NEW b \in DOMAIN bs, bs[b].next # NULL
  PROVE  WellFormed(MergeNext(bs, b))
  <1> DEFINE new == MergeNext(bs, b)
             gone == bs[b].next
             after == bs[gone].next
  <1>1. /\ DOMAIN bs \subseteq Addr
        /\ bs \in [DOMAIN bs -> Header]
        /\ ZoneSize \in Nat /\ HeaderSize \in Nat \ {0}
        /\ \A a \in DOMAIN bs : a \in Nat /\ bs[a].size \in Nat
    BY AllocatorAssumption DEF WellFormed, Header, Addr
  <1>2. /\ DOMAIN new = DOMAIN bs \ {gone}
        /\ new[b] = [size |-> bs[b].size + bs[gone].size + HeaderSize,
                     free |-> bs[b].free, prev |-> bs[b].prev, next |-> after]
        /\ \A a \in DOMAIN bs : a # b /\ a # gone =>
             new[a] = [size |-> bs[a].size, free |-> bs[a].free,
                       prev |-> IF a = after THEN b ELSE bs[a].prev,
                       next |-> bs[a].next]
    <2>1. MergeResult(new, bs, b)
      BY MergeFields
    <2> QED
      BY <2>1 DEF MergeResult
  <1>0. gone = bs[b].next /\ after = bs[gone].next /\ gone # NULL
    OBVIOUS
  <1> HIDE DEF new, gone, after
  <1>3. /\ gone \in DOMAIN bs
        /\ gone = End(bs, b)
        /\ b < gone /\ b # gone
        /\ b \in DOMAIN new
    BY <1>0, <1>1, <1>2 DEF WellFormed, Tiles, End
  <1>4. /\ End(new, b) = End(bs, gone)
        /\ \A a \in DOMAIN new \ {b} : End(new, a) = End(bs, a)
    <2>1. new[b].size = bs[b].size + bs[gone].size + HeaderSize
      BY <1>2
    <2>2. gone = b + HeaderSize + bs[b].size
      BY <1>3 DEF End
    <2>3. End(new, b) = End(bs, gone)
      BY <2>1, <2>2, <1>1, <1>3 DEF End
    <2>4. \A a \in DOMAIN new \ {b} : new[a].size = bs[a].size
      BY <1>2
    <2> QED
      BY <2>3, <2>4 DEF End
  <1>5. /\ \A a \in DOMAIN bs :
             /\ bs[a].next # NULL => /\ bs[a].next \in DOMAIN bs
                                     /\ bs[bs[a].next].prev = a
             /\ bs[a].prev = NULL <=> a = Base
             /\ bs[a].prev # NULL => /\ bs[a].prev \in DOMAIN bs
                                     /\ bs[bs[a].prev].next = a
        /\ Base \in DOMAIN bs
        /\ NULL \notin DOMAIN bs
    BY <1>1 DEF WellFormed, LinksMirror, Tiles, NULL, Addr
  <1>6. gone # Base /\ after # gone /\ after # b /\ bs[gone].prev = b
    BY <1>0, <1>1, <1>3, <1>5 DEF WellFormed, Tiles, End, NULL
  <1>11. after # NULL => /\ after \in DOMAIN bs
                         /\ new[after].prev = b
                         /\ new[after].next = bs[after].next
                         /\ bs[after].prev = gone
    <2> SUFFICES ASSUME after # NULL
                 PROVE  /\ after \in DOMAIN bs
                        /\ new[after].prev = b
                        /\ new[after].next = bs[after].next
                        /\ bs[after].prev = gone
      OBVIOUS
    <2>1. after \in DOMAIN bs /\ bs[after].prev = gone
      BY <1>0, <1>3, <1>5
    <2> QED
      BY <2>1, <1>2, <1>6
  <1>12. \A a \in DOMAIN bs : a \notin {b, gone, after} =>
            /\ new[a].next = bs[a].next
            /\ new[a].prev = bs[a].prev
    BY <1>2
  <1>13. \A a \in DOMAIN bs : bs[a].next = gone => a = b
    BY <1>5, <1>6, <1>0
  <1>7. new \in [DOMAIN new -> Header]
    <2>1. new = [a \in DOMAIN new |-> new[a]]
      BY DEF MergeNext, new, gone
    <2>2. new[b] \in Header
      <3>1. /\ bs[b].size + bs[gone].size + HeaderSize \in 1 .. ZoneSize
            /\ bs[b].free \in BOOLEAN
            /\ bs[b].prev \in Addr \cup {NULL}
            /\ after \in Addr \cup {NULL}
        <4>1. End(bs, gone) <= ZoneSize
          BY <1>3 DEF WellFormed, Tiles
        <4>2. bs[b].size >= 1
          BY <1>1 DEF Header
        <4>3. bs[b].size + bs[gone].size + HeaderSize \in 1 .. ZoneSize
          BY <4>1, <4>2, <1>1, <1>3 DEF End
        <4> QED
          BY <4>3, <1>0, <1>1, <1>3 DEF Header
      <3> QED
        BY <3>1, <1>2 DEF Header
    <2>3. ASSUME NEW a \in DOMAIN bs, a # b, a # gone
          PROVE  new[a] \in Header
      <3>1. b \in Addr
        BY <1>1
      <3> QED
        BY <2>3, <3>1, <1>1, <1>2 DEF Header
    <2> QED
      BY <2>1, <2>2, <2>3, <1>2
  <1>8. Tiles(new)
    <2>1. /\ \A x, y \in DOMAIN bs : x < y => End(bs, x) <= y
          /\ \A x \in DOMAIN bs : /\ End(bs, x) \in Nat
                                  /\ End(bs, x) > x
                                  /\ End(bs, x) <= ZoneSize
                                  /\ bs[x].next = NULL => End(bs, x) = ZoneSize
                                  /\ bs[x].next # NULL => bs[x].next = End(bs, x)
      BY <1>1 DEF End, WellFormed, Tiles
    <2>2. ASSUME NEW a \in DOMAIN new
          PROVE  /\ End(new, a) <= ZoneSize
                 /\ new[a].next = NULL => End(new, a) = ZoneSize
                 /\ new[a].next # NULL => /\ new[a].next \in DOMAIN new
                                          /\ new[a].next = End(new, a)
      <3>1. CASE a = b
        <4>1. new[a].next = after /\ End(new, a) = End(bs, gone)
          BY <3>1, <1>2, <1>4
        <4>2. /\ End(bs, gone) <= ZoneSize
              /\ after = NULL => End(bs, gone) = ZoneSize
              /\ after # NULL => after = End(bs, gone)
          BY <2>1, <1>0, <1>3
        <4>3. after # NULL => after \in DOMAIN new
          BY <1>2, <1>6, <1>11
        <4> QED
          BY <4>1, <4>2, <4>3
      <3>2. CASE a # b
        <4>1. new[a].next = bs[a].next /\ End(new, a) = End(bs, a)
          BY <3>2, <1>2, <1>4
        <4>2. bs[a].next # gone
          BY <3>2, <1>0, <1>2, <1>5, <1>6
        <4> QED
          BY <4>1, <4>2, <2>1, <1>0, <1>2, <1>5
      <3> QED
        BY <3>1, <3>2
    <2>3. ASSUME NEW a \in DOMAIN new, NEW c \in DOMAIN new, a < c
          PROVE  End(new, a) <= c
      <3>1. CASE a = b
        <4>1. gone < c
          BY <3>1, <2>3, <2>1, <1>1, <1>0, <1>2, <1>3
        <4> QED
          BY <3>1, <4>1, <2>1, <1>0, <1>2, <1>3, <1>4
      <3>2. CASE a # b
        BY <3>2, <2>3, <2>1, <1>0, <1>2, <1>4
      <3> QED
        BY <3>1, <3>2
    <2> QED
      BY <2>2, <2>3, <1>0, <1>2, <1>5, <1>6 DEF Tiles
  <1>9. LinksMirror(new)
    <2>1. ASSUME NEW a \in DOMAIN new
          PROVE  /\ new[a].next # NULL => new[new[a].next].prev = a
                 /\ new[a].prev = NULL <=> a = Base
                 /\ new[a].prev # NULL => /\ new[a].prev \in DOMAIN new
                                          /\ new[new[a].prev].next = a
      <3>1. CASE a = b
        <4>1. new[a].next = after /\ new[a].prev = bs[b].prev
          BY <3>1, <1>0, <1>2
        <4>2. bs[b].prev = NULL <=> b = Base
          BY <1>5
        <4>3. bs[b].prev # NULL =>
                /\ bs[b].prev \in DOMAIN new
                /\ new[bs[b].prev].next = b
          <5> SUFFICES ASSUME bs[b].prev # NULL
                       PROVE  /\ bs[b].prev \in DOMAIN new
                              /\ new[bs[b].prev].next = b
            OBVIOUS
          <5>1. /\ bs[b].prev \in DOMAIN bs
                /\ bs[bs[b].prev].next = b
            BY <1>5
          <5>2. bs[b].prev # b
            BY <5>1, <1>3, <1>0
          <5>3. bs[b].prev # gone
            BY <5>1, <1>6, <1>0
          <5> QED
            BY <5>1, <5>2, <5>3, <1>2
        <4>4. after # NULL => new[after].prev = b
          BY <1>11
        <4> QED
          BY <3>1, <4>1, <4>2, <4>3, <4>4
      <3>2. CASE a = after
        <4>1. new[a].next = bs[a].next /\ new[a].prev = b
          BY <3>2, <1>2, <1>6
        <4>2. a # Base /\ b # NULL
          BY <3>2, <1>0, <1>2, <1>3, <1>5
        <4>3. bs[a].next # NULL => bs[a].next \notin {a, b, gone}
          <5> SUFFICES ASSUME bs[a].next # NULL
                       PROVE  bs[a].next \notin {a, b, gone}
            OBVIOUS
          <5>1. a \in DOMAIN bs /\ gone < a /\ a < bs[a].next
            <6>1. a \in DOMAIN bs /\ a # NULL
              BY <3>2, <1>2, <1>5
            <6>2. a = End(bs, gone) /\ bs[a].next = End(bs, a)
              BY <6>1, <3>2, <1>0, <1>3 DEF WellFormed, Tiles
            <6> QED
              BY <6>1, <6>2, <1>1, <1>3 DEF End
          <5> QED
            BY <5>1, <1>1, <1>3
        <4>4. bs[a].next # NULL => new[bs[a].next].prev = a
          <5> SUFFICES ASSUME bs[a].next # NULL
                       PROVE  new[bs[a].next].prev = a
            OBVIOUS
          <5>1. bs[a].next \in DOMAIN bs /\ bs[bs[a].next].prev = a
            BY <3>2, <1>2, <1>5
          <5>2. bs[a].next \notin {b, gone, after}
            BY <3>2, <4>3
          <5> QED
            BY <5>1, <5>2, <1>12
        <4>5. new[b].next = after /\ b \in DOMAIN new
          BY <1>2, <1>3
        <4> QED
          BY <3>2, <4>1, <4>2, <4>4, <4>5
      <3>3. CASE a \notin {b, after}
        <4>1. new[a].next = bs[a].next /\ new[a].prev = bs[a].prev
          BY <3>3, <1>2
        <4>2. a \in DOMAIN bs /\ a # gone
          BY <1>2
        <4>3. bs[a].next # NULL => new[bs[a].next].prev = a
          <5> SUFFICES ASSUME bs[a].next # NULL
                       PROVE  new[bs[a].next].prev = a
            OBVIOUS
          <5>1. bs[a].next \in DOMAIN bs /\ bs[bs[a].next].prev = a
            BY <4>2, <1>5
          <5>2. bs[a].next # gone
            BY <4>2, <3>3, <1>13
          <5>3. bs[a].next # after
            BY <5>1, <4>2, <1>11
          <5>4. CASE bs[a].next = b
            BY <5>4, <5>1, <1>2
          <5>5. CASE bs[a].next # b
            BY <5>1, <5>2, <5>3, <5>5, <1>12
          <5> QED
            BY <5>4, <5>5
        <4>4. bs[a].prev # NULL => /\ bs[a].prev \in DOMAIN new
                                   /\ new[bs[a].prev].next = a
          <5> SUFFICES ASSUME bs[a].prev # NULL
                       PROVE  /\ bs[a].prev \in DOMAIN new
                              /\ new[bs[a].prev].next = a
            OBVIOUS
          <5>1. bs[a].prev \in DOMAIN bs /\ bs[bs[a].prev].next = a
            BY <4>2, <1>5
          <5>2. bs[a].prev # gone
            BY <5>1, <3>3, <1>0
          <5>3. bs[a].prev # b
            BY <5>1, <4>2, <1>0
          <5> QED
            BY <5>1, <5>2, <5>3, <1>2
        <4>5. bs[a].prev = NULL <=> a = Base
          BY <4>2, <1>5
        <4> QED
          BY <4>1, <4>3, <4>4, <4>5
      <3> QED
        BY <3>1, <3>2, <3>3
    <2> QED
      BY <2>1 DEF LinksMirror
  <1>10. DOMAIN new \subseteq Addr
    BY <1>1, <1>0, <1>2
  <1> QED
    BY <1>7, <1>8, <1>9, <1>10 DEF WellFormed, new

\* What Alloc does to the list once it has found block b: b is used and has the
\* room; every other block keeps its size and its flag; at most one block is
\* new, it is free, and begins where the n bytes end.
TakeResult(new, bs, b, n) ==
  /\ WellFormed(new)
  /\ DOMAIN bs \subseteq DOMAIN new
  /\ \A a \in DOMAIN new : a \notin DOMAIN bs => /\ a = b + HeaderSize + n
                                                 /\ new[a].free
                                                 /\ new[b].size = n
  /\ ~new[b].free /\ n <= new[b].size
  /\ \A a \in DOMAIN bs : a # b => /\ new[a].size = bs[a].size
                                   /\ new[a].free = bs[a].free

\* Taking a free block that is large enough does exactly that, whether or not
\* the rest is worth splitting off (mem.c:92-110).
LEMMA TakeOutcome ==
  ASSUME NEW bs, WellFormed(bs), NEW b \in DOMAIN bs, NEW n \in Nat \ {0},
         Fits(bs, b, n)
  PROVE  TakeResult(Take(bs, b, n), bs, b, n)
  <1>1. CASE WorthSplitting(bs, b, n)
    <2> DEFINE new == Split(bs, b, n)
    <2>1. Take(bs, b, n) = new
      BY <1>1 DEF Take
    <2>2. WellFormed(new)
      BY <1>1, SplitWell
    <2>3. SplitResult(new, bs, b, n)
      BY <1>1, SplitFields
    <2> HIDE DEF new
    <2>4. /\ DOMAIN new = DOMAIN bs \cup {b + HeaderSize + n}
          /\ new[b].size = n /\ new[b].free = FALSE
          /\ new[b + HeaderSize + n].free = TRUE
          /\ \A a \in DOMAIN bs \ {b} : /\ new[a].size = bs[a].size
                                        /\ new[a].free = bs[a].free
      BY <2>3 DEF SplitResult
    <2> QED
      BY <2>1, <2>2, <2>4 DEF TakeResult
  <1>2. CASE ~WorthSplitting(bs, b, n)
    <2> DEFINE new == [bs EXCEPT ![b].free = FALSE]
    <2>1. Take(bs, b, n) = new
      BY <1>2 DEF Take
    <2>2. /\ WellFormed(new)
          /\ DOMAIN new = DOMAIN bs
          /\ \A a \in DOMAIN bs :
               /\ new[a].size = bs[a].size
               /\ new[a].free = IF a = b THEN FALSE ELSE bs[a].free
      <3>1. MarkResult(new, bs, b, FALSE)
        BY Marking
      <3> QED
        BY <3>1 DEF MarkResult
    <2> HIDE DEF new
    <2>3. ~new[b].free /\ n <= new[b].size
      BY <2>2 DEF Fits
    <2> QED
      BY <2>1, <2>2, <2>3 DEF TakeResult
  <1> QED
    BY <1>1, <1>2

\* What Free does to the list: b is free and at least as large as before; every
\* other block keeps its size and its flag, but for a free one that b may have
\* absorbed.
FreeResult(new, bs, b) ==
  /\ WellFormed(new)
  /\ b \in DOMAIN new
  /\ DOMAIN new \subseteq DOMAIN bs
  /\ \A a \in DOMAIN bs : a \notin DOMAIN new => bs[a].free
  /\ new[b].free /\ bs[b].size <= new[b].size
  /\ \A a \in DOMAIN new : a # b => /\ new[a].size = bs[a].size
                                    /\ new[a].free = bs[a].free

\* Freeing a used block does exactly that (mem.c:145-148).
LEMMA FreeOutcome ==
  ASSUME NEW bs, WellFormed(bs), NEW b \in DOMAIN bs
  PROVE  FreeResult(Freed(bs, b), bs, b)
  <1> DEFINE marked == [bs EXCEPT ![b].free = TRUE]
             gone   == bs[b].next
  <1>1. /\ WellFormed(marked)
        /\ DOMAIN marked = DOMAIN bs
        /\ \A a \in DOMAIN bs : /\ marked[a].size = bs[a].size
                                /\ marked[a].next = bs[a].next
                                /\ marked[a].free = IF a = b THEN TRUE ELSE bs[a].free
    <2>1. MarkResult(marked, bs, b, TRUE)
      BY Marking
    <2> QED
      BY <2>1 DEF MarkResult
  <1>5. gone = bs[b].next
    OBVIOUS
  <1> HIDE DEF marked
  <1>2. /\ gone # NULL => gone \in DOMAIN bs
        /\ gone # b
        /\ b \in Nat /\ HeaderSize \in Nat
        /\ \A a \in DOMAIN bs : bs[a].size \in Nat
    BY AllocatorAssumption DEF WellFormed, Tiles, End, Header, Addr, NULL
  <1> HIDE DEF gone
  <1>3. CASE gone # NULL /\ marked[gone].free
    <2> DEFINE new == MergeNext(marked, b)
    <2>1. Freed(bs, b) = new
      BY <1>3 DEF Freed, marked, gone
    <2>2. marked[b].next = gone /\ gone # NULL
      BY <1>1, <1>3, <1>5
    <2>3. WellFormed(new)
      BY <1>1, <2>2, MergeWell
    <2>4. MergeResult(new, marked, b)
      BY <1>1, <2>2, MergeFields
    <2> HIDE DEF new
    <2>5. /\ DOMAIN new = DOMAIN bs \ {gone}
          /\ new[b].size = bs[b].size + bs[gone].size + HeaderSize
          /\ new[b].free = marked[b].free
          /\ \A a \in DOMAIN bs : a # b /\ a # gone =>
               new[a].size = marked[a].size /\ new[a].free = marked[a].free
      <3>1. /\ DOMAIN new = DOMAIN marked \ {gone}
            /\ new[b] = [size |-> marked[b].size + marked[gone].size + HeaderSize,
                         free |-> marked[b].free, prev |-> marked[b].prev,
                         next |-> marked[gone].next]
            /\ \A a \in DOMAIN marked : a # b /\ a # gone =>
                 /\ new[a].size = marked[a].size
                 /\ new[a].free = marked[a].free
        BY <2>2, <2>4 DEF MergeResult
      <3>2. marked[b].size = bs[b].size /\ marked[gone].size = bs[gone].size
        BY <1>1, <1>2, <2>2
      <3> QED
        BY <3>1, <3>2, <1>1
    <2>6. bs[b].size <= new[b].size
      BY <1>2, <1>3, <2>5
    <2>7. bs[gone].free
      BY <1>1, <1>2, <1>3
    <2>8. \A a \in DOMAIN new : a # b => /\ new[a].size = bs[a].size
                                         /\ new[a].free = bs[a].free
      BY <1>1, <2>5
    <2>9. b \in DOMAIN new /\ new[b].free
      BY <1>1, <1>2, <2>5
    <2>10. \A a \in DOMAIN bs : a \notin DOMAIN new => bs[a].free
      BY <2>5, <2>7
    <2>11. DOMAIN new \subseteq DOMAIN bs
      BY <2>5
    <2> QED
      BY <2>1, <2>3, <2>6, <2>8, <2>9, <2>10, <2>11 DEF FreeResult
  <1>4. CASE ~(gone # NULL /\ marked[gone].free)
    <2>1. Freed(bs, b) = marked
      BY <1>4 DEF Freed, marked, gone
    <2> QED
      <3>1. marked[b].free
        BY <1>1
      <3>2. bs[b].size <= marked[b].size
        <4>1. marked[b].size = bs[b].size
          BY <1>1
        <4> QED
          BY <4>1, <1>2
      <3> QED
        BY <2>1, <3>1, <3>2, <1>1 DEF FreeResult
  <1> QED
    BY <1>3, <1>4

-----------------------------------------------------------------------------
(* The inductive invariant *)

\* The blocks the search has been at: from start up to the cursor, round the
\* end of the list if it has wrapped.
Passed(b) == IF call.start <= nextBlock
               THEN call.start <= b /\ b < nextBlock
               ELSE call.start <= b \/ b < nextBlock

SearchInv ==
  pc = "search" =>
    /\ call.start = NULL <=> nextBlock = NULL
    /\ \A b \in DOMAIN block : Passed(b) => ~Fits(block, b, call.size)
    /\ call.op = "realloc" => /\ call.old \in DOMAIN block
                              /\ call.oldSize <= block[call.old].size

MoveInv ==
  pc = "move" => /\ call.new \in DOMAIN block
                 /\ ~block[call.new].free
                 /\ call.new \notin DOMAIN held
                 /\ call.size <= block[call.new].size

SizesInv == /\ pc \in {"search", "move"} => call.size > 0 /\ call.op # "none"
            /\ \A b \in DOMAIN held : held[b] > 0

IInv ==
  /\ TypeOK
  /\ ListTilesZone
  /\ CursorListed
  /\ HeldBlocksUsed
  /\ ReallocKeepsContents
  /\ SearchInv
  /\ MoveInv
  /\ SizesInv

\* The list of the current state is well formed, and its addresses and sizes
\* are numbers.
LEMMA Numbers ==
  ASSUME IInv
  PROVE  /\ WellFormed(block)
         /\ ZoneSize \in Nat /\ HeaderSize \in Nat \ {0}
         /\ Addr \subseteq Nat /\ NULL = -1 /\ NULL \notin Addr /\ Base = 0
         /\ nextBlock \in Int /\ call.start \in Int /\ call.size \in Nat
         /\ call.old \in Int /\ call.oldSize \in Nat /\ call.new \in Int
         /\ \A b \in DOMAIN block : /\ b \in Nat
                                    /\ block[b].size \in Nat
                                    /\ block[b].free \in BOOLEAN
                                    /\ block[b].next \in Addr \cup {NULL}
         /\ \A b \in DOMAIN held : held[b] \in Nat /\ b \in DOMAIN block
  <1>1. /\ ZoneSize \in Nat /\ HeaderSize \in Nat \ {0}
        /\ Addr \subseteq Nat /\ NULL = -1 /\ NULL \notin Addr /\ Base = 0
    BY AllocatorAssumption DEF Addr, NULL, Base
  <1>2. WellFormed(block)
    BY DEF IInv, TypeOK, ListTilesZone, WellFormed
  <1>3. nextBlock \in Int
    BY <1>1 DEF IInv, TypeOK
  <1>4. call \in Call
    BY DEF IInv, TypeOK
  <1>5. /\ call.start \in Int /\ call.size \in Nat
        /\ call.old \in Int /\ call.oldSize \in Nat /\ call.new \in Int
    <2>1. /\ call.start \in Addr \cup {NULL} /\ call.size \in Nat
          /\ call.old \in Addr \cup {NULL} /\ call.oldSize \in 0 .. ZoneSize
          /\ call.new \in Addr \cup {NULL}
      BY <1>4 DEF Call
    <2>2. \A x \in Addr \cup {NULL} : x \in Int
      BY <1>1
    <2>3. \A x \in 0 .. ZoneSize : x \in Nat
      BY <1>1
    <2> QED
      BY <2>1, <2>2, <2>3
  <1>6. \A b \in DOMAIN block : /\ b \in Nat
                                /\ block[b].size \in Nat
                                /\ block[b].free \in BOOLEAN
                                /\ block[b].next \in Addr \cup {NULL}
    BY <1>1, <1>2 DEF WellFormed, Header
  <1>7. \A b \in DOMAIN held : held[b] \in Nat /\ b \in DOMAIN block
    BY DEF IInv, TypeOK, HeldBlocksUsed
  <1> QED
    BY <1>1, <1>2, <1>3, <1>5, <1>6, <1>7

\* Alloc, up to its loop.
LEMMA AllocStep ==
  ASSUME IInv, NEW n \in Requests, NEW op \in {"alloc", "safe"}, Alloc(n, op)
  PROVE  IInv'
  <1>1. /\ pc' = "search"
        /\ call' = [op |-> op, size |-> n, start |-> nextBlock,
                    old |-> NULL, oldSize |-> 0, new |-> NULL]
        /\ block' = block /\ nextBlock' = nextBlock /\ held' = held
    BY DEF Alloc, NoCall
  <1>2. n \in Nat \ {0}
    BY AllocatorAssumption
  <1>3. TypeOK'
    <2>1. call' \in Call
      <3>1. nextBlock \in Addr \cup {NULL} /\ 0 \in 0 .. ZoneSize
        BY Numbers DEF IInv, TypeOK
      <3> QED
        BY <1>1, <1>2, <3>1 DEF Call
    <2> QED
      BY <1>1, <2>1 DEF IInv, TypeOK, Phase
  <1>4. ListTilesZone' /\ HeldBlocksUsed'
    BY <1>1 DEF IInv, ListTilesZone, Tiles, LinksMirror, End, HeldBlocksUsed, Alloc
  <1>5. CursorListed'
    BY <1>1 DEF IInv, CursorListed
  <1>6. ReallocKeepsContents' /\ MoveInv'
    BY <1>1 DEF ReallocKeepsContents, MoveInv
  <1>7. SearchInv'
    <2>1. call'.start = nextBlock /\ call'.op # "realloc"
      BY <1>1
    <2>2. \A b \in DOMAIN block : ~(nextBlock <= b /\ b < nextBlock)
      BY Numbers
    <2>3. nextBlock <= nextBlock
      BY Numbers
    <2>4. \A b \in DOMAIN block' : ~Passed(b)'
      BY <1>1, <2>1, <2>2, <2>3 DEF Passed
    <2> QED
      BY <1>1, <2>1, <2>4 DEF SearchInv
  <1>8. SizesInv'
    BY <1>1, <1>2 DEF IInv, SizesInv
  <1> QED
    BY <1>3, <1>4, <1>5, <1>6, <1>7, <1>8 DEF IInv

\* The part of Free and Realloc that gives block b back.
LEMMA ReleaseStep ==
  ASSUME IInv, NEW b \in DOMAIN held, pc = "idle",
         block' = Freed(block, b),
         nextBlock' = b,
         held' = [a \in DOMAIN held \ {b} |-> held[a]]
  PROVE  /\ FreeResult(block', block, b)
         /\ DOMAIN block' \subseteq Addr /\ block' \in [DOMAIN block' -> Header]
         /\ DOMAIN held' \subseteq Addr /\ held' \in [DOMAIN held' -> Nat]
         /\ nextBlock' \in DOMAIN block' /\ nextBlock' \in Addr
         /\ ListTilesZone'
         /\ pc' # "move" => HeldBlocksUsed'
         /\ \A a \in DOMAIN held' : held'[a] > 0
  <1>1. WellFormed(block) /\ b \in DOMAIN block
    BY Numbers
  <1>2. FreeResult(block', block, b)
    BY <1>1, FreeOutcome
  <1>3. /\ WellFormed(block')
        /\ b \in DOMAIN block'
        /\ DOMAIN block' \subseteq DOMAIN block
        /\ \A a \in DOMAIN block : a \notin DOMAIN block' => block[a].free
        /\ block'[b].free
        /\ \A a \in DOMAIN block' : a # b => /\ block'[a].size = block[a].size
                                             /\ block'[a].free = block[a].free
    BY <1>2 DEF FreeResult
  <1>4. DOMAIN held' \subseteq Addr /\ held' \in [DOMAIN held' -> Nat]
    BY DEF IInv, TypeOK
  <1>5. ListTilesZone' /\ DOMAIN block' \subseteq Addr /\ block' \in [DOMAIN block' -> Header]
    BY <1>3 DEF WellFormed, ListTilesZone, Tiles, LinksMirror, End
  <1>6. ASSUME pc' # "move" PROVE HeldBlocksUsed'
    <2>1. \A a \in DOMAIN held' : a \in DOMAIN held /\ a # b /\ held'[a] = held[a]
      OBVIOUS
    <2>2. \A a \in DOMAIN held : /\ a \in DOMAIN block
                                 /\ ~block[a].free
                                 /\ held[a] <= block[a].size
      BY DEF IInv, HeldBlocksUsed
    <2>3. \A a \in DOMAIN block : ~block[a].free => a \in DOMAIN held
      BY DEF IInv, HeldBlocksUsed
    <2>4. \A a \in DOMAIN held' : /\ a \in DOMAIN block'
                                  /\ ~block'[a].free
                                  /\ held'[a] <= block'[a].size
      BY <1>3, <2>1, <2>2
    <2>5. \A a \in DOMAIN block' : ~block'[a].free => a \in DOMAIN held'
      BY <1>3, <2>3
    <2> QED
      BY <2>4, <2>5 DEF HeldBlocksUsed
  <1>7. \A a \in DOMAIN held' : held'[a] > 0
    BY DEF IInv, SizesInv
  <1> QED
    BY <1>1, <1>2, <1>3, <1>4, <1>5, <1>6, <1>7

\* Free of a held block.
LEMMA FreeStep ==
  ASSUME IInv, NEW b \in DOMAIN held, Free(b)
  PROVE  IInv'
  <1>1. /\ pc = "idle" /\ pc' = "idle" /\ call' = call
        /\ block' = Freed(block, b)
        /\ nextBlock' = b
        /\ held' = [a \in DOMAIN held \ {b} |-> held[a]]
    BY DEF Free
  <1>2. /\ DOMAIN block' \subseteq Addr /\ block' \in [DOMAIN block' -> Header]
        /\ DOMAIN held' \subseteq Addr /\ held' \in [DOMAIN held' -> Nat]
        /\ nextBlock' \in DOMAIN block' /\ nextBlock' \in Addr
        /\ ListTilesZone'
        /\ HeldBlocksUsed'
        /\ \A a \in DOMAIN held' : held'[a] > 0
    BY <1>1, ReleaseStep
  <1>3. TypeOK'
    BY <1>1, <1>2 DEF IInv, TypeOK
  <1>4. CursorListed' /\ ReallocKeepsContents' /\ SearchInv' /\ MoveInv' /\ SizesInv'
    BY <1>1, <1>2 DEF CursorListed, ReallocKeepsContents, SearchInv, MoveInv, SizesInv
  <1> QED
    BY <1>2, <1>3, <1>4 DEF IInv

\* Realloc of a held block, up to the loop of Alloc.
LEMMA ReallocStep ==
  ASSUME IInv, NEW b \in DOMAIN held, NEW n \in Requests, Realloc(b, n)
  PROVE  IInv'
  <1>1. /\ pc = "idle" /\ pc' = "search"
        /\ call' = [op |-> "realloc", size |-> n, start |-> b,
                    old |-> b, oldSize |-> block[b].size, new |-> NULL]
        /\ block' = Freed(block, b)
        /\ nextBlock' = b
        /\ held' = [a \in DOMAIN held \ {b} |-> held[a]]
    BY DEF Realloc
  <1>2. /\ FreeResult(block', block, b)
        /\ DOMAIN block' \subseteq Addr /\ block' \in [DOMAIN block' -> Header]
        /\ DOMAIN held' \subseteq Addr /\ held' \in [DOMAIN held' -> Nat]
        /\ nextBlock' \in DOMAIN block' /\ nextBlock' \in Addr
        /\ ListTilesZone'
        /\ HeldBlocksUsed'
        /\ \A a \in DOMAIN held' : held'[a] > 0
    BY <1>1, ReleaseStep
  <1>3. n \in Nat \ {0}
    BY AllocatorAssumption
  <1>4. b \in DOMAIN block'
    BY <1>1, <1>2
  <1>5. b \in Addr /\ block[b].size \in 0 .. ZoneSize
    <2>1. block[b].size \in 1 .. ZoneSize
      BY Numbers DEF IInv, TypeOK, Header
    <2> QED
      BY <1>1, <1>2, <2>1, AllocatorAssumption
  <1>6. call' \in Call
    BY <1>1, <1>3, <1>5 DEF Call
  <1>7. TypeOK'
    BY <1>1, <1>2, <1>6 DEF TypeOK, Phase
  <1>8. CursorListed' /\ ReallocKeepsContents' /\ MoveInv'
    BY <1>1, <1>2 DEF CursorListed, ReallocKeepsContents, MoveInv
  <1>9. SearchInv'
    <2>1. call'.start = b /\ call'.old = b /\ call'.oldSize = block[b].size
      BY <1>1
    <2>2. b \in Nat /\ b # NULL
      BY <1>5, Numbers
    <2>3. \A a \in DOMAIN block' : ~Passed(a)'
      <3>1. \A a \in DOMAIN block' : ~(b <= a /\ a < b)
        BY <1>2, <2>2, Numbers
      <3> QED
        BY <1>1, <2>1, <2>2, <3>1 DEF Passed
    <2>4. block[b].size <= block'[b].size
      BY <1>2 DEF FreeResult
    <2> QED
      BY <1>1, <1>4, <2>1, <2>2, <2>3, <2>4 DEF SearchInv
  <1>10. SizesInv'
    BY <1>1, <1>2, <1>3 DEF SizesInv
  <1> QED
    BY <1>2, <1>7, <1>8, <1>9, <1>10 DEF IInv

\* A step after which no call is under way, and which changes nothing else.
LEMMA StopStep ==
  ASSUME IInv, pc' \in {"exited", "fault"}, pc # "move",
         UNCHANGED <<block, nextBlock, call, held>>
  PROVE  IInv'
  <1>1. TypeOK'
    BY DEF IInv, TypeOK, Phase
  <1>2. ListTilesZone' /\ HeldBlocksUsed'
    BY DEF IInv, ListTilesZone, Tiles, LinksMirror, End, HeldBlocksUsed
  <1>3. CursorListed' /\ ReallocKeepsContents' /\ SearchInv' /\ MoveInv' /\ SizesInv'
    BY DEF IInv, CursorListed, ReallocKeepsContents, SearchInv, MoveInv, SizesInv
  <1> QED
    BY <1>1, <1>2, <1>3 DEF IInv

\* One more iteration of the loop of Alloc, whichever branch it takes: the block
\* under the cursor does not fit, and the cursor comes to a listed block.
LEMMA IterateStep ==
  ASSUME IInv, Searching, pc' = "search",
         ~Fits(block, nextBlock, call.size),
         UNCHANGED <<block, call, held>>,
         \/ /\ block[nextBlock].next \notin {NULL, call.start}
            /\ nextBlock' = block[nextBlock].next
         \/ /\ block[nextBlock].next = NULL
            /\ nextBlock' = Base
  PROVE  IInv'
  <1>1. /\ pc = "search" /\ nextBlock # NULL /\ call.start # NULL
        /\ nextBlock \in DOMAIN block /\ call.start \in DOMAIN block
    BY DEF Searching, IInv, SearchInv, CursorListed
  <1>2. /\ nextBlock' \in DOMAIN block /\ nextBlock' # NULL
    BY <1>1, Numbers DEF IInv, ListTilesZone, Tiles
  <1>3. TypeOK'
    BY <1>1, <1>2, Numbers DEF IInv, TypeOK, WellFormed
  <1>4. ListTilesZone' /\ HeldBlocksUsed'
    BY <1>1 DEF IInv, ListTilesZone, Tiles, LinksMirror, End, HeldBlocksUsed
  <1>5. CursorListed'
    BY <1>1, <1>2 DEF CursorListed
  <1>6. ReallocKeepsContents' /\ MoveInv'
    BY DEF ReallocKeepsContents, MoveInv
  <1>7. SizesInv'
    BY <1>1 DEF IInv, SizesInv
  <1>8. ASSUME NEW a \in DOMAIN block, Passed(a)'
        PROVE  ~Fits(block, a, call.size)
    <2>1. \A c \in DOMAIN block : Passed(c) => ~Fits(block, c, call.size)
      BY <1>1 DEF IInv, SearchInv
    <2>2. /\ a \in Nat /\ nextBlock \in Nat /\ call.start \in Nat
          /\ End(block, nextBlock) \in Nat /\ nextBlock < End(block, nextBlock)
          /\ HeaderSize \in Nat \ {0} /\ ZoneSize \in Nat
      BY <1>1, Numbers DEF End
    <2>3. \A c, d \in DOMAIN block : c < d => End(block, c) <= d
      BY DEF IInv, ListTilesZone, Tiles
    <2>4. \A d \in DOMAIN block : nextBlock < d => End(block, nextBlock) <= d
      BY <1>1, <2>3
    <2>5. Passed(a) \/ a = nextBlock
      <3>1. CASE nextBlock' = block[nextBlock].next
                 /\ block[nextBlock].next \notin {NULL, call.start}
        <4>1. nextBlock' = End(block, nextBlock) /\ nextBlock' # call.start
          BY <1>1, <3>1 DEF IInv, ListTilesZone, Tiles
        <4>2. \/ a <= nextBlock
              \/ nextBlock' <= a
          BY <2>2, <2>4, <4>1
        <4>3. \/ call.start <= nextBlock
              \/ nextBlock' <= call.start
          BY <1>1, <2>2, <2>4, <4>1
        <4>4. IF call.start <= nextBlock'
                THEN call.start <= a /\ a < nextBlock'
                ELSE call.start <= a \/ a < nextBlock'
          BY <1>8 DEF Passed
        <4> QED
          BY <2>2, <4>1, <4>2, <4>3, <4>4 DEF Passed
      <3>2. CASE nextBlock' = Base /\ block[nextBlock].next = NULL
        <4>1. End(block, nextBlock) = ZoneSize
          BY <1>1, <3>2 DEF IInv, ListTilesZone, Tiles
        <4>2. \A d \in DOMAIN block : d < ZoneSize
          <5>1. \A d \in DOMAIN block : d \in Addr
            BY DEF IInv, TypeOK
          <5> QED
            BY <5>1, <2>2 DEF Addr
        <4>3. a <= nextBlock /\ call.start <= nextBlock
          BY <1>1, <2>2, <2>4, <4>1, <4>2
        <4>4. IF call.start <= Base
                THEN call.start <= a /\ a < Base
                ELSE call.start <= a \/ a < Base
          BY <1>8, <3>2 DEF Passed
        <4> QED
          BY <2>2, <4>3, <4>4, Numbers DEF Passed
      <3> QED
        BY <3>1, <3>2
    <2> QED
      BY <2>1, <2>5
  <1>9. SearchInv'
    <2>1. \A a \in DOMAIN block : Passed(a)' => ~Fits(block, a, call.size)
      BY <1>8
    <2>2. \A a \in DOMAIN block' : Passed(a)' => ~Fits(block', a, call'.size)
      BY <2>1
    <2>3. call.op = "realloc" => /\ call.old \in DOMAIN block
                                 /\ call.oldSize <= block[call.old].size
      BY <1>1 DEF IInv, SearchInv
    <2> QED
      BY <1>1, <1>2, <2>2, <2>3 DEF SearchInv
  <1> QED
    BY <1>3, <1>4, <1>5, <1>6, <1>7, <1>9 DEF IInv

\* The search comes to an end without a block: no block of the list fits.
LEMMA GiveUpMeansFull ==
  ASSUME IInv, GiveUp
  PROVE  \A b \in DOMAIN block : ~Fits(block, b, call.size)
  <1>1. /\ pc = "search" /\ nextBlock # NULL
        /\ nextBlock \in DOMAIN block
        /\ ~Fits(block, nextBlock, call.size)
        /\ block[nextBlock].next # NULL
        /\ block[nextBlock].next = call.start
    BY DEF GiveUp, Searching, IInv, CursorListed
  <1>2. call.start = End(block, nextBlock)
    BY <1>1 DEF IInv, ListTilesZone, Tiles
  <1>3. \A d \in DOMAIN block : nextBlock < d => End(block, nextBlock) <= d
    BY <1>1 DEF IInv, ListTilesZone, Tiles
  <1>4. nextBlock \in Nat /\ call.start \in Nat /\ nextBlock < call.start
    BY <1>1, <1>2, Numbers DEF End
  <1>5. ASSUME NEW b \in DOMAIN block PROVE Passed(b) \/ b = nextBlock
    <2>1. b \in Nat
      BY Numbers
    <2>2. b <= nextBlock \/ call.start <= b
      BY <1>2, <1>3, <1>4, <2>1
    <2> QED
      BY <1>4, <2>1, <2>2 DEF Passed
  <1> QED
    BY <1>1, <1>5 DEF IInv, SearchInv

\* GiveUp itself.
LEMMA GiveUpStep ==
  ASSUME IInv, GiveUp
  PROVE  IInv'
  <1>1. /\ pc = "search" /\ pc' \in {"idle", "exited", "fault"}
        /\ nextBlock' = call.start
        /\ call' \in {call, NoCall}
        /\ block' = block /\ held' = held
    <2>1. call.op \in {"none", "alloc", "safe", "realloc"}
      BY DEF IInv, TypeOK, Call
    <2>2. call.op # "none"
      BY DEF IInv, SizesInv, GiveUp, Searching
    <2> QED
      BY <2>1, <2>2 DEF GiveUp, Searching, AfterNull
  <1>2. nextBlock' \in DOMAIN block \cup {NULL} /\ nextBlock' \in Addr \cup {NULL}
    BY <1>1 DEF IInv, CursorListed, TypeOK, Call
  <1>3. NoCall \in Call
    BY AllocatorAssumption DEF NoCall, Call
  <1>4. TypeOK'
    BY <1>1, <1>2, <1>3 DEF IInv, TypeOK, Phase
  <1>5. ListTilesZone' /\ HeldBlocksUsed'
    BY <1>1 DEF IInv, ListTilesZone, Tiles, LinksMirror, End, HeldBlocksUsed
  <1>6. CursorListed' /\ ReallocKeepsContents' /\ SearchInv' /\ MoveInv' /\ SizesInv'
    BY <1>1, <1>2 DEF IInv, CursorListed, ReallocKeepsContents, SearchInv, MoveInv, SizesInv
  <1> QED
    BY <1>4, <1>5, <1>6 DEF IInv

\* The part of Found and FoundForRealloc that takes the block.
LEMMA FindStep ==
  ASSUME IInv, Searching,
         Fits(block, nextBlock, call.size),
         block' = Take(block, nextBlock, call.size),
         nextBlock' = block'[nextBlock].next
  PROVE  /\ nextBlock \in DOMAIN block
         /\ TakeResult(block', block, nextBlock, call.size)
         /\ ListTilesZone'
         /\ DOMAIN block' \subseteq Addr /\ block' \in [DOMAIN block' -> Header]
         /\ nextBlock' \in DOMAIN block' \cup {NULL}
         /\ nextBlock' \in Addr \cup {NULL}
         /\ nextBlock \notin DOMAIN held
         /\ call.size \in Nat \ {0}
         /\ \A b \in DOMAIN held : /\ b \in DOMAIN block'
                                   /\ ~block'[b].free
                                   /\ held[b] <= block'[b].size
         /\ \A b \in DOMAIN block' : ~block'[b].free => b \in DOMAIN held \/ b = nextBlock
  <1>1. nextBlock \in DOMAIN block /\ pc = "search"
    BY DEF IInv, Searching, CursorListed
  <1>2. call.size \in Nat \ {0}
    BY <1>1, Numbers DEF IInv, SizesInv
  <1>3. TakeResult(block', block, nextBlock, call.size)
    BY <1>1, <1>2, Numbers, TakeOutcome
  <1>4. /\ WellFormed(block')
        /\ DOMAIN block \subseteq DOMAIN block'
        /\ \A a \in DOMAIN block' : a \notin DOMAIN block => block'[a].free
        /\ \A a \in DOMAIN block : a # nextBlock => /\ block'[a].size = block[a].size
                                                    /\ block'[a].free = block[a].free
    BY <1>3 DEF TakeResult
  <1>5. ListTilesZone' /\ DOMAIN block' \subseteq Addr /\ block' \in [DOMAIN block' -> Header]
    BY <1>4 DEF WellFormed, ListTilesZone, Tiles, LinksMirror, End
  <1>6. nextBlock' \in DOMAIN block' \cup {NULL} /\ nextBlock' \in Addr \cup {NULL}
    <2>1. block'[nextBlock].next # NULL => block'[nextBlock].next \in DOMAIN block'
      BY <1>1, <1>4 DEF WellFormed, Tiles
    <2> QED
      BY <2>1, <1>5
  <1>7. /\ \A b \in DOMAIN held : /\ b \in DOMAIN block
                                  /\ ~block[b].free
                                  /\ held[b] <= block[b].size
        /\ \A b \in DOMAIN block : ~block[b].free => b \in DOMAIN held
    BY <1>1 DEF IInv, HeldBlocksUsed
  <1>8. nextBlock \notin DOMAIN held
    BY <1>7 DEF Fits
  <1>9. \A b \in DOMAIN held : /\ b \in DOMAIN block'
                               /\ ~block'[b].free
                               /\ held[b] <= block'[b].size
    BY <1>4, <1>7, <1>8
  <1>10. \A b \in DOMAIN block' : ~block'[b].free => b \in DOMAIN held \/ b = nextBlock
    BY <1>4, <1>7
  <1> QED
    BY <1>1, <1>2, <1>3, <1>5, <1>6, <1>8, <1>9, <1>10

\* Alloc returns a block to its caller.
LEMMA FoundStep ==
  ASSUME IInv, Found
  PROVE  IInv'
  <1>1. /\ Searching /\ pc' = "idle" /\ call' = NoCall
        /\ Fits(block, nextBlock, call.size)
        /\ block' = Take(block, nextBlock, call.size)
        /\ nextBlock' = block'[nextBlock].next
        /\ held' = [a \in DOMAIN held \cup {nextBlock} |->
                      IF a = nextBlock THEN call.size ELSE held[a]]
    BY DEF Found
  <1>2. /\ nextBlock \in DOMAIN block
        /\ TakeResult(block', block, nextBlock, call.size)
        /\ ListTilesZone'
        /\ DOMAIN block' \subseteq Addr /\ block' \in [DOMAIN block' -> Header]
        /\ nextBlock' \in DOMAIN block' \cup {NULL}
        /\ nextBlock' \in Addr \cup {NULL}
        /\ nextBlock \notin DOMAIN held
        /\ call.size \in Nat \ {0}
        /\ \A b \in DOMAIN held : /\ b \in DOMAIN block'
                                  /\ ~block'[b].free
                                  /\ held[b] <= block'[b].size
        /\ \A b \in DOMAIN block' : ~block'[b].free => b \in DOMAIN held \/ b = nextBlock
    BY <1>1, FindStep
  <1>3. nextBlock \in DOMAIN block' /\ ~block'[nextBlock].free /\ call.size <= block'[nextBlock].size
    BY <1>2 DEF TakeResult
  <1>4. NoCall \in Call
    BY AllocatorAssumption DEF NoCall, Call
  <1>5. TypeOK'
    <2>1. DOMAIN held' \subseteq Addr
      BY <1>1, <1>2, <1>3 DEF IInv, TypeOK
    <2>2. held' \in [DOMAIN held' -> Nat]
      BY <1>1, <1>2 DEF IInv, TypeOK
    <2> QED
      BY <1>1, <1>2, <1>4, <2>1, <2>2 DEF TypeOK, Phase
  <1>6. HeldBlocksUsed'
    <2>1. \A b \in DOMAIN held' : /\ b \in DOMAIN block'
                                  /\ ~block'[b].free
                                  /\ held'[b] <= block'[b].size
      BY <1>1, <1>2, <1>3
    <2>2. \A b \in DOMAIN block' : ~block'[b].free => b \in DOMAIN held'
      BY <1>1, <1>2
    <2> QED
      BY <2>1, <2>2 DEF HeldBlocksUsed
  <1>7. CursorListed' /\ ReallocKeepsContents' /\ SearchInv' /\ MoveInv'
    BY <1>1, <1>2 DEF CursorListed, ReallocKeepsContents, SearchInv, MoveInv
  <1>8. SizesInv'
    <2>1. \A b \in DOMAIN held' : held'[b] > 0
      BY <1>1, <1>2 DEF IInv, SizesInv
    <2> QED
      BY <1>1, <2>1 DEF SizesInv
  <1> QED
    BY <1>2, <1>5, <1>6, <1>7, <1>8 DEF IInv

\* Alloc returns a block to Realloc.  When the search has cut the old block, the
\* cut is behind the bytes that will be moved.
LEMMA FoundForReallocStep ==
  ASSUME IInv, FoundForRealloc
  PROVE  IInv'
  <1>1. /\ Searching /\ pc' = "move" /\ held' = held
        /\ call.op = "realloc"
        /\ call' = [call EXCEPT !.new = nextBlock]
        /\ Fits(block, nextBlock, call.size)
        /\ block' = Take(block, nextBlock, call.size)
        /\ nextBlock' = block'[nextBlock].next
    BY DEF FoundForRealloc
  <1>2. /\ nextBlock \in DOMAIN block
        /\ TakeResult(block', block, nextBlock, call.size)
        /\ ListTilesZone'
        /\ DOMAIN block' \subseteq Addr /\ block' \in [DOMAIN block' -> Header]
        /\ nextBlock' \in DOMAIN block' \cup {NULL}
        /\ nextBlock' \in Addr \cup {NULL}
        /\ nextBlock \notin DOMAIN held
        /\ call.size \in Nat \ {0}
        /\ \A b \in DOMAIN held : /\ b \in DOMAIN block'
                                  /\ ~block'[b].free
                                  /\ held[b] <= block'[b].size
        /\ \A b \in DOMAIN block' : ~block'[b].free => b \in DOMAIN held \/ b = nextBlock
    BY <1>1, FindStep
  <1>3. /\ nextBlock \in DOMAIN block'
        /\ ~block'[nextBlock].free
        /\ call.size <= block'[nextBlock].size
        /\ DOMAIN block \subseteq DOMAIN block'
        /\ \A a \in DOMAIN block' : a \notin DOMAIN block =>
             /\ a = nextBlock + HeaderSize + call.size
             /\ block'[nextBlock].size = call.size
    BY <1>2 DEF TakeResult
  <1>4. /\ call'.op = call.op /\ call'.size = call.size /\ call'.start = call.start
        /\ call'.old = call.old /\ call'.oldSize = call.oldSize /\ call'.new = nextBlock
        /\ call' \in Call
    BY <1>1, <1>2 DEF IInv, TypeOK, Call
  <1>5. pc = "search" /\ call.start \in DOMAIN block'
    <2>1. pc = "search" /\ nextBlock # NULL
      BY <1>1 DEF Searching
    <2>2. call.start \in DOMAIN block
      BY <2>1 DEF IInv, CursorListed, SearchInv
    <2> QED
      BY <1>3, <2>1, <2>2
  <1>6. TypeOK'
    BY <1>1, <1>2, <1>4 DEF IInv, TypeOK, Phase
  <1>7. HeldBlocksUsed'
    BY <1>1, <1>2, <1>4 DEF HeldBlocksUsed
  <1>8. CursorListed' /\ SearchInv' /\ MoveInv'
    BY <1>1, <1>2, <1>3, <1>4, <1>5 DEF CursorListed, SearchInv, MoveInv
  <1>9. SizesInv'
    BY <1>1, <1>4, <1>5 DEF IInv, SizesInv
  <1>10. ReallocKeepsContents'
    <2> DEFINE len == MoveLen'
    <2>1. /\ call.old \in DOMAIN block
          /\ call.oldSize <= block[call.old].size
      BY <1>1, <1>5 DEF IInv, SearchInv
    <2>2. /\ len \in Nat /\ len <= call.oldSize /\ len <= block'[nextBlock].size
          /\ len >= call.oldSize \/ len >= call.size
      <3>1. len = IF call.oldSize > block'[nextBlock].size
                    THEN block'[nextBlock].size ELSE call.oldSize
        BY <1>4 DEF MoveLen
      <3>2. block'[nextBlock].size \in 1 .. ZoneSize
        BY <1>2, <1>3 DEF Header
      <3> HIDE DEF len
      <3> QED
        BY <3>1, <3>2, <1>2, <1>3, Numbers
    <2> HIDE DEF len
    <2>3. ASSUME NEW b \in DOMAIN block'
          PROVE  b <= call.old \/ b >= call.old + HeaderSize + len
      <3>1. /\ \A c \in DOMAIN block : call.old < c => End(block, call.old) <= c
            /\ \A c \in DOMAIN block : c < call.old => End(block, c) <= call.old
        BY <2>1 DEF IInv, ListTilesZone, Tiles
      <3>2. /\ call.old \in Nat /\ block[call.old].size \in Nat /\ nextBlock \in Nat
            /\ block[nextBlock].size \in Nat
            /\ HeaderSize \in Nat \ {0} /\ call.oldSize \in Nat
        BY <1>2, <2>1, Numbers
      <3>3. End(block, call.old) >= call.old + HeaderSize + len
        BY <2>1, <2>2, <3>2 DEF End
      <3>4. CASE b \in DOMAIN block
        <4>1. b \in Nat
          BY <3>4, Numbers
        <4>2. End(block, call.old) \in Nat
          BY <3>2 DEF End
        <4> QED
          BY <2>2, <3>1, <3>2, <3>3, <3>4, <4>1, <4>2
      <3>5. CASE b \notin DOMAIN block
        <4>1. b = nextBlock + HeaderSize + call.size /\ block'[nextBlock].size = call.size
          BY <1>3, <3>5
        <4>2. CASE nextBlock = call.old
          BY <1>2, <2>2, <3>2, <4>1, <4>2
        <4>3. CASE call.old < nextBlock
          BY <1>2, <2>2, <3>1, <3>2, <3>3, <4>1, <4>3 DEF End
        <4>4. CASE nextBlock < call.old
          <5>1. End(block, nextBlock) <= call.old
            BY <1>2, <3>1, <4>4
          <5>2. call.size <= block[nextBlock].size
            BY <1>1 DEF Fits
          <5> QED
            BY <1>2, <3>2, <4>1, <5>1, <5>2 DEF End
        <4> QED
          BY <3>2, <4>2, <4>3, <4>4
      <3> QED
        BY <3>4, <3>5
    <2>4. \A b \in DOMAIN block' : \/ b <= call'.old
                                   \/ b >= call'.old + HeaderSize + len
      BY <1>4, <2>3
    <2>5. len >= call'.oldSize \/ len >= call'.size
      BY <1>4, <2>2
    <2> QED
      BY <2>4, <2>5 DEF ReallocKeepsContents, len
  <1> QED
    BY <1>2, <1>6, <1>7, <1>8, <1>9, <1>10 DEF IInv

\* The memmove of Realloc, and its return.
LEMMA MoveStep ==
  ASSUME IInv, Move
  PROVE  IInv'
  <1>1. /\ pc = "move" /\ pc' = "idle" /\ call' = NoCall
        /\ block' = block /\ nextBlock' = nextBlock
        /\ held' = [a \in DOMAIN held \cup {call.new} |->
                      IF a = call.new THEN call.size ELSE held[a]]
    BY DEF Move
  <1>2. /\ call.new \in DOMAIN block /\ ~block[call.new].free
        /\ call.new \notin DOMAIN held
        /\ call.size <= block[call.new].size
        /\ call.size > 0 /\ call.size \in Nat
    BY <1>1, Numbers DEF IInv, MoveInv, SizesInv
  <1>3. NoCall \in Call
    BY AllocatorAssumption DEF NoCall, Call
  <1>4. TypeOK'
    <2>1. DOMAIN held' \subseteq Addr
      BY <1>1, <1>2 DEF IInv, TypeOK
    <2>2. held' \in [DOMAIN held' -> Nat]
      BY <1>1, <1>2 DEF IInv, TypeOK
    <2> QED
      BY <1>1, <1>3, <2>1, <2>2 DEF IInv, TypeOK, Phase
  <1>5. ListTilesZone'
    BY <1>1 DEF IInv, ListTilesZone, Tiles, LinksMirror, End
  <1>6. HeldBlocksUsed'
    BY <1>1, <1>2 DEF IInv, HeldBlocksUsed
  <1>7. CursorListed' /\ ReallocKeepsContents' /\ SearchInv' /\ MoveInv'
    BY <1>1 DEF IInv, CursorListed, ReallocKeepsContents, SearchInv, MoveInv
  <1>8. SizesInv'
    BY <1>1, <1>2 DEF IInv, SizesInv
  <1> QED
    BY <1>4, <1>5, <1>6, <1>7, <1>8 DEF IInv

-----------------------------------------------------------------------------
(* The theorems *)

\* InitAllocator establishes the invariant.
LEMMA InitInv ==
  ASSUME Init
  PROVE  IInv
  <1>1. /\ DOMAIN block = {Base}
        /\ block[Base] = [size |-> ZoneSize - HeaderSize, free |-> TRUE,
                          prev |-> NULL, next |-> NULL]
        /\ block = [b \in {Base} |-> block[b]]
        /\ nextBlock = Base /\ pc = "idle" /\ call = NoCall
        /\ DOMAIN held = {} /\ held = [b \in {} |-> 0]
    BY DEF Init
  <1>2. Base \in Addr /\ ZoneSize - HeaderSize \in 1 .. ZoneSize /\ Base = 0
    BY AllocatorAssumption DEF Base, Addr
  <1>3. block[Base] \in Header
    BY <1>1, <1>2 DEF Header
  <1>4. NoCall \in Call
    BY AllocatorAssumption DEF NoCall, Call
  <1>5. TypeOK
    <2>1. block \in [DOMAIN block -> Header]
      BY <1>1, <1>3
    <2>2. DOMAIN held \subseteq Addr /\ held \in [DOMAIN held -> Nat]
      BY <1>1
    <2> QED
      BY <1>1, <1>2, <1>4, <2>1, <2>2 DEF TypeOK, Phase
  <1>6. ListTilesZone
    <2>1. End(block, Base) = ZoneSize
      BY <1>1, <1>2, AllocatorAssumption DEF End
    <2>2. Tiles(block)
      BY <1>1, <1>2, <2>1, AllocatorAssumption DEF Tiles
    <2>3. LinksMirror(block)
      BY <1>1 DEF LinksMirror
    <2> QED
      BY <2>2, <2>3 DEF ListTilesZone
  <1>7. CursorListed /\ HeldBlocksUsed /\ ReallocKeepsContents
    BY <1>1 DEF CursorListed, HeldBlocksUsed, ReallocKeepsContents
  <1>8. SearchInv /\ MoveInv /\ SizesInv
    BY <1>1 DEF SearchInv, MoveInv, SizesInv
  <1> QED
    BY <1>5, <1>6, <1>7, <1>8 DEF IInv

\* Every step of the allocator and of its callers keeps the invariant.
LEMMA NextInv ==
  ASSUME IInv, [Next]_vars
  PROVE  IInv'
  <1>1. ASSUME NEW n \in Requests, NEW op \in {"alloc", "safe"}, Alloc(n, op) PROVE IInv'
    BY <1>1, AllocStep
  <1>2. ASSUME NEW b \in DOMAIN held, Free(b) PROVE IInv'
    BY <1>2, FreeStep
  <1>3. ASSUME NEW b \in DOMAIN held, NEW n \in Requests, Realloc(b, n) PROVE IInv'
    BY <1>3, ReallocStep
  <1>4. ASSUME NEW b \in Addr, RejectPointer(b) PROVE IInv'
    BY <1>4, StopStep DEF RejectPointer
  <1>5. CASE FreeNull \/ FreeAllocator \/ CursorFault
    BY <1>5, StopStep DEF FreeNull, FreeAllocator, CursorFault
  <1>6. CASE Advance \/ WrapAround
    <2>1. pc' = "search"
      BY <1>6 DEF Advance, WrapAround, Searching
    <2> QED
      BY <1>6, <2>1, IterateStep DEF Advance, WrapAround
  <1>7. CASE GiveUp
    BY <1>7, GiveUpStep
  <1>8. CASE Found
    BY <1>8, FoundStep
  <1>9. CASE FoundForRealloc
    BY <1>9, FoundForReallocStep
  <1>10. CASE Move
    BY <1>10, MoveStep
  <1>11. CASE UNCHANGED vars
    BY <1>11 DEF vars, IInv, TypeOK, ListTilesZone, Tiles, LinksMirror, End,
       CursorListed, HeldBlocksUsed, ReallocKeepsContents, MoveLen, SearchInv,
       Passed, Fits, MoveInv, SizesInv
  <1> QED
    BY <1>1, <1>2, <1>3, <1>4, <1>5, <1>6, <1>7, <1>8, <1>9, <1>10, <1>11
       DEF Next, Caller, Step

\* The invariant holds in every state the allocator reaches.
THEOREM Invariance == Spec => []IInv
  <1> QED
    BY InitInv, NextInv, PTL DEF Spec

\* Type correctness.
THEOREM TypeCorrect == Spec => []TypeOK
  <1>1. IInv => TypeOK
    BY DEF IInv
  <1> QED
    BY <1>1, Invariance, PTL

\* Whatever is allocated, freed and reallocated, in whatever order and however
\* large, the block list tiles the zone and is linked both ways.
THEOREM ZoneTiled == Spec => []ListTilesZone
  <1>1. IInv => ListTilesZone
    BY DEF IInv
  <1> QED
    BY <1>1, Invariance, PTL

\* The cursor is never left on a header that a merge has removed.
THEOREM CursorSafe == Spec => []CursorListed
  <1>1. IInv => CursorListed
    BY DEF IInv
  <1> QED
    BY <1>1, Invariance, PTL

\* The used blocks are the blocks callers hold, each with the room asked for.
THEOREM HeldSafe == Spec => []HeldBlocksUsed
  <1>1. IInv => HeldBlocksUsed
    BY DEF IInv
  <1> QED
    BY <1>1, Invariance, PTL

\* Realloc, which frees before it searches, still moves intact contents.
THEOREM ContentsKept == Spec => []ReallocKeepsContents
  <1>1. IInv => ReallocKeepsContents
    BY DEF IInv
  <1> QED
    BY <1>1, Invariance, PTL

\* A search that gives up has been at every block.
LEMMA NullStep ==
  ASSUME IInv, [Next]_vars
  PROVE  [(Searching /\ pc' \in {"idle", "exited", "fault"} /\ held' = held)
            => \A b \in DOMAIN block : ~Fits(block, b, call.size)]_vars
  <1> SUFFICES ASSUME Next, Searching, pc' \in {"idle", "exited", "fault"}, held' = held
               PROVE  \A b \in DOMAIN block : ~Fits(block, b, call.size)
    BY DEF vars
  <1>1. pc = "search" /\ nextBlock # NULL
    BY DEF Searching
  <1>2. ~Found
    <2> SUFFICES ASSUME Found PROVE FALSE
      OBVIOUS
    <2>1. nextBlock \in DOMAIN held'
      BY DEF Found
    <2>2. nextBlock \in DOMAIN block /\ block[nextBlock].free
      BY <1>1 DEF Found, Fits, IInv, CursorListed
    <2>3. \A b \in DOMAIN held : ~block[b].free
      BY DEF IInv, HeldBlocksUsed
    <2> QED
      BY <2>1, <2>2, <2>3
  <1>3. GiveUp
    BY <1>1, <1>2 DEF Next, Caller, Step, Alloc, Free, Realloc, RejectPointer, FreeNull,
       FreeAllocator, CursorFault, Advance, WrapAround, FoundForRealloc, Move
  <1> QED
    BY <1>3, GiveUpMeansFull

\* Alloc answers NULL only when no block of the whole list has room.
THEOREM NullIsHonest == Spec => NullMeansFull
  <1> QED
    BY Invariance, NullStep, PTL DEF Spec, NullMeansFull

-----------------------------------------------------------------------------
(* The allocator implements the abstract heap *)

Live == {[ptr |-> b + HeaderSize, size |-> held[b]] : b \in DOMAIN held}

\* A newly held block lies in the zone, apart from every other held block.
LEMMA GrantStep ==
  ASSUME IInv, IInv', NEW c \in Addr \ DOMAIN held, NEW n \in Nat \ {0},
         held' = [a \in DOMAIN held \cup {c} |-> IF a = c THEN n ELSE held[a]]
  PROVE  \E r \in Live' : Promise!Grant(r)
  <1> DEFINE r == [ptr |-> c + HeaderSize, size |-> n]
  <1>1. Live' = Live \cup {r}
    <2>1. Live' = {[ptr |-> b + HeaderSize, size |-> held'[b]] : b \in DOMAIN held \cup {c}}
      BY DEF Live
    <2>2. \A b \in DOMAIN held : held'[b] = held[b]
      OBVIOUS
    <2>3. held'[c] = n
      OBVIOUS
    <2> QED
      BY <2>1, <2>2, <2>3 DEF Live
  <1>2. \A b \in DOMAIN held \cup {c} :
          /\ b \in DOMAIN block' /\ b \in Nat
          /\ block'[b].size \in Nat
          /\ held'[b] <= block'[b].size
          /\ held'[b] \in Nat
          /\ End(block', b) <= ZoneSize
    <2>1. \A b \in DOMAIN held' : /\ b \in DOMAIN block'
                                  /\ held'[b] <= block'[b].size
                                  /\ held'[b] \in Nat
      BY DEF IInv, HeldBlocksUsed, TypeOK
    <2>2. DOMAIN held' = DOMAIN held \cup {c}
      OBVIOUS
    <2>3. \A b \in DOMAIN block' : End(block', b) <= ZoneSize
      BY DEF IInv, ListTilesZone, Tiles
    <2>4. \A b \in DOMAIN block' : b \in Nat /\ block'[b].size \in Nat
      <3>1. DOMAIN block' \subseteq Addr /\ block' \in [DOMAIN block' -> Header]
        BY DEF IInv, TypeOK
      <3> QED
        BY <3>1, AllocatorAssumption DEF Header, Addr
    <2> QED
      BY <2>1, <2>2, <2>3, <2>4
  <1>3. held'[c] = n /\ \A b \in DOMAIN held : held'[b] = held[b]
    OBVIOUS
  <1>4. Promise!Inside(r)
    <2>1. c + HeaderSize + block'[c].size <= ZoneSize
      BY <1>2 DEF End
    <2> QED
      BY <1>2, <1>3, <2>1, AllocatorAssumption DEF Promise!Inside
  <1>5. ASSUME NEW q \in Live PROVE Promise!Apart(r, q)
    <2>1. PICK b \in DOMAIN held : q = [ptr |-> b + HeaderSize, size |-> held[b]]
      BY DEF Live
    <2>2. b # c
      OBVIOUS
    <2>3. /\ b < c => End(block', b) <= c
          /\ c < b => End(block', c) <= b
      BY <1>2 DEF IInv, ListTilesZone, Tiles
    <2>4. /\ b \in Nat /\ block'[b].size \in Nat /\ held[b] \in Nat /\ held[b] <= block'[b].size
          /\ c \in Nat /\ block'[c].size \in Nat /\ n <= block'[c].size
          /\ HeaderSize \in Nat
      BY <1>2, <1>3, AllocatorAssumption
    <2> QED
      BY <2>1, <2>2, <2>3, <2>4 DEF Promise!Apart, End
  <1>6. r \in Live'
    BY <1>1
  <1>7. Promise!Grant(r)
    BY <1>1, <1>4, <1>5 DEF Promise!Grant, Live
  <1> QED
    BY <1>6, <1>7

\* A block given back is one held range less.
LEMMA ReleasedRange ==
  ASSUME IInv, NEW b \in DOMAIN held,
         held' = [a \in DOMAIN held \ {b} |-> held[a]]
  PROVE  \E r \in Live : Promise!Release(r)
  <1> DEFINE r == [ptr |-> b + HeaderSize, size |-> held[b]]
  <1>1. r \in Live
    BY DEF Live
  <1>2. Live' = {[ptr |-> a + HeaderSize, size |-> held[a]] : a \in DOMAIN held \ {b}}
    BY DEF Live
  <1>3. ASSUME NEW a \in DOMAIN held \ {b}
        PROVE  [ptr |-> a + HeaderSize, size |-> held[a]] # r
    <2>1. a \in Nat /\ b \in Nat /\ HeaderSize \in Nat
      BY Numbers
    <2>2. a + HeaderSize # b + HeaderSize
      BY <2>1
    <2> QED
      BY <2>2
  <1>4. Live' = Live \ {r}
    BY <1>2, <1>3 DEF Live
  <1> QED
    BY <1>1, <1>4 DEF Promise!Release, Live

\* Every step of the allocator is a grant, a release, or invisible.
LEMMA PromiseStep ==
  ASSUME IInv, [Next]_vars
  PROVE  [Promise!Next]_Live
  <1> USE DEF Promise!Next
  <1>0. IInv'
    BY NextInv
  <1>1. ASSUME NEW b \in DOMAIN held, held' = [a \in DOMAIN held \ {b} |-> held[a]]
        PROVE  Promise!Next
    BY <1>1, ReleasedRange DEF Live
  <1>2. CASE Found
    <2>1. nextBlock \in Addr \ DOMAIN held /\ call.size \in Nat \ {0}
      BY <1>2, FindStep DEF Found, IInv, TypeOK
    <2> QED
      BY <1>0, <1>2, <2>1, GrantStep DEF Found, Live
  <1>3. CASE Move
    <2>1. call.new \in Addr \ DOMAIN held /\ call.size \in Nat \ {0}
      BY <1>3, Numbers DEF Move, IInv, MoveInv, SizesInv, TypeOK
    <2> QED
      BY <1>0, <1>3, <2>1, GrantStep DEF Move, Live
  <1>4. CASE held' = held
    BY <1>4 DEF Live
  <1> QED
    BY <1>1, <1>2, <1>3, <1>4 DEF Next, Caller, Step, vars, Alloc, Free, Realloc,
       RejectPointer, FreeNull, FreeAllocator, CursorFault, Advance, WrapAround,
       GiveUp, FoundForRealloc

\* mem.c implements the abstract heap: what callers hold never overlaps, never
\* leaves the zone and never changes under them.
THEOREM PromiseKept == Spec => HeapPromise
  <1>1. Init => Promise!Init
    BY DEF Init, Promise!Init
  <1>2. ASSUME IInv, [Next]_vars
        PROVE  [Promise!Next]_Live
    BY <1>2, PromiseStep
  <1> QED
    BY <1>1, <1>2, Invariance, PTL DEF Spec, HeapPromise, Promise!Spec, Live

-----------------------------------------------------------------------------
(* GetMemUsage *)

\* A set of numbers with something in it has a least number.
LEMMA LeastNumber ==
  ASSUME NEW T, T \subseteq Nat, T # {}
  PROVE  \E m \in T : \A n \in T : m <= n
  <1>1. PICK m \in T : \A n \in T : ~ (<<n, m>> \in OpToRel(<, Nat))
    BY NatLessThanWellFounded, WFMin
  <1>2. \A n \in T : ~ (n < m)
    BY <1>1 DEF OpToRel
  <1> QED BY <1>2

\* The bytes from b on that no free block has.
UsedBytes(bs, b) == {x \in b .. ZoneSize - 1 : ~InFreeBlock(bs, x)}

\* What GetMemUsage adds for a block.
Counted(bs, b) == IF bs[b].free THEN 0 ELSE bs[b].size + HeaderSize

\* The bytes from a block on are the block and the bytes from the next one on.
LEMMA UsedBytesOfBlock ==
  ASSUME NEW bs, WellFormed(bs), NEW b \in DOMAIN bs
  PROVE  /\ Cardinality(UsedBytes(bs, b)) =
              Counted(bs, b) + Cardinality(UsedBytes(bs, End(bs, b)))
         /\ Cardinality(UsedBytes(bs, b)) \in Nat
         /\ Cardinality(UsedBytes(bs, End(bs, b))) \in Nat
  <1> DEFINE e    == End(bs, b)
             here == {x \in b .. e - 1 : ~InFreeBlock(bs, x)}
             rest == UsedBytes(bs, e)
  <1>1. /\ b \in Nat /\ bs[b].size \in Nat \ {0} /\ bs[b].free \in BOOLEAN
        /\ e = b + HeaderSize + bs[b].size /\ e <= ZoneSize
        /\ HeaderSize \in Nat /\ ZoneSize \in Nat
    BY AllocatorAssumption DEF WellFormed, Header, Addr, Tiles, End
  <1>2. \A a \in DOMAIN bs : a \in Nat /\ End(bs, a) \in Nat
    BY AllocatorAssumption DEF WellFormed, Header, Addr, End
  <1>3. \A a \in DOMAIN bs : a < b => End(bs, a) <= b
    BY DEF WellFormed, Tiles
  <1>4. \A a \in DOMAIN bs : b < a => e <= a
    BY DEF WellFormed, Tiles
  <1> HIDE DEF e
  <1>5. UsedBytes(bs, b) = here \cup rest
    BY <1>1 DEF UsedBytes
  <1>6. here \cap rest = {}
    BY <1>1 DEF UsedBytes
  <1>7. IsFiniteSet(b .. e - 1) /\ IsFiniteSet(e .. ZoneSize - 1)
    <2>1. b \in Int /\ e - 1 \in Int /\ e \in Int /\ ZoneSize - 1 \in Int
      BY <1>1
    <2> QED BY ONLY <2>1, FS_Interval
  <1>8. IsFiniteSet(here) /\ IsFiniteSet(rest)
    <2>1. here \in SUBSET (b .. e - 1) /\ rest \in SUBSET (e .. ZoneSize - 1)
      BY DEF UsedBytes
    <2> QED BY <2>1, <1>7, FS_Subset
  <1>9. Cardinality(here) = Counted(bs, b)
    <2>1. CASE bs[b].free
      <3>1. here = {}
        BY <2>1, <1>1 DEF InFreeBlock, e
      <3> QED BY <3>1, <2>1, FS_EmptySet DEF Counted
    <2>2. CASE ~bs[b].free
      <3>1. \A x \in b .. e - 1 : ~InFreeBlock(bs, x)
        BY <2>2, <1>1, <1>2, <1>3, <1>4 DEF InFreeBlock
      <3>2. here = b .. e - 1
        BY <3>1
      <3> HIDE DEF here
      <3>3. Cardinality(b .. e - 1) = IF b > e - 1 THEN 0 ELSE e - 1 - b + 1
        <4>1. b \in Int /\ e - 1 \in Int
          BY <1>1
        <4> QED BY ONLY <4>1, FS_Interval
      <3> QED BY <3>2, <3>3, <2>2, <1>1 DEF Counted
    <2> QED BY <2>1, <2>2
  <1> HIDE DEF here, rest
  <1>10. /\ Cardinality(here \cup rest) =
              Cardinality(here) + Cardinality(rest) - Cardinality(here \cap rest)
         /\ IsFiniteSet(here \cup rest)
    BY <1>8, FS_Union
  <1>11. Cardinality(here \cap rest) = 0
    BY <1>6, FS_EmptySet
  <1>12. /\ Cardinality(here) \in Nat /\ Cardinality(rest) \in Nat
         /\ Cardinality(here \cup rest) \in Nat
    BY <1>8, <1>10, FS_CardinalityType
  <1> QED
    BY <1>5, <1>9, <1>10, <1>11, <1>12 DEF rest, e

\* The equation UsedFrom is defined by.
SumOf(bs, sum) ==
  sum = [b \in DOMAIN bs \cup {NULL} |->
           IF b = NULL THEN 0
           ELSE (IF bs[b].free THEN 0 ELSE bs[b].size + HeaderSize) + sum[bs[b].next]]

\* It has a solution, the number of used bytes from each block on, so that
\* UsedFrom is one too.
LEMMA UsedFromSums ==
  ASSUME NEW bs, WellFormed(bs)
  PROVE  /\ SumOf(bs, UsedFrom(bs))
         /\ SumOf(bs, [b \in DOMAIN bs \cup {NULL} |->
                         IF b = NULL THEN 0 ELSE Cardinality(UsedBytes(bs, b))])
  <1> DEFINE g == [b \in DOMAIN bs \cup {NULL} |->
                     IF b = NULL THEN 0 ELSE Cardinality(UsedBytes(bs, b))]
  <1>1. ASSUME NEW b \in DOMAIN bs
        PROVE  /\ b # NULL /\ bs[b].next \in DOMAIN bs \cup {NULL}
               /\ g[bs[b].next] = Cardinality(UsedBytes(bs, End(bs, b)))
    <2>1. bs[b].next = NULL \/ (bs[b].next \in DOMAIN bs /\ bs[b].next = End(bs, b))
      BY DEF WellFormed, Tiles
    <2>2. \A a \in DOMAIN bs : a # NULL
      BY AllocatorAssumption DEF WellFormed, Addr, NULL
    <2>3. CASE bs[b].next = NULL
      <3>1. End(bs, b) = ZoneSize BY <2>3 DEF WellFormed, Tiles
      <3>2. UsedBytes(bs, End(bs, b)) = {}
        BY <3>1, AllocatorAssumption DEF UsedBytes
      <3> QED BY <3>2, <2>2, <2>3, FS_EmptySet
    <2>4. CASE bs[b].next # NULL
      BY <2>1, <2>2, <2>4
    <2> QED BY <2>3, <2>4
  <1>2. ASSUME NEW b \in DOMAIN bs
        PROVE  g[b] = Counted(bs, b) + g[bs[b].next]
    BY <1>1, UsedBytesOfBlock
  <1>3. SumOf(bs, g)
    <2> DEFINE h == [b \in DOMAIN bs \cup {NULL} |->
                       IF b = NULL THEN 0
                       ELSE (IF bs[b].free THEN 0 ELSE bs[b].size + HeaderSize) + g[bs[b].next]]
    <2>1. \A b \in DOMAIN bs \cup {NULL} : g[b] = h[b]
      BY <1>1, <1>2 DEF Counted
    <2>2. g = h
      <3> HIDE DEF NULL
      <3> QED BY <2>1
    <2> QED BY <2>2 DEF SumOf
  <1>4. UsedFrom(bs) = CHOOSE sum : SumOf(bs, sum)
    BY DEF UsedFrom, SumOf
  <1> HIDE DEF g
  <1>5. SumOf(bs, UsedFrom(bs))
    BY <1>3, <1>4
  <1> QED BY <1>3, <1>5 DEF g

\* What GetMemUsage returns for a list that tiles the zone.
LEMMA UsageIsUsedBytes ==
  ASSUME NEW bs, WellFormed(bs)
  PROVE  UsedFrom(bs)[Base] = Cardinality(UsedBytes(bs, Base))
  <1> DEFINE g == [b \in DOMAIN bs \cup {NULL} |->
                     IF b = NULL THEN 0 ELSE Cardinality(UsedBytes(bs, b))]
             s == UsedFrom(bs)
             differ == {b \in DOMAIN bs : s[b] # g[b]}
             above == {ZoneSize - b : b \in differ}
  <1>1. SumOf(bs, s) /\ SumOf(bs, g)
    BY UsedFromSums
  <1>2. \A b \in DOMAIN bs : b # NULL /\ b \in Nat /\ b <= ZoneSize
    BY AllocatorAssumption DEF WellFormed, Addr, NULL
  <1> HIDE DEF g, s
  <1>3. s[NULL] = 0 /\ g[NULL] = 0
    BY <1>1 DEF SumOf
  <1>4. ASSUME NEW b \in DOMAIN bs
        PROVE  /\ s[b] = Counted(bs, b) + s[bs[b].next]
               /\ g[b] = Counted(bs, b) + g[bs[b].next]
    BY <1>1, <1>2 DEF SumOf, Counted
  <1>5. ASSUME differ # {} PROVE FALSE
    <2>1. above \subseteq Nat /\ above # {}
      BY <1>2, <1>5, AllocatorAssumption
    <2>2. PICK m \in above : \A n \in above : m <= n
      BY <2>1, LeastNumber
    <2>3. PICK b \in differ : m = ZoneSize - b
      BY <2>2
    <2>4. \A a \in differ : a <= b
      BY <2>2, <2>3, <1>2, AllocatorAssumption
    <2>5. bs[b].next = NULL \/ (bs[b].next \in DOMAIN bs /\ bs[b].next > b)
      BY <1>2, AllocatorAssumption DEF WellFormed, Tiles, End, Header
    <2>6. s[bs[b].next] = g[bs[b].next]
      BY <2>4, <2>5, <1>2, <1>3
    <2> QED BY <2>6, <1>4
  <1>6. Base \in DOMAIN bs
    BY DEF WellFormed, Tiles
  <1>7. s[Base] = g[Base]
    BY <1>5, <1>6
  <1> QED BY <1>7, <1>6, <1>2 DEF g, s

\* Whatever has been allocated and freed, GetMemUsage counts the bytes outside
\* the free blocks, each of them once.
THEOREM UsageCounted == Spec => []UsageBalances
  <1>1. IInv => UsageBalances
    <2> SUFFICES ASSUME IInv PROVE UsageBalances
      OBVIOUS
    <2>1. WellFormed(block)
      BY DEF IInv, WellFormed, TypeOK, ListTilesZone
    <2>2. UsedFrom(block)[Base] = Cardinality(UsedBytes(block, Base))
      BY <2>1, UsageIsUsedBytes
    <2> QED BY <2>2 DEF UsageBalances, MemUsage, UsedBytes
  <1> QED
    BY <1>1, Invariance, PTL
=============================================================================
