-------------------------- MODULE SchedulerProofs ---------------------------
(***************************************************************************)
(* The safety of source/scheduler.c for any number of processes.           *)
(***************************************************************************)
EXTENDS SchedulerProps, TLAPS

-----------------------------------------------------------------------------
(* The inductive invariant *)

\* Ids are given out in order, and the links lead to processes that have one.
IdsInv ==
  /\ \A p \in Pid : status[p] = "unused" <=> nextID <= p
  /\ last < nextID
  /\ \A p \in Pid : prev[p] < nextID

\* A process keeps its struct, and the rest of its memory while it lives.
MemInv ==
  /\ pc # "freed" => \A p \in Pid : status[p] # "unused" => <<p, "struct">> \in mem
  /\ pc # "freed" =>
       \A p \in Live : Objects(p, {"struct", "name", "dStack", "rStack"}) \subseteq mem

\* Outside Scheduler_Run there is no current process.
PlaceInv ==
  /\ pc = "boot" => nextID = 1 /\ last = NULL
  /\ pc \in {"boot", "ready", "returned", "freed"} => current = NULL

\* The list that starts at firstProcess is the reachable part of the queue,
\* whatever starts have failed.
ListIsQueue == Linked(first, next, prev, Queue)

\* `processes' is the end of that list; from the first failed start on it is the
\* process started last, failed or hung behind a failed one.
LastPlace ==
  /\ Failed = {} => IsLastOf(last, Queue)
  /\ Failed # {} => last = nextID - 1

QueueInv == pc # "fault" => ListIsQueue /\ LastPlace

IInv ==
  /\ TypeOK
  /\ QueueInv
  /\ CurrentRuns
  /\ NoBadFree
  /\ IdsInv
  /\ MemInv
  /\ PlaceInv

\* Pids and links are numbers, and no pid is NULL.
LEMMA Numbers ==
  /\ MaxID \in Nat
  /\ \A p \in Pid : p \in Nat /\ p # NULL /\ NULL < p
  /\ \A x \in Link : x \in Nat
  /\ NULL = 0
  BY SchedulerAssumption DEF Pid, Link, NULL

\* Failed processes and queued ones have ids already given out, and no queued
\* process is last once a start has failed.
LEMMA QueueIds ==
  ASSUME TypeOK, IdsInv
  PROVE  /\ Queue \subseteq Live /\ Live \subseteq Pid /\ Failed \subseteq Pid
         /\ \A p \in Live \cup Failed : p < nextID
         /\ Failed = {} => Queue = Live
         /\ Failed # {} /\ last = nextID - 1 => last \notin Queue
  <1>1. Queue \subseteq Live /\ Live \subseteq Pid /\ Failed \subseteq Pid
    BY DEF Queue, Live, Failed
  <1>2. nextID \in Nat
    BY SchedulerAssumption DEF TypeOK
  <1>3. \A p \in Live \cup Failed : p < nextID
    BY <1>1, <1>2, Numbers DEF IdsInv, Live, Failed
  <1>4. Failed = {} => Queue = Live
    BY DEF Queue
  <1>5. ASSUME Failed # {}, last = nextID - 1, last \in Queue
        PROVE  FALSE
    <2>1. PICK f \in Failed : TRUE
      BY <1>5
    <2>2. last < f
      BY <1>5, <2>1 DEF Queue
    <2> QED
      BY <1>1, <1>2, <1>3, <1>5, <2>1, <2>2, Numbers
  <1> QED
    BY <1>1, <1>3, <1>4, <1>5

-----------------------------------------------------------------------------
(* Linked lists over a set of numbers *)

\* Neighbours in a set that gets a new greatest member.
LEMMA GrowNeighbours ==
  ASSUME NEW S \in SUBSET Nat, NEW n \in Nat, \A q \in S : q < n
  PROVE  /\ n \notin S
         /\ After(n, S \cup {n}) = {} /\ Before(n, S \cup {n}) = S
         /\ \A q \in S : /\ After(q, S \cup {n}) = After(q, S) \cup {n}
                         /\ Before(q, S \cup {n}) = Before(q, S)
  <1>1. \A q \in S : q \in Nat /\ q < n /\ n > q /\ ~(q > n) /\ q # n
    OBVIOUS
  <1>a. ~(n > n) /\ ~(n < n)
    OBVIOUS
  <1>2. After(n, S \cup {n}) = {}
    <2>1. \A q \in S \cup {n} : ~(q > n)
      BY <1>1, <1>a
    <2> QED
      BY <2>1 DEF After
  <1>3. Before(n, S \cup {n}) = S
    <2>1. \A q \in S \cup {n} : q < n <=> q \in S
      BY <1>1, <1>a
    <2> QED
      BY <2>1 DEF Before
  <1>4. ASSUME NEW q \in S
        PROVE  /\ After(q, S \cup {n}) = After(q, S) \cup {n}
               /\ Before(q, S \cup {n}) = Before(q, S)
    BY <1>1 DEF After, Before
  <1> QED
    BY <1>1, <1>2, <1>3, <1>4

\* The list with a new last element.
LEMMA LinkedAppend ==
  ASSUME NEW S \in SUBSET Nat, NEW n \in Nat, \A q \in S : q < n,
         NEW f, NEW nx, NEW pv, NEW l, Linked(f, nx, pv, S), IsLastOf(l, S),
         NEW f2, NEW nx2, NEW pv2,
         nx2[n] = NULL, pv2[n] = l,
         S = {} => f2 = n,
         S # {} => f2 = f /\ nx2[l] = n,
         \A q \in S : (q # l => nx2[q] = nx[q]) /\ pv2[q] = pv[q]
  PROVE  Linked(f2, nx2, pv2, S \cup {n}) /\ IsLastOf(n, S \cup {n})
  <1> DEFINE T == S \cup {n}
  <1>1. /\ n \notin S /\ After(n, T) = {} /\ Before(n, T) = S
        /\ \A q \in S : After(q, T) = After(q, S) \cup {n} /\ Before(q, T) = Before(q, S)
    BY GrowNeighbours
  <1>2. \A q \in T : q \in Nat /\ q <= n
    OBVIOUS
  <1>3. n \in T /\ T # {}
    OBVIOUS
  <1>4. IsLastOf(n, T)
    BY <1>2, <1>3 DEF IsLastOf
  <1>5. IsFirstOf(f2, T)
    <2>1. CASE S = {}
      BY <2>1, <1>2 DEF IsFirstOf
    <2>2. CASE S # {}
      <3>1. f \in S /\ \A q \in S : f <= q
        BY <2>2 DEF Linked, IsFirstOf
      <3>2. f <= n
        BY <3>1, <1>2
      <3> QED
        BY <2>2, <3>1, <3>2 DEF IsFirstOf
    <2> QED
      BY <2>1, <2>2
  <1>6. IsFirstOf(nx2[n], After(n, T)) /\ IsLastOf(pv2[n], Before(n, T))
    BY <1>1 DEF IsFirstOf, IsLastOf
  <1>7. ASSUME NEW q \in S
        PROVE  IsFirstOf(nx2[q], After(q, T)) /\ IsLastOf(pv2[q], Before(q, T))
    <2>1. IsLastOf(pv2[q], Before(q, T))
      BY <1>1 DEF Linked
    <2>2. CASE q = l
      <3>1. \A r \in S : r <= l
        BY <2>2 DEF IsLastOf
      <3>2. After(q, S) = {}
        <4>1. \A r \in S : r \in Nat /\ ~(r > q)
          BY <2>2, <3>1
        <4> QED
          BY <4>1 DEF After
      <3>3. After(q, T) = {n} /\ nx2[q] = n
        BY <1>1, <2>2, <3>2
      <3>4. n <= n
        OBVIOUS
      <3> QED
        BY <2>1, <3>3, <3>4 DEF IsFirstOf
    <2>3. CASE q # l
      <3>1. l \in S /\ l > q
        <4>1. l \in S /\ q <= l
          BY DEF IsLastOf
        <4>2. l \in Nat /\ q \in Nat
          BY <4>1
        <4> QED
          BY <2>3, <4>1, <4>2
      <3>2. l \in After(q, S)
        BY <3>1 DEF After
      <3>3. nx2[q] = nx[q] /\ IsFirstOf(nx[q], After(q, S))
        BY <2>3 DEF Linked
      <3>4. nx[q] \in After(q, S) /\ \A r \in After(q, S) : nx[q] <= r
        BY <3>2, <3>3 DEF IsFirstOf
      <3>5. nx[q] \in S
        BY <3>4 DEF After
      <3>6. nx[q] <= n
        BY <3>5, <1>2
      <3>7. After(q, T) = After(q, S) \cup {n}
        BY <1>1
      <3> QED
        BY <2>1, <3>3, <3>4, <3>6, <3>7 DEF IsFirstOf
    <2> QED
      BY <2>2, <2>3
  <1>8. \A q \in T : IsFirstOf(nx2[q], After(q, T)) /\ IsLastOf(pv2[q], Before(q, T))
    BY <1>6, <1>7
  <1> QED
    BY <1>4, <1>5, <1>8 DEF Linked

\* Neighbours in a set that loses a member.
LEMMA ShrinkNeighbours ==
  ASSUME NEW S \in SUBSET Nat, NEW c \in S, NEW q \in S, q # c
  PROVE  /\ After(q, S \ {c}) = After(q, S) \ {c}
         /\ Before(q, S \ {c}) = Before(q, S) \ {c}
         /\ q < c => After(c, S) \subseteq After(q, S) /\ c \in After(q, S)
         /\ c < q => Before(c, S) \subseteq Before(q, S) /\ c \in Before(q, S)
         /\ ~(q < c) => c \notin After(q, S)
         /\ ~(c < q) => c \notin Before(q, S)
  <1>1. \A r \in S : r \in Nat
    OBVIOUS
  <1>2. After(q, S \ {c}) = After(q, S) \ {c} /\ Before(q, S \ {c}) = Before(q, S) \ {c}
    BY DEF After, Before
  <1>3. c \in After(q, S) <=> q < c
    BY <1>1 DEF After
  <1>4. c \in Before(q, S) <=> c < q
    BY <1>1 DEF Before
  <1>5. ASSUME q < c PROVE After(c, S) \subseteq After(q, S)
    <2>1. \A r \in S : r > c => r > q
      BY <1>1, <1>5
    <2> QED
      BY <2>1 DEF After
  <1>6. ASSUME c < q PROVE Before(c, S) \subseteq Before(q, S)
    <2>1. \A r \in S : r < c => r < q
      BY <1>1, <1>6
    <2> QED
      BY <2>1 DEF Before
  <1> QED
    BY <1>2, <1>3, <1>4, <1>5, <1>6

\* The list without an element c, whose two neighbours are linked to each other.
LEMMA LinkedRemove ==
  ASSUME NEW S \in SUBSET (Nat \ {NULL}), NEW c \in S,
         NEW f, NEW nx, NEW pv, NEW l, Linked(f, nx, pv, S),
         NEW nx2, NEW pv2,
         pv[c] # NULL => nx2[pv[c]] = nx[c],
         nx[c] # NULL => pv2[nx[c]] = pv[c],
         \A q \in S : q # pv[c] => nx2[q] = nx[q],
         \A q \in S : q # nx[c] => pv2[q] = pv[q]
  PROVE  /\ Linked(IF c = f THEN nx[c] ELSE f, nx2, pv2, S \ {c})
         /\ IsLastOf(l, S) => IsLastOf(IF c = l THEN pv[c] ELSE l, S \ {c})
  <1> DEFINE T == S \ {c}
  <1>1. \A q \in S : q \in Nat /\ q # NULL
    OBVIOUS
  <1>2. /\ IsFirstOf(nx[c], After(c, S)) /\ IsLastOf(pv[c], Before(c, S))
        /\ IsFirstOf(f, S)
    BY DEF Linked
  <1>3. IsFirstOf(IF c = f THEN nx[c] ELSE f, T)
    <2>1. CASE c = f
      <3>1. \A q \in S : c <= q
        BY <1>2, <2>1 DEF IsFirstOf
      <3>2. After(c, S) = T
        <4>1. \A q \in S : q > c <=> q # c
          BY <1>1, <3>1
        <4> QED
          BY <4>1 DEF After
      <3> QED
        BY <1>2, <2>1, <3>2
    <2>2. CASE c # f
      <3>1. f \in T /\ \A q \in T : f <= q
        BY <1>2, <2>2 DEF IsFirstOf
      <3> QED
        BY <2>2, <3>1 DEF IsFirstOf
    <2> QED
      BY <2>1, <2>2
  <1>4. ASSUME IsLastOf(l, S)
        PROVE  IsLastOf(IF c = l THEN pv[c] ELSE l, T)
    <2>1. CASE c = l
      <3>1. \A q \in S : q <= c
        BY <1>4, <2>1 DEF IsLastOf
      <3>2. Before(c, S) = T
        <4>1. \A q \in S : q < c <=> q # c
          BY <1>1, <3>1
        <4> QED
          BY <4>1 DEF Before
      <3> QED
        BY <1>2, <2>1, <3>2
    <2>2. CASE c # l
      <3>1. l \in T /\ \A q \in T : q <= l
        BY <1>4, <2>2 DEF IsLastOf
      <3> QED
        BY <2>2, <3>1 DEF IsLastOf
    <2> QED
      BY <2>1, <2>2
  <1>5. ASSUME NEW q \in T
        PROVE  IsFirstOf(nx2[q], After(q, T))
    <2>1. /\ q \in S /\ q # c /\ After(q, T) = After(q, S) \ {c}
          /\ q < c => After(c, S) \subseteq After(q, S) /\ c \in After(q, S)
          /\ ~(q < c) => c \notin After(q, S)
      BY ShrinkNeighbours
    <2>2. IsFirstOf(nx[q], After(q, S))
      BY <2>1 DEF Linked
    <2>3. CASE q = pv[c]
      <3>1. q \in Before(c, S) /\ \A r \in Before(c, S) : r <= q
        BY <1>1, <1>2, <2>1, <2>3 DEF IsLastOf
      <3>2. q < c
        BY <3>1 DEF Before
      <3>3. ASSUME NEW r \in S, r # c
            PROVE  r \in After(q, S) <=> r \in After(c, S)
        <4>1. r < c => r <= q
          BY <3>1 DEF Before
        <4> QED
          BY <1>1, <2>1, <3>2, <3>3, <4>1 DEF After
      <3>4. After(q, T) = After(c, S)
        <4>1. c \notin After(c, S)
          BY <1>1 DEF After
        <4>2. After(c, S) \subseteq S /\ After(q, S) \subseteq S
          BY DEF After
        <4> QED
          BY <2>1, <3>3, <4>1, <4>2
      <3>5. nx2[q] = nx[c]
        BY <1>1, <2>1, <2>3
      <3> QED
        BY <1>2, <3>4, <3>5
    <2>4. CASE q # pv[c]
      <3>1. nx2[q] = nx[q]
        BY <2>1, <2>4
      <3>2. CASE ~(q < c)
        BY <2>1, <2>2, <3>1, <3>2
      <3>3. CASE q < c
        <4>1. pv[c] \in Before(c, S) /\ q <= pv[c]
          BY <1>2, <2>1, <3>3 DEF IsLastOf, Before
        <4>2. pv[c] \in S /\ pv[c] < c /\ pv[c] \in Nat
          BY <1>1, <4>1 DEF Before
        <4>3. pv[c] > q
          BY <1>1, <2>1, <2>4, <4>1, <4>2
        <4>4. pv[c] \in After(q, S)
          BY <4>2, <4>3 DEF After
        <4>5. nx[q] \in After(q, S) /\ \A r \in After(q, S) : nx[q] <= r
          BY <2>2, <4>4 DEF IsFirstOf
        <4>6. nx[q] <= pv[c] /\ nx[q] \in S
          BY <4>4, <4>5 DEF After
        <4>7. nx[q] # c
          BY <1>1, <4>2, <4>6
        <4> QED
          BY <2>1, <3>1, <4>5, <4>7 DEF IsFirstOf
      <3> QED
        BY <3>2, <3>3
    <2> QED
      BY <2>3, <2>4
  <1>6. ASSUME NEW q \in T
        PROVE  IsLastOf(pv2[q], Before(q, T))
    <2>1. /\ q \in S /\ q # c /\ Before(q, T) = Before(q, S) \ {c}
          /\ c < q => Before(c, S) \subseteq Before(q, S) /\ c \in Before(q, S)
          /\ ~(c < q) => c \notin Before(q, S)
      BY ShrinkNeighbours
    <2>2. IsLastOf(pv[q], Before(q, S))
      BY <2>1 DEF Linked
    <2>3. CASE q = nx[c]
      <3>1. q \in After(c, S) /\ \A r \in After(c, S) : q <= r
        BY <1>1, <1>2, <2>1, <2>3 DEF IsFirstOf
      <3>2. c < q
        BY <1>1, <2>1, <3>1 DEF After
      <3>3. ASSUME NEW r \in S, r # c
            PROVE  r \in Before(q, S) <=> r \in Before(c, S)
        <4>1. r > c => q <= r
          BY <3>1 DEF After
        <4> QED
          BY <1>1, <2>1, <3>2, <3>3, <4>1 DEF Before
      <3>4. Before(q, T) = Before(c, S)
        <4>1. c \notin Before(c, S)
          BY <1>1 DEF Before
        <4>2. Before(c, S) \subseteq S /\ Before(q, S) \subseteq S
          BY DEF Before
        <4> QED
          BY <2>1, <3>3, <4>1, <4>2
      <3>5. pv2[q] = pv[c]
        BY <1>1, <2>1, <2>3
      <3> QED
        BY <1>2, <3>4, <3>5
    <2>4. CASE q # nx[c]
      <3>1. pv2[q] = pv[q]
        BY <2>1, <2>4
      <3>2. CASE ~(c < q)
        BY <2>1, <2>2, <3>1, <3>2
      <3>3. CASE c < q
        <4>0. q \in After(c, S)
          BY <1>1, <2>1, <3>3 DEF After
        <4>1. nx[c] \in After(c, S) /\ nx[c] <= q
          BY <1>2, <4>0 DEF IsFirstOf
        <4>2. nx[c] \in S /\ c < nx[c] /\ nx[c] \in Nat
          BY <1>1, <4>1 DEF After
        <4>3. nx[c] < q
          BY <1>1, <2>1, <2>4, <4>1, <4>2
        <4>4. nx[c] \in Before(q, S)
          BY <4>2, <4>3 DEF Before
        <4>5. pv[q] \in Before(q, S) /\ \A r \in Before(q, S) : r <= pv[q]
          BY <2>2, <4>4 DEF IsLastOf
        <4>6. nx[c] <= pv[q] /\ pv[q] \in S
          BY <4>4, <4>5 DEF Before
        <4>7. pv[q] # c
          BY <1>1, <4>2, <4>6
        <4> QED
          BY <2>1, <3>1, <4>5, <4>7 DEF IsLastOf
      <3> QED
        BY <3>2, <3>3
    <2> QED
      BY <2>3, <2>4
  <1> QED
    BY <1>3, <1>4, <1>5, <1>6 DEF Linked

\* The successor of c is the next turn: nobody between them is left out.
LEMMA NextTurn ==
  ASSUME NEW S \in SUBSET (Nat \ {NULL}), NEW c \in S,
         NEW f, NEW nx, NEW pv, Linked(f, nx, pv, S)
  PROVE  /\ nx[c] = NULL => {q \in S : q >= c} = {c}
         /\ nx[c] # NULL => /\ nx[c] \in S \ {c}
                            /\ {q \in S : q >= c} \ {c} = {q \in S : q >= nx[c]}
                            /\ {q \in S : q >= c} # {c}
         /\ f \in S /\ {q \in S : q >= f} = S
  <1>1. \A q \in S : q \in Nat /\ q # NULL
    OBVIOUS
  <1>2. IsFirstOf(nx[c], After(c, S)) /\ f \in S /\ \A q \in S : f <= q
    BY DEF Linked, IsFirstOf
  <1>3. {q \in S : q >= f} = S
    BY <1>1, <1>2
  <1>4. ASSUME nx[c] = NULL PROVE {q \in S : q >= c} = {c}
    <2>1. NULL \notin After(c, S)
      BY <1>1 DEF After
    <2>2. After(c, S) = {}
      BY <1>2, <1>4, <2>1 DEF IsFirstOf
    <2>3. \A q \in S : ~(q > c)
      BY <2>2 DEF After
    <2>4. \A q \in S : q >= c <=> q = c
      BY <1>1, <2>3
    <2> QED
      BY <2>4
  <1>5. ASSUME nx[c] # NULL
        PROVE  /\ nx[c] \in S \ {c}
               /\ {q \in S : q >= c} \ {c} = {q \in S : q >= nx[c]}
               /\ {q \in S : q >= c} # {c}
    <2>1. nx[c] \in After(c, S) /\ \A q \in After(c, S) : nx[c] <= q
      BY <1>2, <1>5 DEF IsFirstOf
    <2>2. nx[c] \in S /\ nx[c] > c /\ nx[c] \in Nat
      BY <1>1, <2>1 DEF After
    <2>3. \A q \in S : q >= nx[c] <=> q >= c /\ q # c
      <3>1. \A q \in S : q >= c /\ q # c => nx[c] <= q
        BY <1>1, <2>1 DEF After
      <3> QED
        BY <1>1, <2>2, <3>1
    <2>4. nx[c] # c /\ nx[c] >= c
      BY <1>1, <2>2
    <2> QED
      BY <2>2, <2>3, <2>4
  <1> QED
    BY <1>2, <1>3, <1>4, <1>5

-----------------------------------------------------------------------------
(* What the operations do to the queue *)

\* The last process, as far as the queue is concerned.
LEMMA LastFacts ==
  ASSUME TypeOK, IdsInv, LastPlace
  PROVE  /\ last = NULL => Queue = {} /\ Failed = {}
         /\ last # NULL /\ Failed = {} => last \in Queue
         /\ Failed # {} => last # NULL /\ last \notin Queue
         /\ last # NULL => last \in Pid
  <1>1. last # NULL => last \in Pid
    BY DEF TypeOK, Link
  <1>2. nextID \in Nat
    BY SchedulerAssumption DEF TypeOK
  <1>3. ASSUME Failed # {} PROVE last # NULL /\ last \notin Queue
    <2>1. PICK f \in Failed : f < nextID
      BY <1>3, QueueIds
    <2>2. f \in Nat /\ 0 < f
      BY <2>1, QueueIds, Numbers
    <2>3. last = nextID - 1
      BY <1>3 DEF LastPlace
    <2>4. last \notin Queue
      BY <1>3, <2>3, QueueIds
    <2>5. last # 0
      BY <1>2, <2>1, <2>2, <2>3
    <2> QED
      BY <2>4, <2>5, Numbers
  <1>4. ASSUME Failed = {}
        PROVE  IF last = NULL THEN Queue = {} ELSE last \in Queue
    <2>1. IsLastOf(last, Queue)
      BY <1>4 DEF LastPlace
    <2>2. NULL \notin Queue
      BY QueueIds, Numbers
    <2> QED
      BY <2>1, <2>2 DEF IsLastOf
  <1> QED
    BY <1>1, <1>3, <1>4

\* The processes of the queue are numbers below the next id.
LEMMA QueueNumbers ==
  ASSUME TypeOK, IdsInv
  PROVE  /\ Queue \in SUBSET Nat /\ Queue \in SUBSET (Nat \ {NULL})
         /\ nextID \in Nat /\ NULL < nextID
         /\ \A q \in Queue : q < nextID
         /\ nextID \in Pid => status[nextID] = "unused" /\ nextID \notin Queue
  <1>1. nextID \in Nat /\ 0 < nextID
    BY SchedulerAssumption DEF TypeOK
  <1>2. Queue \subseteq Pid /\ \A q \in Queue : q < nextID
    BY QueueIds
  <1>3. nextID \in Pid => status[nextID] = "unused"
    BY <1>1 DEF IdsInv
  <1>4. nextID \notin Queue
    BY <1>1, <1>2
  <1> QED
    BY <1>1, <1>2, <1>3, <1>4, Numbers

\* A process that assembles joins the queue at its end, unless an earlier start
\* has failed: then nothing leads to it.
LEMMA StartOkEffect ==
  ASSUME TypeOK, IdsInv, ListIsQueue, LastPlace, nextID \in Pid, StartOk(nextID)
  PROVE  /\ Failed' = Failed
         /\ Failed = {} => Queue' = Queue \cup {nextID}
         /\ Failed # {} => Queue' = Queue
         /\ ListIsQueue' /\ LastPlace'
  <1>1. /\ next' = IF last = NULL THEN [next EXCEPT ![nextID] = NULL]
                                  ELSE [next EXCEPT ![last] = nextID, ![nextID] = NULL]
        /\ prev' = [prev EXCEPT ![nextID] = last]
        /\ first' = IF last = NULL THEN nextID ELSE first
        /\ last' = nextID /\ nextID' = nextID + 1
        /\ status' = [status EXCEPT ![nextID] = "live"]
    BY DEF StartOk, Append
  <1>2. Failed' = Failed /\ Live' = Live \cup {nextID}
    BY <1>1, QueueNumbers DEF Failed, Live, TypeOK
  <1>3. Failed = {} => Queue' = Queue \cup {nextID}
    BY <1>2 DEF Queue
  <1>4. ASSUME Failed # {} PROVE Queue' = Queue
    <2>1. PICK f \in Failed : f < nextID
      BY <1>4, QueueIds
    <2>2. ~(nextID < f)
      BY <2>1, QueueIds, QueueNumbers, Numbers
    <2>3. Queue' = {p \in Live \cup {nextID} : \A g \in Failed : p < g}
      BY <1>2 DEF Queue
    <2> QED
      BY <2>2, <2>3 DEF Queue
  <1>5. next \in [Pid -> Link] /\ prev \in [Pid -> Link]
    BY DEF TypeOK
  <1>6. CASE Failed = {}
    <2>1. IsLastOf(last, Queue) /\ Linked(first, next, prev, Queue)
      BY <1>6 DEF LastPlace, ListIsQueue
    <2>2. Queue = {} <=> last = NULL
      BY <1>6, LastFacts, <2>1 DEF IsLastOf
    <2>3. next'[nextID] = NULL /\ prev'[nextID] = last
      BY <1>1, <1>5, LastFacts, QueueNumbers
    <2>4. Queue = {} => first' = nextID
      BY <1>1, <2>2
    <2>5. Queue # {} => first' = first /\ next'[last] = nextID
      BY <1>1, <1>5, <1>6, <2>2, LastFacts, QueueNumbers
    <2>6. \A q \in Queue : (q # last => next'[q] = next[q]) /\ prev'[q] = prev[q]
      BY <1>1, <1>5, QueueNumbers, QueueIds
    <2>7. Linked(first', next', prev', Queue \cup {nextID}) /\ IsLastOf(nextID, Queue \cup {nextID})
      <3>1. Queue \in SUBSET Nat /\ nextID \in Nat /\ \A q \in Queue : q < nextID
        BY QueueNumbers
      <3>2. \A q \in Queue : q # last => next'[q] = next[q]
        BY <2>6
      <3>3. \A q \in Queue : prev'[q] = prev[q]
        BY <2>6
      <3>4. Linked(first', next', prev', Queue \cup {nextID})
        BY <2>1, <2>3, <2>4, <2>5, <3>1, <3>2, <3>3, LinkedAppend
      <3>5. IsLastOf(nextID, Queue \cup {nextID})
        BY <3>1 DEF IsLastOf
      <3> QED
        BY <3>4, <3>5
    <2> QED
      BY <1>1, <1>2, <1>3, <1>6, <2>7 DEF ListIsQueue, LastPlace
  <1>7. CASE Failed # {}
    <2>1. last # NULL /\ last \notin Queue
      BY <1>7, LastFacts
    <2>2. first' = first /\ \A q \in Queue : next'[q] = next[q] /\ prev'[q] = prev[q]
      BY <1>1, <1>5, <2>1, QueueNumbers, QueueIds
    <2>3. last' = nextID' - 1
      BY <1>1, QueueNumbers
    <2>4. ListIsQueue'
      BY <1>4, <1>7, <2>2 DEF ListIsQueue, Linked
    <2> QED
      BY <1>2, <1>3, <1>4, <1>7, <2>3, <2>4 DEF LastPlace
  <1> QED
    BY <1>2, <1>3, <1>4, <1>6, <1>7

\* A start that fails late leaves the queue and its list alone, because all it
\* clears is the link of the process that was last.
LEMMA StartFailsEffect ==
  ASSUME TypeOK, IdsInv, ListIsQueue, LastPlace, nextID \in Pid, StartFails(nextID)
  PROVE  /\ Failed' = Failed \cup {nextID} /\ Queue' = Queue
         /\ ListIsQueue' /\ LastPlace'
  <1>1. /\ last # NULL
        /\ next' = [next EXCEPT ![nextID] = NULL, ![last] = NULL]
        /\ prev' = [prev EXCEPT ![nextID] = last]
        /\ last' = nextID /\ nextID' = nextID + 1
        /\ status' = [status EXCEPT ![nextID] = "failed"]
        /\ first' = first
    BY DEF StartFails
  <1>2. Failed' = Failed \cup {nextID} /\ Live' = Live
    BY <1>1, QueueNumbers DEF Failed, Live, TypeOK
  <1>3. Queue' = Queue
    <2>1. \A p \in Live : p < nextID
      BY QueueIds
    <2>2. Queue' = {p \in Live : \A g \in Failed \cup {nextID} : p < g}
      BY <1>2 DEF Queue
    <2> QED
      BY <2>1, <2>2 DEF Queue
  <1>4. LastPlace'
    BY <1>1, <1>2, QueueNumbers DEF LastPlace
  <1>5. \A q \in Queue : next'[q] = next[q] /\ prev'[q] = prev[q]
    <2>1. \A q \in Queue : q # nextID /\ q \in Pid
      BY QueueNumbers, QueueIds
    <2>2. next \in [Pid -> Link] /\ prev \in [Pid -> Link]
      BY DEF TypeOK
    <2>3. last \in Queue => next[last] = NULL
      <3>1. ASSUME last \in Queue PROVE After(last, Queue) = {}
        <4>1. Failed = {}
          BY <3>1, LastFacts
        <4>2. \A q \in Queue : q <= last
          BY <3>1, <4>1 DEF LastPlace, IsLastOf
        <4>3. \A q \in Queue : ~(q > last)
          BY <3>1, <4>2, QueueNumbers
        <4> QED
          BY <4>3 DEF After
      <3> QED
        BY <3>1 DEF ListIsQueue, Linked, IsFirstOf
    <2>4. \A q \in Queue : next'[q] = next[q]
      BY <1>1, <2>1, <2>2, <2>3
    <2>5. \A q \in Queue : prev'[q] = prev[q]
      BY <1>1, <2>1, <2>2
    <2> QED
      BY <2>4, <2>5
  <1>6. ListIsQueue'
    BY <1>1, <1>3, <1>5 DEF ListIsQueue, Linked
  <1> QED
    BY <1>2, <1>3, <1>4, <1>6

\* A process that halts leaves the queue, and its neighbours are linked.
LEMMA HaltEffect ==
  ASSUME TypeOK, IdsInv, ListIsQueue, LastPlace, current \in Queue, Halt
  PROVE  /\ Failed' = Failed /\ Queue' = Queue \ {current}
         /\ ListIsQueue' /\ LastPlace'
  <1>1. /\ first' = IF current = first THEN next[current] ELSE first
        /\ last' = IF current = last THEN prev[current] ELSE last
        /\ next' = IF prev[current] = NULL THEN next
                     ELSE [next EXCEPT ![prev[current]] = next[current]]
        /\ prev' = IF next[current] = NULL THEN prev
                     ELSE [prev EXCEPT ![next[current]] = prev[current]]
        /\ status' = [status EXCEPT ![current] = "killed"]
        /\ nextID' = nextID
    BY DEF Halt, Unlink
  <1>2. current \in Pid /\ current \in Live
    BY QueueIds
  <1>3. Failed' = Failed /\ Live' = Live \ {current}
    BY <1>1, <1>2 DEF Failed, Live, TypeOK
  <1>4. Queue' = Queue \ {current}
    BY <1>3 DEF Queue
  <1>5. /\ next \in [Pid -> Link] /\ prev \in [Pid -> Link]
        /\ prev[current] \in Link /\ next[current] \in Link
    BY <1>2 DEF TypeOK
  <1>6. /\ prev[current] # NULL => next'[prev[current]] = next[current]
        /\ next[current] # NULL => prev'[next[current]] = prev[current]
    BY <1>1, <1>5 DEF Link
  <1>7. /\ \A q \in Queue : q # prev[current] => next'[q] = next[q]
        /\ \A q \in Queue : q # next[current] => prev'[q] = prev[q]
    BY <1>1, <1>5, QueueIds
  <1>8. /\ Linked(IF current = first THEN next[current] ELSE first, next', prev', Queue \ {current})
        /\ IsLastOf(last, Queue) =>
             IsLastOf(IF current = last THEN prev[current] ELSE last, Queue \ {current})
    <2>1. Queue \in SUBSET (Nat \ {NULL}) /\ Linked(first, next, prev, Queue)
      BY QueueNumbers DEF ListIsQueue
    <2> QED
      BY <1>6, <1>7, <2>1, LinkedRemove
  <1>9. ListIsQueue'
    BY <1>1, <1>4, <1>8 DEF ListIsQueue
  <1>10. LastPlace'
    <2>1. CASE Failed = {}
      BY <1>1, <1>3, <1>4, <1>8, <2>1 DEF LastPlace
    <2>2. CASE Failed # {}
      <3>1. current # last
        BY <2>2, LastFacts
      <3> QED
        BY <1>1, <1>3, <2>2, <3>1 DEF LastPlace
    <2> QED
      BY <2>1, <2>2
  <1> QED
    BY <1>3, <1>4, <1>9, <1>10

-----------------------------------------------------------------------------
(* The parts of the invariant, action by action *)

\* The steps that leave the list alone.
Standing == UNCHANGED <<next, prev, first, last, nextID, status>>

LEMMA StandingStep ==
  ASSUME Standing
  PROVE  /\ Queue' = Queue /\ Failed' = Failed /\ Live' = Live
         /\ ListIsQueue' = ListIsQueue /\ LastPlace' = LastPlace /\ IdsInv' = IdsInv
  BY DEF Standing, Queue, Failed, Live, ListIsQueue, LastPlace, IdsInv

\* The actions that are such steps.
Stands == \/ BootExits \/ EnterRun \/ FreeAll \/ Dispatch \/ Return \/ FetchFaults
          \/ Crash \/ Yield

LEMMA WhoStands ==
  Stands => Standing
  BY DEF Stands, BootExits, EnterRun, FreeAll, Dispatch, Return, FetchFaults, Crash,
         Yield, Standing

\* A start, whatever comes of it, in the fields all its outcomes share.
Started(end) ==
  /\ prev' = [prev EXCEPT ![nextID] = last]
  /\ last' = nextID
  /\ nextID' = nextID + 1
  /\ status' = [status EXCEPT ![nextID] = end]
  /\ \E kinds \in SUBSET Kind :
       /\ "struct" \in kinds
       /\ end = "live" => {"struct", "name", "dStack", "rStack"} \subseteq kinds
       /\ mem' = mem \cup Objects(nextID, kinds)
  /\ next' \in [Pid -> Link] /\ first' \in Link

LEMMA StartedShape ==
  ASSUME TypeOK, nextID \in Pid
  PROVE  /\ StartOk(nextID) => Started("live")
         /\ StartFails(nextID) => Started("failed")
         /\ StartFaults(nextID) => Started("failed")
  <1>1. next \in [Pid -> Link] /\ first \in Link /\ last \in Link /\ NULL \in Link
        /\ nextID \in Link
    BY DEF TypeOK, Link
  <1>2. Append(nextID) => next' \in [Pid -> Link] /\ first' \in Link
    BY <1>1 DEF Append
  <1>3. StartOk(nextID) => Started("live")
    <2>1. SUFFICES ASSUME StartOk(nextID) PROVE Started("live")
      OBVIOUS
    <2>2. PICK code \in {{}, {"code"}} :
            mem' = mem \cup Objects(nextID, {"struct", "name", "dStack", "rStack"} \cup code)
      BY <2>1 DEF StartOk
    <2>3. {"struct", "name", "dStack", "rStack"} \cup code \in SUBSET Kind
      BY <2>2 DEF Kind
    <2> QED
      BY <1>2, <2>1, <2>2, <2>3 DEF StartOk, Append, Started
  <1>4. StartFails(nextID) => Started("failed")
    <2>1. SUFFICES ASSUME StartFails(nextID) PROVE Started("failed")
      OBVIOUS
    <2>2. PICK code \in {{}, {"code"}} :
            mem' = mem \cup Objects(nextID, {"struct", "dStack", "rStack", "file"} \cup code)
      BY <2>1 DEF StartFails
    <2>3. {"struct", "dStack", "rStack", "file"} \cup code \in SUBSET Kind
      BY <2>2 DEF Kind
    <2>4. next' \in [Pid -> Link] /\ first' \in Link
      BY <1>1, <2>1 DEF StartFails
    <2> QED
      BY <2>1, <2>2, <2>3, <2>4 DEF StartFails, Started
  <1>5. StartFaults(nextID) => Started("failed")
    <2>1. SUFFICES ASSUME StartFaults(nextID) PROVE Started("failed")
      OBVIOUS
    <2>2. PICK code \in {{}, {"code"}} :
            mem' = mem \cup Objects(nextID, {"struct", "name", "dStack", "rStack", "file"} \cup code)
      BY <2>1 DEF StartFaults
    <2>3. {"struct", "name", "dStack", "rStack", "file"} \cup code \in SUBSET Kind
      BY <2>2 DEF Kind
    <2> QED
      BY <1>2, <2>1, <2>2, <2>3 DEF StartFaults, Append, Started
  <1> QED
    BY <1>3, <1>4, <1>5

\* A start keeps the types of what it changes, the order of the ids, and the
\* structs and the memory of live processes.
LEMMA StartedKeeps ==
  ASSUME TypeOK, IdsInv, MemInv, nextID \in Pid, NEW end \in {"live", "failed"},
         Started(end), pc # "freed", pc' \in Place, current' \in Link
  PROVE  TypeOK' /\ IdsInv' /\ MemInv' /\ mem \subseteq mem'
  <1>1. nextID \in Nat /\ MaxID \in Nat /\ nextID <= MaxID /\ nextID \in Link
        /\ nextID \in 1 .. MaxID
    BY SchedulerAssumption DEF TypeOK, Pid, Link
  <1>2. PICK kinds \in SUBSET Kind :
          /\ "struct" \in kinds
          /\ end = "live" => {"struct", "name", "dStack", "rStack"} \subseteq kinds
          /\ mem' = mem \cup Objects(nextID, kinds)
    BY DEF Started
  <1>3. mem' \subseteq Pid \X Kind
    BY <1>2 DEF TypeOK, Objects
  <1>4. nextID' \in 1 .. MaxID + 1
    BY <1>1 DEF Started
  <1>5. status' \in [Pid -> Status] /\ prev' \in [Pid -> Link]
    BY <1>1 DEF Started, TypeOK, Status
  <1>6. TypeOK'
    BY <1>1, <1>3, <1>4, <1>5 DEF TypeOK, Started
  <1>7. /\ \A p \in Pid : status'[p] = IF p = nextID THEN end ELSE status[p]
        /\ \A p \in Pid : prev'[p] = IF p = nextID THEN last ELSE prev[p]
        /\ nextID' = nextID + 1 /\ last' = nextID
    BY DEF TypeOK, Started
  <1>8. IdsInv'
    <2>1. ASSUME NEW p \in Pid PROVE status'[p] = "unused" <=> nextID' <= p
      <3>1. p \in Nat /\ (status[p] = "unused" <=> nextID <= p)
        BY Numbers DEF IdsInv
      <3> QED
        BY <1>1, <1>7, <3>1
    <2>2. ASSUME NEW p \in Pid PROVE prev'[p] < nextID'
      <3>1. prev[p] < nextID /\ last < nextID /\ prev[p] \in Nat /\ last \in Nat
        BY Numbers DEF IdsInv, TypeOK
      <3> QED
        BY <1>1, <1>7, <3>1
    <2>3. last' < nextID'
      BY <1>1, <1>7
    <2> QED
      BY <2>1, <2>2, <2>3 DEF IdsInv
  <1>9. \A p \in Pid : status'[p] # "unused" => <<p, "struct">> \in mem'
    BY <1>2, <1>7 DEF MemInv, Objects
  <1>10. ASSUME NEW p \in Live'
         PROVE  Objects(p, {"struct", "name", "dStack", "rStack"}) \subseteq mem'
    <2>1. CASE p = nextID
      <3>1. end = "live"
        BY <1>7, <2>1 DEF Live
      <3> QED
        BY <1>2, <2>1, <3>1 DEF Objects
    <2>2. CASE p # nextID
      <3>1. p \in Live
        BY <1>7, <2>2 DEF Live
      <3> QED
        BY <1>2, <3>1 DEF MemInv
    <2> QED
      BY <2>1, <2>2
  <1>11. MemInv'
    BY <1>9, <1>10 DEF MemInv
  <1> QED
    BY <1>2, <1>6, <1>8, <1>11

-----------------------------------------------------------------------------
(* The invariant *)

LEMMA InitInv ==
  Init => IInv
  <1> SUFFICES ASSUME Init PROVE IInv
    OBVIOUS
  <1>1. \A p \in Pid : status[p] = "unused" /\ prev[p] = 0
    BY DEF Init, NULL
  <1>2. Live = {} /\ Failed = {} /\ Queue = {}
    BY <1>1 DEF Live, Failed, Queue
  <1>3. TypeOK
    <2>1. 1 \in 1 .. MaxID + 1
      BY SchedulerAssumption
    <2> QED
      BY <2>1 DEF Init, TypeOK, Link, Status, Place
  <1>4. QueueInv
    BY <1>2 DEF Init, QueueInv, ListIsQueue, Linked, LastPlace, IsFirstOf, IsLastOf
  <1>5. IdsInv
    <2>1. \A p \in Pid : 1 <= p
      BY SchedulerAssumption DEF Pid
    <2> QED
      BY <1>1, <2>1 DEF Init, IdsInv, NULL
  <1>6. MemInv
    BY <1>1, <1>2 DEF MemInv
  <1> QED
    BY <1>3, <1>4, <1>5, <1>6
    DEF Init, IInv, CurrentRuns, NoBadFree, PlaceInv

\* The first start; nothing runs yet.
LEMMA BootStep ==
  ASSUME IInv, BootOk \/ BootFaults
  PROVE  IInv'
  <1>1. /\ TypeOK /\ ListIsQueue /\ LastPlace /\ IdsInv /\ MemInv
        /\ pc = "boot" /\ current = NULL /\ current' = NULL
    BY DEF IInv, QueueInv, PlaceInv, BootOk, BootFaults
  <1>2. nextID \in Pid
    BY SchedulerAssumption DEF IInv, PlaceInv, BootOk, BootFaults, Pid
  <1>3. PICK end \in {"live", "failed"} : Started(end)
    BY <1>1, <1>2, StartedShape DEF BootOk, BootFaults
  <1>4. pc' \in {"ready", "fault"} /\ current' \in Link
    BY <1>1 DEF BootOk, BootFaults, Link
  <1>5. TypeOK' /\ IdsInv' /\ MemInv'
    BY <1>1, <1>2, <1>3, <1>4, StartedKeeps DEF Place
  <1>6. QueueInv'
    <2>1. BootOk => ListIsQueue' /\ LastPlace'
      BY <1>1, <1>2, StartOkEffect DEF BootOk
    <2> QED
      BY <2>1 DEF QueueInv, BootFaults
  <1>7. CurrentRuns' /\ NoBadFree' /\ PlaceInv'
    BY <1>1, <1>4 DEF CurrentRuns, NoBadFree, PlaceInv
  <1> QED
    BY <1>5, <1>6, <1>7 DEF IInv

\* A start from inside a slice; the process that runs stays in the queue.
LEMMA SpawnStep ==
  ASSUME IInv, SpawnOk \/ SpawnFails
  PROVE  IInv'
  <1>1. /\ TypeOK /\ ListIsQueue /\ LastPlace /\ IdsInv /\ MemInv
        /\ nextID \in Pid /\ pc = "slice" /\ pc' = "slice" /\ current' = current
        /\ current \in Queue /\ current \in Link
        /\ Objects(current, {"struct", "dStack", "rStack"}) \subseteq mem
    BY DEF IInv, QueueInv, CurrentRuns, SpawnOk, SpawnFails, Executing, TypeOK
  <1>2. PICK end \in {"live", "failed"} : Started(end)
    BY <1>1, StartedShape DEF SpawnOk, SpawnFails
  <1>3. TypeOK' /\ IdsInv' /\ MemInv' /\ mem \subseteq mem'
    BY <1>1, <1>2, StartedKeeps DEF Place
  <1>4. ListIsQueue' /\ LastPlace' /\ Queue \subseteq Queue'
    <2>1. CASE SpawnOk
      BY <1>1, <2>1, StartOkEffect DEF SpawnOk
    <2>2. CASE SpawnFails
      BY <1>1, <2>2, StartFailsEffect DEF SpawnFails
    <2> QED
      BY <2>1, <2>2
  <1>5. CurrentRuns'
    <2>1. current' \in Queue'
      BY <1>1, <1>4
    <2>2. Objects(current', {"struct", "dStack", "rStack"}) \subseteq mem'
      BY <1>1, <1>3
    <2> QED
      BY <1>1, <2>1, <2>2 DEF CurrentRuns
  <1>6. QueueInv' /\ NoBadFree' /\ PlaceInv'
    BY <1>1, <1>4 DEF QueueInv, NoBadFree, PlaceInv
  <1> QED
    BY <1>3, <1>5, <1>6 DEF IInv

\* Everything Scheduler_Free comes across is still allocated: the chain it
\* follows leads through processes that were started, and a struct is never
\* freed before.
LEMMA FreeAllIsGood ==
  ASSUME IInv, FreeAll
  PROVE  pc' = "freed"
  <1> DEFINE S == {p \in Pid : p < nextID}
  <1>1. /\ TypeOK /\ IdsInv /\ MemInv /\ pc = "returned"
        /\ last \in Link /\ prev \in [Pid -> Link]
    BY DEF IInv, FreeAll, TypeOK
  <1>2. last # NULL => last \in S
    BY <1>1 DEF IdsInv, Link
  <1>3. ASSUME NEW r \in S, prev[r] # NULL PROVE prev[r] \in S
    BY <1>1, <1>3 DEF IdsInv, Link
  <1>4. Chain(last, prev) \subseteq S
    <2>1. S \in SUBSET Pid
      OBVIOUS
    <2> QED
      BY <1>2, <1>3, <2>1 DEF Chain
  <1>5. ASSUME NEW p \in S PROVE <<p, "struct">> \in mem
    <2>1. nextID \in Nat /\ p \in Nat /\ p < nextID
      BY <1>1, QueueNumbers, Numbers
    <2>2. status[p] # "unused"
      BY <1>1, <2>1 DEF IdsInv
    <2> QED
      BY <1>1, <2>2 DEF MemInv
  <1>6. {<<p, "struct">> : p \in Chain(last, prev)} \subseteq mem
    BY <1>4, <1>5
  <1> QED
    BY <1>6 DEF FreeAll

\* The steps that leave the list alone.
LEMMA StandsStep ==
  ASSUME IInv, Stands
  PROVE  IInv'
  <1>1. /\ Queue' = Queue /\ Live' = Live /\ Standing
        /\ ListIsQueue' = ListIsQueue /\ LastPlace' = LastPlace /\ IdsInv' = IdsInv
    BY WhoStands, StandingStep
  <1>2. /\ TypeOK /\ ListIsQueue /\ LastPlace /\ IdsInv /\ MemInv /\ pc \in Place
        /\ pc \notin {"fault", "exited", "badFree", "freed"}
    BY DEF IInv, QueueInv, TypeOK, Stands, BootExits, EnterRun, FreeAll, Dispatch,
           Return, FetchFaults, Crash, Yield, Executing
  <1>3. QueueInv' /\ IdsInv'
    BY <1>1, <1>2 DEF QueueInv
  <1>4. NoBadFree'
    <2>1. FreeAll => pc' # "badFree"
      BY FreeAllIsGood
    <2> QED
      BY <2>1 DEF NoBadFree, Stands, BootExits, EnterRun, Dispatch, Return, FetchFaults,
                  Crash, Yield
  <1>5. MemInv'
    <2>1. CASE FreeAll
      BY <2>1, FreeAllIsGood DEF MemInv
    <2>2. CASE ~FreeAll
      <3>1. mem' = mem
        BY <2>2 DEF Stands, BootExits, EnterRun, Dispatch, Return, FetchFaults, Crash, Yield
      <3> QED
        BY <1>1, <1>2, <3>1 DEF MemInv, Standing
    <2> QED
      BY <2>1, <2>2
  <1>6. PlaceInv'
    <2>1. pc' \in {"boot", "ready", "returned", "freed"} =>
            pc' # "boot" /\ pc' # "ready" /\ current = NULL /\ current' = NULL
      BY DEF IInv, PlaceInv, Stands, BootExits, EnterRun, FreeAll, Dispatch, Return,
             FetchFaults, Crash, Yield
    <2> QED
      BY <2>1 DEF PlaceInv
  <1>7. EnterRun \/ Yield => current' \in Queue' \/ (current' = NULL /\ Queue' = {})
    <2>1. EnterRun => current' \in Queue \/ (current' = NULL /\ Queue = {})
      BY <1>2 DEF EnterRun, ListIsQueue, Linked, IsFirstOf
    <2>2. Yield => current' \in Queue
      <3>1. SUFFICES ASSUME Yield PROVE current' \in Queue
        OBVIOUS
      <3>2. current \in Queue
        BY <3>1 DEF Yield, Executing, IInv, CurrentRuns
      <3>3. Linked(first, next, prev, Queue) /\ Queue \in SUBSET (Nat \ {NULL})
        BY <1>2, QueueNumbers DEF ListIsQueue
      <3>4. first \in Queue /\ (next[current] # NULL => next[current] \in Queue)
        BY <3>2, <3>3, NextTurn
      <3> QED
        BY <3>1, <3>4 DEF Yield, AfterCurrent
    <2> QED
      BY <1>1, <2>1, <2>2
  <1>8. CurrentRuns'
    <2>1. pc' = "slice" => /\ current' \in Queue'
                           /\ Objects(current', {"struct", "dStack", "rStack"}) \subseteq mem'
      <3>1. SUFFICES ASSUME pc' = "slice"
                     PROVE  /\ current' \in Queue'
                            /\ Objects(current', {"struct", "dStack", "rStack"}) \subseteq mem'
        OBVIOUS
      <3>2. Dispatch
        BY <3>1, <1>4 DEF Stands, BootExits, EnterRun, FreeAll, Return, FetchFaults,
                          Crash, Yield
      <3>3. current' = current /\ mem' = mem /\ current \in Queue
        BY <3>2 DEF Dispatch, IInv, CurrentRuns
      <3>4. Objects(current, {"struct", "name", "dStack", "rStack"}) \subseteq mem
        BY <1>2, <3>3, QueueIds DEF MemInv
      <3> QED
        BY <1>1, <3>3, <3>4 DEF Objects
    <2>2. pc' = "top" => current' \in Queue' \/ (current' = NULL /\ Queue' = {})
      <3>1. SUFFICES ASSUME pc' = "top" PROVE EnterRun \/ Yield
        BY <1>7
      <3> QED
        BY <3>1 DEF Stands, BootExits, FreeAll, Dispatch, Return, FetchFaults, Crash
    <2>3. pc' \in {"returned", "freed"} => Queue' = {}
      <3>1. SUFFICES ASSUME pc' \in {"returned", "freed"} PROVE Return \/ FreeAll
        <4>1. Return => current \notin Queue
          BY <1>2, QueueNumbers DEF Return
        <4> QED
          BY <1>1, <4>1 DEF Return, FreeAll, IInv, CurrentRuns
      <3> QED
        BY <3>1 DEF Stands, BootExits, EnterRun, Dispatch, FetchFaults, Crash, Yield
    <2> QED
      BY <2>1, <2>2, <2>3 DEF CurrentRuns
  <1>9. TypeOK'
    <2>1. mem' \subseteq mem
      BY DEF Stands, BootExits, EnterRun, FreeAll, Dispatch, Return, FetchFaults, Crash, Yield
    <2>2. current' \in Link
      <3>1. current' = current \/ EnterRun \/ Yield
        BY DEF Stands, BootExits, FreeAll, Dispatch, Return, FetchFaults, Crash
      <3> QED
        BY <1>1, <1>2, <1>7, <3>1, QueueIds DEF TypeOK, Link
    <2>3. pc' \in Place
      BY DEF Place, Stands, BootExits, EnterRun, FreeAll, Dispatch, Return, FetchFaults,
             Crash, Yield
    <2> QED
      BY <1>1, <1>2, <2>1, <2>2, <2>3 DEF TypeOK, Standing
  <1> QED
    BY <1>3, <1>4, <1>5, <1>6, <1>8, <1>9 DEF IInv

\* The turn after a halt: the successor, or the first of those that are left.
LEMMA HaltTurn ==
  ASSUME IInv, Halt
  PROVE  /\ current \in Queue /\ Queue' = Queue \ {current} /\ ListIsQueue' /\ LastPlace'
         /\ next[current] = NULL =>
              current' = first' /\ (current' \in Queue' \/ (current' = NULL /\ Queue' = {}))
         /\ next[current] # NULL => current' = next[current] /\ current' \in Queue'
  <1>1. TypeOK /\ IdsInv /\ ListIsQueue /\ LastPlace /\ current \in Queue
    BY DEF IInv, QueueInv, CurrentRuns, Halt, Executing
  <1>2. Queue' = Queue \ {current} /\ ListIsQueue' /\ LastPlace'
    BY <1>1, HaltEffect
  <1>3. current' = IF next[current] = NULL THEN first' ELSE next[current]
    BY DEF Halt, AfterCurrent
  <1>4. first' \in Queue' \/ (first' = NULL /\ Queue' = {})
    BY <1>2 DEF ListIsQueue, Linked, IsFirstOf
  <1>5. next[current] # NULL => next[current] \in Queue \ {current}
    <2>1. Linked(first, next, prev, Queue) /\ Queue \in SUBSET (Nat \ {NULL})
      BY <1>1, QueueNumbers DEF ListIsQueue
    <2> QED
      BY <1>1, <2>1, NextTurn
  <1> QED
    BY <1>1, <1>2, <1>3, <1>4, <1>5

LEMMA HaltStep ==
  ASSUME IInv, Halt
  PROVE  IInv'
  <1>1. /\ TypeOK /\ IdsInv /\ MemInv /\ pc = "slice" /\ <<current, "code">> \in mem
        /\ current \in Pid /\ current \in Live
    <2>1. current \in Queue /\ TypeOK /\ IdsInv
      BY HaltTurn DEF IInv
    <2> QED
      BY <2>1, QueueIds DEF IInv, Halt, Executing
  <1>2. Killed(current) \subseteq mem
    BY <1>1 DEF MemInv, Objects, Killed
  <1>3. /\ pc' = "top" /\ mem' = mem \ Killed(current) /\ nextID' = nextID
        /\ last' = IF current = last THEN prev[current] ELSE last
        /\ first' = IF current = first THEN next[current] ELSE first
        /\ status' = [status EXCEPT ![current] = "killed"]
        /\ next' = IF prev[current] = NULL THEN next
                     ELSE [next EXCEPT ![prev[current]] = next[current]]
        /\ prev' = IF next[current] = NULL THEN prev
                     ELSE [prev EXCEPT ![next[current]] = prev[current]]
    BY <1>2 DEF Halt, Unlink
  <1>4. QueueInv' /\ CurrentRuns' /\ NoBadFree' /\ PlaceInv'
    <2>1. current' \in Queue' \/ (current' = NULL /\ Queue' = {})
      BY HaltTurn
    <2> QED
      BY <1>3, <2>1, HaltTurn DEF QueueInv, CurrentRuns, NoBadFree, PlaceInv
  <1>5. TypeOK'
    <2>1. next[current] \in Link /\ prev[current] \in Link
      BY <1>1 DEF TypeOK
    <2>2. next' \in [Pid -> Link] /\ prev' \in [Pid -> Link]
      BY <1>1, <1>3, <2>1 DEF TypeOK
    <2>3. current' \in Link
      <3>1. current' \in Queue' \/ current' = NULL
        BY HaltTurn
      <3>2. Queue' \subseteq Pid
        BY HaltTurn, <1>1, QueueIds
      <3> QED
        BY <3>1, <3>2 DEF Link
    <2>4. status' \in [Pid -> Status] /\ mem' \subseteq Pid \X Kind
      BY <1>1, <1>3 DEF TypeOK, Status
    <2> QED
      BY <1>1, <1>3, <2>1, <2>2, <2>3, <2>4 DEF TypeOK, Place
  <1>6. IdsInv'
    <2>1. /\ status[current] # "unused" /\ prev[current] < nextID
          /\ status \in [Pid -> Status] /\ prev \in [Pid -> Link]
      BY <1>1 DEF Live, IdsInv, TypeOK
    <2>2. \A p \in Pid : status'[p] = "unused" <=> status[p] = "unused"
      BY <1>1, <1>3, <2>1
    <2>3. ASSUME NEW p \in Pid PROVE prev'[p] < nextID'
      <3>1. prev'[p] \in {prev[p], prev[current]}
        BY <1>3, <2>1
      <3> QED
        BY <1>1, <1>3, <2>1, <3>1 DEF IdsInv
    <2> QED
      BY <1>1, <1>3, <2>1, <2>2, <2>3 DEF IdsInv
  <1>7. MemInv'
    <2>1. status \in [Pid -> Status] /\ status[current] = "live"
      BY <1>1 DEF TypeOK, Live
    <2>2. ASSUME NEW p \in Pid, status'[p] # "unused" PROVE <<p, "struct">> \in mem'
      <3>1. <<p, "struct">> \in mem
        BY <1>1, <1>3, <2>1, <2>2 DEF MemInv
      <3> QED
        BY <1>3, <3>1 DEF Killed, Objects
    <2>3. ASSUME NEW p \in Live'
          PROVE  Objects(p, {"struct", "name", "dStack", "rStack"}) \subseteq mem'
      <3>1. p \in Live /\ p # current
        BY <1>1, <1>3, <2>1 DEF Live
      <3>2. Objects(p, {"struct", "name", "dStack", "rStack"}) \subseteq mem
        BY <1>1, <3>1 DEF MemInv
      <3> QED
        BY <1>3, <3>1, <3>2 DEF Killed, Objects
    <2> QED
      BY <2>2, <2>3 DEF MemInv
  <1> QED
    BY <1>4, <1>5, <1>6, <1>7 DEF IInv

LEMMA NextInv ==
  IInv /\ [Next]_vars => IInv'
  <1> SUFFICES ASSUME IInv, [Next]_vars PROVE IInv'
    OBVIOUS
  <1>1. CASE BootOk \/ BootFaults
    BY <1>1, BootStep
  <1>2. CASE SpawnOk \/ SpawnFails
    BY <1>2, SpawnStep
  <1>3. CASE Halt
    BY <1>3, HaltStep
  <1>4. CASE Stands
    BY <1>4, StandsStep
  <1>5. CASE UNCHANGED vars
    <2>1. Standing
      BY <1>5 DEF vars, Standing
    <2> QED
      BY <1>5, <2>1, StandingStep
      DEF vars, IInv, TypeOK, QueueInv, CurrentRuns, NoBadFree, MemInv, PlaceInv
  <1> QED
    BY <1>1, <1>2, <1>3, <1>4, <1>5 DEF Next, Main, Run, Program, Stands

\* The invariant holds in every state of every run, for any bound on the ids.
THEOREM Invariance == Spec => []IInv
  BY InitInv, NextInv, PTL DEF Spec

\* Every variable keeps its type: ids, links and places stay in range.
THEOREM TypeCorrect == Spec => []TypeOK
  <1>1. IInv => TypeOK
    BY DEF IInv
  <1> QED
    BY <1>1, Invariance, PTL

\* While no start has failed, every living process is in the run queue, linked in
\* both directions, and `processes' points to the last, whatever has been started
\* and killed.
THEOREM QueueStaysLinked == Spec => []QueueLinked
  <1>1. IInv => QueueLinked
    <2>1. IInv => TypeOK /\ IdsInv /\ QueueInv
      BY DEF IInv
    <2>2. TypeOK /\ IdsInv /\ Failed = {} => Queue = Live
      BY QueueIds
    <2> QED
      BY <2>1, <2>2 DEF QueueInv, ListIsQueue, LastPlace, QueueLinked
  <1> QED
    BY <1>1, Invariance, PTL

\* No slice goes to a dead process or to memory that was freed, and
\* Scheduler_Run returns only when nothing is left to run.
THEOREM OnlyQueuedRun == Spec => []CurrentRuns
  <1>1. IInv => CurrentRuns
    BY DEF IInv
  <1> QED
    BY <1>1, Invariance, PTL

\* Scheduler_Kill and Scheduler_Free free only what is allocated.
THEOREM FreesAreGood == Spec => []NoBadFree
  <1>1. IInv => NoBadFree
    BY DEF IInv
  <1> QED
    BY <1>1, Invariance, PTL

-----------------------------------------------------------------------------
(* Round robin *)

\* Those with a slice to come in this lap, and the one that has its slice.
Todo    == {p \in Queue : p >= current}
Running == IF pc \in {"boot", "ready", "top", "returned", "freed"} THEN NULL ELSE current

\* A start is a Start of the specification, or nothing to it.
LEMMA StartRound ==
  ASSUME IInv, BootOk \/ SpawnOk
  PROVE  Round!Start(nextID) \/ UNCHANGED Round!vars
  <1>1. /\ TypeOK /\ IdsInv /\ ListIsQueue /\ LastPlace /\ current \in Link
        /\ current' = current /\ StartOk(nextID)
    BY DEF IInv, QueueInv, BootOk, SpawnOk, Executing, TypeOK
  <1>2. nextID \in Pid
    BY SchedulerAssumption DEF IInv, PlaceInv, BootOk, SpawnOk, Pid
  <1>3. /\ Failed = {} => Queue' = Queue \cup {nextID}
        /\ Failed # {} => Queue' = Queue
    BY <1>1, <1>2, StartOkEffect
  <1>4. Running' = Running
    BY <1>1 DEF Running, BootOk, SpawnOk, Executing
  <1>5. CASE Failed # {}
    <2>1. Todo' = Todo
      BY <1>1, <1>3, <1>5 DEF Todo
    <2> QED
      BY <1>3, <1>4, <1>5, <2>1 DEF Round!vars, Todo, Running
  <1>6. CASE Failed = {}
    <2>1. nextID \notin Queue /\ nextID \in Nat /\ NULL < nextID
      BY <1>1, <1>2, QueueNumbers
    <2>2. nextID >= current
      <3>1. current = NULL \/ current \in Queue
        BY DEF IInv, PlaceInv, CurrentRuns, BootOk, SpawnOk, Executing
      <3>2. current \in Queue => current < nextID
        BY <1>1, QueueNumbers
      <3>3. current \in Nat
        BY <1>1, Numbers
      <3> QED
        BY <2>1, <3>1, <3>2, <3>3
    <2>3. Todo' = Todo \cup {nextID}
      <3>1. Todo' = {p \in Queue \cup {nextID} : p >= current}
        BY <1>1, <1>3, <1>6 DEF Todo
      <3> QED
        BY <2>2, <3>1 DEF Todo
    <2> QED
      BY <1>3, <1>4, <1>6, <2>1, <2>3 DEF Round!Start, Todo, Running
  <1> QED
    BY <1>5, <1>6

\* A slice that ends is a Finish: the lap goes on with the successor, or a new one
\* begins when there is none.
LEMMA FinishRound ==
  ASSUME IInv, Yield \/ Halt
  PROVE  Round!Finish
  <1> DEFINE c == current
  <1>1. /\ TypeOK /\ IdsInv /\ ListIsQueue /\ LastPlace /\ c \in Queue
        /\ pc = "slice" /\ pc' = "top"
    <2>1. Halt => pc' = "top"
      <3>1. Halt => NoBadFree'
        BY HaltStep DEF IInv
      <3> QED
        BY <3>1 DEF Halt, NoBadFree
    <2> QED
      BY <2>1 DEF IInv, QueueInv, CurrentRuns, Yield, Halt, Executing
  <1>2. Queue \in SUBSET (Nat \ {NULL}) /\ Linked(first, next, prev, Queue)
    BY <1>1, QueueNumbers DEF ListIsQueue
  <1>3. Running = c /\ c # NULL /\ Running' = NULL
    BY <1>1, <1>2 DEF Running
  <1>4. Queue' \in {Queue, Queue \ {c}}
    <2>1. Yield => Queue' = Queue
      BY StandingStep, WhoStands DEF Stands
    <2> QED
      BY <2>1, HaltTurn
  <1>5. Queue' \in SUBSET (Nat \ {NULL})
    BY <1>2, <1>4
  <1>6. Todo' = {p \in Queue' : p >= current'}
    BY DEF Todo
  <1>7. CASE next[c] = NULL
    <2>1. Todo = {c}
      BY <1>1, <1>2, <1>7, NextTurn DEF Todo
    <2>2. current' = first' /\ Linked(first', next', prev', Queue')
      <3>1. Yield => current' = first' /\ ListIsQueue'
        BY <1>1, <1>7, StandingStep, WhoStands DEF Stands, Yield, AfterCurrent
      <3> QED
        BY <1>7, <3>1, HaltTurn DEF ListIsQueue
    <2>3. Todo' = Queue'
      <3>1. CASE Queue' = {}
        BY <1>6, <3>1
      <3>2. CASE Queue' # {}
        <4>1. PICK q \in Queue' : TRUE
          BY <3>2
        <4>2. {p \in Queue' : p >= first'} = Queue'
          BY <1>5, <2>2, <4>1, NextTurn
        <4> QED
          BY <1>6, <2>2, <4>2
      <3> QED
        BY <3>1, <3>2
    <2> QED
      BY <1>3, <1>4, <2>1, <2>3 DEF Round!Finish, Todo, Running
  <1>8. CASE next[c] # NULL
    <2>1. /\ next[c] \in Queue \ {c}
          /\ Todo \ {c} = {p \in Queue : p >= next[c]}
          /\ Todo # {c}
      <3>1. /\ next[c] \in Queue \ {c}
            /\ {p \in Queue : p >= c} \ {c} = {p \in Queue : p >= next[c]}
            /\ {p \in Queue : p >= c} # {c}
        <4>1. next[c] # NULL =>
                /\ next[c] \in Queue \ {c}
                /\ {p \in Queue : p >= c} \ {c} = {p \in Queue : p >= next[c]}
                /\ {p \in Queue : p >= c} # {c}
          <5> HIDE DEF c
          <5> QED
            BY <1>1, <1>2, NextTurn
        <4> QED
          BY <1>8, <4>1
      <3> QED
        BY <3>1 DEF Todo
    <2>2. current' = next[c]
      BY <1>8, HaltTurn DEF Yield, AfterCurrent
    <2>3. Todo' = Todo \ {c}
      <3>1. c \notin {p \in Queue : p >= next[c]}
        BY <2>1
      <3>2. {p \in Queue' : p >= next[c]} = {p \in Queue : p >= next[c]}
        BY <1>4, <3>1
      <3> QED
        BY <1>6, <2>1, <2>2, <3>2
    <2> QED
      BY <1>3, <1>4, <2>1, <2>3 DEF Round!Finish, Todo, Running
  <1> QED
    BY <1>7, <1>8

\* The other steps change nothing that the specification sees, but for Dispatch.
LEMMA OtherRound ==
  ASSUME IInv, [Next]_vars, ~(BootOk \/ SpawnOk), ~(Yield \/ Halt)
  PROVE  (\E p \in Pid : Round!Dispatch(p)) \/ UNCHANGED Round!vars
  <1>1. TypeOK /\ IdsInv /\ (pc # "fault" => ListIsQueue /\ LastPlace)
    BY DEF IInv, QueueInv
  <1>2. CASE BootFaults
    <2>1. pc = "boot" /\ last = NULL /\ current = NULL /\ current' = NULL /\ pc' = "fault"
          /\ nextID = 1 /\ StartFaults(nextID)
      BY <1>2 DEF BootFaults, IInv, PlaceInv
    <2>2. Queue = {} /\ Failed = {}
      BY <1>1, <2>1, LastFacts
    <2>3. nextID \in Pid
      BY <2>1, SchedulerAssumption DEF Pid
    <2>4. Live = {}
      BY <2>2, QueueIds, <1>1
    <2>5. Live' = Live
      BY <1>1, <2>1, <2>3, QueueNumbers DEF StartFaults, Live, TypeOK
    <2>6. Queue' = {}
      BY <2>4, <2>5 DEF Queue
    <2> QED
      BY <2>1, <2>2, <2>6 DEF Round!vars
  <1>3. CASE SpawnFails
    <2>1. Queue' = Queue
      BY <1>1, <1>3, StartFailsEffect DEF SpawnFails, Executing
    <2> QED
      BY <1>3, <2>1 DEF SpawnFails, Executing, Round!vars
  <1>4. CASE Stands
    <2>1. Queue' = Queue
      BY <1>4, WhoStands, StandingStep
    <2>2. CASE EnterRun
      <3>1. current = NULL /\ current' = first /\ pc = "ready" /\ pc' = "top"
        BY <2>2 DEF EnterRun, IInv, PlaceInv
      <3>2. Queue \in SUBSET (Nat \ {NULL}) /\ Linked(first, next, prev, Queue)
        BY <1>1, <3>1, QueueNumbers DEF ListIsQueue
      <3>3. {p \in Queue : p >= NULL} = Queue
        <4>1. \A p \in Queue : p >= NULL
          BY <3>2 DEF NULL
        <4> QED
          BY <4>1
      <3>4. {p \in Queue : p >= first} = Queue
        <4>1. CASE Queue = {}
          BY <4>1
        <4>2. CASE Queue # {}
          <5>1. PICK q \in Queue : TRUE
            BY <4>2
          <5> QED
            BY <3>2, <5>1, NextTurn
        <4> QED
          BY <4>1, <4>2
      <3> QED
        BY <2>1, <3>1, <3>3, <3>4 DEF Round!vars
    <2>3. CASE Dispatch
      <3>1. /\ pc = "top" /\ pc' = "slice" /\ current' = current /\ current \in Queue
            /\ current \in Pid
        BY <1>1, <2>3, QueueIds DEF Dispatch, IInv, CurrentRuns
      <3>2. current \in Nat
        BY <3>1, Numbers
      <3>3. Todo' = Todo /\ current \in Todo /\ Running = NULL /\ Running' = current
        BY <2>1, <3>1, <3>2 DEF Todo, Running
      <3>4. Round!Dispatch(current)
        BY <2>1, <3>3 DEF Round!Dispatch, Todo, Running
      <3> QED
        BY <3>1, <3>4
    <2>4. CASE ~EnterRun /\ ~Dispatch
      <3>1. current' = current /\ Todo' = Todo
        BY <1>4, <2>1, <2>4
        DEF Stands, BootExits, FreeAll, Return, FetchFaults, Crash, Yield, Todo
      <3>2. Running' = Running
        <4>1. pc \in {"boot", "ready", "top", "returned", "freed"} => current = NULL
          BY <1>4, <2>4
          DEF Stands, BootExits, FreeAll, Return, FetchFaults, Crash, Executing, IInv, PlaceInv
        <4> QED
          BY <1>4, <2>4, <3>1, <4>1
          DEF Stands, BootExits, FreeAll, Return, FetchFaults, Crash, Executing, Running
      <3> QED
        BY <2>1, <3>1, <3>2 DEF Round!vars, Todo, Running
    <2> QED
      BY <2>2, <2>3, <2>4
  <1>5. CASE UNCHANGED vars
    <2>1. Queue' = Queue
      BY <1>5 DEF vars, Queue, Live, Failed
    <2> QED
      BY <1>5, <2>1 DEF vars, Round!vars
  <1> QED
    BY <1>2, <1>3, <1>4, <1>5 DEF Next, Main, Run, Program, Stands

\* The scheduler implements the laps of round robin.
THEOREM RoundRobinKept == Spec => RoundRobin
  <1>1. Init => Round!Init
    <2>1. Init => Queue = {}
      BY DEF Init, Queue, Live
    <2> QED
      BY <2>1 DEF Init, Round!Init
  <1>2. IInv /\ [Next]_vars => [Round!Next]_(Round!vars)
    <2>1. SUFFICES ASSUME IInv, [Next]_vars PROVE [Round!Next]_(Round!vars)
      OBVIOUS
    <2>2. CASE BootOk \/ SpawnOk
      <3>1. nextID \in Pid
        BY <2>1, <2>2, SchedulerAssumption DEF IInv, PlaceInv, BootOk, SpawnOk, Pid
      <3> QED
        <4>1. Round!Start(nextID) => Round!Next
          BY <3>1 DEF Round!Next, Round!Start
        <4> QED
          BY <2>1, <2>2, <4>1, StartRound
    <2>3. CASE Yield \/ Halt
      BY <2>1, <2>3, FinishRound DEF Round!Next
    <2>4. CASE ~(BootOk \/ SpawnOk) /\ ~(Yield \/ Halt)
      BY <2>1, <2>4, OtherRound DEF Round!Next
    <2> QED
      BY <2>2, <2>3, <2>4
  <1> QED
    BY <1>1, <1>2, Invariance, PTL DEF Spec, RoundRobin, Round!Spec

=============================================================================
