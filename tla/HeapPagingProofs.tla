-------------------------- MODULE HeapPagingProofs --------------------------
(***************************************************************************)
(* Proofs about HeapPaging, for any heaps, also overlapping ones, and any  *)
(* number of frames, threads, writes and pulls.                            *)
(***************************************************************************)
EXTENDS HeapPaging, TLAPS

-----------------------------------------------------------------------------
(* The inductive invariant *)

(* The kernel of the producer: two pages never share a frame, and what is  *)
(* in the frame of a page is among the bytes the page has held.            *)
FramesKept ==
    \A q \in Heaps, p \in Pages : pte[q][p] # NoFrame =>
        /\ mem[q][pte[q][p]] \in held[q][p]
        /\ \A o \in Pages : pte[q][o] = pte[q][p] => o = p

(* A descriptor that translates a page names the frame the page still has, *)
(* unless the producer gave the page up.                                   *)
TableKept ==
    \A q \in Heaps, p \in Pages : table[q][p] # NoFrame =>
        q \in ready /\ (p \notin dropped[q] => pte[q][p] = table[q][p])

(* Only registered heaps are pulled, and a page is only brought in where   *)
(* one is mapped.                                                          *)
PullsKept ==
    /\ \A k \in DOMAIN heaps : heaps[k] \in ready
    /\ pulling # None => pulling \in ready /\ Len(heaps) < MaxPulls
    /\ \A p \in Pages : mapped[p] \in ready \cup {None}
    /\ \A p \in Pages : page[p] # Absent => mapped[p] # None

(* The loop of a page fault has been over the heaps before its place, and  *)
(* they do not translate the page; it misses pushes only in a race.        *)
FaultsKept ==
    \A t \in Threads : Faulting(t) =>
        /\ fault[t].i >= 1 /\ fault[t].n <= Len(heaps)
        /\ mapped[fault[t].p] # None
        /\ ~raced => fault[t].n = Len(heaps)
        /\ ~fault[t].failed => \A k \in 1 .. fault[t].n :
              k < fault[t].i => table[heaps[k]][fault[t].p] = NoFrame

PagingInv ==
    TypeOK /\ FramesKept /\ TableKept /\ PullsKept /\ FaultsKept /\ OwnPage

-----------------------------------------------------------------------------
(* Types *)

LEMMA PageFacts ==
    /\ NoPage \notin Pages
    /\ \A q \in Heaps : Area[q] \subseteq Pages
    /\ NoFrame \notin Frames /\ None \notin Heaps
    /\ Absent \notin Bytes /\ Junk \in Bytes
    /\ MaxPulls \in Nat /\ MaxWrites \in Nat
<1>1. NoPage \notin Pages /\ \A q \in Heaps : Area[q] \subseteq Pages
  BY PagingAssumption DEF Pages
<1>2. NoFrame \notin Frames /\ None \notin Heaps
  BY PagingAssumption
<1>3. Absent \notin Bytes /\ Junk \in Bytes
  BY PagingAssumption DEF Absent, Bytes, Junk
<1> QED
  BY <1>1, <1>2, <1>3, PagingAssumption

Faults == [p : Pages \cup {NoPage}, i : 0 .. MaxPulls + 1, n : 0 .. MaxPulls,
           failed : BOOLEAN]

LEMMA NoFaultType == NoFault \in Faults /\ NoFault.p = NoPage
BY PageFacts DEF NoFault, Faults

(* The two halves of TypeOK. *)
ProducerType ==
    /\ pte \in [Heaps -> [Pages -> Frames \cup {NoFrame}]]
    /\ mem \in [Heaps -> [Frames -> Bytes]]
    /\ table \in [Heaps -> [Pages -> Frames \cup {NoFrame}]]
    /\ ready \in SUBSET Heaps
    /\ writes \in Bytes
    /\ held \in [Heaps -> [Pages -> SUBSET Bytes]]
    /\ dropped \in [Heaps -> SUBSET Pages]

ConsumerType ==
    /\ mapped \in [Pages -> Heaps \cup {None}]
    /\ page \in [Pages -> Bytes \cup {Absent}]
    /\ heaps \in Seq(Heaps) /\ Len(heaps) <= MaxPulls
    /\ pulling \in Heaps \cup {None}
    /\ fault \in [Threads -> Faults]
    /\ killed \in BOOLEAN /\ raced \in BOOLEAN

LEMMA TypeHalves == TypeOK <=> ProducerType /\ ConsumerType
BY DEF TypeOK, ProducerType, ConsumerType, Faults

LEMMA ProducerSteps ==
    ASSUME [Next]_vars
    PROVE  \/ UNCHANGED producer
           \/ /\ UNCHANGED consumer
              /\ \/ \E q \in Heaps : Register(q)
                 \/ \E q \in Heaps, p \in Pages : Write(q, p) \/ Drop(q, p)
BY DEF Next, vars, Apply, Push, Touch, NotHere, ReadFails, FaultDone, Segv,
       Register, Write, Drop

LEMMA WriteFrame ==
    ASSUME ProducerType, NEW q \in Heaps, NEW p \in Pages, Write(q, p)
    PROVE  \E f \in Frames :
              /\ pte[q][p] = f \/ (pte[q][p] = NoFrame /\ \A o \in Pages : pte[q][o] # f)
              /\ pte' = [pte EXCEPT ![q][p] = f]
              /\ mem' = [mem EXCEPT ![q][f] = writes + 1]
<1>1. PICK f \in IF pte[q][p] = NoFrame THEN FreeFrames(q) ELSE {pte[q][p]} :
         /\ pte' = [pte EXCEPT ![q][p] = f]
         /\ mem' = [mem EXCEPT ![q][f] = writes + 1]
  BY DEF Write
<1>2. CASE pte[q][p] = NoFrame
  <2>1. f \in Frames /\ \A o \in Pages : pte[q][o] # f
    BY <1>2 DEF FreeFrames
  <2> QED
    BY <1>1, <1>2, <2>1
<1>3. CASE pte[q][p] # NoFrame
  <2>1. f \in Frames /\ pte[q][p] = f
    BY <1>3 DEF ProducerType
  <2> QED
    BY <1>1, <2>1
<1> QED
  BY <1>2, <1>3

LEMMA ProducerTypeStep ==
    ASSUME ProducerType, [Next]_vars
    PROVE  ProducerType'
<1> USE PageFacts
<1>1. CASE UNCHANGED producer
  BY <1>1 DEF ProducerType, producer
<1>2. ASSUME NEW q \in Heaps, Register(q)
      PROVE  ProducerType'
  <2>1. [p \in Pages |-> IF pte[q][p] = NoFrame THEN {} ELSE {mem[q][pte[q][p]]}]
           \in [Pages -> SUBSET Bytes]
    BY DEF ProducerType
  <2> QED
    BY <1>2, <2>1 DEF ProducerType, Register
<1>3. ASSUME NEW q \in Heaps, NEW p \in Pages, Write(q, p)
      PROVE  ProducerType'
  <2>1. writes + 1 \in Bytes
    BY <1>3 DEF Write, ProducerType, Bytes
  <2>2. PICK f \in Frames : /\ pte' = [pte EXCEPT ![q][p] = f]
                            /\ mem' = [mem EXCEPT ![q][f] = writes + 1]
    BY <1>3, WriteFrame
  <2>3. /\ writes' = writes + 1
        /\ held' = [held EXCEPT ![q][p] = @ \cup {writes + 1}]
        /\ UNCHANGED <<table, ready, dropped>>
    BY <1>3 DEF Write
  <2>4. /\ pte' \in [Heaps -> [Pages -> Frames \cup {NoFrame}]]
        /\ mem' \in [Heaps -> [Frames -> Bytes]]
    BY <2>1, <2>2 DEF ProducerType
  <2>5. held' \in [Heaps -> [Pages -> SUBSET Bytes]]
    BY <2>1, <2>3 DEF ProducerType
  <2> QED
    BY <2>1, <2>3, <2>4, <2>5 DEF ProducerType
<1>4. ASSUME NEW q \in Heaps, NEW p \in Pages, Drop(q, p)
      PROVE  ProducerType'
  BY <1>4 DEF ProducerType, Drop
<1> QED
  BY <1>1, <1>2, <1>3, <1>4, ProducerSteps

(* The place of the loop is a heap that was pulled ... *)
LEMMA LoopFacts ==
    ASSUME ConsumerType, FaultsKept, NEW t \in Threads, AtHeap(t)
    PROVE  /\ Faulting(t) /\ fault[t].p \in Pages
           /\ fault[t].i \in 1 .. fault[t].n /\ fault[t].n \in Nat
           /\ fault[t].i \in DOMAIN heaps /\ Heap(t) \in Heaps
<1>1. fault[t] \in Faults /\ Faulting(t)
  BY DEF ConsumerType, AtHeap
<1>2. fault[t].p \in Pages /\ fault[t].i \in 1 .. fault[t].n /\ fault[t].n \in Nat
  BY <1>1, PageFacts DEF AtHeap, Faulting, FaultsKept, Faults
<1>3. fault[t].i \in 1 .. Len(heaps) /\ heaps \in Seq(Heaps)
  BY <1>1, <1>2 DEF FaultsKept, ConsumerType
<1> QED
  BY <1>1, <1>2, <1>3 DEF Heap

(* ... and what it finds is in the frame of that heap's descriptor, or the *)
(* fault has been overtaken by a push.                                     *)
LEMMA FoundFacts ==
    ASSUME NEW t \in Threads, NEW d \in Found(t)
    PROVE  \/ /\ table[Heap(t)][fault[t].p] # NoFrame
              /\ d = mem[Heap(t)][table[Heap(t)][fault[t].p]]
           \/ fault[t].n < Len(heaps) /\ d = Junk
BY DEF Found

LEMMA ConsumerTypeStep ==
    ASSUME ProducerType, ConsumerType, PullsKept, FaultsKept, [Next]_vars
    PROVE  ConsumerType'
<1> USE PageFacts, NoFaultType
<1>1. CASE UNCHANGED consumer
  BY <1>1 DEF ConsumerType, consumer
<1>2. ASSUME NEW q \in Heaps, Apply(q)
      PROVE  ConsumerType'
  BY <1>2 DEF ConsumerType, Apply
<1>3. CASE Push
  <2>1. pulling \in Heaps /\ Len(heaps) < MaxPulls
    BY <1>3 DEF Push, PullsKept, ConsumerType
  <2>2. heaps' \in Seq(Heaps) /\ Len(heaps') <= MaxPulls
    BY <1>3, <2>1 DEF Push, ConsumerType
  <2>3. raced' \in BOOLEAN
    BY <1>3, Zenon DEF Push
  <2> QED
    BY <1>3, <2>2, <2>3 DEF Push, ConsumerType
<1>4. ASSUME NEW t \in Threads, NEW p \in Pages, Touch(t, p)
      PROVE  ConsumerType'
  <2>1. [p |-> p, i |-> 1, n |-> Len(heaps), failed |-> FALSE] \in Faults
    BY DEF Faults, ConsumerType
  <2> QED
    BY <1>4, <2>1 DEF Touch, ConsumerType
<1>5. ASSUME NEW t \in Threads, NotHere(t) \/ ReadFails(t)
      PROVE  ConsumerType'
  <2>1. fault[t].i + 1 \in 0 .. MaxPulls + 1
    BY <1>5 DEF NotHere, ReadFails, AtHeap, ConsumerType, Faults
  <2>2. fault' \in [Threads -> Faults]
    <3>1. CASE NotHere(t)
      BY <2>1, <3>1 DEF NotHere, ConsumerType, Faults
    <3>2. CASE ReadFails(t)
      BY <2>1, <3>2 DEF ReadFails, ConsumerType, Faults
    <3> QED
      BY <1>5, <3>1, <3>2
  <2> QED
    BY <1>5, <2>2 DEF NotHere, ReadFails, ConsumerType
<1>6. ASSUME NEW t \in Threads, FaultDone(t)
      PROVE  ConsumerType'
  <2>1. PICK d \in Found(t) :
           page' = [page EXCEPT ![fault[t].p] = IF @ = Absent THEN d ELSE @]
    BY <1>6 DEF FaultDone
  <2>2. fault[t].p \in Pages /\ Heap(t) \in Heaps
    BY <1>6, LoopFacts DEF FaultDone
  <2>3. d \in Bytes
    <3>1. CASE d = Junk
      BY <3>1
    <3>2. CASE /\ table[Heap(t)][fault[t].p] # NoFrame
               /\ d = mem[Heap(t)][table[Heap(t)][fault[t].p]]
      <4>1. table[Heap(t)][fault[t].p] \in Frames
        BY <2>2, <3>2 DEF ProducerType
      <4> QED
        BY <2>2, <3>2, <4>1 DEF ProducerType
    <3> QED
      BY <3>1, <3>2, FoundFacts
  <2>4. page' \in [Pages -> Bytes \cup {Absent}]
    BY <2>1, <2>2, <2>3 DEF ConsumerType
  <2> QED
    BY <1>6, <2>4 DEF FaultDone, ConsumerType
<1>7. ASSUME NEW t \in Threads, Segv(t)
      PROVE  ConsumerType'
  <2>1. killed' \in BOOLEAN
    BY <1>7, Zenon DEF Segv
  <2> QED
    BY <1>7, <2>1 DEF Segv, ConsumerType
<1>8. CASE \/ \E q \in Heaps : Register(q)
           \/ \E q \in Heaps, p \in Pages : Write(q, p) \/ Drop(q, p)
           \/ UNCHANGED vars
  BY <1>1, <1>8 DEF Register, Write, Drop, vars
<1> QED
  BY <1>2, <1>3, <1>4, <1>5, <1>6, <1>7, <1>8 DEF Next

-----------------------------------------------------------------------------
(* The producers *)

LEMMA FramesStep ==
    ASSUME ProducerType, FramesKept, [Next]_vars
    PROVE  FramesKept'
<1> USE PageFacts
<1>1. CASE UNCHANGED producer
  BY <1>1 DEF FramesKept, producer
<1>2. ASSUME NEW q \in Heaps, Register(q)
      PROVE  FramesKept'
  <2>1. UNCHANGED <<pte, mem>>
    BY <1>2 DEF Register
  <2>2. \A o \in Heaps, p \in Pages : pte[o][p] # NoFrame =>
           held'[o][p] = held[o][p] \/ held'[o][p] = {mem[o][pte[o][p]]}
    BY <1>2 DEF Register, ProducerType
  <2> QED
    BY <2>1, <2>2 DEF FramesKept
<1>3. ASSUME NEW q \in Heaps, NEW p \in Pages, Write(q, p)
      PROVE  FramesKept'
  <2>1. PICK f \in Frames :
           /\ pte[q][p] = f \/ (pte[q][p] = NoFrame /\ \A o \in Pages : pte[q][o] # f)
           /\ pte' = [pte EXCEPT ![q][p] = f]
           /\ mem' = [mem EXCEPT ![q][f] = writes + 1]
    BY <1>3, WriteFrame
  <2>2. held' = [held EXCEPT ![q][p] = @ \cup {writes + 1}]
    BY <1>3 DEF Write
  <2>3. \A o \in Pages : o # p => pte[q][o] # f
    BY <2>1 DEF FramesKept
  <2>4. ASSUME NEW g \in Heaps, NEW o \in Pages, pte'[g][o] # NoFrame
        PROVE  mem'[g][pte'[g][o]] \in held'[g][o]
    <3>1. CASE g = q /\ o = p
      BY <2>1, <2>2, <3>1 DEF ProducerType
    <3>2. CASE g = q /\ o # p
      <4>1. pte'[g][o] = pte[g][o] /\ held'[g][o] = held[g][o]
        BY <2>1, <2>2, <3>2 DEF ProducerType
      <4>2. mem'[g][pte[g][o]] = mem[g][pte[g][o]]
        BY <2>1, <2>3, <2>4, <3>2, <4>1 DEF ProducerType
      <4> QED
        BY <2>4, <4>1, <4>2 DEF FramesKept
    <3>3. CASE g # q
      BY <2>1, <2>2, <2>4, <3>3 DEF ProducerType, FramesKept
    <3> QED
      BY <3>1, <3>2, <3>3
  <2>5. ASSUME NEW g \in Heaps, NEW o \in Pages, NEW u \in Pages,
               pte'[g][o] # NoFrame, pte'[g][u] = pte'[g][o]
        PROVE  u = o
    BY <2>1, <2>3, <2>5 DEF ProducerType, FramesKept
  <2> QED
    BY <2>4, <2>5 DEF FramesKept
<1>4. ASSUME NEW q \in Heaps, NEW p \in Pages, Drop(q, p)
      PROVE  FramesKept'
  <2>1. UNCHANGED <<mem, held>>
    BY <1>4 DEF Drop
  <2>2. \A g \in Heaps, o \in Pages : pte'[g][o] = pte[g][o] \/ pte'[g][o] = NoFrame
    BY <1>4 DEF Drop, ProducerType
  <2> QED
    BY <2>1, <2>2 DEF FramesKept
<1> QED
  BY <1>1, <1>2, <1>3, <1>4, ProducerSteps

LEMMA TableStep ==
    ASSUME ProducerType, TableKept, [Next]_vars
    PROVE  TableKept'
<1> USE PageFacts
<1>1. CASE UNCHANGED producer
  BY <1>1 DEF TableKept, producer
<1>2. ASSUME NEW q \in Heaps, Register(q)
      PROVE  TableKept'
  <2> SUFFICES ASSUME NEW g \in Heaps, NEW p \in Pages, table'[g][p] # NoFrame
               PROVE  g \in ready' /\ (p \notin dropped'[g] => pte'[g][p] = table'[g][p])
    BY DEF TableKept
  <2>1. CASE g = q
    BY <1>2, <2>1 DEF Register, ProducerType
  <2>2. CASE g # q
    BY <1>2, <2>2 DEF Register, ProducerType, TableKept
  <2> QED
    BY <2>1, <2>2
<1>3. ASSUME NEW q \in Heaps, NEW p \in Pages, Write(q, p)
      PROVE  TableKept'
  <2>1. PICK f \in Frames :
           /\ pte[q][p] = f \/ pte[q][p] = NoFrame
           /\ pte' = [pte EXCEPT ![q][p] = f]
    BY <1>3, WriteFrame
  <2>2. UNCHANGED <<table, ready, dropped>>
    BY <1>3 DEF Write
  <2> SUFFICES ASSUME NEW g \in Heaps, NEW o \in Pages, table[g][o] # NoFrame,
                      o \notin dropped[g]
               PROVE  pte'[g][o] = pte[g][o]
    BY <2>2 DEF TableKept
  <2>3. pte[g][o] # NoFrame
    BY DEF TableKept
  <2> QED
    BY <2>1, <2>3 DEF ProducerType
<1>4. ASSUME NEW q \in Heaps, NEW p \in Pages, Drop(q, p)
      PROVE  TableKept'
  BY <1>4 DEF Drop, ProducerType, TableKept
<1> QED
  BY <1>1, <1>2, <1>3, <1>4, ProducerSteps

(* What a producer does to a heap that has been registered: its descriptor *)
(* stays, the pages it has given up and the bytes it has held only grow.   *)
LEMMA RegisteredStays ==
    ASSUME ProducerType, [Next]_vars, NEW q \in ready
    PROVE  /\ q \in ready' /\ table'[q] = table[q]
           /\ dropped[q] \subseteq dropped'[q]
           /\ \A p \in Pages : held[q][p] \subseteq held'[q][p]
<1>1. q \in Heaps
  BY DEF ProducerType
<1>2. CASE UNCHANGED producer
  BY <1>2 DEF producer
<1>3. ASSUME NEW g \in Heaps, Register(g)
      PROVE  /\ q \in ready' /\ table'[q] = table[q]
             /\ dropped[q] \subseteq dropped'[q]
             /\ \A p \in Pages : held[q][p] \subseteq held'[q][p]
  BY <1>1, <1>3 DEF Register, ProducerType
<1>4. ASSUME NEW g \in Heaps, NEW o \in Pages, Write(g, o) \/ Drop(g, o)
      PROVE  /\ q \in ready' /\ table'[q] = table[q]
             /\ dropped[q] \subseteq dropped'[q]
             /\ \A p \in Pages : held[q][p] \subseteq held'[q][p]
  <2>1. CASE Write(g, o)
    BY <1>1, <2>1 DEF Write, ProducerType
  <2>2. CASE Drop(g, o)
    BY <1>1, <2>2 DEF Drop, ProducerType
  <2> QED
    BY <1>4, <2>1, <2>2
<1> QED
  BY <1>2, <1>3, <1>4, ProducerSteps

-----------------------------------------------------------------------------
(* The consumer *)

LEMMA ConsumerSteps ==
    ASSUME [Next]_vars
    PROVE  \/ UNCHANGED consumer
           \/ \E q \in Heaps : Apply(q)
           \/ Push
           \/ \E t \in Threads, p \in Pages : Touch(t, p)
           \/ \E t \in Threads : NotHere(t) \/ ReadFails(t) \/ FaultDone(t) \/ Segv(t)
BY DEF Next, vars, Register, Write, Drop

LEMMA PullsStep ==
    ASSUME ProducerType, ConsumerType, PullsKept, FaultsKept, [Next]_vars
    PROVE  PullsKept'
<1> USE PageFacts
<1>1. ready \subseteq ready'
  BY RegisteredStays
<1>2. ASSUME UNCHANGED <<mapped, page, heaps, pulling>>
      PROVE  PullsKept'
  BY <1>1, <1>2 DEF PullsKept
<1>3. ASSUME NEW q \in Heaps, Apply(q)
      PROVE  PullsKept'
  <2>1. /\ q \in ready /\ pulling' = q /\ Len(heaps) < MaxPulls /\ heaps' = heaps
    BY <1>3 DEF Apply
  <2>2. \A p \in Pages : \/ mapped'[p] = q /\ page'[p] = Absent
                         \/ mapped'[p] = mapped[p] /\ page'[p] = page[p]
    BY <1>3 DEF Apply, ConsumerType
  <2> QED
    BY <1>1, <2>1, <2>2 DEF PullsKept
<1>4. CASE Push
  <2>1. /\ pulling \in ready /\ pulling \in Heaps /\ heaps \in Seq(Heaps)
        /\ heaps' = Append(heaps, pulling)
        /\ pulling' = None /\ UNCHANGED <<mapped, page>>
    BY <1>4 DEF Push, PullsKept, ConsumerType
  <2>2. \A k \in DOMAIN heaps' : heaps'[k] \in ready
    BY <2>1 DEF PullsKept
  <2> QED
    BY <1>1, <2>1, <2>2 DEF PullsKept
<1>5. ASSUME NEW t \in Threads, FaultDone(t)
      PROVE  PullsKept'
  <2>1. fault[t].p \in Pages /\ mapped[fault[t].p] # None
    BY <1>5, LoopFacts DEF FaultDone, FaultsKept
  <2>2. /\ UNCHANGED <<mapped, heaps, pulling>>
        /\ \A p \in Pages : page'[p] = page[p] \/ p = fault[t].p
    BY <1>5, <2>1 DEF FaultDone, ConsumerType
  <2> QED
    BY <1>1, <2>1, <2>2 DEF PullsKept
<1>6. CASE \/ UNCHANGED consumer
           \/ \E t \in Threads, p \in Pages : Touch(t, p)
           \/ \E t \in Threads : NotHere(t) \/ ReadFails(t) \/ Segv(t)
  BY <1>2, <1>6 DEF consumer, Touch, NotHere, ReadFails, Segv
<1> QED
  BY <1>3, <1>4, <1>5, <1>6, ConsumerSteps

(* What FaultsKept says of one thread. *)
FaultKept(t) ==
    Faulting(t) =>
        /\ fault[t].i >= 1 /\ fault[t].n <= Len(heaps)
        /\ mapped[fault[t].p] # None
        /\ ~raced => fault[t].n = Len(heaps)
        /\ ~fault[t].failed => \A k \in 1 .. fault[t].n :
              k < fault[t].i => table[heaps[k]][fault[t].p] = NoFrame

LEMMA FaultsStep ==
    ASSUME ProducerType, ConsumerType, PullsKept, FaultsKept, [Next]_vars
    PROVE  FaultsKept'
<1> USE PageFacts
<1> SUFFICES ASSUME NEW t \in Threads, Faulting(t)'
             PROVE  FaultKept(t)'
  BY DEF FaultsKept, FaultKept
<1>1. /\ FaultKept(t) /\ fault \in [Threads -> Faults] /\ heaps \in Seq(Heaps)
      /\ fault[t] \in Faults /\ Len(heaps) \in Nat
  BY DEF FaultsKept, FaultKept, ConsumerType
<1>2. \A k \in DOMAIN heaps : table'[heaps[k]] = table[heaps[k]]
  BY RegisteredStays DEF PullsKept
<1>3. ASSUME UNCHANGED <<mapped, heaps, raced>>, fault'[t] = fault[t]
      PROVE  FaultKept(t)'
  <2>1. Faulting(t)
    BY <1>3 DEF Faulting
  <2>2. \A k \in 1 .. fault[t].n : table'[heaps[k]] = table[heaps[k]]
    BY <1>1, <1>2, <2>1 DEF FaultKept, Faults
  <2> QED
    BY <1>1, <1>3, <2>1, <2>2 DEF FaultKept
<1>4. ASSUME NEW q \in Heaps, Apply(q)
      PROVE  FaultKept(t)'
  BY <1>4 DEF Apply, FaultKept, Faulting
<1>5. CASE Push
  <2>1. /\ Faulting(t) /\ UNCHANGED <<mapped, fault, table>>
        /\ pulling \in Heaps /\ heaps' = Append(heaps, pulling)
    BY <1>5 DEF Push, Faulting, producer, ConsumerType
  <2>2. raced'
    BY <1>5, <2>1, Zenon DEF Push
  <2>3. Len(heaps') = Len(heaps) + 1 /\ \A k \in 1 .. Len(heaps) : heaps'[k] = heaps[k]
    BY <1>1, <2>1
  <2>4. \A k \in 1 .. fault[t].n : heaps'[k] = heaps[k]
    BY <1>1, <2>1, <2>3 DEF FaultKept, Faults
  <2>5. fault[t].i >= 1 /\ fault[t].n <= Len(heaps')
    BY <1>1, <2>1, <2>3 DEF FaultKept, Faults
  <2> QED
    BY <1>1, <2>1, <2>2, <2>4, <2>5 DEF FaultKept
<1>6. ASSUME NEW u \in Threads, NEW p \in Pages, Touch(u, p)
      PROVE  FaultKept(t)'
  <2>1. CASE u # t
    BY <1>1, <1>3, <1>6, <2>1 DEF Touch
  <2>2. CASE u = t
    <3>1. fault'[t] = [p |-> p, i |-> 1, n |-> Len(heaps), failed |-> FALSE]
      BY <1>1, <1>6, <2>2 DEF Touch
    <3>2. mapped'[p] # None /\ heaps' = heaps
      BY <1>6 DEF Touch
    <3> QED
      BY <1>1, <3>1, <3>2 DEF FaultKept
  <2> QED
    BY <2>1, <2>2
<1>7. ASSUME NEW u \in Threads, NotHere(u) \/ ReadFails(u)
      PROVE  FaultKept(t)'
  <2>1. CASE u # t
    BY <1>1, <1>3, <1>7, <2>1 DEF NotHere, ReadFails
  <2>2. CASE u = t
    <3>1. AtHeap(t) /\ UNCHANGED <<mapped, heaps, raced, table>>
      BY <1>7, <2>2 DEF NotHere, ReadFails, producer
    <3>2. /\ fault'[t].p = fault[t].p /\ fault'[t].n = fault[t].n
          /\ fault'[t].i = fault[t].i + 1
      BY <1>1, <1>7, <2>2 DEF NotHere, ReadFails, Faults
    <3>3. ~fault'[t].failed =>
             ~fault[t].failed /\ table[heaps[fault[t].i]][fault[t].p] = NoFrame
      <4>1. CASE NotHere(t)
        BY <1>1, <4>1 DEF NotHere, Heap, Faults
      <4>2. CASE ReadFails(t)
        <5>1. fault'[t].failed = TRUE
          BY <1>1, <4>2 DEF ReadFails, Faults
        <5> QED
          BY <5>1
      <4> QED
        BY <1>7, <2>2, <4>1, <4>2
    <3>4. /\ Faulting(t) /\ fault[t].i \in Nat
          /\ fault[t].n \in Nat
      BY <1>1, <3>1 DEF AtHeap, Faults
    <3>5. \A k \in 1 .. fault[t].n : k < fault[t].i + 1 => k < fault[t].i \/ k = fault[t].i
      BY <3>4
    <3> QED
      BY <1>1, <3>1, <3>2, <3>3, <3>4, <3>5 DEF FaultKept
  <2> QED
    BY <2>1, <2>2
<1>8. ASSUME NEW u \in Threads, FaultDone(u)
      PROVE  FaultKept(t)'
  <2>1. CASE u # t
    BY <1>1, <1>3, <1>8, <2>1 DEF FaultDone
  <2>2. CASE u = t
    <3>1. fault'[t] = NoFault
      BY <1>1, <1>8, <2>2 DEF FaultDone
    <3> QED
      BY <3>1, NoFaultType DEF Faulting
  <2> QED
    BY <2>1, <2>2
<1>9. CASE UNCHANGED consumer \/ \E u \in Threads : Segv(u)
  BY <1>3, <1>9 DEF consumer, Segv
<1> QED
  BY <1>4, <1>5, <1>6, <1>7, <1>8, <1>9, ConsumerSteps

LEMMA OwnStep ==
    ASSUME ProducerType, ConsumerType, FramesKept, TableKept, PullsKept,
           FaultsKept, OwnPage, [Next]_vars
    PROVE  OwnPage'
<1> USE PageFacts
<1> SUFFICES ASSUME NEW p \in Pages, page'[p] # Absent, ~raced',
                    Alone(mapped[p], p)', p \notin dropped'[mapped'[p]]
             PROVE  page'[p] \in held'[mapped'[p]][p]
  BY DEF OwnPage
<1>1. /\ heaps \in Seq(Heaps) /\ mapped \in [Pages -> Heaps \cup {None}]
      /\ page \in [Pages -> Bytes \cup {Absent}]
  BY DEF ConsumerType
<1>2. \A q \in ready : /\ table'[q] = table[q] /\ dropped[q] \subseteq dropped'[q]
                       /\ held[q][p] \subseteq held'[q][p]
  BY RegisteredStays
<1>3. \A k \in DOMAIN heaps : table'[heaps[k]] = table[heaps[k]]
  BY <1>2 DEF PullsKept
<1>4. ASSUME page'[p] = page[p], mapped'[p] = mapped[p], heaps' = heaps, ~raced
      PROVE  page'[p] \in held'[mapped'[p]][p]
  <2>1. mapped[p] \in ready
    BY <1>4 DEF PullsKept
  <2>2. Alone(mapped[p], p)
    BY <1>3, <1>4 DEF Alone
  <2> QED
    BY <1>2, <1>4, <2>1, <2>2 DEF OwnPage
<1>5. ASSUME NEW q \in Heaps, Apply(q)
      PROVE  page'[p] \in held'[mapped'[p]][p]
  <2>1. page'[p] = page[p] /\ mapped'[p] = mapped[p]
    BY <1>1, <1>5 DEF Apply
  <2> QED
    BY <1>4, <1>5, <2>1 DEF Apply
<1>6. CASE Push
  <2>1. /\ pulling \in Heaps /\ heaps' = Append(heaps, pulling)
        /\ UNCHANGED <<mapped, page>>
        /\ UNCHANGED <<table, held, dropped>>
    BY <1>6 DEF Push, ConsumerType, producer
  <2>2. ~raced
    BY <1>6, Zenon DEF Push
  <2>3. \A k \in DOMAIN heaps : k \in DOMAIN heaps' /\ heaps'[k] = heaps[k]
    BY <1>1, <2>1
  <2>4. Alone(mapped[p], p)
    BY <2>1, <2>3 DEF Alone
  <2> QED
    BY <2>1, <2>2, <2>4 DEF OwnPage
<1>7. ASSUME NEW t \in Threads, FaultDone(t)
      PROVE  page'[p] \in held'[mapped'[p]][p]
  <2>1. /\ UNCHANGED <<mapped, heaps, raced, pte, mem, table, held, dropped>>
        /\ AtHeap(t)
    BY <1>7 DEF FaultDone, producer
  <2>2. /\ Faulting(t) /\ fault[t].p \in Pages
        /\ fault[t].i \in DOMAIN heaps /\ Heap(t) \in Heaps
    BY <2>1, LoopFacts
  <2>3. PICK d \in Found(t) :
           page' = [page EXCEPT ![fault[t].p] = IF @ = Absent THEN d ELSE @]
    BY <1>7 DEF FaultDone
  <2>4. CASE page'[p] = page[p]
    BY <1>4, <2>1, <2>4
  <2>5. CASE page'[p] # page[p]
    <3>1. p = fault[t].p /\ page'[p] = d
      BY <1>1, <2>2, <2>3, <2>5
    <3>2. ~(fault[t].n < Len(heaps))
      <4>1. fault[t].n = Len(heaps) /\ Len(heaps) \in Nat
        BY <1>1, <2>1, <2>2 DEF FaultsKept
      <4> QED
        BY <4>1
    <3>3. table[Heap(t)][p] # NoFrame /\ d = mem[Heap(t)][table[Heap(t)][p]]
      BY <3>1, <3>2, FoundFacts
    <3>4. mapped[p] = Heap(t)
      BY <2>1, <2>2, <3>3 DEF Alone, Heap
    <3>5. pte[Heap(t)][p] = table[Heap(t)][p]
      BY <2>1, <2>2, <3>3, <3>4 DEF TableKept
    <3>6. d \in held[Heap(t)][p]
      BY <2>2, <3>3, <3>5 DEF FramesKept
    <3> QED
      BY <2>1, <3>1, <3>4, <3>6
  <2> QED
    BY <2>4, <2>5
<1>8. CASE \/ UNCHANGED consumer
           \/ \E t \in Threads, o \in Pages : Touch(t, o)
           \/ \E t \in Threads : NotHere(t) \/ ReadFails(t) \/ Segv(t)
  BY <1>4, <1>8 DEF consumer, Touch, NotHere, ReadFails, Segv
<1> QED
  BY <1>5, <1>6, <1>7, <1>8, ConsumerSteps

-----------------------------------------------------------------------------
(* Results *)

LEMMA PagingInit == Init => PagingInv
<1> SUFFICES ASSUME Init PROVE PagingInv
  OBVIOUS
<1> USE PageFacts, NoFaultType DEF Init
<1>1. ProducerType
  BY DEF ProducerType, Bytes, Junk
<1>2. ConsumerType
  <2>1. killed \in BOOLEAN /\ raced \in BOOLEAN
    BY Zenon
  <2>2. heaps \in Seq(Heaps) /\ Len(heaps) <= MaxPulls
    OBVIOUS
  <2> QED
    BY <2>1, <2>2 DEF ConsumerType
<1>3. FramesKept /\ TableKept /\ PullsKept
  BY DEF FramesKept, TableKept, PullsKept
<1>4. FaultsKept /\ OwnPage
  BY DEF FaultsKept, Faulting, OwnPage
<1> QED
  BY <1>1, <1>2, <1>3, <1>4, TypeHalves DEF PagingInv

LEMMA PagingStep ==
    ASSUME PagingInv, [Next]_vars
    PROVE  PagingInv'
<1>1. ProducerType /\ ConsumerType
  BY TypeHalves DEF PagingInv
<1>2. ProducerType' /\ ConsumerType'
  BY <1>1, ProducerTypeStep, ConsumerTypeStep DEF PagingInv
<1>3. TypeOK'
  BY <1>2 DEF TypeOK, ProducerType, ConsumerType, Faults
<1> QED
  BY <1>1, <1>3, FramesStep, TableStep, PullsStep, FaultsStep, OwnStep
  DEF PagingInv

LEMMA PagingInvariant == Spec => []PagingInv
<1>1. PagingInv /\ [Next]_vars => PagingInv'
  BY PagingStep
<1> QED
  BY <1>1, PagingInit, PTL DEF Spec

(* Types; among them that the loop of handle_page_fault never goes beyond  *)
(* the end of public_heaps it has seen.                                    *)
THEOREM PagingTypeCorrect == Spec => []TypeOK
BY PagingInvariant, PTL DEF PagingInv

(* handle_page_fault gives a page the bytes that page of the mapped heap   *)
(* has held since the heap was registered, under the three conditions of   *)
(* OwnPage, however producers write, drop and reuse frames meanwhile.      *)
THEOREM OwnPageCorrect == Spec => []OwnPage
BY PagingInvariant, PTL DEF PagingInv

(* A SIGSEGV has one of three reasons; in particular the loop of           *)
(* handle_page_fault skips no heap.                                        *)
THEOREM SegvCorrect == Spec => SegvJustified
<1> DEFINE Justified ==
      ~killed /\ killed' =>
         \E t \in Threads :
            LET p == fault[t].p
                q == mapped[p]
            IN  /\ Faulting(t) /\ fault[t].i > fault[t].n
                /\ \/ fault[t].failed
                   \/ table[q][p] = NoFrame
                   \/ \A k \in 1 .. fault[t].n : heaps[k] # q
<1>1. ASSUME PagingInv, [Next]_vars, ~killed, killed'
      PROVE  Justified
  <2>1. PICK t \in Threads : Segv(t)
    BY <1>1 DEF Next, vars, consumer, Register, Write, Drop, Apply, Push, Touch,
          NotHere, ReadFails, FaultDone
  <2>2. Faulting(t) /\ fault[t].i > fault[t].n
    BY <2>1 DEF Segv
  <2>3. fault[t].i \in Nat /\ fault[t].n \in Nat
    BY <1>1, TypeHalves DEF PagingInv, ConsumerType, Faults
  <2>4. ~fault[t].failed =>
           \A k \in 1 .. fault[t].n : table[heaps[k]][fault[t].p] = NoFrame
    BY <1>1, <2>2, <2>3 DEF PagingInv, FaultsKept
  <2> QED
    BY <2>2, <2>4
<1>2. PagingInv /\ [Next]_vars => [Justified]_vars
  BY <1>1
<1>3. Spec => [][Justified]_vars
  BY <1>2, PagingInvariant, PTL DEF Spec
<1> QED
  BY <1>3 DEF SegvJustified
=============================================================================
