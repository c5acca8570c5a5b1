----------------------------- MODULE HeapPaging -----------------------------
(***************************************************************************)
(* What a consumer finds in a heap it pulled.                              *)
(*                                                                         *)
(* Registering a heap copies no page: the descriptor names the physical    *)
(* frames the heap's pages have at that moment, and neither pins nor       *)
(* write-protects them.  A pull maps the heap's VMAs empty (apply_to       *)
(* without eager_fetch) and then pushes the descriptor to public_heaps.    *)
(* The first touch of a page faults: handle_page_fault asks the pulled     *)
(* heaps in the order of the pulls, reads the frame of the first one that  *)
(* translates the address into a new local page, tries the next heap if    *)
(* the read fails, and raises SIGSEGV if none is left.                     *)
(*                                                                         *)
(* One consumer process with several threads and any number of producers.  *)
(* The fault handler takes no lock: it runs while another thread is in the *)
(* pull of the same file.                                                  *)
(***************************************************************************)
EXTENDS Naturals, Sequences

CONSTANTS
    Heaps,        \* heaps the producers register
    Area,         \* Area[q]: the pages of heap q's VMAs
    Frames,       \* physical frames of each producer
    Threads,      \* threads of the consumer
    None,         \* no heap
    MaxWrites,    \* bound: writes of the producers
    MaxPulls      \* bound: pulls of the consumer

Pages == UNION {Area[q] : q \in Heaps}

NoPage  == 0
NoFrame == 0

(* Every write leaves different bytes, named by its number. *)
Bytes  == 0 .. MaxWrites
Junk   == 0
Absent == MaxWrites + 1

ASSUME PagingAssumption ==
    /\ Area \in [Heaps -> SUBSET (Nat \ {NoPage})]
    /\ Frames \subseteq Nat \ {NoFrame}
    /\ None \notin Heaps
    /\ MaxWrites \in Nat /\ MaxPulls \in Nat

VARIABLES
    pte,      \* pte[q][p]: frame of page p in the producer of q, or NoFrame
    mem,      \* mem[q][f]: bytes in frame f
    table,    \* table[q][p]: frame the descriptor of q translates p to
    ready,    \* heaps that are registered
    writes,   \* number of writes so far
    mapped,   \* mapped[p]: heap whose pull last mapped page p, or None
    page,     \* page[p]: bytes the consumer has at p, or Absent
    heaps,    \* public_heaps of the consumer's file
    pulling,  \* heap applied but not pushed yet, or None
    fault,    \* fault[t]: the page fault thread t is in
    killed,   \* the consumer got SIGSEGV
    held,     \* history: held[q][p], bytes of p in q since q was registered
    dropped,  \* history: dropped[q], pages q gave up since it was registered
    raced     \* history: a push met a page fault

producer == <<pte, mem, table, ready, writes, held, dropped>>
consumer == <<mapped, page, heaps, pulling, fault, killed, raced>>
vars == <<producer, consumer>>

NoFault == [p |-> NoPage, i |-> 0, n |-> 0, failed |-> FALSE]

TypeOK ==
    /\ pte \in [Heaps -> [Pages -> Frames \cup {NoFrame}]]
    /\ mem \in [Heaps -> [Frames -> Bytes]]
    /\ table \in [Heaps -> [Pages -> Frames \cup {NoFrame}]]
    /\ ready \in SUBSET Heaps
    /\ writes \in Bytes
    /\ mapped \in [Pages -> Heaps \cup {None}]
    /\ page \in [Pages -> Bytes \cup {Absent}]
    /\ heaps \in Seq(Heaps) /\ Len(heaps) <= MaxPulls
    /\ pulling \in Heaps \cup {None}
    /\ fault \in [Threads -> [p : Pages \cup {NoPage}, i : 0 .. MaxPulls + 1,
                              n : 0 .. MaxPulls, failed : BOOLEAN]]
    /\ killed \in BOOLEAN
    /\ held \in [Heaps -> [Pages -> SUBSET Bytes]]
    /\ dropped \in [Heaps -> SUBSET Pages]
    /\ raced \in BOOLEAN

Init ==
    /\ pte = [q \in Heaps |-> [p \in Pages |-> NoFrame]]
    /\ mem = [q \in Heaps |-> [f \in Frames |-> Junk]]
    /\ table = [q \in Heaps |-> [p \in Pages |-> NoFrame]]
    /\ ready = {}
    /\ writes = 0
    /\ mapped = [p \in Pages |-> None]
    /\ page = [p \in Pages |-> Absent]
    /\ heaps = << >>
    /\ pulling = None
    /\ fault = [t \in Threads |-> NoFault]
    /\ killed = FALSE
    /\ held = [q \in Heaps |-> [p \in Pages |-> {}]]
    /\ dropped = [q \in Heaps |-> {}]
    /\ raced = FALSE

-----------------------------------------------------------------------------
(* The producers.  Write and Drop are the producer's own memory accesses:  *)
(* the kernel gives a page it has not touched yet a free frame, and may    *)
(* give the frame of a page it gave up to another page.                    *)

FreeFrames(q) == Frames \ {pte[q][p] : p \in Pages}

Write(q, p) ==
    /\ p \in Area[q] /\ writes < MaxWrites
    /\ \E f \in IF pte[q][p] = NoFrame THEN FreeFrames(q) ELSE {pte[q][p]} :
         /\ pte' = [pte EXCEPT ![q][p] = f]
         /\ mem' = [mem EXCEPT ![q][f] = writes + 1]
    /\ writes' = writes + 1
    /\ held' = [held EXCEPT ![q][p] = @ \cup {writes + 1}]
    /\ UNCHANGED <<table, ready, dropped, consumer>>

Drop(q, p) ==
    /\ pte[q][p] # NoFrame
    /\ pte' = [pte EXCEPT ![q][p] = NoFrame]
    /\ dropped' = [dropped EXCEPT ![q] = @ \cup {p}]
    /\ UNCHANGED <<mem, table, ready, writes, held, consumer>>

(* ShadowHeap::new with VMAPTGenerator.  ioctl 0 on a registered heap      *)
(* returns the old hint: the descriptor stays as it was.                   *)
Register(q) ==
    /\ q \notin ready
    /\ ready' = ready \cup {q}
    /\ table' = [table EXCEPT ![q] = pte[q]]
    /\ held' = [held EXCEPT ![q] = [p \in Pages |->
                  IF pte[q][p] = NoFrame THEN {} ELSE {mem[q][pte[q][p]]}]]
    /\ dropped' = [dropped EXCEPT ![q] = {}]
    /\ UNCHANGED <<pte, mem, writes, consumer>>

-----------------------------------------------------------------------------
(* The consumer's pull, after the descriptor has arrived                   *)

Faulting(t) == fault[t].p # NoPage

(* apply_to without eager_fetch: map_one_region puts an empty VMA over     *)
(* whatever was there; where it fails nothing is mapped and the pull goes  *)
(* on.  The kernel changes no mapping while a page fault is handled.       *)
Apply(q) ==
    /\ ~killed /\ pulling = None /\ Len(heaps) < MaxPulls
    /\ q \in ready
    /\ \A t \in Threads : ~Faulting(t)
    /\ pulling' = q
    /\ \/ /\ mapped' = [p \in Pages |-> IF p \in Area[q] THEN q ELSE mapped[p]]
          /\ page' = [p \in Pages |-> IF p \in Area[q] THEN Absent ELSE page[p]]
       \/ UNCHANGED <<mapped, page>>
    /\ UNCHANGED <<producer, heaps, fault, killed, raced>>

(* Mutant: the pull is not over after the push. *)
PushAgain ==
    /\ ~killed /\ pulling # None
    /\ heaps' = Append(heaps, pulling)
    /\ raced' = (raced \/ \E t \in Threads : Faulting(t))
    /\ UNCHANGED <<producer, mapped, page, pulling, fault, killed>>

(* public_heaps.push *)
Push ==
    /\ ~killed /\ pulling # None
    /\ heaps' = Append(heaps, pulling)
    /\ pulling' = None
    /\ raced' = (raced \/ \E t \in Threads : Faulting(t))
    /\ UNCHANGED <<producer, mapped, page, fault, killed>>

-----------------------------------------------------------------------------
(* handle_page_fault *)

(* Mutant: the loop skips the first heap. *)
TouchFromSecond(t, p) ==
    /\ ~killed /\ ~Faulting(t)
    /\ mapped[p] # None /\ page[p] = Absent
    /\ fault' = [fault EXCEPT ![t] =
                   [p |-> p, i |-> 2, n |-> Len(heaps), failed |-> FALSE]]
    /\ UNCHANGED <<producer, mapped, page, heaps, pulling, killed, raced>>

Touch(t, p) ==
    /\ ~killed /\ ~Faulting(t)
    /\ mapped[p] # None /\ page[p] = Absent
    /\ fault' = [fault EXCEPT ![t] =
                   [p |-> p, i |-> 1, n |-> Len(heaps), failed |-> FALSE]]
    /\ UNCHANGED <<producer, mapped, page, heaps, pulling, killed, raced>>

(* The heap the loop of thread t is at. *)
Heap(t) == heaps[fault[t].i]

AtHeap(t) == ~killed /\ Faulting(t) /\ fault[t].i <= fault[t].n

(* lookup_pg_table finds nothing in this heap. *)
NotHere(t) ==
    /\ AtHeap(t)
    /\ table[Heap(t)][fault[t].p] = NoFrame
    /\ fault' = [fault EXCEPT ![t].i = @ + 1]
    /\ UNCHANGED <<producer, mapped, page, heaps, pulling, killed, raced>>

(* AccessInfo::new or remote_read fails. *)
ReadFails(t) ==
    /\ AtHeap(t)
    /\ table[Heap(t)][fault[t].p] # NoFrame
    /\ fault' = [fault EXCEPT ![t].i = @ + 1, ![t].failed = TRUE]
    /\ UNCHANGED <<producer, mapped, page, heaps, pulling, killed, raced>>

(* Mutant: the read goes to the machine of the first heap. *)
FoundAtFirst(t) ==
    IF table[Heap(t)][fault[t].p] # NoFrame
    THEN {mem[heaps[1]][table[Heap(t)][fault[t].p]]} ELSE {}

(* The bytes the loop may end with.  A push while the loop runs may move   *)
(* the vector it iterates over: anything can come out then.                *)
Found(t) ==
    (IF table[Heap(t)][fault[t].p] # NoFrame
     THEN {mem[Heap(t)][table[Heap(t)][fault[t].p]]} ELSE {})
    \cup (IF fault[t].n < Len(heaps) THEN {Junk} ELSE {})

(* read_remote_page succeeds; the kernel keeps a page another thread       *)
(* brought in first.                                                       *)
FaultDone(t) ==
    /\ AtHeap(t)
    /\ \E d \in Found(t) :
         page' = [page EXCEPT ![fault[t].p] = IF @ = Absent THEN d ELSE @]
    /\ fault' = [fault EXCEPT ![t] = NoFault]
    /\ UNCHANGED <<producer, mapped, heaps, pulling, killed, raced>>

Segv(t) ==
    /\ ~killed /\ Faulting(t) /\ fault[t].i > fault[t].n
    /\ killed' = TRUE
    /\ UNCHANGED <<producer, mapped, page, heaps, pulling, fault, raced>>

-----------------------------------------------------------------------------
Next ==
    \/ \E q \in Heaps : Register(q) \/ Apply(q)
    \/ \E q \in Heaps, p \in Pages : Write(q, p) \/ Drop(q, p)
    \/ Push
    \/ \E t \in Threads, p \in Pages : Touch(t, p)
    \/ \E t \in Threads : NotHere(t) \/ ReadFails(t) \/ FaultDone(t) \/ Segv(t)

Spec == Init /\ [][Next]_vars

-----------------------------------------------------------------------------
(* Properties *)

(* Heap q alone answers for page p among the heaps pulled so far. *)
Alone(q, p) ==
    \A k \in DOMAIN heaps : heaps[k] # q => table[heaps[k]][p] = NoFrame

(* What the consumer finds at a page is what that page of the mapped heap  *)
(* held at some time since it was registered, never another page's or      *)
(* another heap's bytes - if no other pulled heap translates the address   *)
(* (the first pull wins in handle_page_fault, and a failed read falls      *)
(* through to the next heap), the producer kept the page (its frame is not *)
(* pinned) and no pull finished while a fault was handled.                 *)
OwnPage ==
    \A p \in Pages :
        /\ page[p] # Absent
        /\ ~raced
        /\ Alone(mapped[p], p)
        /\ p \notin dropped[mapped[p]]
        => page[p] \in held[mapped[p]][p]

(* SIGSEGV hits a consumer at a mapped page only if the page was not       *)
(* present when its heap was registered, a remote read failed, or the page *)
(* was touched before the pull had pushed the heap it had mapped.          *)
SegvJustified ==
    [][~killed /\ killed' =>
         \E t \in Threads :
            LET p == fault[t].p
                q == mapped[p]
            IN  /\ Faulting(t) /\ fault[t].i > fault[t].n
                /\ \/ fault[t].failed
                   \/ table[q][p] = NoFrame
                   \/ \A k \in 1 .. fault[t].n : heaps[k] # q]_vars
=============================================================================
