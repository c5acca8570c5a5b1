---------------------------- MODULE HeapSnapshot ----------------------------
(***************************************************************************)
(* How a heap becomes a descriptor and the descriptor a page table again.  *)
(*                                                                         *)
(* ShadowHeap::new scans the VMAs of the registering process in address    *)
(* order and collects the one that holds heap_base and those that follow   *)
(* it without a gap; VMAPTGenerator walks the collected VMAs and records   *)
(* every present page as an offset from the start of its VMA and a         *)
(* physical address.  On the consumer HeapDescriptor::deserialize adds the *)
(* VMA's start to every offset and fills the RemotePageTable.              *)
(*                                                                         *)
(* Addresses and offsets are counted in pages.  The scan takes one VMA per *)
(* step, the walk one page, the decoder one entry.  ShadowHeap::new runs   *)
(* on behalf of the process it scans: the address space does not change    *)
(* under the scan.                                                         *)
(***************************************************************************)
EXTENDS Naturals, Sequences

CONSTANTS
    NumPages,     \* bound: pages of the address space
    MaxVmas,      \* bound: VMAs of the process
    OffsetRange   \* number of offsets of one page each that a u32 can hold

ASSUME SizesAssumption ==
    NumPages \in Nat /\ MaxVmas \in Nat /\ OffsetRange \in Nat \ {0}

Pages   == 0 .. NumPages - 1
NoFrame == 0

(* Physical address of page p: present pages have distinct frames and no   *)
(* frame has address 0.                                                    *)
Frame(p) == p + 1
Frames   == {Frame(p) : p \in Pages}

VARIABLES
    vmas,        \* mm's VMAs in address order: [lo, hi) each
    base,        \* heap_meta.start_virt_addr
    present,     \* pages with a physical address
    phase,       \* the loop that is running
    i,           \* its VMA
    at,          \* pages walked, or entries decoded, of VMA i
    heap_start,  \* heap_start of the scan
    picked,      \* indices of the VMAs pushed to vma_descriptors
    flat,        \* flat[j]: CompactPageTable of VMA j, in address order
    table        \* RemotePageTable of the consumer

process == <<vmas, base, present>>
vars == <<process, phase, i, at, heap_start, picked, flat, table>>

In(a, v) == a >= v.lo /\ a < v.hi

(* The address spaces a process can have. *)
Vma     == {v \in [lo : Pages, hi : 1 .. NumPages] : v.lo < v.hi}
Layouts == {s \in UNION {[1 .. n -> Vma] : n \in 0 .. MaxVmas} :
               \A k \in 1 .. Len(s) : \A j \in 1 .. k - 1 : s[j].hi <= s[k].lo}

TypeOK ==
    /\ vmas \in Layouts
    /\ base \in Pages
    /\ present \in SUBSET Pages
    /\ phase \in {"scan", "walk", "decode", "done"}
    /\ i \in 1 .. Len(vmas) + 1
    /\ at \in 0 .. NumPages
    /\ heap_start \in 0 .. NumPages
    /\ picked \in SUBSET (1 .. Len(vmas))
    /\ flat \in [1 .. Len(vmas) -> Seq((0 .. OffsetRange - 1) \X Frames)]
    /\ table \in [Pages -> Frames \cup {NoFrame}]

Init ==
    /\ vmas \in Layouts
    /\ base \in Pages
    /\ present \in SUBSET {p \in Pages : \E j \in 1 .. Len(vmas) : In(p, vmas[j])}
    /\ phase = "scan"
    /\ i = 1 /\ at = 0
    /\ heap_start = base
    /\ picked = {}
    /\ flat = [j \in 1 .. Len(vmas) |-> << >>]
    /\ table = [p \in Pages |-> NoFrame]

-----------------------------------------------------------------------------
(* ShadowHeap::new *)

(* Mutant: heap_start stays at the base. *)
ScanInPlace ==
    /\ phase = "scan" /\ i <= Len(vmas)
    /\ picked' = IF In(heap_start, vmas[i]) THEN picked \cup {i} ELSE picked
    /\ i' = i + 1
    /\ UNCHANGED <<process, phase, at, heap_start, flat, table>>

(* "Trick: Move to next possible VM": the next VMA is collected if it      *)
(* starts where this one ends.                                             *)
Scan ==
    /\ phase = "scan" /\ i <= Len(vmas)
    /\ IF In(heap_start, vmas[i])
       THEN /\ picked' = picked \cup {i}
            /\ heap_start' = vmas[i].hi
       ELSE UNCHANGED <<picked, heap_start>>
    /\ i' = i + 1
    /\ UNCHANGED <<process, phase, at, flat, table>>

(* Mutants: the offset is not truncated; it counts from heap_base. *)
OffsetWide(p, v) == p - v.lo
OffsetFromBase(p, v) == (p - base) % OffsetRange

(* The offset is cast to u32. *)
Offset(p, v) == (p - v.lo) % OffsetRange

(* Mutant: the entries outside the heap range are filtered out. *)
WalkFiltered ==
    LET v == vmas[i]
        p == v.lo + at
    IN
    /\ phase = "walk" /\ i \in picked
    /\ p < v.hi
    /\ flat' = IF p \in present /\ p >= base
               THEN [flat EXCEPT ![i] = Append(flat[i], <<Offset(p, v), Frame(p)>>)]
               ELSE flat
    /\ at' = at + 1
    /\ UNCHANGED <<process, phase, i, heap_start, picked, table>>

(* handle_pte_entry, called by VMAPTGenerator::generate for every page of  *)
(* a collected VMA in address order.                                       *)
Walk ==
    LET v == vmas[i]
        p == v.lo + at
    IN
    /\ phase = "walk" /\ i \in picked
    /\ p < v.hi
    /\ flat' = IF p \in present
               THEN [flat EXCEPT ![i] = Append(flat[i], <<Offset(p, v), Frame(p)>>)]
               ELSE flat
    /\ at' = at + 1
    /\ UNCHANGED <<process, phase, i, heap_start, picked, table>>

(* The inner loop of HeapDescriptor::deserialize: pt.map overwrites. *)
Decode ==
    /\ phase = "decode" /\ i <= Len(vmas)
    /\ at < Len(flat[i])
    /\ table' = [table EXCEPT ![vmas[i].lo + flat[i][at + 1][1]] = flat[i][at + 1][2]]
    /\ at' = at + 1
    /\ UNCHANGED <<process, phase, i, heap_start, picked, flat>>

(* The walk or the decoder has nothing more to do for VMA i. *)
NextVma ==
    /\ phase \in {"walk", "decode"} /\ i <= Len(vmas)
    /\ phase = "walk" /\ i \in picked => vmas[i].lo + at >= vmas[i].hi
    /\ phase = "decode" => at >= Len(flat[i])
    /\ i' = i + 1
    /\ at' = 0
    /\ UNCHANGED <<process, phase, heap_start, picked, flat, table>>

NextPhase == [scan |-> "walk", walk |-> "decode", decode |-> "done"]

EndOfLoop ==
    /\ phase # "done" /\ i = Len(vmas) + 1
    /\ phase' = NextPhase[phase]
    /\ i' = 1
    /\ UNCHANGED <<process, at, heap_start, picked, flat, table>>

Next == Scan \/ Walk \/ Decode \/ NextVma \/ EndOfLoop

Spec == Init /\ [][Next]_vars

-----------------------------------------------------------------------------
(* Properties *)

(* VMA j belongs to the heap: it ends above heap_base and no address       *)
(* between heap_base and its end is unmapped.                              *)
OfHeap(j) ==
    /\ base < vmas[j].hi
    /\ \A a \in base .. vmas[j].hi - 1 :
          \E k \in 1 .. Len(vmas) : In(a, vmas[k])

(* One pass over the VMAs with the moving heap_start collects exactly the  *)
(* VMAs that heap_base and the addresses after it lie in, up to the first  *)
(* gap, even though the heap may be split into any number of VMAs.         *)
ScanExact ==
    picked = {j \in 1 .. Len(vmas) : OfHeap(j) /\ (phase = "scan" => j < i)}

(* No collected VMA is larger than a u32 offset can address. *)
OffsetsFit == \A j \in picked : vmas[j].hi - vmas[j].lo <= OffsetRange

(* The entry of page p is that of the producer: its own frame if it is a   *)
(* present page of a collected VMA, nothing otherwise.                     *)
Translated(p) ==
    table[p] = IF p \in present /\ \E j \in picked : In(p, vmas[j])
               THEN Frame(p) ELSE NoFrame

(* The table that HeapDescriptor::deserialize builds translates exactly    *)
(* the present pages of the heap, each to its own frame, as long as the    *)
(* offsets fit; a larger VMA would alias its pages.                        *)
TableExact ==
    phase = "done" /\ OffsetsFit => \A p \in Pages : p >= base => Translated(p)

(* vma.rs:75 says "Filter out these entries that are not in kernel heap    *)
(* range".  handle_pte_entry does not: the pages below heap_base that lie  *)
(* in the first VMA collected are in the table, too, every one of them.    *)
NotFiltered ==
    phase = "done" /\ OffsetsFit => \A p \in Pages : p < base => Translated(p)
=============================================================================
