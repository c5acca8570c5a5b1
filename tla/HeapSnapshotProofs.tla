------------------------- MODULE HeapSnapshotProofs -------------------------
(***************************************************************************)
(* ScanExact, TableExact and NotFiltered for address spaces of any size.   *)
(*                                                                         *)
(* While the scan runs, heap_start is where the part of the heap found so  *)
(* far ends: everything from heap_base up to it is mapped, it is base or   *)
(* the end of a VMA that was passed, and every VMA that was passed lies    *)
(* wholly below or wholly above it.  So an address space with a VMA above  *)
(* heap_start that was passed has a gap at heap_start.                     *)
(*                                                                         *)
(* The compact page tables hold the present pages that the walk has passed *)
(* and no others; the consumer's table holds the entries that were decoded *)
(* and, if no offset is truncated, nothing else.                           *)
(***************************************************************************)
EXTENDS HeapSnapshot, TLAPS

SpaceOK ==
    /\ Len(vmas) \in Nat
    /\ \A k \in 1 .. Len(vmas) : /\ vmas[k].lo \in Nat /\ vmas[k].hi \in Nat
                                 /\ vmas[k].lo < vmas[k].hi
    /\ \A k \in 1 .. Len(vmas) : \A j \in 1 .. k - 1 : vmas[j].hi <= vmas[k].lo
    /\ base \in Nat
    /\ phase \in {"scan", "walk", "decode", "done"}
    /\ i \in 1 .. Len(vmas) + 1
    /\ heap_start \in Nat

(* The scan of ShadowHeap::new *)
ScanInv ==
    phase = "scan" =>
        /\ base <= heap_start
        /\ \/ heap_start = base
           \/ \E l \in 1 .. i - 1 : heap_start = vmas[l].hi
        /\ \A a \in base .. heap_start - 1 :
              \E k \in 1 .. Len(vmas) : In(a, vmas[k])
        /\ \A j \in 1 .. i - 1 :
              vmas[j].hi <= heap_start \/ vmas[j].lo > heap_start
        /\ picked = {j \in 1 .. i - 1 : base < vmas[j].hi
                                        /\ vmas[j].hi <= heap_start}

IInv == SpaceOK /\ ScanInv /\ ScanExact

(* The page at of VMA i is one of its pages, or the loop has left the VMA. *)
AtKept ==
    /\ phase \in {"scan", "done"} \/ i = Len(vmas) + 1 => at = 0
    /\ phase = "walk" /\ i <= Len(vmas) =>
          IF i \in picked THEN vmas[i].lo + at <= vmas[i].hi ELSE at = 0
    /\ phase = "decode" /\ i <= Len(vmas) => at <= Len(flat[i])

(* The entry of page p in the compact page table of VMA j *)
Entry(j, p) == <<Offset(p, vmas[j]), Frame(p)>>

(* The walk has passed page p of VMA j; the decoder entry n. *)
Walked(j, p) ==
    \/ phase \in {"decode", "done"}
    \/ phase = "walk" /\ (j < i \/ (j = i /\ p < vmas[j].lo + at))
Decoded(j, n) ==
    \/ phase = "done"
    \/ phase = "decode" /\ (j < i \/ (j = i /\ n <= at))

(* The compact page tables hold the present pages that the walk has passed *)
(* and nothing else.                                                       *)
FlatKept ==
    \A j \in 1 .. Len(vmas) :
        /\ Len(flat[j]) <= vmas[j].hi - vmas[j].lo
        /\ phase = "scan" \/ (phase = "walk" /\ j > i) => flat[j] = << >>
        /\ phase = "walk" /\ j = i => Len(flat[j]) <= at
        /\ \A n \in 1 .. Len(flat[j]) :
              /\ j \in picked
              /\ \E p \in present : In(p, vmas[j]) /\ flat[j][n] = Entry(j, p)
        /\ \A p \in present :
              j \in picked /\ In(p, vmas[j]) /\ Walked(j, p) =>
                  \E n \in 1 .. Len(flat[j]) : flat[j][n] = Entry(j, p)

(* The consumer's table has every entry that was decoded; if no offset is  *)
(* truncated it has nothing but the pages of the heap.                     *)
TableKept ==
    /\ phase \in {"scan", "walk"} => table = [p \in Pages |-> NoFrame]
    /\ \A j \in 1 .. Len(vmas) : \A n \in 1 .. Len(flat[j]) :
          Decoded(j, n) => table[vmas[j].lo + flat[j][n][1]] # NoFrame
    /\ OffsetsFit =>
          \A p \in Pages :
              table[p] # NoFrame =>
                  /\ table[p] = Frame(p) /\ p \in present
                  /\ \E j \in picked : In(p, vmas[j])

SnapInv == TypeOK /\ IInv /\ AtKept /\ FlatKept /\ TableKept

-----------------------------------------------------------------------------

(* What membership in Layouts says. *)
LEMMA LayoutFacts ==
    ASSUME NEW s \in Layouts
    PROVE  /\ Len(s) \in Nat
           /\ \A k \in 1 .. Len(s) : /\ s[k].lo \in Nat /\ s[k].hi \in Nat
                                     /\ s[k].lo < s[k].hi
           /\ \A k \in 1 .. Len(s) : s[k].lo \in Pages /\ s[k].hi \in 1 .. NumPages
           /\ \A k \in 1 .. Len(s) : \A j \in 1 .. k - 1 : s[j].hi <= s[k].lo
<1>1. PICK n \in 0 .. MaxVmas : s \in [1 .. n -> Vma]
  BY SizesAssumption DEF Layouts
<1>2. n \in Nat
  BY SizesAssumption
<1>3. s \in Seq(Vma) /\ Len(s) = n
  BY <1>1, <1>2
<1>4. \A k \in 1 .. Len(s) : s[k] \in Vma
  BY <1>1, <1>3
<1>5. \A v \in Vma : v.lo \in Nat /\ v.hi \in Nat /\ v.lo < v.hi
  BY SizesAssumption DEF Vma, Pages
<1>6. \A v \in Vma : v.lo \in Pages /\ v.hi \in 1 .. NumPages
  BY DEF Vma
<1> QED
  BY <1>2, <1>3, <1>4, <1>5, <1>6 DEF Layouts

(* ScanInv is what ScanExact needs while the scan runs. *)
LEMMA ScanInvImplies ==
    ASSUME SpaceOK, ScanInv, phase = "scan"
    PROVE  picked = {j \in 1 .. Len(vmas) : OfHeap(j) /\ j < i}
<1> USE DEF SpaceOK
<1>1. ASSUME NEW j \in 1 .. i - 1, base < vmas[j].hi, vmas[j].hi <= heap_start
      PROVE  OfHeap(j)
  <2>1. \A a \in base .. heap_start - 1 : \E k \in 1 .. Len(vmas) : In(a, vmas[k])
    BY DEF ScanInv
  <2>2. base \in Nat /\ heap_start \in Nat /\ vmas[j].hi \in Nat
    OBVIOUS
  <2>3. \A a \in base .. vmas[j].hi - 1 : a \in base .. heap_start - 1
    BY <1>1, <2>2
  <2> QED BY <1>1, <2>1, <2>3 DEF OfHeap
<1>2. ASSUME NEW j \in 1 .. i - 1, OfHeap(j), vmas[j].hi > heap_start
      PROVE  FALSE
  <2>1. vmas[j].lo > heap_start
    BY <1>2 DEF ScanInv
  <2>2. heap_start \in base .. vmas[j].hi - 1
    BY <1>2 DEF ScanInv
  <2>3. PICK k \in 1 .. Len(vmas) : In(heap_start, vmas[k])
    BY <1>2, <2>2 DEF OfHeap
  <2>4. CASE k < i
    BY <2>3, <2>4 DEF ScanInv, In
  <2>5. CASE k >= i
    <3>1. vmas[j].hi <= vmas[k].lo
      BY <2>5
    <3>2. /\ heap_start \in Nat /\ vmas[k].lo <= heap_start
          /\ vmas[j].hi \in Nat /\ vmas[k].lo \in Nat
      BY <2>3 DEF In
    <3> QED
      BY <1>2, <3>1, <3>2
  <2> QED
    BY <2>4, <2>5
<1>3. \A j \in 1 .. i - 1 : OfHeap(j) <=> base < vmas[j].hi
                                          /\ vmas[j].hi <= heap_start
  <2> SUFFICES ASSUME NEW j \in 1 .. i - 1
               PROVE  OfHeap(j) <=> base < vmas[j].hi /\ vmas[j].hi <= heap_start
    OBVIOUS
  <2>1. OfHeap(j) => base < vmas[j].hi
    BY DEF OfHeap
  <2>2. vmas[j].hi \in Nat
    OBVIOUS
  <2> QED
    BY <1>1, <1>2, <2>1, <2>2
<1> QED
  BY <1>3 DEF ScanInv

LEMMA ScanInit ==
    Init => IInv
<1> SUFFICES ASSUME Init PROVE IInv
  OBVIOUS
<1>1. SpaceOK
  <2>1. vmas \in Layouts
    BY DEF Init
  <2>2. base \in Nat /\ heap_start \in Nat
    BY SizesAssumption DEF Init, Pages
  <2> QED
    BY <2>1, <2>2, LayoutFacts DEF Init, SpaceOK
<1>2. ScanInv
  BY <1>1 DEF Init, ScanInv, SpaceOK
<1>3. ScanExact
  BY <1>1, <1>2, ScanInvImplies DEF Init, ScanExact
<1> QED
  BY <1>1, <1>2, <1>3 DEF IInv

LEMMA ScanStep ==
    ASSUME SpaceOK, ScanInv, Scan
    PROVE  SpaceOK' /\ ScanInv'
<1>1. phase = "scan" /\ i \in 1 .. Len(vmas) /\ i' = i + 1 /\ phase' = phase
      /\ vmas' = vmas /\ base' = base
  BY DEF Scan, SpaceOK, process
<1>2. vmas[i].lo \in Nat /\ vmas[i].hi \in Nat /\ vmas[i].lo < vmas[i].hi
  BY <1>1 DEF SpaceOK
<1>3. CASE In(heap_start, vmas[i])
  <2>1. heap_start' = vmas[i].hi /\ picked' = picked \cup {i}
    BY <1>3 DEF Scan
  <2>2. heap_start < vmas[i].hi /\ vmas[i].lo <= heap_start
    BY <1>3 DEF In
  <2>3. SpaceOK'
    BY <1>1, <1>2, <2>1 DEF SpaceOK
  <2>4. \A j \in 1 .. i - 1 : vmas[j].hi <= heap_start
    BY <1>1, <2>2 DEF ScanInv, SpaceOK
  <2>10. \A j \in 1 .. i - 1 : vmas[j].hi <= vmas[i].hi
    <3> SUFFICES ASSUME NEW j \in 1 .. i - 1 PROVE vmas[j].hi <= vmas[i].hi
      OBVIOUS
    <3>1. vmas[j].hi \in Nat /\ vmas[j].hi <= heap_start
      BY <1>1, <2>4 DEF SpaceOK
    <3> QED
      BY <1>2, <2>2, <3>1 DEF SpaceOK
  <2>5. \A a \in base .. vmas[i].hi - 1 :
           \E k \in 1 .. Len(vmas) : In(a, vmas[k])
    <3> SUFFICES ASSUME NEW a \in base .. vmas[i].hi - 1
                 PROVE  \E k \in 1 .. Len(vmas) : In(a, vmas[k])
      OBVIOUS
    <3>1. CASE a < heap_start
      <4>1. a \in base .. heap_start - 1
        BY <1>2, <3>1 DEF SpaceOK
      <4> QED
        BY <1>1, <4>1 DEF ScanInv
    <3>2. CASE a >= heap_start
      <4>1. a \in Nat /\ vmas[i].lo <= a /\ a < vmas[i].hi
        BY <1>2, <2>2, <3>2 DEF SpaceOK
      <4> QED
        BY <1>1, <4>1 DEF In
    <3> QED
      BY <3>1, <3>2, <1>2 DEF SpaceOK
  <2>6. picked' = {j \in 1 .. i : base < vmas[j].hi /\ vmas[j].hi <= vmas[i].hi}
    <3>1. picked = {j \in 1 .. i - 1 : base < vmas[j].hi}
      BY <1>1, <2>4 DEF ScanInv
    <3>2. base < vmas[i].hi
      BY <1>1, <1>2, <2>2 DEF ScanInv, SpaceOK
    <3>3. \A j \in 1 .. i - 1 : vmas[j].hi <= vmas[i].hi
      BY <2>10
    <3> QED
      BY <1>1, <1>2, <2>1, <3>1, <3>2, <3>3 DEF SpaceOK
  <2>7. \A j \in 1 .. i : vmas[j].hi <= vmas[i].hi
    BY <1>1, <1>2, <2>10
  <2>8. base <= vmas[i].hi
    BY <1>1, <1>2, <2>2 DEF ScanInv, SpaceOK
  <2>9. 1 .. i' - 1 = 1 .. i /\ i \in 1 .. i
    BY <1>1 DEF SpaceOK
  <2> QED
    BY <1>1, <2>1, <2>3, <2>5, <2>6, <2>7, <2>8, <2>9 DEF ScanInv, In
<1>4. CASE ~In(heap_start, vmas[i])
  <2>1. heap_start' = heap_start /\ picked' = picked
    BY <1>4 DEF Scan
  <2>2. SpaceOK'
    BY <1>1, <2>1 DEF SpaceOK
  <2>3. vmas[i].hi <= heap_start \/ vmas[i].lo > heap_start
    BY <1>2, <1>4 DEF In, SpaceOK
  <2>4. ~(base < vmas[i].hi /\ vmas[i].hi <= heap_start)
    <3>1. CASE heap_start = base
      BY <1>2, <3>1 DEF SpaceOK
    <3>2. CASE \E l \in 1 .. i - 1 : heap_start = vmas[l].hi
      <4>1. PICK l \in 1 .. i - 1 : heap_start = vmas[l].hi
        BY <3>2
      <4>2. vmas[l].hi <= vmas[i].lo /\ vmas[l].hi \in Nat
        BY <1>1 DEF SpaceOK
      <4> QED BY <1>2, <4>1, <4>2
    <3> QED
      BY <1>1, <3>1, <3>2 DEF ScanInv
  <2>5. 1 .. i' - 1 = (1 .. i - 1) \cup {i}
    BY <1>1 DEF SpaceOK
  <2> QED
    BY <1>1, <2>1, <2>2, <2>3, <2>4, <2>5 DEF ScanInv, In
<1> QED
  BY <1>3, <1>4

LEMMA InvStep ==
    IInv /\ [Next]_vars => IInv'
<1> SUFFICES ASSUME IInv, [Next]_vars PROVE IInv'
  OBVIOUS
<1> USE DEF IInv
<1>1. CASE Scan
  <2>1. SpaceOK' /\ ScanInv'
    BY <1>1, ScanStep
  <2>2. (phase = "scan")'
    BY <1>1 DEF Scan
  <2>3. (picked = {j \in 1 .. Len(vmas) : OfHeap(j) /\ j < i})'
    BY <2>1, <2>2, ScanInvImplies, PTL
  <2> QED
    BY <2>1, <2>2, <2>3 DEF ScanExact
<1>2. CASE Walk \/ Decode \/ NextVma
  <2>1. /\ vmas' = vmas /\ base' = base /\ phase' = phase
        /\ heap_start' = heap_start /\ picked' = picked
        /\ phase # "scan" /\ (i' = i \/ (i <= Len(vmas) /\ i' = i + 1))
    BY <1>2 DEF Walk, Decode, NextVma, process
  <2>2. SpaceOK' /\ ScanInv'
    BY <2>1 DEF SpaceOK, ScanInv
  <2>3. ScanExact'
    BY <2>1 DEF ScanExact, OfHeap
  <2> QED
    BY <2>2, <2>3
<1>3. CASE EndOfLoop
  <2>1. SpaceOK' /\ ScanInv'
    BY <1>3 DEF EndOfLoop, SpaceOK, ScanInv, NextPhase, process
  <2>2. picked = {j \in 1 .. Len(vmas) : OfHeap(j)}
    BY <1>3 DEF EndOfLoop, SpaceOK, ScanExact
  <2>3. ScanExact'
    BY <1>3, <2>2 DEF EndOfLoop, SpaceOK, NextPhase, ScanExact, OfHeap, process
  <2> QED
    BY <2>1, <2>3
<1>4. CASE UNCHANGED vars
  BY <1>4 DEF vars, process, SpaceOK, ScanInv, ScanExact, OfHeap, In
<1> QED
  BY <1>1, <1>2, <1>3, <1>4 DEF Next

-----------------------------------------------------------------------------
(* What membership in the VMAs of the address space says. *)
LEMMA VmaFacts ==
    ASSUME TypeOK, NEW j \in 1 .. Len(vmas)
    PROVE  /\ Len(vmas) \in Nat /\ i \in Nat /\ at \in Nat
           /\ NumPages \in Nat /\ OffsetRange \in Nat /\ OffsetRange > 0
           /\ vmas[j].lo \in Nat /\ vmas[j].hi \in Nat /\ vmas[j].lo < vmas[j].hi
           /\ vmas[j].hi <= NumPages /\ vmas[j].lo \in Pages
           /\ flat[j] \in Seq((0 .. OffsetRange - 1) \X Frames)
           /\ Len(flat[j]) \in Nat
<1>1. vmas \in Layouts /\ Len(vmas) \in Nat
  BY LayoutFacts DEF TypeOK
<1>2. /\ vmas[j].lo \in Nat /\ vmas[j].hi \in Nat /\ vmas[j].lo < vmas[j].hi
      /\ vmas[j].hi <= NumPages /\ vmas[j].lo \in Pages
  BY <1>1, LayoutFacts, SizesAssumption
<1>3. NumPages \in Nat /\ OffsetRange \in Nat /\ OffsetRange > 0 /\ i \in Nat /\ at \in Nat
  BY <1>1, SizesAssumption DEF TypeOK
<1>4. flat[j] \in Seq((0 .. OffsetRange - 1) \X Frames)
  BY DEF TypeOK
<1> QED BY <1>1, <1>2, <1>3, <1>4

(* An offset fits, never lies behind its page, and is exact in a small VMA. *)
LEMMA OffsetFacts ==
    ASSUME NEW v, NEW p \in Nat, v.lo \in Nat, v.lo <= p
    PROVE  /\ Offset(p, v) \in 0 .. OffsetRange - 1
           /\ v.lo + Offset(p, v) <= p
           /\ p - v.lo < OffsetRange => v.lo + Offset(p, v) = p
<1> DEFINE d == p - v.lo
<1>1. d \in Nat /\ OffsetRange \in Nat \ {0}
  BY SizesAssumption
<1>2. Offset(p, v) = d % OffsetRange
  BY DEF Offset
<1>3. d % OffsetRange \in 0 .. OffsetRange - 1
  BY <1>1
<1>4. d % OffsetRange <= d
  BY <1>1
<1>5. d < OffsetRange => d % OffsetRange = d
  BY <1>1
<1> QED BY <1>1, <1>2, <1>3, <1>4, <1>5

(* The page that the walk is at. *)
LEMMA WalkFacts ==
    ASSUME TypeOK, Walk
    PROVE  /\ i \in 1 .. Len(vmas)
           /\ vmas[i].lo + at \in Pages
           /\ In(vmas[i].lo + at, vmas[i])
           /\ Entry(i, vmas[i].lo + at) \in (0 .. OffsetRange - 1) \X Frames
<1>1. i \in 1 .. Len(vmas)
  BY DEF Walk, TypeOK
<1>2. vmas[i].lo + at \in Pages /\ In(vmas[i].lo + at, vmas[i])
  <2>1. vmas[i].lo \in Nat /\ vmas[i].hi \in Nat /\ vmas[i].hi <= NumPages
    BY <1>1, VmaFacts
  <2>2. at \in Nat /\ vmas[i].lo + at < vmas[i].hi
    BY DEF Walk, TypeOK
  <2> QED BY <2>1, <2>2, SizesAssumption DEF Pages, In
<1>3. Offset(vmas[i].lo + at, vmas[i]) \in 0 .. OffsetRange - 1
  <2>1. vmas[i].lo \in Nat /\ vmas[i].lo + at \in Nat /\ vmas[i].lo <= vmas[i].lo + at
    BY <1>1, VmaFacts
  <2> QED BY <2>1, OffsetFacts
<1>4. Frame(vmas[i].lo + at) \in Frames
  BY <1>2 DEF Frames
<1> QED BY <1>1, <1>2, <1>3, <1>4 DEF Entry

(* An entry is mapped into the VMA it comes from. *)
LEMMA EntryPlace ==
    ASSUME TypeOK, FlatKept, NEW j \in 1 .. Len(vmas), NEW n \in 1 .. Len(flat[j])
    PROVE  vmas[j].lo + flat[j][n][1] \in Pages
<1>1. PICK p \in present : In(p, vmas[j]) /\ flat[j][n] = Entry(j, p)
  BY DEF FlatKept
<1>2. p \in Pages /\ p \in Nat /\ vmas[j].lo <= p /\ vmas[j].lo \in Nat
  <2>1. p \in Pages /\ p \in Nat
    BY DEF TypeOK, Pages
  <2>2. vmas[j].lo \in Nat
    BY VmaFacts
  <2> QED BY <1>1, <2>1, <2>2 DEF In
<1>3. flat[j][n][1] = Offset(p, vmas[j])
  BY <1>1 DEF Entry
<1>4. /\ Offset(p, vmas[j]) \in 0 .. OffsetRange - 1
      /\ vmas[j].lo + Offset(p, vmas[j]) <= p
  BY <1>2, OffsetFacts
<1> QED BY <1>2, <1>3, <1>4, SizesAssumption DEF Pages

(* The entry that the decoder is at. *)
LEMMA DecodeFacts ==
    ASSUME TypeOK, FlatKept, Decode
    PROVE  /\ i \in 1 .. Len(vmas) /\ at + 1 \in 1 .. Len(flat[i])
           /\ i \in picked
           /\ \E p \in present :
                /\ In(p, vmas[i]) /\ p \in Pages
                /\ flat[i][at + 1] = Entry(i, p)
                /\ vmas[i].lo + flat[i][at + 1][1] \in Pages
                /\ flat[i][at + 1][2] = Frame(p)
                /\ OffsetsFit => vmas[i].lo + flat[i][at + 1][1] = p
<1>1. i \in 1 .. Len(vmas)
  BY DEF Decode, TypeOK
<1>2. at + 1 \in 1 .. Len(flat[i])
  BY <1>1, VmaFacts DEF Decode
<1>3. i \in picked
  BY <1>1, <1>2 DEF FlatKept
<1>4. PICK p \in present : In(p, vmas[i]) /\ flat[i][at + 1] = Entry(i, p)
  BY <1>1, <1>2 DEF FlatKept
<1>5. p \in Pages /\ p \in Nat /\ vmas[i].lo <= p /\ p < vmas[i].hi
  BY <1>1, <1>4, VmaFacts DEF TypeOK, In, Pages
<1>6. flat[i][at + 1][1] = Offset(p, vmas[i]) /\ flat[i][at + 1][2] = Frame(p)
  BY <1>4 DEF Entry
<1>7. /\ Offset(p, vmas[i]) \in 0 .. OffsetRange - 1
      /\ vmas[i].lo + Offset(p, vmas[i]) <= p
      /\ p - vmas[i].lo < OffsetRange => vmas[i].lo + Offset(p, vmas[i]) = p
  BY <1>1, <1>5, VmaFacts, OffsetFacts
<1>8. vmas[i].lo + Offset(p, vmas[i]) \in Pages
  BY <1>1, <1>5, <1>7, VmaFacts DEF Pages
<1>9. OffsetsFit => p - vmas[i].lo < OffsetRange
  BY <1>1, <1>3, <1>5, VmaFacts DEF OffsetsFit
<1> QED BY <1>1, <1>2, <1>3, <1>4, <1>5, <1>6, <1>7, <1>8, <1>9

LEMMA SnapTypeStep ==
    ASSUME TypeOK, AtKept, FlatKept, [Next]_vars
    PROVE  TypeOK'
<1>f. /\ Len(vmas) \in Nat /\ i \in 1 .. Len(vmas) + 1 /\ NumPages \in Nat
  BY LayoutFacts, SizesAssumption DEF TypeOK
<1>1. CASE Scan
  <2>1. i \in 1 .. Len(vmas)
    BY <1>1, <1>f DEF Scan
  <2>2. vmas[i].hi \in 0 .. NumPages
    BY <2>1, VmaFacts
  <2>3. /\ heap_start' \in 0 .. NumPages
        /\ picked' \in SUBSET (1 .. Len(vmas))
        /\ i' \in 1 .. Len(vmas) + 1
    BY <1>1, <1>f, <2>1, <2>2 DEF Scan, TypeOK
  <2> QED BY <1>1, <2>3 DEF Scan, TypeOK, process
<1>2. CASE Walk
  <2>1. at' \in 0 .. NumPages
    <3>1. i \in 1 .. Len(vmas) /\ vmas[i].lo + at \in Pages
      BY <1>2, WalkFacts
    <3>2. vmas[i].lo \in Nat /\ at \in Nat
      BY <3>1, VmaFacts
    <3>3. at' = at + 1
      BY <1>2 DEF Walk
    <3> QED BY <1>f, <3>1, <3>2, <3>3 DEF Pages
  <2>2. flat' \in [1 .. Len(vmas) -> Seq((0 .. OffsetRange - 1) \X Frames)]
    <3>1. Append(flat[i], Entry(i, vmas[i].lo + at)) \in Seq((0 .. OffsetRange - 1) \X Frames)
      BY <1>2, WalkFacts, VmaFacts
    <3> QED BY <1>2, <3>1 DEF Walk, Entry, TypeOK
  <2> QED BY <1>2, <2>1, <2>2 DEF Walk, TypeOK, process
<1>3. CASE Decode
  <2>1. at' \in 0 .. NumPages
    <3>1. i \in 1 .. Len(vmas) /\ at \in Nat /\ at + 1 <= Len(flat[i])
      BY <1>3, DecodeFacts, VmaFacts
    <3>2. Len(flat[i]) <= vmas[i].hi - vmas[i].lo
      BY <3>1 DEF FlatKept
    <3>3. /\ vmas[i].lo \in Nat /\ vmas[i].hi \in Nat /\ vmas[i].hi <= NumPages
          /\ Len(flat[i]) \in Nat
      BY <3>1, VmaFacts
    <3>4. at' = at + 1
      BY <1>3 DEF Decode
    <3> QED BY <1>f, <3>1, <3>2, <3>3, <3>4
  <2>2. flat[i][at + 1][2] \in Frames
    BY <1>3, DecodeFacts DEF Frames
  <2>3. table' \in [Pages -> Frames \cup {NoFrame}]
    BY <1>3, <2>2 DEF Decode, TypeOK
  <2> QED BY <1>3, <2>1, <2>3 DEF Decode, TypeOK, process
<1>4. CASE NextVma
  BY <1>4, <1>f DEF NextVma, TypeOK, process
<1>5. CASE EndOfLoop
  BY <1>5, <1>f DEF EndOfLoop, TypeOK, process, NextPhase
<1>6. CASE UNCHANGED vars
  BY <1>6 DEF vars, process, TypeOK
<1> QED BY <1>1, <1>2, <1>3, <1>4, <1>5, <1>6 DEF Next

LEMMA AtStep ==
    ASSUME TypeOK, AtKept, FlatKept, [Next]_vars
    PROVE  AtKept'
<1>f. /\ Len(vmas) \in Nat /\ i \in 1 .. Len(vmas) + 1
      /\ \A j \in 1 .. Len(vmas) : /\ vmas[j].lo \in Nat /\ vmas[j].hi \in Nat
                                   /\ vmas[j].lo < vmas[j].hi /\ Len(flat[j]) \in Nat
  BY LayoutFacts, VmaFacts DEF TypeOK
<1>1. CASE Scan
  BY <1>1, <1>f DEF Scan, AtKept, process
<1>2. CASE Walk
  <2>1. i \in 1 .. Len(vmas) /\ at \in Nat
    BY <1>2, WalkFacts, VmaFacts
  <2> QED BY <1>2, <1>f, <2>1 DEF Walk, AtKept, process
<1>3. CASE Decode
  <2>1. i \in 1 .. Len(vmas) /\ at \in Nat
    BY <1>3, DecodeFacts, VmaFacts
  <2> QED BY <1>3, <1>f, <2>1 DEF Decode, AtKept, process
<1>4. CASE NextVma
  BY <1>4, <1>f DEF NextVma, AtKept, process
<1>5. CASE EndOfLoop
  BY <1>5, <1>f DEF EndOfLoop, AtKept, process, NextPhase, TypeOK
<1>6. CASE UNCHANGED vars
  BY <1>6 DEF vars, process, AtKept
<1> QED BY <1>1, <1>2, <1>3, <1>4, <1>5, <1>6 DEF Next

(* What FlatKept says of one VMA. *)
FlatOf(j) ==
    /\ Len(flat[j]) <= vmas[j].hi - vmas[j].lo
    /\ phase = "scan" \/ (phase = "walk" /\ j > i) => flat[j] = << >>
    /\ phase = "walk" /\ j = i => Len(flat[j]) <= at
    /\ \A n \in 1 .. Len(flat[j]) :
          /\ j \in picked
          /\ \E p \in present : In(p, vmas[j]) /\ flat[j][n] = Entry(j, p)
    /\ \A p \in present :
          j \in picked /\ In(p, vmas[j]) /\ Walked(j, p) =>
              \E n \in 1 .. Len(flat[j]) : flat[j][n] = Entry(j, p)

LEMMA FlatStep ==
    ASSUME TypeOK, AtKept, FlatKept, [Next]_vars
    PROVE  FlatKept'
<1> SUFFICES ASSUME NEW j \in 1 .. Len(vmas') PROVE FlatOf(j)'
  BY DEF FlatKept, FlatOf
<1>v. vmas' = vmas /\ present' = present
  BY DEF Next, Scan, Walk, Decode, NextVma, EndOfLoop, process, vars
<1>j. j \in 1 .. Len(vmas) /\ FlatOf(j)
  BY <1>v DEF FlatKept, FlatOf
<1>f. /\ Len(vmas) \in Nat /\ i \in 1 .. Len(vmas) + 1 /\ at \in Nat
      /\ vmas[j].lo \in Nat /\ vmas[j].hi \in Nat /\ vmas[j].lo < vmas[j].hi
      /\ Len(flat[j]) \in Nat /\ j \in Nat /\ j <= Len(vmas)
      /\ flat[j] \in Seq((0 .. OffsetRange - 1) \X Frames)
  <2>1. Len(vmas) \in Nat /\ i \in 1 .. Len(vmas) + 1
    BY <1>j, VmaFacts DEF TypeOK
  <2> QED BY <1>j, <2>1, VmaFacts
<1>p. \A p \in present : p \in Nat
  BY DEF TypeOK, Pages
<1>e. \A p : Entry(j, p)' = Entry(j, p)
  BY <1>v DEF Entry, Offset
<1>1. CASE Scan
  <2>1. phase = "scan" /\ phase' = "scan" /\ flat' = flat
    BY <1>1 DEF Scan
  <2>2. flat[j] = << >>
    BY <1>j, <2>1 DEF FlatOf
  <2> QED BY <1>v, <1>f, <1>j, <2>1, <2>2 DEF FlatOf, Walked
<1>2. CASE Walk
  <2> DEFINE q == vmas[i].lo + at
  <2>1. /\ phase = "walk" /\ phase' = "walk" /\ i' = i /\ at' = at + 1
        /\ i \in picked /\ picked' = picked
    BY <1>2 DEF Walk
  <2>2. i \in 1 .. Len(vmas) /\ In(q, vmas[i]) /\ q < vmas[i].hi /\ q \in Nat
    <3>1. i \in 1 .. Len(vmas) /\ In(q, vmas[i]) /\ q \in Pages
      BY <1>2, WalkFacts
    <3>2. q < vmas[i].hi
      BY <1>2 DEF Walk
    <3> QED BY <3>1, <3>2 DEF Pages
  <2>3. CASE j # i
    <3>1. flat'[j] = flat[j]
      BY <1>2, <1>j, <2>3 DEF Walk, TypeOK
    <3>2. \A p \in present : Walked(j, p)' => Walked(j, p)
      BY <2>1, <2>3 DEF Walked
    <3> QED BY <1>v, <1>j, <1>e, <2>1, <2>3, <3>1, <3>2 DEF FlatOf
  <2>4. CASE j = i /\ q \notin present
    <3>1. flat' = flat
      BY <1>2, <2>4 DEF Walk
    <3>2. ASSUME NEW p \in present, Walked(j, p)' PROVE Walked(j, p)
      <4>1. p \in Nat /\ p # q /\ p < vmas[j].lo + (at + 1)
        BY <1>v, <1>p, <1>f, <2>1, <2>4, <3>2 DEF Walked
      <4>2. p < vmas[j].lo + at
        <5>1. p # vmas[j].lo + at
          BY <2>4, <4>1
        <5>2. \A a, b, c \in Nat : a < b + (c + 1) /\ a # b + c => a < b + c
          OBVIOUS
        <5>3. p \in Nat /\ vmas[j].lo \in Nat /\ at \in Nat /\ p < vmas[j].lo + (at + 1)
          BY <1>f, <4>1
        <5> QED BY <5>1, <5>2, <5>3
      <4> QED BY <2>1, <2>4, <4>2 DEF Walked
    <3>3. Len(flat[j]) <= at + 1
      BY <1>f, <1>j, <2>1, <2>4 DEF FlatOf
    <3>4. ~(phase' = "scan" \/ (phase' = "walk" /\ j > i'))
      BY <1>f, <2>1, <2>4
    <3> QED BY <1>v, <1>j, <1>e, <2>1, <2>4, <3>1, <3>2, <3>3, <3>4 DEF FlatOf
  <2>5. CASE j = i /\ q \in present
    <3>1. flat'[j] = Append(flat[j], Entry(j, q))
      BY <1>2, <1>j, <2>5 DEF Walk, Entry, TypeOK
    <3>2. Entry(j, q) \in (0 .. OffsetRange - 1) \X Frames
      BY <1>2, <2>5, WalkFacts
    <3>3. /\ Len(flat'[j]) = Len(flat[j]) + 1
          /\ \A n \in 1 .. Len(flat[j]) : flat'[j][n] = flat[j][n]
          /\ flat'[j][Len(flat[j]) + 1] = Entry(j, q)
      BY <1>f, <3>1, <3>2
    <3> HIDE DEF q
    <3>4. Len(flat[j]) <= at /\ at < vmas[j].hi - vmas[j].lo
      BY <1>f, <1>j, <2>1, <2>2, <2>5 DEF FlatOf, q
    <3>5. ASSUME NEW n \in 1 .. Len(flat'[j])
          PROVE  \E p \in present : In(p, vmas[j]) /\ flat'[j][n] = Entry(j, p)
      <4>1. CASE n \in 1 .. Len(flat[j])
        <5>1. \E p \in present : In(p, vmas[j]) /\ flat[j][n] = Entry(j, p)
          BY <1>j, <4>1 DEF FlatOf
        <5> QED BY <3>3, <4>1, <5>1
      <4>2. CASE n = Len(flat[j]) + 1
        BY <2>2, <2>5, <3>3, <4>2
      <4> QED BY <1>f, <3>3, <3>5, <4>1, <4>2, SMTT(30)
    <3>6. ASSUME NEW p \in present, In(p, vmas[j]), Walked(j, p)'
          PROVE  \E n \in 1 .. Len(flat'[j]) : flat'[j][n] = Entry(j, p)
      <4>1. CASE p = q
        <5>1. Len(flat[j]) + 1 \in 1 .. Len(flat'[j])
          BY <1>f, <3>3
        <5> QED BY <3>3, <4>1, <5>1
      <4>2. CASE p # q
        <5>1. Walked(j, p)
          BY <1>v, <1>f, <1>p, <2>1, <2>5, <3>6, <4>2 DEF Walked, q
        <5>2. PICK n \in 1 .. Len(flat[j]) : flat[j][n] = Entry(j, p)
          BY <1>j, <2>1, <2>5, <3>6, <5>1 DEF FlatOf
        <5>3. n \in 1 .. Len(flat'[j]) /\ flat'[j][n] = Entry(j, p)
          <6>1. n \in 1 .. Len(flat[j]) + 1
            BY <1>f, <5>2
          <6> QED BY <3>3, <5>2, <6>1
        <5> QED BY <5>3
      <4> QED BY <4>1, <4>2
    <3>7. Len(flat'[j]) <= vmas[j].hi - vmas[j].lo /\ Len(flat'[j]) <= at'
      <4>1. \A a, b, c, d \in Nat : a <= b /\ b < d - c => a + 1 <= d - c /\ a + 1 <= b + 1
        OBVIOUS
      <4> QED BY <1>f, <2>1, <3>3, <3>4, <4>1
    <3>8. j \in picked' /\ ~(phase' = "scan" \/ (phase' = "walk" /\ j > i'))
      BY <1>f, <2>1, <2>5
    <3> QED BY <1>v, <1>e, <3>5, <3>6, <3>7, <3>8 DEF FlatOf
  <2> QED BY <2>3, <2>4, <2>5
<1>3. CASE Decode
  <2>1. phase = "decode" /\ phase' = "decode" /\ flat' = flat /\ picked' = picked
    BY <1>3 DEF Decode
  <2>2. \A p : Walked(j, p)
    BY <2>1 DEF Walked
  <2> QED BY <1>v, <1>j, <1>e, <2>1, <2>2 DEF FlatOf
<1>4. CASE NextVma
  <2>1. /\ phase' = phase /\ phase \in {"walk", "decode"} /\ flat' = flat
        /\ picked' = picked /\ i' = i + 1 /\ i <= Len(vmas)
    BY <1>4 DEF NextVma
  <2>2. CASE phase = "decode"
    <3>1. \A p : Walked(j, p)
      BY <2>2 DEF Walked
    <3> QED BY <1>v, <1>j, <1>e, <2>1, <2>2, <3>1 DEF FlatOf
  <2>3. CASE phase = "walk"
    <3>1. ASSUME NEW p \in present, j \in picked, In(p, vmas[j]), Walked(j, p)'
          PROVE  Walked(j, p)
      <4>1. j < i \/ j = i
        <5>1. j < i + 1 \/ (j = i + 1 /\ p < vmas[j].lo + 0)
          BY <1>v, <1>4, <2>3, <3>1 DEF NextVma, Walked
        <5>2. p \in Nat /\ p >= vmas[j].lo
          BY <1>p, <3>1 DEF In
        <5> QED BY <1>f, <5>1, <5>2
      <4>2. j = i => p < vmas[j].lo + at
        BY <1>4, <1>f, <1>p, <2>3, <3>1 DEF NextVma, In
      <4> QED BY <2>3, <4>1, <4>2 DEF Walked
    <3>2. j > i' => j > i
      BY <1>f, <2>1
    <3>3. j = i' => flat[j] = << >>
      BY <1>f, <1>j, <2>1, <2>3 DEF FlatOf
    <3>4. j = i' => Len(flat[j]) <= at'
      BY <3>3, <1>4 DEF NextVma
    <3> QED BY <1>v, <1>j, <1>e, <2>1, <2>3, <3>1, <3>2, <3>4 DEF FlatOf
  <2> QED BY <2>1, <2>2, <2>3
<1>5. CASE EndOfLoop
  <2>1. /\ phase' = NextPhase[phase] /\ flat' = flat /\ picked' = picked /\ i' = 1
        /\ i = Len(vmas) + 1 /\ at' = at /\ phase # "done"
    BY <1>5 DEF EndOfLoop
  <2>2. CASE phase = "scan"
    <3>1. flat[j] = << >> /\ Len(flat[j]) = 0
      BY <1>j, <2>2 DEF FlatOf
    <3>2. phase' = "walk" /\ at = 0
      BY <2>1, <2>2 DEF NextPhase, AtKept
    <3>3. \A p \in present : In(p, vmas[j]) => ~Walked(j, p)'
      BY <1>v, <1>f, <1>p, <2>1, <3>2 DEF Walked, In
    <3> QED BY <1>v, <1>f, <1>j, <2>1, <3>1, <3>2, <3>3 DEF FlatOf, In
  <2>3. CASE phase \in {"walk", "decode"}
    <3>1. phase' \in {"decode", "done"}
      BY <2>1, <2>3 DEF NextPhase
    <3>2. \A p : Walked(j, p)
      BY <1>f, <2>1, <2>3 DEF Walked
    <3> QED BY <1>v, <1>j, <1>e, <2>1, <3>1, <3>2 DEF FlatOf
  <2> QED BY <2>1, <2>2, <2>3 DEF TypeOK
<1>6. CASE UNCHANGED vars
  BY <1>6, <1>j DEF vars, process, FlatOf, Walked, Entry, Offset, In
<1> QED BY <1>1, <1>2, <1>3, <1>4, <1>5, <1>6 DEF Next

LEMMA TableStep ==
    ASSUME TypeOK, AtKept, FlatKept, TableKept, [Next]_vars
    PROVE  TableKept'
<1>v. vmas' = vmas /\ present' = present
  BY DEF Next, Scan, Walk, Decode, NextVma, EndOfLoop, process, vars
<1>f. /\ Len(vmas) \in Nat /\ i \in 1 .. Len(vmas) + 1 /\ NoFrame \notin Frames
      /\ table \in [Pages -> Frames \cup {NoFrame}]
  <2>1. Len(vmas) \in Nat /\ i \in 1 .. Len(vmas) + 1
    BY LayoutFacts DEF TypeOK
  <2>2. NoFrame \notin Frames
    BY SizesAssumption DEF Frames, Frame, Pages, NoFrame
  <2> QED BY <2>1, <2>2 DEF TypeOK
<1>1. CASE Scan \/ Walk
  <2>1. /\ phase \in {"scan", "walk"} /\ phase' = phase /\ table' = table
    BY <1>1 DEF Scan, Walk
  <2>2. table' = [p \in Pages |-> NoFrame]
    BY <2>1 DEF TableKept
  <2>3. \A j, n : ~Decoded(j, n)'
    BY <2>1 DEF Decoded
  <2> QED BY <2>2, <2>3 DEF TableKept
<1>2. CASE Decode
  <2> DEFINE a == vmas[i].lo + flat[i][at + 1][1]
             w == flat[i][at + 1][2]
  <2>1. /\ phase = "decode" /\ phase' = "decode" /\ i' = i /\ at' = at + 1
        /\ flat' = flat /\ picked' = picked /\ table' = [table EXCEPT ![a] = w]
    BY <1>2 DEF Decode
  <2>2. PICK q \in present : /\ In(q, vmas[i]) /\ q \in Pages
                             /\ a \in Pages /\ w = Frame(q)
                             /\ OffsetsFit => a = q
    BY <1>2, DecodeFacts
  <2>3. w \in Frames /\ w # NoFrame
    BY <1>f, <2>2 DEF Frames
  <2>4. i \in 1 .. Len(vmas) /\ i \in picked /\ at \in Nat
    BY <1>2, DecodeFacts, VmaFacts
  <2>5. table'[a] = w /\ \A p \in Pages : p # a => table'[p] = table[p]
    BY <1>f, <2>1, <2>2
  <2> HIDE DEF a, w
  <2>6. ASSUME NEW j \in 1 .. Len(vmas), NEW n \in 1 .. Len(flat[j]), Decoded(j, n)'
        PROVE  table'[vmas[j].lo + flat[j][n][1]] # NoFrame
    <3>1. CASE Decoded(j, n)
      <4>1. table[vmas[j].lo + flat[j][n][1]] # NoFrame
        BY <3>1 DEF TableKept
      <4>2. vmas[j].lo + flat[j][n][1] \in Pages
        BY <2>6, EntryPlace
      <4> QED BY <2>3, <2>5, <4>1, <4>2
    <3>2. CASE ~Decoded(j, n)
      <4>1. j = i /\ n = at + 1
        <5>1. Len(flat[j]) \in Nat
          BY VmaFacts
        <5> QED BY <2>1, <2>4, <2>6, <3>2, <5>1 DEF Decoded
      <4>2. vmas[j].lo + flat[j][n][1] = a
        BY <4>1 DEF a
      <4> QED BY <2>3, <2>5, <4>2
    <3> QED BY <3>1, <3>2
  <2>7. ASSUME OffsetsFit, NEW p \in Pages, table'[p] # NoFrame
        PROVE  /\ table'[p] = Frame(p) /\ p \in present
               /\ \E j \in picked : In(p, vmas[j])
    <3>1. CASE p = a
      BY <2>2, <2>4, <2>5, <2>7, <3>1
    <3>2. CASE p # a
      BY <2>5, <2>7, <3>2 DEF TableKept
    <3> QED BY <3>1, <3>2
  <2>8. OffsetsFit' = OffsetsFit
    BY <1>v, <2>1 DEF OffsetsFit
  <2> QED BY <1>v, <2>1, <2>6, <2>7, <2>8 DEF TableKept
<1>3. CASE NextVma
  <2>1. /\ phase' = phase /\ phase \in {"walk", "decode"} /\ flat' = flat /\ table' = table
        /\ picked' = picked /\ i' = i + 1 /\ at' = 0 /\ i <= Len(vmas)
    BY <1>3 DEF NextVma
  <2>2. ASSUME NEW j \in 1 .. Len(vmas), NEW n \in 1 .. Len(flat[j]), Decoded(j, n)'
        PROVE  Decoded(j, n)
    <3>1. Len(flat[j]) \in Nat /\ at \in Nat
      BY VmaFacts
    <3>2. phase = "decode" /\ (j < i + 1 \/ (j = i + 1 /\ n <= 0))
      BY <2>1, <2>2 DEF Decoded
    <3>3. j <= i
      BY <1>f, <3>1, <3>2
    <3>4. j = i => n <= at
      BY <1>3, <3>1, <3>2 DEF NextVma
    <3> QED BY <1>f, <3>2, <3>3, <3>4 DEF Decoded
  <2>3. OffsetsFit' = OffsetsFit
    BY <1>v, <2>1 DEF OffsetsFit
  <2> QED BY <1>v, <2>1, <2>2, <2>3 DEF TableKept
<1>4. CASE EndOfLoop
  <2>1. /\ phase' = NextPhase[phase] /\ flat' = flat /\ table' = table /\ picked' = picked
        /\ i' = 1 /\ i = Len(vmas) + 1 /\ at' = at /\ phase # "done" /\ at = 0
    BY <1>4 DEF EndOfLoop, AtKept
  <2>2. ASSUME NEW j \in 1 .. Len(vmas), NEW n \in 1 .. Len(flat[j]), Decoded(j, n)'
        PROVE  Decoded(j, n)
    <3>1. Len(flat[j]) \in Nat
      BY VmaFacts
    <3>2. CASE phase = "scan"
      BY <2>1, <2>2, <3>2 DEF Decoded, NextPhase
    <3>3. CASE phase = "walk"
      BY <1>f, <2>1, <2>2, <3>1, <3>3 DEF Decoded, NextPhase
    <3>4. CASE phase = "decode"
      BY <1>f, <2>1, <3>4 DEF Decoded
    <3> QED BY <2>1, <3>2, <3>3, <3>4 DEF TypeOK
  <2>3. OffsetsFit' = OffsetsFit
    BY <1>v, <2>1 DEF OffsetsFit
  <2>4. phase' \in {"scan", "walk"} => phase = "scan"
    BY <2>1 DEF NextPhase, TypeOK
  <2> QED BY <1>v, <2>1, <2>2, <2>3, <2>4 DEF TableKept
<1>5. CASE UNCHANGED vars
  BY <1>5 DEF vars, process, TableKept, Decoded, OffsetsFit, In
<1> QED BY <1>1, <1>2, <1>3, <1>4, <1>5 DEF Next

LEMMA SnapInvariant == Spec => []SnapInv
<1>1. Init => SnapInv
  <2> SUFFICES ASSUME Init PROVE SnapInv
    OBVIOUS
  <2>1. IInv
    BY ScanInit
  <2>2. Len(vmas) \in Nat /\ vmas \in Layouts /\ NumPages \in Nat
    BY LayoutFacts, SizesAssumption DEF Init
  <2>3. TypeOK
    <3>1. i \in 1 .. Len(vmas) + 1 /\ at \in 0 .. NumPages /\ heap_start \in 0 .. NumPages
      BY <2>2 DEF Init, Pages
    <3>2. flat \in [1 .. Len(vmas) -> Seq((0 .. OffsetRange - 1) \X Frames)]
      BY DEF Init
    <3> QED BY <3>1, <3>2 DEF Init, TypeOK
  <2>4. AtKept
    BY DEF Init, AtKept
  <2>5. FlatKept
    <3> SUFFICES ASSUME NEW j \in 1 .. Len(vmas) PROVE FlatOf(j)
      BY DEF FlatKept, FlatOf
    <3>1. flat[j] = << >> /\ Len(flat[j]) = 0 /\ phase = "scan"
      BY DEF Init
    <3>2. vmas[j].lo \in Nat /\ vmas[j].hi \in Nat /\ vmas[j].lo < vmas[j].hi
      BY <2>3, VmaFacts
    <3> QED BY <3>1, <3>2 DEF FlatOf, Walked
  <2>6. TableKept
    BY DEF Init, TableKept, Decoded
  <2> QED BY <2>1, <2>3, <2>4, <2>5, <2>6 DEF SnapInv
<1>2. SnapInv /\ [Next]_vars => SnapInv'
  BY InvStep, SnapTypeStep, AtStep, FlatStep, TableStep DEF SnapInv
<1> QED BY <1>1, <1>2, PTL DEF Spec

-----------------------------------------------------------------------------
(* The variables of the snapshot keep their types for any address space:   *)
(* every offset fits its width and every entry names a page of the heap.   *)
THEOREM SnapTypeCorrect == Spec => []TypeOK
BY SnapInvariant, PTL DEF SnapInv

(* Once the table is decoded and the offsets fit, every page has the       *)
(* producer's entry, wherever it lies with respect to heap_base.           *)
LEMMA AllTranslated ==
    ASSUME SnapInv, phase = "done", OffsetsFit, NEW p \in Pages
    PROVE  Translated(p)
<1> USE DEF SnapInv
<1>1. table[p] # NoFrame => /\ table[p] = Frame(p) /\ p \in present
                            /\ \E j \in picked : In(p, vmas[j])
  BY DEF TableKept
<1>2. ASSUME p \in present, NEW j \in picked, In(p, vmas[j])
      PROVE  table[p] # NoFrame
  <2>1. j \in 1 .. Len(vmas) /\ Walked(j, p)
    BY DEF TypeOK, Walked
  <2>2. PICK n \in 1 .. Len(flat[j]) : flat[j][n] = Entry(j, p)
    BY <1>2, <2>1 DEF FlatKept
  <2>3. table[vmas[j].lo + flat[j][n][1]] # NoFrame
    BY <2>1 DEF TableKept, Decoded
  <2>4. /\ p \in Nat /\ vmas[j].lo \in Nat /\ vmas[j].hi \in Nat /\ vmas[j].lo <= p
        /\ p < vmas[j].hi /\ OffsetRange \in Nat
    BY <1>2, <2>1, VmaFacts, SMTT(30) DEF Pages, In
  <2>5. p - vmas[j].lo < OffsetRange
    BY <2>4 DEF OffsetsFit
  <2>6. vmas[j].lo + Offset(p, vmas[j]) = p
    BY <2>4, <2>5, OffsetFacts
  <2> QED BY <2>2, <2>3, <2>6 DEF Entry
<1> QED BY <1>1, <1>2 DEF Translated

(* The table that HeapDescriptor::deserialize builds translates exactly    *)
(* the present pages of the heap, each to its own frame, as long as no     *)
(* collected VMA is larger than the offsets can address.                   *)
THEOREM TableCorrect == Spec => []TableExact
<1>1. SnapInv => TableExact
  BY AllTranslated DEF TableExact
<1> QED BY <1>1, SnapInvariant, PTL

(* Nothing filters the page table walk: every present page below heap_base *)
(* in a collected VMA is in the consumer's table, against vma.rs:75.       *)
THEOREM FilterMissing == Spec => []NotFiltered
<1>1. SnapInv => NotFiltered
  BY AllTranslated DEF NotFiltered
<1> QED BY <1>1, SnapInvariant, PTL

(* For every address space and every heap_base the scan of ShadowHeap::new *)
(* collects exactly the VMAs of the heap, however it is split.             *)
THEOREM ScanCorrect == Spec => []ScanExact
<1>1. IInv => ScanExact
  BY DEF IInv
<1> QED
  BY ScanInit, InvStep, <1>1, PTL DEF Spec
=============================================================================
