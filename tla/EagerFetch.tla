----------------------------- MODULE EagerFetch -----------------------------
(***************************************************************************)
(* A pull with eager_fetch: eager_fetch_vma fetches a mapped VMA's pages   *)
(* in batches, batch_read_remote_pages posts one RDMA read per page that   *)
(* the descriptor translates.  Only the read of the batch's last address   *)
(* is signaled and waited for: the reads of a QP finish in order, so its   *)
(* completion stands for all of them.                                      *)
(*                                                                         *)
(* One VMA.  Every read goes into a new local frame, <<p, r>> for page p   *)
(* in round r; a frame is in the VMA, freed, or forgotten.  The QP belongs *)
(* to the CPU: a completion that comes after its wait gave up is found by  *)
(* the next wait.                                                          *)
(***************************************************************************)
EXTENDS Naturals, Sequences, FiniteSets

CONSTANTS
    NumPages,   \* pages of the VMA
    Batch       \* len = 12 in eager_fetch_vma

ASSUME BatchAssumption == NumPages \in Nat /\ Batch \in Nat \ {0}

Pages  == 1 .. NumPages
Rounds == 1 .. NumPages + 1
Frames == Pages \X Rounds

VARIABLES
    translated,  \* pages the RemotePageTable has
    pc,          \* "fill", "post", "wait", "insert", "done"
    addr,        \* the loop's page; beyond NumPages the loop is over
    addr_buf,    \* addresses collected for a batch
    round,       \* batches so far, this one included
    i,           \* the batch's next address
    got,         \* pages of this batch with a frame in its result
    queue,       \* reads of the QP in order: [frame, signaled]
    comps,       \* completions nobody has polled
    arrived,     \* frames whose bytes have come
    inserted,    \* inserted[p]: frames put into the VMA at page p
    freed,       \* frames given back
    trouble      \* history: a wait or a post failed

qp   == <<queue, comps, arrived>>
vars == <<translated, pc, addr, addr_buf, round, i, got, qp, inserted, freed,
          trouble>>

TypeOK ==
    /\ translated \in SUBSET Pages
    /\ pc \in {"fill", "post", "wait", "insert", "done"}
    /\ addr \in 1 .. NumPages + 2
    /\ addr_buf \in Seq(Pages) /\ Len(addr_buf) <= Batch
    /\ round \in 0 .. NumPages + 1
    /\ i \in 1 .. Batch + 1
    /\ got \in SUBSET Pages
    /\ queue \in Seq([frame : Frames, signaled : BOOLEAN])
    /\ comps \in Nat
    /\ arrived \in SUBSET Frames
    /\ inserted \in [Pages -> SUBSET Frames]
    /\ freed \in SUBSET Frames
    /\ trouble \in BOOLEAN

Init ==
    /\ translated \in SUBSET Pages
    /\ pc = "fill" /\ addr = 1 /\ addr_buf = << >> /\ round = 0 /\ i = 1 /\ got = {}
    /\ queue = << >> /\ comps = 0 /\ arrived = {}
    /\ inserted = [p \in Pages |-> {}]
    /\ freed = {} /\ trouble = FALSE

-----------------------------------------------------------------------------
(* eager_fetch_vma *)

(* The next step: a call of batch_read_remote_pages, if there is one. *)
Call(batch, otherwise) ==
    /\ pc'    = IF batch THEN "post" ELSE otherwise
    /\ round' = IF batch THEN round + 1 ELSE round
    /\ i'     = IF batch THEN 1 ELSE i
    /\ got'   = IF batch THEN {} ELSE got

(* Mutant: the buffer takes every address. *)
FillUnlimited ==
    /\ pc = "fill" /\ addr <= NumPages
    /\ addr_buf' = Append(addr_buf, addr)
    /\ addr' = addr + 1
    /\ Call(Len(addr_buf') >= Batch, "fill")
    /\ UNCHANGED <<translated, qp, inserted, freed, trouble>>

(* The loop over the addresses.  addr_buf is never emptied: once it is     *)
(* full, every further address repeats the first batch.                    *)
Fill ==
    /\ pc = "fill" /\ addr <= NumPages
    /\ addr_buf' = IF Len(addr_buf) < Batch THEN Append(addr_buf, addr)
                                            ELSE addr_buf
    /\ addr' = addr + 1
    /\ Call(Len(addr_buf') = Batch, "fill")
    /\ UNCHANGED <<translated, qp, inserted, freed, trouble>>

(* Behind the loop the buffer is read once more. *)
LastBatch ==
    /\ pc = "fill" /\ addr = NumPages + 1
    /\ addr' = NumPages + 2
    /\ Call(addr_buf # << >>, "done")
    /\ UNCHANGED <<translated, addr_buf, qp, inserted, freed, trouble>>

-----------------------------------------------------------------------------
(* batch_read_remote_pages: the loop over addr_list.  Reads may finish     *)
(* while others are still to be posted.                                    *)

LastAddr == addr_buf[Len(addr_buf)]

IsLast == i = Len(addr_buf)

(* An address without translation is skipped.  If it is the last one,      *)
(* nothing is signaled and nothing is waited for.                          *)
Skip ==
    /\ pc = "post" /\ addr_buf[i] \notin translated
    /\ i' = i + 1
    /\ pc' = IF IsLast THEN "insert" ELSE "post"
    /\ UNCHANGED <<translated, addr, addr_buf, round, got, qp, inserted, freed,
                   trouble>>

(* A read into a new frame.  A post that fails is only logged. *)
Post ==
    /\ pc = "post" /\ addr_buf[i] \in translated
    /\ got' = got \cup {addr_buf[i]}
    /\ \/ /\ queue' = Append(queue, [frame |-> <<addr_buf[i], round>>,
                                     signaled |-> IsLast])
          /\ UNCHANGED trouble
       \/ /\ trouble' = TRUE
          /\ UNCHANGED queue
    /\ i' = i + 1
    /\ pc' = IF IsLast THEN "wait" ELSE "post"
    /\ UNCHANGED <<translated, addr, addr_buf, round, comps, arrived, inserted,
                   freed>>

(* Mutant: nobody waits for the last read. *)
WaitNot ==
    /\ pc = "wait"
    /\ pc' = "insert"
    /\ UNCHANGED <<translated, addr, addr_buf, round, i, got, qp, inserted,
                   freed, trouble>>

(* block_on: any completion of the QP ends the wait. *)
Wait ==
    /\ pc = "wait" /\ comps > 0
    /\ comps' = comps - 1
    /\ pc' = "insert"
    /\ UNCHANGED <<translated, addr, addr_buf, round, i, got, queue, arrived,
                   inserted, freed, trouble>>

(* Mutant: the freed frame stays in the result. *)
WaitFailsKeepsPage ==
    /\ pc = "wait"
    /\ freed' = freed \cup {<<LastAddr, round>>}
    /\ trouble' = TRUE
    /\ pc' = "insert"
    /\ UNCHANGED <<translated, addr, addr_buf, round, i, got, qp, inserted>>

(* The wait elapses or reports an error: the last frame is freed. *)
WaitFails ==
    /\ pc = "wait"
    /\ got' = got \ {LastAddr}
    /\ freed' = freed \cup {<<LastAddr, round>>}
    /\ trouble' = TRUE
    /\ pc' = "insert"
    /\ UNCHANGED <<translated, addr, addr_buf, round, i, qp, inserted>>

(* pmem_vm_insert_page fails where the VMA has a page already; the result  *)
(* is ignored and the new frame forgotten.                                 *)
Insert ==
    /\ pc = "insert"
    /\ inserted' = [p \in Pages |-> IF p \in got /\ inserted[p] = {}
                                    THEN {<<p, round>>} ELSE inserted[p]]
    /\ pc' = IF addr = NumPages + 2 THEN "done" ELSE "fill"
    /\ UNCHANGED <<translated, addr, addr_buf, round, i, got, qp, freed,
                   trouble>>

(* The QP finishes its oldest read. *)
Arrive ==
    /\ queue # << >>
    /\ queue' = Tail(queue)
    /\ arrived' = arrived \cup {Head(queue).frame}
    /\ comps' = comps + (IF Head(queue).signaled THEN 1 ELSE 0)
    /\ UNCHANGED <<translated, pc, addr, addr_buf, round, i, got, inserted,
                   freed, trouble>>

-----------------------------------------------------------------------------
Next == Fill \/ LastBatch \/ Skip \/ Post \/ Wait \/ WaitFails \/ Insert \/ Arrive

Spec == Init /\ [][Next]_vars

-----------------------------------------------------------------------------
(* Properties *)

(* The pages of the batch that can be read. *)
Batched == {addr_buf[n] : n \in DOMAIN addr_buf} \cap translated

InVma == UNION {inserted[p] : p \in Pages}

(* Without failed posts and waits, and if the last address of the batch    *)
(* is translated, no page is put into the VMA before its bytes have come:  *)
(* one completion does stand for the whole batch, although the batch is    *)
(* read again and again.                                                   *)
NoPartialPage ==
    ~trouble /\ addr_buf # << >> /\ LastAddr \in translated
    => InVma \subseteq arrived

(* A frame the consumer sees is never freed, and every page of the batch   *)
(* that is translated is in the VMA at the end unless something failed:    *)
(* the rounds that repeat the batch do no harm.                            *)
BatchFetched ==
    /\ InVma \cap freed = {}
    /\ pc = "done" /\ ~trouble => \A p \in Batched : inserted[p] # {}

(* "wait for the request to complete": a page in the VMA has its bytes     *)
(* when the pull goes on.                                                  *)
WaitedFor == pc = "done" /\ ~trouble => InVma \subseteq arrived
=============================================================================
