-------------------------- MODULE EagerFetchProofs --------------------------
(***************************************************************************)
(* For any size of the VMA, any size of a batch and any set of translated  *)
(* pages: TypeOK, NoPartialPage and BatchFetched are invariants of the     *)
(* eager fetch.                                                            *)
(***************************************************************************)
EXTENDS EagerFetch, TLAPS

-----------------------------------------------------------------------------
(* The inductive invariant *)

(* Where the loops are: each batch has an address of its own in the outer  *)
(* loop, and the buffer does not change after the first batch.             *)
LoopsKept ==
    /\ round + 1 <= addr
    /\ pc \in {"post", "wait", "insert"} => round > 0 /\ Len(addr_buf) > 0
    /\ pc = "post" => i <= Len(addr_buf)
    /\ round > 0 => Len(addr_buf) = Batch \/ addr = NumPages + 2
    /\ pc = "done" => round > 0 \/ addr_buf = << >>
    /\ round = 0 => /\ queue = << >> /\ comps = 0
                    /\ \A p \in Pages : inserted[p] = {}

(* A frame of this round is in the VMA only once the batch was inserted,   *)
(* and is freed only in exchange for its place in the result.              *)
FramesKept ==
    /\ \A p \in Pages : \A f \in inserted[p] :
          /\ f[1] = p /\ f[2] <= round /\ f \notin freed
          /\ pc \in {"post", "wait", "insert"} => f[2] < round
    /\ \A f \in freed :
          /\ f[2] <= round
          /\ pc \in {"post", "wait"} => f[2] < round
          /\ pc = "insert" /\ f[2] = round => f[1] \notin got

(* As long as nothing fails, the result has every translated page. *)
ResultKept ==
    ~trouble =>
        /\ pc = "post" =>
             \A n \in 1 .. i - 1 : addr_buf[n] \in translated => addr_buf[n] \in got
        /\ pc \in {"wait", "insert"} =>
             \A n \in 1 .. Len(addr_buf) : addr_buf[n] \in translated => addr_buf[n] \in got
        /\ pc \in {"fill", "done"} /\ round > 0 =>
             \A n \in 1 .. Len(addr_buf) :
                 addr_buf[n] \in translated => inserted[addr_buf[n]] # {}

(* The bytes of frame f have come, or its read is in the QP. *)
UnderWay(f) == f \in arrived \/ \E n \in 1 .. Len(queue) : queue[n].frame = f

(* As long as nothing fails and the last address is translated, a batch    *)
(* leaves the QP as it found it, empty, and the one read that is signaled  *)
(* is behind all the others.                                               *)
BatchInOrder ==
    ~trouble /\ addr_buf # << >> /\ LastAddr \in translated =>
        /\ \A p \in Pages : inserted[p] \subseteq arrived
        /\ pc \in {"fill", "insert", "done"} => queue = << >> /\ comps = 0
        /\ pc = "post" => /\ comps = 0
                          /\ \A n \in 1 .. Len(queue) : ~queue[n].signaled
        /\ pc = "wait" =>
             \/ queue = << >> /\ comps = 1
             \/ /\ queue # << >> /\ comps = 0
                /\ \A n \in 1 .. Len(queue) : queue[n].signaled <=> n = Len(queue)
        /\ pc \in {"post", "wait", "insert"} =>
             \A p \in got : UnderWay(<<p, round>>)

EagerInv == TypeOK /\ LoopsKept /\ FramesKept /\ ResultKept /\ BatchInOrder

-----------------------------------------------------------------------------
(* A round's number fits, and so do the frames of this round. *)
LEMMA RoundFacts ==
    ASSUME TypeOK, LoopsKept
    PROVE  /\ round \in Nat /\ addr \in Nat /\ round <= NumPages + 1
           /\ NumPages \in Nat /\ Batch \in Nat /\ Batch >= 1
           /\ pc \in {"post", "wait", "insert"} =>
                /\ round \in Rounds
                /\ Len(addr_buf) \in 1 .. Batch
                /\ \A n \in 1 .. Len(addr_buf) : addr_buf[n] \in Pages
                /\ LastAddr \in Pages
           /\ \A p \in Pages : round \in Rounds => <<p, round>> \in Frames
<1> USE BatchAssumption DEF TypeOK, LoopsKept, Rounds
<1>1. /\ round \in Nat /\ addr \in Nat /\ round <= NumPages + 1
      /\ NumPages \in Nat /\ Batch \in Nat /\ Batch >= 1
  OBVIOUS
<1>2. \A n \in 1 .. Len(addr_buf) : addr_buf[n] \in Pages
  OBVIOUS
<1>3. ASSUME pc \in {"post", "wait", "insert"}
      PROVE  round \in Rounds /\ Len(addr_buf) \in 1 .. Batch
  BY <1>1, <1>3
<1>4. pc \in {"post", "wait", "insert"} => LastAddr \in Pages
  BY <1>2, <1>3 DEF LastAddr
<1>5. \A p \in Pages : round \in Rounds => <<p, round>> \in Frames
  BY DEF Frames
<1> QED BY <1>1, <1>2, <1>3, <1>4, <1>5

(* What is left of a sequence without its head. *)
LEMMA TailFacts ==
    ASSUME NEW S, NEW s \in Seq(S), s # << >>
    PROVE  /\ Len(s) \in Nat /\ Len(s) >= 1
           /\ Head(s) \in S /\ Head(s) = s[1]
           /\ Tail(s) \in Seq(S) /\ Len(Tail(s)) = Len(s) - 1
           /\ \A n \in 1 .. Len(s) - 1 : Tail(s)[n] = s[n + 1]
<1>1. Len(s) \in Nat /\ Len(s) >= 1
  OBVIOUS
<1>2. Head(s) = s[1] /\ Head(s) \in S
  BY <1>1
<1>3. /\ Tail(s) \in Seq(S) /\ Len(Tail(s)) = Len(s) - 1
      /\ \A n \in 1 .. Len(s) - 1 : Tail(s)[n] = s[n + 1]
  BY <1>1
<1> QED BY <1>1, <1>2, <1>3

(* What a sequence is after an append. *)
LEMMA AppendFacts ==
    ASSUME NEW S, NEW s \in Seq(S), NEW e \in S
    PROVE  /\ Append(s, e) \in Seq(S) /\ Append(s, e) # << >>
           /\ Len(s) \in Nat /\ Len(Append(s, e)) = Len(s) + 1
           /\ \A n \in 1 .. Len(s) : Append(s, e)[n] = s[n]
           /\ Append(s, e)[Len(s) + 1] = e
OBVIOUS

(* A step keeps the types of the variables. *)
LEMMA TypeStep ==
    ASSUME TypeOK, LoopsKept, [Next]_vars
    PROVE  TypeOK'
<1> USE DEF TypeOK, LoopsKept
<1>f. /\ round \in Nat /\ addr \in Nat /\ round <= NumPages + 1
      /\ NumPages \in Nat /\ Batch \in Nat /\ Batch >= 1
  BY RoundFacts
<1>1. CASE Fill
  <2>1. addr \in Pages
    BY <1>1, <1>f DEF Fill, Pages
  <2>2. addr_buf' \in Seq(Pages) /\ Len(addr_buf') <= Batch
    BY <1>1, <1>f, <2>1 DEF Fill
  <2>3. /\ round' \in 0 .. NumPages + 1
        /\ addr' \in 1 .. NumPages + 2
        /\ i' \in 1 .. Batch + 1
        /\ got' \in SUBSET Pages
        /\ pc' \in {"fill", "post", "wait", "insert", "done"}
    BY <1>1, <1>f DEF Fill, Call
  <2> QED BY <1>1, <2>2, <2>3 DEF Fill, qp
<1>2. CASE LastBatch
  <2>3. /\ round' \in 0 .. NumPages + 1
        /\ addr' \in 1 .. NumPages + 2
        /\ i' \in 1 .. Batch + 1
        /\ got' \in SUBSET Pages
        /\ pc' \in {"fill", "post", "wait", "insert", "done"}
    BY <1>2, <1>f DEF LastBatch, Call
  <2> QED BY <1>2, <2>3 DEF LastBatch, qp
<1>3. CASE Skip
  <2>1. i' \in 1 .. Batch + 1 /\ pc' \in {"fill", "post", "wait", "insert", "done"}
    BY <1>3, <1>f DEF Skip
  <2> QED BY <1>3, <2>1 DEF Skip, qp
<1>4. CASE Post
  <2>1. /\ addr_buf[i] \in Pages
        /\ i' \in 1 .. Batch + 1
        /\ pc' \in {"fill", "post", "wait", "insert", "done"}
    BY <1>4, <1>f, RoundFacts DEF Post
  <2>2. <<addr_buf[i], round>> \in Frames
    BY <1>4, <2>1, RoundFacts DEF Post
  <2>3. IsLast \in BOOLEAN
    BY DEF IsLast
  <2>4. queue' \in Seq([frame : Frames, signaled : BOOLEAN])
    <3>1. [frame |-> <<addr_buf[i], round>>, signaled |-> IsLast]
             \in [frame : Frames, signaled : BOOLEAN]
      BY <2>2, <2>3
    <3>2. Append(queue, [frame |-> <<addr_buf[i], round>>, signaled |-> IsLast])
             \in Seq([frame : Frames, signaled : BOOLEAN])
      BY <3>1, AppendFacts
    <3>3. \/ queue' = Append(queue, [frame |-> <<addr_buf[i], round>>, signaled |-> IsLast])
          \/ queue' = queue
      BY <1>4 DEF Post
    <3> QED BY <3>2, <3>3
  <2>5. trouble' \in BOOLEAN
    BY <1>4 DEF Post
  <2> QED BY <1>4, <2>1, <2>4, <2>5 DEF Post
<1>5. CASE Wait
  BY <1>5 DEF Wait
<1>6. CASE WaitFails
  <2>1. <<LastAddr, round>> \in Frames
    BY <1>6, RoundFacts DEF WaitFails
  <2> QED BY <1>6, <2>1 DEF WaitFails, qp
<1>7. CASE Insert
  <2>1. \A p \in Pages : {<<p, round>>} \in SUBSET Frames
    BY <1>7, RoundFacts DEF Insert
  <2>2. inserted' \in [Pages -> SUBSET Frames]
    BY <1>7, <2>1 DEF Insert
  <2>3. pc' \in {"fill", "post", "wait", "insert", "done"}
    BY <1>7 DEF Insert
  <2> QED BY <1>7, <2>2, <2>3 DEF Insert, qp
<1>8. CASE Arrive
  <2>1. queue # << >>
    BY <1>8 DEF Arrive
  <2>2. /\ Tail(queue) \in Seq([frame : Frames, signaled : BOOLEAN])
        /\ Head(queue) \in [frame : Frames, signaled : BOOLEAN]
    BY <2>1, TailFacts
  <2>3. comps' \in Nat
    BY <1>8 DEF Arrive
  <2> QED BY <1>8, <2>2, <2>3 DEF Arrive
<1>9. CASE UNCHANGED vars
  BY <1>9 DEF vars, qp
<1> QED
  BY <1>1, <1>2, <1>3, <1>4, <1>5, <1>6, <1>7, <1>8, <1>9 DEF Next

(* A step keeps the loops in order. *)
LEMMA LoopsStep ==
    ASSUME TypeOK, LoopsKept, [Next]_vars
    PROVE  LoopsKept'
<1> USE DEF TypeOK, LoopsKept
<1>f. /\ round \in Nat /\ addr \in Nat /\ round <= NumPages + 1
      /\ NumPages \in Nat /\ Batch \in Nat /\ Batch >= 1
  BY RoundFacts
<1>1. CASE Fill
  <2>1. /\ Len(addr_buf') \in Nat /\ Len(addr_buf') > 0
        /\ Len(addr_buf) = Batch => addr_buf' = addr_buf
    BY <1>1, <1>f, addr \in Pages DEF Fill, Pages
  <2> QED BY <1>1, <1>f, <2>1 DEF Fill, Call, qp
<1>2. CASE LastBatch
  BY <1>2, <1>f DEF LastBatch, Call, qp
<1>3. CASE Skip
  BY <1>3, <1>f DEF Skip, IsLast, qp
<1>4. CASE Post
  BY <1>4, <1>f DEF Post, IsLast
<1>5. CASE Wait
  BY <1>5, <1>f DEF Wait
<1>6. CASE WaitFails
  BY <1>6, <1>f DEF WaitFails, qp
<1>7. CASE Insert
  BY <1>7, <1>f DEF Insert, qp
<1>8. CASE Arrive
  BY <1>8, <1>f DEF Arrive
<1>9. CASE UNCHANGED vars
  BY <1>9 DEF vars, qp
<1> QED
  BY <1>1, <1>2, <1>3, <1>4, <1>5, <1>6, <1>7, <1>8, <1>9 DEF Next

(* A step keeps frames in the VMA apart from freed ones. *)
LEMMA FramesStep ==
    ASSUME TypeOK, LoopsKept, FramesKept, [Next]_vars
    PROVE  FramesKept'
<1> USE DEF FramesKept
<1>f. /\ round \in Nat
      /\ \A p \in Pages : \A f \in inserted[p] : f[2] \in Nat
      /\ \A f \in freed : f[2] \in Nat
  BY RoundFacts DEF TypeOK, Frames, Rounds
<1>1. CASE Fill
  BY <1>1, <1>f DEF Fill, Call, qp
<1>2. CASE LastBatch
  BY <1>2, <1>f DEF LastBatch, Call, qp
<1>3. CASE Skip
  BY <1>3, <1>f DEF Skip, qp
<1>4. CASE Post
  BY <1>4, <1>f DEF Post
<1>5. CASE Wait
  BY <1>5, <1>f DEF Wait
<1>6. CASE WaitFails
  BY <1>6, <1>f DEF WaitFails, qp
<1>7. CASE Insert
  <2>1. ASSUME NEW p \in Pages, NEW f \in inserted'[p]
        PROVE  f[1] = p /\ f[2] <= round /\ f \notin freed
    <3>1. CASE p \in got /\ inserted[p] = {}
      <4>1. f = <<p, round>>
        BY <1>7, <2>1, <3>1 DEF Insert
      <4> QED BY <1>7, <4>1, <3>1, <1>f DEF Insert
    <3>2. CASE ~(p \in got /\ inserted[p] = {})
      <4>1. f \in inserted[p]
        BY <1>7, <2>1, <3>2 DEF Insert
      <4> QED BY <4>1
    <3> QED BY <3>1, <3>2
  <2> QED BY <1>7, <1>f, <2>1 DEF Insert, qp
<1>8. CASE Arrive
  BY <1>8, <1>f DEF Arrive
<1>9. CASE UNCHANGED vars
  BY <1>9 DEF vars, qp
<1> QED
  BY <1>1, <1>2, <1>3, <1>4, <1>5, <1>6, <1>7, <1>8, <1>9 DEF Next

(* A step that does not fail keeps the result complete. *)
LEMMA ResultStep ==
    ASSUME TypeOK, LoopsKept, ResultKept, [Next]_vars
    PROVE  ResultKept'
<1> USE DEF ResultKept
<1>f. /\ round \in Nat /\ addr \in Nat /\ NumPages \in Nat /\ Batch \in Nat
      /\ i \in Nat /\ i >= 1 /\ Len(addr_buf) \in Nat
  BY RoundFacts DEF TypeOK
<1>1. CASE Fill
  <2>1. round > 0 => addr_buf' = addr_buf
    BY <1>1, <1>f DEF Fill, LoopsKept
  <2> QED BY <1>1, <1>f, <2>1 DEF Fill, Call, qp
<1>2. CASE LastBatch
  BY <1>2, <1>f DEF LastBatch, Call, qp, LoopsKept
<1>3. CASE Skip
  BY <1>3, <1>f DEF Skip, IsLast, qp, LoopsKept
<1>4. CASE Post
  BY <1>4, <1>f DEF Post, IsLast, LoopsKept
<1>5. CASE Wait
  BY <1>5, <1>f DEF Wait
<1>6. CASE WaitFails
  BY <1>6, <1>f DEF WaitFails, qp
<1>7. CASE Insert
  <2>1. \A n \in 1 .. Len(addr_buf) : addr_buf[n] \in Pages
    BY <1>7, RoundFacts DEF Insert
  <2>2. \A p \in Pages : p \in got => inserted'[p] # {}
    BY <1>7 DEF Insert
  <2> QED BY <1>7, <1>f, <2>1, <2>2 DEF Insert, qp
<1>8. CASE Arrive
  BY <1>8, <1>f DEF Arrive
<1>9. CASE UNCHANGED vars
  BY <1>9 DEF vars, qp
<1> QED
  BY <1>1, <1>2, <1>3, <1>4, <1>5, <1>6, <1>7, <1>8, <1>9 DEF Next
(* A step that does not fail keeps the signaled read behind the others. *)
LEMMA OrderStep ==
    ASSUME TypeOK, LoopsKept, BatchInOrder, [Next]_vars
    PROVE  BatchInOrder'
<1> SUFFICES ASSUME ~trouble', addr_buf' # << >>, LastAddr' \in translated'
             PROVE  /\ \A p \in Pages : inserted'[p] \subseteq arrived'
                    /\ pc' \in {"fill", "insert", "done"} => queue' = << >> /\ comps' = 0
                    /\ pc' = "post" => /\ comps' = 0
                                       /\ \A n \in 1 .. Len(queue') : ~queue'[n].signaled
                    /\ pc' = "wait" =>
                         \/ queue' = << >> /\ comps' = 1
                         \/ /\ queue' # << >> /\ comps' = 0
                            /\ \A n \in 1 .. Len(queue') :
                                   queue'[n].signaled <=> n = Len(queue')
                    /\ pc' \in {"post", "wait", "insert"} =>
                         \A p \in got' : UnderWay(<<p, round>>)'
  BY DEF BatchInOrder
<1>f. /\ round \in Nat /\ addr \in Nat /\ NumPages \in Nat /\ Batch \in Nat
      /\ Len(addr_buf) \in Nat /\ Len(queue) \in Nat
      /\ queue \in Seq([frame : Frames, signaled : BOOLEAN])
  BY RoundFacts DEF TypeOK
<1>g. ASSUME ~trouble, addr_buf # << >>, LastAddr \in translated
      PROVE  /\ \A p \in Pages : inserted[p] \subseteq arrived
             /\ pc \in {"fill", "insert", "done"} => queue = << >> /\ comps = 0
             /\ pc = "post" => /\ comps = 0
                               /\ \A n \in 1 .. Len(queue) : ~queue[n].signaled
             /\ pc = "wait" =>
                  \/ queue = << >> /\ comps = 1
                  \/ /\ queue # << >> /\ comps = 0
                     /\ \A n \in 1 .. Len(queue) : queue[n].signaled <=> n = Len(queue)
             /\ pc \in {"post", "wait", "insert"} =>
                  \A p \in got : UnderWay(<<p, round>>)
  BY <1>g DEF BatchInOrder
<1>1. CASE Fill
  <2>1. pc = "fill" /\ ~trouble /\ UNCHANGED <<translated, queue, comps, arrived, inserted>>
    BY <1>1 DEF Fill, qp
  <2>2. pc' \in {"fill", "post"} /\ (pc' = "post" => got' = {})
    BY <1>1 DEF Fill, Call
  <2>3. queue = << >> /\ comps = 0 /\ \A p \in Pages : inserted[p] \subseteq arrived
    <3>1. CASE round = 0
      BY <3>1 DEF LoopsKept
    <3>2. CASE round > 0
      <4>1. addr_buf' = addr_buf
        BY <1>1, <1>f, <3>2 DEF Fill, LoopsKept
      <4>2. addr_buf # << >> /\ LastAddr \in translated
        BY <2>1, <4>1 DEF LastAddr
      <4> QED BY <1>g, <2>1, <4>2
    <3> QED BY <3>1, <3>2, <1>f
  <2> QED BY <2>1, <2>2, <2>3
<1>2. CASE LastBatch
  <2>1. /\ pc = "fill" /\ ~trouble /\ addr_buf # << >> /\ LastAddr \in translated
        /\ UNCHANGED <<translated, queue, comps, arrived, inserted>>
    BY <1>2 DEF LastBatch, qp, LastAddr
  <2>2. pc' \in {"done", "post"} /\ (pc' = "post" => got' = {})
    BY <1>2 DEF LastBatch, Call
  <2> QED BY <1>g, <2>1, <2>2
<1>3. CASE Skip
  <2>1. /\ pc = "post" /\ ~trouble /\ addr_buf # << >> /\ LastAddr \in translated
        /\ UNCHANGED <<translated, queue, comps, arrived, inserted, got, round>>
    BY <1>3 DEF Skip, qp, LastAddr
  <2>2. pc' = "post"
    BY <1>3, <2>1 DEF Skip, IsLast, LastAddr
  <2> QED BY <1>g, <2>1, <2>2 DEF UnderWay
<1>4. CASE Post
  <2>1. /\ pc = "post" /\ ~trouble /\ addr_buf # << >> /\ LastAddr \in translated
        /\ UNCHANGED <<translated, comps, arrived, inserted, round>>
    BY <1>4 DEF Post, LastAddr
  <2> DEFINE q == [frame |-> <<addr_buf[i], round>>, signaled |-> IsLast]
  <2>2. queue' = Append(queue, q) /\ got' = got \cup {addr_buf[i]}
    BY <1>4 DEF Post
  <2>3. q \in [frame : Frames, signaled : BOOLEAN]
    <3>1. <<addr_buf[i], round>> \in Frames
      BY <2>1, RoundFacts DEF TypeOK, LoopsKept
    <3> QED BY <3>1 DEF IsLast
  <2>4. /\ queue' # << >> /\ Len(queue') = Len(queue) + 1
        /\ \A n \in 1 .. Len(queue) : queue'[n] = queue[n]
        /\ queue'[Len(queue) + 1] = q
    BY <1>f, <2>2, <2>3, AppendFacts
  <2>5. \A n \in 1 .. Len(queue) : ~queue[n].signaled
    BY <1>g, <2>1
  <2>6. q.signaled = IsLast /\ q.frame = <<addr_buf[i], round>>
    OBVIOUS
  <2> HIDE DEF q
  <2>7. \A p \in got' : UnderWay(<<p, round>>)'
    <3>1. ASSUME NEW p \in got PROVE UnderWay(<<p, round>>)'
      <4>1. UnderWay(<<p, round>>)
        BY <1>g, <2>1
      <4> QED BY <1>f, <2>1, <2>4, <4>1 DEF UnderWay
    <3>2. ASSUME NEW p, p = addr_buf[i] PROVE UnderWay(<<p, round>>)'
      <4>1. /\ Len(queue) + 1 \in 1 .. Len(queue')
            /\ queue'[Len(queue) + 1].frame = <<p, round>>
        BY <1>f, <2>4, <2>6, <3>2
      <4> QED BY <2>1, <4>1 DEF UnderWay
    <3> QED BY <2>2, <3>1, <3>2
  <2>8. comps' = 0 /\ \A p \in Pages : inserted'[p] \subseteq arrived'
    BY <1>g, <2>1
  <2>9. CASE IsLast
    <3>1. pc' = "wait"
      BY <1>4, <2>9 DEF Post
    <3>2. \A n \in 1 .. Len(queue') : queue'[n].signaled <=> n = Len(queue')
      <4>1. q.signaled
        BY <2>6, <2>9
      <4>2. \A n \in 1 .. Len(queue) : ~queue'[n].signaled /\ n # Len(queue')
        BY <1>f, <2>4, <2>5
      <4>3. \A n \in 1 .. Len(queue') : n \in 1 .. Len(queue) \/ n = Len(queue) + 1
        BY <1>f, <2>4
      <4> QED BY <2>4, <4>1, <4>2, <4>3
    <3> QED BY <2>4, <2>7, <2>8, <3>1, <3>2
  <2>10. CASE ~IsLast
    <3>1. pc' = "post"
      BY <1>4, <2>10 DEF Post
    <3>2. \A n \in 1 .. Len(queue') : ~queue'[n].signaled
      BY <1>f, <2>4, <2>5, <2>6, <2>10
    <3> QED BY <2>7, <2>8, <3>1, <3>2
  <2> QED BY <2>9, <2>10
<1>5. CASE Wait
  <2>1. /\ pc = "wait" /\ pc' = "insert" /\ comps > 0 /\ comps' = comps - 1
        /\ ~trouble /\ addr_buf # << >> /\ LastAddr \in translated
        /\ UNCHANGED <<translated, queue, arrived, inserted, got, round>>
    BY <1>5 DEF Wait, LastAddr
  <2>2. queue = << >> /\ comps = 1
    BY <1>g, <2>1
  <2> QED BY <1>g, <2>1, <2>2 DEF UnderWay
<1>6. CASE WaitFails
  BY <1>6 DEF WaitFails
<1>7. CASE Insert
  <2>1. /\ pc = "insert" /\ pc' \in {"fill", "done"}
        /\ ~trouble /\ addr_buf # << >> /\ LastAddr \in translated
        /\ UNCHANGED <<translated, queue, comps, arrived, got, round>>
    BY <1>7 DEF Insert, qp, LastAddr
  <2>2. queue = << >> /\ comps = 0
    BY <1>g, <2>1
  <2>3. \A p \in got : <<p, round>> \in arrived
    <3>1. \A p \in got : UnderWay(<<p, round>>)
      BY <1>g, <2>1
    <3>2. Len(queue) = 0
      BY <2>2
    <3> QED BY <3>1, <3>2 DEF UnderWay
  <2>4. ASSUME NEW p \in Pages PROVE inserted'[p] \subseteq arrived
    <3>1. (inserted'[p] = {<<p, round>>} /\ p \in got) \/ inserted'[p] = inserted[p]
      BY <1>7 DEF Insert
    <3> QED BY <1>g, <2>1, <2>3, <3>1
  <2> QED BY <2>1, <2>2, <2>4
<1>8. CASE Arrive
  <2>1. /\ queue # << >> /\ queue' = Tail(queue)
        /\ arrived' = arrived \cup {Head(queue).frame}
        /\ comps' = comps + (IF Head(queue).signaled THEN 1 ELSE 0)
        /\ ~trouble /\ addr_buf # << >> /\ LastAddr \in translated
        /\ UNCHANGED <<translated, pc, inserted, got, round>>
    BY <1>8 DEF Arrive, LastAddr
  <2>2. /\ Len(queue) >= 1 /\ Head(queue) = queue[1] /\ Len(queue') = Len(queue) - 1
        /\ \A n \in 1 .. Len(queue) - 1 : queue'[n] = queue[n + 1]
    BY <1>f, <2>1, TailFacts
  <2>3. pc \in {"post", "wait"}
    BY <1>g, <2>1 DEF TypeOK
  <2>4. ASSUME NEW p \in got PROVE UnderWay(<<p, round>>)'
    <3>1. UnderWay(<<p, round>>)
      BY <1>g, <2>1, <2>3
    <3>2. CASE <<p, round>> \in arrived
      BY <2>1, <3>2 DEF UnderWay
    <3>3. CASE <<p, round>> \notin arrived
      <4>1. PICK n \in 1 .. Len(queue) : queue[n].frame = <<p, round>>
        BY <3>1, <3>3 DEF UnderWay
      <4>2. CASE n = 1
        BY <2>1, <2>2, <4>1, <4>2 DEF UnderWay
      <4>3. CASE n # 1
        <5>1. n - 1 \in 1 .. Len(queue') /\ queue'[n - 1] = queue[n]
          BY <1>f, <2>2, <4>3
        <5> QED BY <2>1, <4>1, <5>1 DEF UnderWay
      <4> QED BY <4>2, <4>3
    <3> QED BY <3>2, <3>3
  <2>5. \A p \in Pages : inserted'[p] \subseteq arrived'
    BY <1>g, <2>1
  <2>6. CASE pc = "post"
    <3>1. comps' = 0 /\ \A n \in 1 .. Len(queue') : ~queue'[n].signaled
      BY <1>f, <1>g, <2>1, <2>2, <2>6
    <3> QED BY <2>1, <2>4, <2>5, <2>6, <3>1
  <2>7. CASE pc = "wait"
    <3>1. comps = 0 /\ \A n \in 1 .. Len(queue) : queue[n].signaled <=> n = Len(queue)
      BY <1>g, <2>1, <2>7
    <3>2. CASE Len(queue) = 1
      <4>1. queue' = << >>
        BY <1>f, <2>1, <2>2, <3>2, TailFacts
      <4>2. comps' = 1
        BY <2>1, <2>2, <3>1, <3>2
      <4> QED BY <2>1, <2>4, <2>5, <2>7, <4>1, <4>2
    <3>3. CASE Len(queue) > 1
      <4>1. comps' = 0
        <5>1. ~Head(queue).signaled
          BY <1>f, <2>2, <3>1, <3>3
        <5> QED BY <2>1, <3>1, <5>1
      <4>2. \A n \in 1 .. Len(queue') : queue'[n].signaled <=> n = Len(queue')
        BY <1>f, <2>2, <3>1, <3>3
      <4>3. queue' # << >>
        BY <1>f, <2>2, <3>3
      <4> QED BY <2>1, <2>4, <2>5, <2>7, <4>1, <4>2, <4>3
    <3> QED BY <1>f, <2>2, <3>2, <3>3
  <2> QED BY <2>3, <2>6, <2>7
<1>9. CASE UNCHANGED vars
  BY <1>g, <1>9 DEF vars, qp, UnderWay, LastAddr
<1> QED
  BY <1>1, <1>2, <1>3, <1>4, <1>5, <1>6, <1>7, <1>8, <1>9 DEF Next

LEMMA EagerInvariant == Spec => []EagerInv
<1>1. Init => EagerInv
  <2> SUFFICES ASSUME Init PROVE EagerInv
    OBVIOUS
  <2>1. TypeOK
    <3>1. addr_buf \in Seq(Pages) /\ queue \in Seq([frame : Frames, signaled : BOOLEAN])
      BY DEF Init
    <3>2. Len(addr_buf) <= Batch /\ i \in 1 .. Batch + 1
      BY BatchAssumption DEF Init
    <3>3. addr \in 1 .. NumPages + 2 /\ round \in 0 .. NumPages + 1
      BY BatchAssumption DEF Init
    <3> QED BY <3>1, <3>2, <3>3 DEF Init, TypeOK
  <2>2. LoopsKept /\ FramesKept /\ ResultKept
    BY BatchAssumption DEF Init, LoopsKept, FramesKept, ResultKept
  <2>3. BatchInOrder
    BY DEF Init, BatchInOrder
  <2> QED BY <2>1, <2>2, <2>3 DEF EagerInv
<1>2. EagerInv /\ [Next]_vars => EagerInv'
  BY TypeStep, LoopsStep, FramesStep, ResultStep, OrderStep DEF EagerInv
<1> QED BY <1>1, <1>2, PTL DEF Spec

-----------------------------------------------------------------------------
(* The variables of eager_fetch_vma and batch_read_remote_pages keep their *)
(* types: the buffer never outgrows its capacity, and there is at most one *)
(* batch per page and one more.                                            *)
THEOREM EagerTypeCorrect == Spec => []TypeOK
BY EagerInvariant, PTL DEF EagerInv

(* A page in the VMA has its bytes, if nothing failed and the last address *)
(* of the batch is translated: batch_read_remote_pages may wait for the    *)
(* last read only, for any size of a batch.                                *)
THEOREM NoPartialPageCorrect == Spec => []NoPartialPage
<1>1. EagerInv => NoPartialPage
  BY DEF EagerInv, BatchInOrder, NoPartialPage, InVma
<1> QED BY <1>1, EagerInvariant, PTL

(* eager_fetch_vma never shows a frame that it has freed, and has every    *)
(* translated page of the batch in the VMA at the end unless something     *)
(* failed.                                                                 *)
THEOREM BatchFetchedCorrect == Spec => []BatchFetched
<1>1. ASSUME EagerInv PROVE BatchFetched
  <2> USE <1>1 DEF EagerInv
  <2>1. InVma \cap freed = {}
    BY DEF FramesKept, InVma
  <2>2. ASSUME pc = "done", ~trouble, NEW p \in Batched
        PROVE  inserted[p] # {}
    <3>1. PICK n \in DOMAIN addr_buf : p = addr_buf[n]
      BY <2>2 DEF Batched
    <3>2. n \in 1 .. Len(addr_buf) /\ p \in translated
      BY <2>2, <3>1 DEF TypeOK, Batched
    <3>3. round > 0
      BY <2>2, <3>2 DEF LoopsKept
    <3> QED BY <2>2, <3>1, <3>2, <3>3 DEF ResultKept
  <2> QED BY <2>1, <2>2 DEF BatchFetched
<1> QED BY <1>1, EagerInvariant, PTL
=============================================================================
