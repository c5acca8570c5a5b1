-------------------------- MODULE RemoteMapProofs --------------------------
(***************************************************************************)
(* Proofs about RemoteMap, for every set of machines, CPUs, handlers and   *)
(* RPC threads and every bound.                                            *)
(***************************************************************************)
EXTENDS RemoteMap, TLAPS

(* The arguments and locals a thread has at each place of its call, and    *)
(* those a message carries: what type correctness rests on beyond the      *)
(* types themselves.                                                       *)
ThreadShape(t) ==
    /\ pc[t] = "idle" <=> call[t].op = "none"
    /\ pc[t] # "idle" => call[t].cpu \in Cpus /\ call[t].peer \in Machines
    /\ call[t].op = "pull" => t \in Handlers /\ call[t].key \in Hints
    /\ call[t].op = "give" => /\ t \in Handlers
                              /\ call[t].key \in Hints
                              /\ call[t].addr \in Bufs
    /\ call[t].op = "serve" => /\ t \in Workers
                               /\ call[t].addr \in Bufs
                               /\ call[t].back \in Cpus
    /\ pc[t] \in {"call", "wait"} => call[t].op \in {"pull", "give"}
    /\ pc[t] = "free" => call[t].op = "give"
    /\ pc[t] \in {"fetch", "read", "panicked"} =>
         call[t].op \in {"pull", "serve"} /\ call[t].addr \in Bufs

MessageShape(msg) ==
    /\ msg.type \in {"give", "queryReply"} => msg.addr \in Bufs
    /\ msg.type \in {"query", "queryReply"} => msg.key \in Hints

CallShape ==
    /\ \A t \in Threads : ThreadShape(t)
    /\ \A msg \in net : MessageShape(msg)

TypeInv == TypeOK /\ CallShape

LEMMA ConstantFacts ==
    /\ \A t \in Threads : Home[t] \in Machines
    /\ \A h \in Handlers : h \in Threads /\ h \notin Workers
    /\ \A w \in Workers : w \in Threads /\ w \notin Handlers
    /\ Bufs \subseteq Nat /\ NoBuf \notin Bufs
    /\ Nobody \notin Cpus /\ Nobody \notin Machines /\ Nobody \notin Threads
    /\ MaxId \in Nat
BY ConstantsAssumption DEF Threads, NoBuf

LEMMA BufsNat == \A b \in Bufs \cup {NoBuf} : b \in Nat
BY ConstantsAssumption DEF NoBuf

LEMMA NoCallType == NoCall \in Calls /\ NoCall.op = "none"
BY ConstantFacts DEF NoCall, NewCall, Calls

LEMMA NewCallType ==
    ASSUME NEW op \in {"pull", "give", "serve"}, NEW cpu \in Cpus,
           NEW peer \in Machines, NEW key \in 0 .. MaxId,
           NEW addr \in Bufs \cup {NoBuf}, NEW back \in Cpus \cup {Nobody},
           NEW tag \in Nat
    PROVE  NewCall(op, cpu, peer, key, addr, back, tag) \in Calls
BY DEF NewCall, Calls

LEMMA CallUpdateType ==
    ASSUME NEW r \in Calls
    PROVE  /\ \A a \in Bufs \cup {NoBuf} : [r EXCEPT !.addr = a] \in Calls
           /\ \A q \in Cpus : [r EXCEPT !.qp = q] \in Calls
           /\ \A x \in Nat : [r EXCEPT !.res = x] \in Calls
BY DEF Calls

LEMMA InitTypeInv == Init => TypeInv
<1> SUFFICES ASSUME Init PROVE TypeInv
  OBVIOUS
<1>1. TypeOK
  BY ConstantFacts, NoCallType DEF Init, TypeOK, PCs, Hints, NoHint, NoBuf, Junk
<1>2. CallShape
  BY NoCallType DEF Init, CallShape, ThreadShape
<1> QED
  BY <1>1, <1>2 DEF TypeInv

LEMMA TypeStep ==
    ASSUME TypeInv, [Next]_vars
    PROVE  TypeInv'
<1> USE ConstantFacts, NoCallType DEF TypeInv
<1>1. ASSUME NEW h \in Handlers, Open(h)
      PROVE  TypeInv'
  <2>1. TypeOK'
    BY <1>1 DEF TypeOK, CallShape, ThreadShape, MessageShape, Open, heapVars,
          history, NoHint
  <2>2. ASSUME NEW u \in Threads PROVE ThreadShape(u)'
    BY <1>1 DEF TypeOK, CallShape, ThreadShape, MessageShape, Open, heapVars,
          history, NoHint
  <2>3. ASSUME NEW msg \in net' PROVE MessageShape(msg)
    BY <1>1 DEF TypeOK, CallShape, ThreadShape, MessageShape, Open, heapVars,
          history, NoHint
  <2> QED
    BY <2>1, <2>2, <2>3 DEF CallShape, MessageShape
<1>2. ASSUME NEW h \in Handlers, Close(h)
      PROVE  TypeInv'
  <2>1. TypeOK'
    <3>1. ASSUME Unregister(Home[h], private[h])
          PROVE  reg' \in [Machines -> [Hints -> Bufs \cup {NoBuf}]]
      BY <3>1 DEF TypeOK, Unregister
    <3>2. reg' \in [Machines -> [Hints -> Bufs \cup {NoBuf}]]
      BY <1>2, <3>1 DEF TypeOK, Close
    <3> QED
      BY <1>2, <3>2 DEF TypeOK, Close, history, NoHint
  <2>2. ASSUME NEW u \in Threads PROVE ThreadShape(u)'
    BY <1>2 DEF TypeOK, CallShape, ThreadShape, MessageShape, Close,
          Unregister, history, NoHint
  <2>3. ASSUME NEW msg \in net' PROVE MessageShape(msg)
    BY <1>2 DEF TypeOK, CallShape, ThreadShape, MessageShape, Close,
          Unregister, history, NoHint
  <2> QED
    BY <2>1, <2>2, <2>3 DEF CallShape, MessageShape
<1>3. ASSUME NEW h \in Handlers, Register(h)
      PROVE  TypeInv'
  <2>1. TypeOK'
    BY <1>3, SMTT(30) DEF TypeOK, CallShape, ThreadShape, MessageShape, Register,
          RegisterHeap, AllocId, Hints, history
  <2>2. ASSUME NEW u \in Threads PROVE ThreadShape(u)'
    BY <1>3 DEF TypeOK, CallShape, ThreadShape, MessageShape, Register,
          RegisterHeap, AllocId, Hints, history
  <2>3. ASSUME NEW msg \in net' PROVE MessageShape(msg)
    BY <1>3 DEF TypeOK, CallShape, ThreadShape, MessageShape, Register,
          RegisterHeap, AllocId, Hints, history
  <2> QED
    BY <2>1, <2>2, <2>3 DEF CallShape, MessageShape
<1>4. ASSUME NEW h \in Handlers, NEW r \in Machines, Connect(h, r)
      PROVE  TypeInv'
  <2>1. TypeOK'
    BY <1>4 DEF TypeOK, CallShape, ThreadShape, MessageShape, Connect,
          heapVars, fileVars, history
  <2>2. ASSUME NEW u \in Threads PROVE ThreadShape(u)'
    BY <1>4 DEF TypeOK, CallShape, ThreadShape, MessageShape, Connect,
          heapVars, fileVars, history
  <2>3. ASSUME NEW msg \in net' PROVE MessageShape(msg)
    BY <1>4 DEF TypeOK, CallShape, ThreadShape, MessageShape, Connect,
          heapVars, fileVars, history
  <2> QED
    BY <2>1, <2>2, <2>3 DEF CallShape, MessageShape
<1>5. ASSUME NEW h \in Handlers, NEW k \in Hints,
             NEW r \in Machines, NEW c \in Cpus, PullStart(h, k, r, c)
      PROVE  TypeInv'
  <2>1. TypeOK'
    <3>1. call' \in [Threads -> Calls]
      BY <1>5, NewCallType DEF TypeOK, PullStart, Hints
    <3> QED
      BY <1>5, <3>1 DEF TypeOK, PullStart, Goto, PCs, heapVars, fileVars,
          history
  <2>2. ASSUME NEW u \in Threads PROVE ThreadShape(u)'
    BY <1>5 DEF TypeOK, CallShape, ThreadShape, MessageShape, PullStart, Goto,
          Calls, NewCall, PCs, Hints, heapVars, fileVars, history
  <2>3. ASSUME NEW msg \in net' PROVE MessageShape(msg)
    BY <1>5 DEF TypeOK, CallShape, ThreadShape, MessageShape, PullStart, Goto,
          Calls, NewCall, PCs, Hints, heapVars, fileVars, history
  <2> QED
    BY <2>1, <2>2, <2>3 DEF CallShape, MessageShape
<1>6. ASSUME NEW h \in Handlers, NEW r \in Machines,
             NEW c \in Cpus, GiveStart(h, r, c)
      PROVE  TypeInv'
  <2>1. TypeOK'
    <3>1. PICK b \in Bufs :
              /\ RegisterHeap(Home[h], AllocId(Home[h]), b)
              /\ call' = [call EXCEPT ![h] = NewCall("give", c, r,
                            AllocId(Home[h]), b, Nobody, calls + 1)]
      BY <1>6 DEF GiveStart
    <3>2. call' \in [Threads -> Calls]
      <4>1. AllocId(Home[h]) \in 0 .. MaxId
        BY <3>1 DEF RegisterHeap, Hints
      <4>2. calls + 1 \in Nat
        BY DEF TypeOK
      <4>3. NewCall("give", c, r, AllocId(Home[h]), b, Nobody, calls + 1)
                \in Calls
        BY <4>1, <4>2, NewCallType
      <4> QED
        BY <3>1, <4>3 DEF TypeOK
    <3>3. /\ curId' \in [Machines -> 0 .. MaxId]
          /\ reg' \in [Machines -> [Hints -> Bufs \cup {NoBuf}]]
          /\ buf' \in [Machines -> [Bufs -> 0 .. MaxId]]
      BY <3>1 DEF TypeOK, RegisterHeap, Hints
    <3> QED
      BY <1>6, <3>2, <3>3 DEF TypeOK, GiveStart, Goto, PCs, fileVars, history
  <2>2. ASSUME NEW u \in Threads PROVE ThreadShape(u)'
    BY <1>6 DEF TypeOK, CallShape, ThreadShape, MessageShape, GiveStart,
          RegisterHeap, AllocId, Goto, Calls, NewCall, PCs, Hints, fileVars,
          history
  <2>3. ASSUME NEW msg \in net' PROVE MessageShape(msg)
    BY <1>6 DEF TypeOK, CallShape, ThreadShape, MessageShape, GiveStart,
          RegisterHeap, AllocId, Goto, Calls, NewCall, PCs, Hints, fileVars,
          history
  <2> QED
    BY <2>1, <2>2, <2>3 DEF CallShape, MessageShape
<1>7. ASSUME NEW t \in Threads, Acquire(t)
      PROVE  TypeInv'
  <2>1. TypeOK'
    BY <1>7 DEF TypeOK, CallShape, ThreadShape, MessageShape, Acquire, Lock,
          Goto, PCs, heapVars, fileVars, history
  <2>2. ASSUME NEW u \in Threads PROVE ThreadShape(u)'
    <3>1. CASE u = t
      BY <1>7, <3>1 DEF TypeOK, CallShape, ThreadShape, Acquire, Goto, Calls
    <3>2. CASE u # t
      BY <1>7, <3>2 DEF TypeOK, CallShape, ThreadShape, Acquire, Goto
    <3> QED
      BY <3>1, <3>2
  <2>3. ASSUME NEW msg \in net' PROVE MessageShape(msg)
    BY <1>7 DEF TypeOK, CallShape, ThreadShape, MessageShape, Acquire, Lock,
          Goto, PCs, heapVars, fileVars, history
  <2> QED
    BY <2>1, <2>2, <2>3 DEF CallShape, MessageShape
<1>8. ASSUME NEW h \in Handlers, SyncCallFails(h)
      PROVE  TypeInv'
  <2>1. TypeOK'
    BY <1>8 DEF TypeOK, CallShape, ThreadShape, MessageShape, SyncCallFails,
          FailCall, Unlock, Return, PCs, heapVars, fileVars
  <2>2. ASSUME NEW u \in Threads PROVE ThreadShape(u)'
    BY <1>8 DEF TypeOK, CallShape, ThreadShape, MessageShape, SyncCallFails,
          FailCall, Unlock, Return, PCs, heapVars, fileVars
  <2>3. ASSUME NEW msg \in net' PROVE MessageShape(msg)
    BY <1>8 DEF TypeOK, CallShape, ThreadShape, MessageShape, SyncCallFails,
          FailCall, Unlock, Return, PCs, heapVars, fileVars
  <2> QED
    BY <2>1, <2>2, <2>3 DEF CallShape, MessageShape
<1>9. ASSUME NEW h \in Handlers, SyncCall(h)
      PROVE  TypeInv'
  <2>1. TypeOK'
    BY <1>9 DEF TypeOK, CallShape, ThreadShape, MessageShape, SyncCall, Goto,
          PCs, Messages, Calls, heapVars, fileVars, history
  <2>2. ASSUME NEW u \in Threads PROVE ThreadShape(u)'
    BY <1>9 DEF TypeOK, CallShape, ThreadShape, MessageShape, SyncCall, Goto,
          PCs, Messages, Calls, heapVars, fileVars, history
  <2>3. ASSUME NEW msg \in net' PROVE MessageShape(msg)
    BY <1>9 DEF TypeOK, CallShape, ThreadShape, MessageShape, SyncCall, Goto,
          PCs, Messages, Calls, heapVars, fileVars, history
  <2> QED
    BY <2>1, <2>2, <2>3 DEF CallShape, MessageShape
<1>10. ASSUME NEW h \in Handlers, Timeout(h)
      PROVE  TypeInv'
  <2>1. TypeOK'
    BY <1>10 DEF TypeOK, CallShape, ThreadShape, MessageShape, Timeout,
          FailCall, Unlock, Return, PCs, heapVars, fileVars
  <2>2. ASSUME NEW u \in Threads PROVE ThreadShape(u)'
    BY <1>10 DEF TypeOK, CallShape, ThreadShape, MessageShape, Timeout,
          FailCall, Unlock, Return, PCs, heapVars, fileVars
  <2>3. ASSUME NEW msg \in net' PROVE MessageShape(msg)
    BY <1>10 DEF TypeOK, CallShape, ThreadShape, MessageShape, Timeout,
          FailCall, Unlock, Return, PCs, heapVars, fileVars
  <2> QED
    BY <2>1, <2>2, <2>3 DEF CallShape, MessageShape
<1>11. ASSUME NEW h \in Handlers, BadReply(h)
      PROVE  TypeInv'
  <2>1. TypeOK'
    BY <1>11 DEF TypeOK, CallShape, ThreadShape, MessageShape, BadReply,
          FailCall, Unlock, Return, PCs, Inbox, heapVars, fileVars
  <2>2. ASSUME NEW u \in Threads PROVE ThreadShape(u)'
    BY <1>11 DEF TypeOK, CallShape, ThreadShape, MessageShape, BadReply,
          FailCall, Unlock, Return, PCs, Inbox, heapVars, fileVars
  <2>3. ASSUME NEW msg \in net' PROVE MessageShape(msg)
    BY <1>11 DEF TypeOK, CallShape, ThreadShape, MessageShape, BadReply,
          FailCall, Unlock, Return, PCs, Inbox, heapVars, fileVars
  <2> QED
    BY <2>1, <2>2, <2>3 DEF CallShape, MessageShape
<1>12. ASSUME NEW h \in Handlers, PullReply(h)
      PROVE  TypeInv'
  <2>1. TypeOK'
    <3>1. call' \in [Threads -> Calls]
      BY <1>12, CallUpdateType DEF TypeOK, PullReply, Inbox, Messages
    <3> QED
      BY <1>12, <3>1 DEF TypeOK, PullReply, Goto, PCs, heapVars, fileVars,
          history
  <2>2. ASSUME NEW u \in Threads PROVE ThreadShape(u)'
    BY <1>12 DEF TypeOK, CallShape, ThreadShape, MessageShape, PullReply,
          Inbox, Goto, PCs, Calls, Messages, heapVars, fileVars, history
  <2>3. ASSUME NEW msg \in net' PROVE MessageShape(msg)
    BY <1>12 DEF TypeOK, CallShape, ThreadShape, MessageShape, PullReply,
          Inbox, Goto, PCs, Calls, Messages, heapVars, fileVars, history
  <2> QED
    BY <2>1, <2>2, <2>3 DEF CallShape, MessageShape
<1>13. ASSUME NEW h \in Handlers, GiveReply(h)
      PROVE  TypeInv'
  <2>1. TypeOK'
    <3>0. PICK msg \in net :
              call' = [call EXCEPT ![h].res = IF msg.type = "giveReply"
                                             THEN RemoteHint ELSE msg.addr]
      BY <1>13 DEF GiveReply, Inbox
    <3>a. msg.addr \in Nat /\ RemoteHint \in Nat
      <4>1. msg \in Messages
        BY DEF TypeOK
      <4>2. msg.addr \in Bufs \cup {NoBuf}
        BY <4>1 DEF Messages
      <4>3. msg.addr \in Nat
        BY <4>2, BufsNat, Zenon
      <4> QED
        BY <4>3 DEF RemoteHint
    <3>1. PICK x \in Nat : call' = [call EXCEPT ![h].res = x]
      BY <3>0, <3>a, Zenon
    <3>2. call' \in [Threads -> Calls]
      BY <3>1, CallUpdateType DEF TypeOK
    <3> QED
      BY <1>13, <3>2 DEF TypeOK, GiveReply, Unlock, Goto, PCs, heapVars,
          fileVars, history
  <2>2. ASSUME NEW u \in Threads PROVE ThreadShape(u)'
    BY <1>13 DEF TypeOK, CallShape, ThreadShape, MessageShape, GiveReply,
          Inbox, Undecodable, Unlock, Goto, PCs, Calls, Messages, RemoteHint,
          heapVars, fileVars, history
  <2>3. ASSUME NEW msg \in net' PROVE MessageShape(msg)
    BY <1>13 DEF TypeOK, CallShape, ThreadShape, MessageShape, GiveReply,
          Inbox, Undecodable, Unlock, Goto, PCs, Calls, Messages, RemoteHint,
          heapVars, fileVars, history
  <2> QED
    BY <2>1, <2>2, <2>3 DEF CallShape, MessageShape
<1>14. ASSUME NEW t \in Threads, FetchPost(t)
      PROVE  TypeInv'
  <2>1. TypeOK'
    <3>1. call' \in [Threads -> Calls]
      BY <1>14, CallUpdateType DEF TypeOK, FetchPost
    <3> QED
      BY <1>14, <3>1 DEF TypeOK, FetchPost, Goto, PCs, heapVars, fileVars,
          history
  <2>2. ASSUME NEW u \in Threads PROVE ThreadShape(u)'
    BY <1>14 DEF TypeOK, CallShape, ThreadShape, MessageShape, FetchPost,
          Goto, PCs, Calls, heapVars, fileVars, history
  <2>3. ASSUME NEW msg \in net' PROVE MessageShape(msg)
    BY <1>14 DEF TypeOK, CallShape, ThreadShape, MessageShape, FetchPost,
          Goto, PCs, Calls, heapVars, fileVars, history
  <2> QED
    BY <2>1, <2>2, <2>3 DEF CallShape, MessageShape
<1>15. ASSUME NEW t \in Threads, FetchPanics(t)
      PROVE  TypeInv'
  <2>1. TypeOK'
    BY <1>15 DEF TypeOK, CallShape, ThreadShape, MessageShape, FetchPanics,
          Goto, PCs, heapVars, fileVars, history
  <2>2. ASSUME NEW u \in Threads PROVE ThreadShape(u)'
    BY <1>15 DEF TypeOK, CallShape, ThreadShape, MessageShape, FetchPanics,
          Goto, PCs, heapVars, fileVars, history
  <2>3. ASSUME NEW msg \in net' PROVE MessageShape(msg)
    BY <1>15 DEF TypeOK, CallShape, ThreadShape, MessageShape, FetchPanics,
          Goto, PCs, heapVars, fileVars, history
  <2> QED
    BY <2>1, <2>2, <2>3 DEF CallShape, MessageShape
<1>16. ASSUME NEW h \in Handlers, PullDone(h)
      PROVE  TypeInv'
  <2>1. TypeOK'
    <3>1. /\ call[h].key \in Hints /\ call[h].peer \in Machines
          /\ call[h].addr \in Bufs
      BY <1>16 DEF CallShape, ThreadShape, PullDone
    <3>2. Fetched(h) \subseteq 0 .. MaxId
      <4>1. buf[call[h].peer][call[h].addr] \in 0 .. MaxId
        <5>1. buf \in [Machines -> [Bufs -> 0 .. MaxId]]
          BY DEF TypeOK
        <5> QED
          BY <3>1, <5>1, Zenon
      <4>2. Junk \in 0 .. MaxId
        BY DEF Junk
      <4>3. ASSUME NEW d \in Fetched(h)
            PROVE  d = buf[call[h].peer][call[h].addr] \/ d = Junk
        BY Zenon DEF Fetched
      <4> QED
        BY <4>1, <4>2, <4>3, Zenon
    <3>3. \A d \in Fetched(h) :
              [id |-> call[h].key, mac |-> call[h].peer, heap |-> d] \in Heaps
      BY <3>1, <3>2 DEF Heaps
    <3>4. public' \in [Handlers -> SUBSET Heaps]
      BY <1>16, <3>3 DEF TypeOK, PullDone
    <3> QED
      BY <1>16, <3>4 DEF TypeOK, PullDone, Unlock, Return, PCs, heapVars,
          history
  <2>2. ASSUME NEW u \in Threads PROVE ThreadShape(u)'
    BY <1>16 DEF TypeOK, CallShape, ThreadShape, MessageShape, PullDone,
          Fetched, Unlock, Return, PCs, Heaps, Junk, heapVars, history
  <2>3. ASSUME NEW msg \in net' PROVE MessageShape(msg)
    BY <1>16 DEF TypeOK, CallShape, ThreadShape, MessageShape, PullDone,
          Fetched, Unlock, Return, PCs, Heaps, Junk, heapVars, history
  <2> QED
    BY <2>1, <2>2, <2>3 DEF CallShape, MessageShape
<1>17. ASSUME NEW h \in Handlers, PullFails(h)
      PROVE  TypeInv'
  <2>1. TypeOK'
    BY <1>17 DEF TypeOK, CallShape, ThreadShape, MessageShape, PullFails,
          FailCall, Unlock, Return, PCs, heapVars, fileVars
  <2>2. ASSUME NEW u \in Threads PROVE ThreadShape(u)'
    BY <1>17 DEF TypeOK, CallShape, ThreadShape, MessageShape, PullFails,
          FailCall, Unlock, Return, PCs, heapVars, fileVars
  <2>3. ASSUME NEW msg \in net' PROVE MessageShape(msg)
    BY <1>17 DEF TypeOK, CallShape, ThreadShape, MessageShape, PullFails,
          FailCall, Unlock, Return, PCs, heapVars, fileVars
  <2> QED
    BY <2>1, <2>2, <2>3 DEF CallShape, MessageShape
<1>18. ASSUME NEW h \in Handlers, GiveDone(h)
      PROVE  TypeInv'
  <2>1. TypeOK'
    BY <1>18 DEF TypeOK, CallShape, ThreadShape, MessageShape, GiveDone,
          Unregister, Return, PCs, Calls, fileVars
  <2>2. ASSUME NEW u \in Threads PROVE ThreadShape(u)'
    BY <1>18 DEF TypeOK, CallShape, ThreadShape, MessageShape, GiveDone,
          Unregister, Return, PCs, Calls, fileVars
  <2>3. ASSUME NEW msg \in net' PROVE MessageShape(msg)
    BY <1>18 DEF TypeOK, CallShape, ThreadShape, MessageShape, GiveDone,
          Unregister, Return, PCs, Calls, fileVars
  <2> QED
    BY <2>1, <2>2, <2>3 DEF CallShape, MessageShape
<1>19. ASSUME NEW w \in Workers, HandleQuery(w)
      PROVE  TypeInv'
  <2>1. TypeOK'
    BY <1>19 DEF TypeOK, CallShape, ThreadShape, MessageShape, HandleQuery,
          Reply, Messages, Hints, NoBuf, heapVars, fileVars, history
  <2>2. ASSUME NEW u \in Threads PROVE ThreadShape(u)'
    BY <1>19 DEF TypeOK, CallShape, ThreadShape, MessageShape, HandleQuery,
          Reply, Messages, Hints, NoBuf, heapVars, fileVars, history
  <2>3. ASSUME NEW msg \in net' PROVE MessageShape(msg)
    BY <1>19 DEF TypeOK, CallShape, ThreadShape, MessageShape, HandleQuery,
          Reply, Messages, Hints, NoBuf, heapVars, fileVars, history
  <2> QED
    BY <2>1, <2>2, <2>3 DEF CallShape, MessageShape
<1>20. ASSUME NEW w \in Workers, NEW c \in Cpus, HandleGive(w, c)
      PROVE  TypeInv'
  <2>1. TypeOK'
    <3>1. PICK msg \in net :
              /\ msg.type = "give" /\ net' = net \ {msg}
              /\ call' = [call EXCEPT ![w] =
                            NewCall("serve", c, msg.from, msg.key, msg.addr,
                                    msg.cpu, msg.tag)]
      BY <1>20 DEF HandleGive
    <3>2. NewCall("serve", c, msg.from, msg.key, msg.addr, msg.cpu, msg.tag)
            \in Calls
      BY NewCallType DEF TypeOK, Messages
    <3>3. call' \in [Threads -> Calls]
      BY <3>1, <3>2 DEF TypeOK
    <3> QED
      BY <1>20, <3>3 DEF TypeOK, HandleGive, Goto, PCs, heapVars, fileVars,
          history
  <2>2. ASSUME NEW u \in Threads PROVE ThreadShape(u)'
    BY <1>20 DEF TypeOK, CallShape, ThreadShape, MessageShape, HandleGive,
          Goto, Messages, Calls, NewCall, PCs, heapVars, fileVars, history
  <2>3. ASSUME NEW msg \in net' PROVE MessageShape(msg)
    BY <1>20 DEF TypeOK, CallShape, ThreadShape, MessageShape, HandleGive,
          Goto, Messages, Calls, NewCall, PCs, heapVars, fileVars, history
  <2> QED
    BY <2>1, <2>2, <2>3 DEF CallShape, MessageShape
<1>21. ASSUME NEW w \in Workers, ServeDone(w)
      PROVE  TypeInv'
  <2>1. TypeOK'
    BY <1>21 DEF TypeOK, CallShape, ThreadShape, MessageShape, ServeDone,
          Answer, Unlock, Return, Messages, PCs, Calls, heapVars, fileVars,
          history
  <2>2. ASSUME NEW u \in Threads PROVE ThreadShape(u)'
    BY <1>21 DEF TypeOK, CallShape, ThreadShape, MessageShape, ServeDone,
          Answer, Unlock, Return, Messages, PCs, Calls, heapVars, fileVars,
          history
  <2>3. ASSUME NEW msg \in net' PROVE MessageShape(msg)
    BY <1>21 DEF TypeOK, CallShape, ThreadShape, MessageShape, ServeDone,
          Answer, Unlock, Return, Messages, PCs, Calls, heapVars, fileVars,
          history
  <2> QED
    BY <2>1, <2>2, <2>3 DEF CallShape, MessageShape
<1>22. ASSUME NEW w \in Workers, ServeFails(w)
      PROVE  TypeInv'
  <2>1. TypeOK'
    BY <1>22 DEF TypeOK, CallShape, ThreadShape, MessageShape, ServeFails,
          Answer, Unlock, Return, Messages, PCs, Calls, heapVars, fileVars,
          history
  <2>2. ASSUME NEW u \in Threads PROVE ThreadShape(u)'
    BY <1>22 DEF TypeOK, CallShape, ThreadShape, MessageShape, ServeFails,
          Answer, Unlock, Return, Messages, PCs, Calls, heapVars, fileVars,
          history
  <2>3. ASSUME NEW msg \in net' PROVE MessageShape(msg)
    BY <1>22 DEF TypeOK, CallShape, ThreadShape, MessageShape, ServeFails,
          Answer, Unlock, Return, Messages, PCs, Calls, heapVars, fileVars,
          history
  <2> QED
    BY <2>1, <2>2, <2>3 DEF CallShape, MessageShape
<1>23. ASSUME Lose
      PROVE  TypeInv'
  BY <1>23 DEF Lose, TypeOK, CallShape, ThreadShape, MessageShape, heapVars,
     fileVars, history
<1>24. CASE UNCHANGED vars
  BY <1>24 DEF vars, TypeOK, CallShape, ThreadShape, MessageShape, heapVars,
     fileVars, history
<1> QED
  BY <1>1, <1>2, <1>3, <1>4, <1>5, <1>6, <1>7, <1>8, <1>9, <1>10, <1>11, <1>12,
          <1>13, <1>14, <1>15, <1>16, <1>17, <1>18, <1>19, <1>20, <1>21,
          <1>22, <1>23, <1>24
  DEF Next, Syscall, UserStep, WorkerStep, Threads

LEMMA TypeInvariant == Spec => []TypeInv
<1>1. TypeInv /\ [Next]_vars => TypeInv'
  BY TypeStep
<1> QED
  BY InitTypeInv, <1>1, PTL DEF Spec

(* TypeOK is an invariant of the specification: every variable of the      *)
(* module keeps its type, and call arguments are there when they are used. *)
THEOREM TypeCorrect == Spec => []TypeOK
BY TypeInvariant, PTL DEF TypeInv

-----------------------------------------------------------------------------
(* The CPU locks *)

(* A step of thread t leaves the calls of all other threads alone. *)
OnlyThread(t) ==
    \A u \in Threads : u # t => pc'[u] = pc[u] /\ call'[u] = call[u]

(* The three ways a step of t may treat its lock. *)
KeepsLock(t) ==
    /\ lock' = lock
    /\ pc[t] \in Critical <=> pc'[t] \in Critical
    /\ pc[t] \in Critical => call'[t].cpu = call[t].cpu

TakesLock(t) ==
    /\ Lock(t)
    /\ call[t].cpu \in Cpus
    /\ pc[t] \notin Critical /\ pc'[t] \in Critical
    /\ call'[t].cpu = call[t].cpu

DropsLock(t) ==
    /\ Unlock(t)
    /\ pc[t] \in Critical /\ pc'[t] \notin Critical

LEMMA LockDisciplineStep ==
    ASSUME TypeInv, LockDiscipline, NEW t \in Threads, OnlyThread(t),
           KeepsLock(t) \/ TakesLock(t) \/ DropsLock(t)
    PROVE  LockDiscipline'
<1> USE ConstantFacts DEF TypeInv
<1> SUFFICES ASSUME NEW m \in Machines, NEW c \in Cpus, NEW u \in Threads
             PROVE  lock'[m][c] = u <=> /\ Home[u] = m
                                        /\ pc'[u] \in Critical
                                        /\ call'[u].cpu = c
  BY DEF LockDiscipline
<1>1. lock[m][c] = u <=> Home[u] = m /\ pc[u] \in Critical /\ call[u].cpu = c
  BY DEF LockDiscipline
<1>2. lock[m][c] = t <=> Home[t] = m /\ pc[t] \in Critical /\ call[t].cpu = c
  BY DEF LockDiscipline
<1>3. lock \in [Machines -> [Cpus -> Threads \cup {Nobody}]]
  BY DEF TypeOK
<1>4. CASE KeepsLock(t)
  BY <1>1, <1>4 DEF OnlyThread, KeepsLock
<1>5. CASE TakesLock(t)
  <2>1. CASE m = Home[t] /\ c = call[t].cpu
    BY <1>1, <1>3, <1>5, <2>1 DEF OnlyThread, TakesLock, Lock
  <2>2. CASE ~(m = Home[t] /\ c = call[t].cpu)
    <3>1. lock'[m][c] = lock[m][c]
      BY <1>3, <1>5, <2>2 DEF TakesLock, Lock
    <3> QED
      BY <1>1, <1>5, <2>2, <3>1 DEF OnlyThread, TakesLock
  <2> QED
    BY <2>1, <2>2
<1>6. CASE DropsLock(t)
  <2>1. CASE m = Home[t] /\ c = call[t].cpu
    BY <1>1, <1>2, <1>3, <1>6, <2>1 DEF OnlyThread, DropsLock, Unlock
  <2>2. CASE ~(m = Home[t] /\ c = call[t].cpu)
    <3>1. lock'[m][c] = lock[m][c]
      BY <1>3, <1>6, <2>2 DEF DropsLock, Unlock
    <3> QED
      BY <1>1, <1>6, <2>2, <3>1 DEF OnlyThread, DropsLock
  <2> QED
    BY <2>1, <2>2
<1> QED
  BY <1>4, <1>5, <1>6

(* Every step of the specification is one of those for some thread, or     *)
(* touches neither the calls nor the locks.                                *)
LEMMA StepKinds ==
    ASSUME TypeInv, [Next]_vars
    PROVE  \/ UNCHANGED <<lock, pc, call>>
           \/ \E t \in Threads : /\ OnlyThread(t)
                                 /\ KeepsLock(t) \/ TakesLock(t) \/ DropsLock(t)
<1> USE ConstantFacts DEF TypeInv, TypeOK
<1> DEFINE Ok(t) == OnlyThread(t) /\ (KeepsLock(t) \/ TakesLock(t) \/ DropsLock(t))
<1>1. ASSUME NEW h \in Handlers, Syscall(h)
      PROVE  UNCHANGED <<lock, pc, call>> \/ Ok(h)
  <2>1. CASE Open(h) \/ Close(h) \/ Register(h) \/ \E r \in Machines : Connect(h, r)
    BY <2>1 DEF Open, Close, Register, Connect
  <2>2. ASSUME NEW k \in Hints, NEW r \in Machines, NEW c \in Cpus,
               PullStart(h, k, r, c)
        PROVE  Ok(h)
    BY <2>2 DEF PullStart, Goto, OnlyThread, KeepsLock, Critical
  <2>3. ASSUME NEW r \in Machines, NEW c \in Cpus, GiveStart(h, r, c)
        PROVE  Ok(h)
    BY <2>3 DEF GiveStart, Goto, OnlyThread, KeepsLock, Critical
  <2> QED
    BY <1>1, <2>1, <2>2, <2>3 DEF Syscall
<1>2. ASSUME NEW t \in Threads, Acquire(t)
      PROVE  Ok(t)
  <2>1. call[t].cpu \in Cpus
    BY <1>2 DEF CallShape, ThreadShape, Acquire
  <2> QED
    BY <1>2, <2>1 DEF Acquire, Goto, OnlyThread, TakesLock, Critical
<1>3. ASSUME NEW t \in Threads, FetchPost(t) \/ FetchPanics(t)
      PROVE  Ok(t)
  <2>1. CASE FetchPost(t)
    BY <2>1 DEF FetchPost, Goto, OnlyThread, KeepsLock, Critical, Calls
  <2>2. CASE FetchPanics(t)
    BY <2>2 DEF FetchPanics, Goto, OnlyThread, KeepsLock, Critical
  <2> QED
    BY <1>3, <2>1, <2>2
<1>4. ASSUME NEW h \in Handlers, FailCall(h), pc[h] \in Critical
      PROVE  Ok(h)
  BY <1>4 DEF FailCall, Return, OnlyThread, DropsLock, Critical
<1>5. ASSUME NEW h \in Handlers, UserStep(h)
      PROVE  Ok(h)
  <2>1. CASE SyncCallFails(h) \/ Timeout(h) \/ BadReply(h) \/ PullFails(h)
    BY <1>4, <2>1 DEF SyncCallFails, Timeout, BadReply, PullFails, Critical
  <2>2. CASE SyncCall(h)
    BY <2>2 DEF SyncCall, Goto, OnlyThread, KeepsLock, Critical
  <2>3. CASE PullReply(h)
    BY <2>3 DEF PullReply, Goto, OnlyThread, KeepsLock, Critical, Calls
  <2>4. CASE GiveReply(h)
    BY <2>4 DEF GiveReply, Goto, OnlyThread, DropsLock, Critical
  <2>5. CASE PullDone(h)
    BY <2>5 DEF PullDone, Return, OnlyThread, DropsLock, Critical
  <2>6. CASE GiveDone(h)
    BY <2>6 DEF GiveDone, Return, OnlyThread, KeepsLock, Critical
  <2> QED
    BY <1>2, <1>3, <1>5, <2>1, <2>2, <2>3, <2>4, <2>5, <2>6 DEF UserStep
<1>6. ASSUME NEW w \in Workers, WorkerStep(w)
      PROVE  UNCHANGED <<lock, pc, call>> \/ Ok(w)
  <2>1. CASE HandleQuery(w)
    BY <2>1 DEF HandleQuery
  <2>2. ASSUME NEW c \in Cpus, HandleGive(w, c)
        PROVE  Ok(w)
    BY <2>2 DEF HandleGive, Goto, OnlyThread, KeepsLock, Critical
  <2>3. CASE ServeDone(w) \/ ServeFails(w)
    BY <2>3 DEF ServeDone, ServeFails, Return, OnlyThread, DropsLock, Critical
  <2> QED
    BY <1>2, <1>3, <1>6, <2>1, <2>2, <2>3 DEF WorkerStep
<1>7. CASE Lose \/ UNCHANGED vars
  BY <1>7 DEF Lose, vars
<1> QED
  BY <1>1, <1>5, <1>6, <1>7 DEF Next

(* A CPU's lock is held exactly by the thread between its lock() and       *)
(* unlock(), for any number of machines, CPUs, processes and RPC threads:  *)
(* no path of the three functions that take it forgets or doubles an       *)
(* unlock.                                                                 *)
THEOREM LockCorrect == Spec => []LockDiscipline
<1>1. Init => TypeInv /\ LockDiscipline
  <2>1. ASSUME Init PROVE LockDiscipline
    BY <2>1, ConstantFacts DEF Init, LockDiscipline, Critical
  <2> QED
    BY <2>1, InitTypeInv
<1>2. TypeInv /\ LockDiscipline /\ [Next]_vars => TypeInv' /\ LockDiscipline'
  <2> SUFFICES ASSUME TypeInv, LockDiscipline, [Next]_vars
               PROVE  TypeInv' /\ LockDiscipline'
    OBVIOUS
  <2>1. CASE UNCHANGED <<lock, pc, call>>
    BY <2>1, TypeStep DEF LockDiscipline
  <2>2. ASSUME NEW t \in Threads, OnlyThread(t),
               KeepsLock(t) \/ TakesLock(t) \/ DropsLock(t)
        PROVE  LockDiscipline'
    BY <2>2, LockDisciplineStep
  <2> QED
    BY <2>1, <2>2, TypeStep, StepKinds
<1> QED
  BY <1>1, <1>2, PTL DEF Spec

-----------------------------------------------------------------------------
(* The registry *)

(* Why RegistryOwned survives a registration: the new hint is larger than  *)
(* every hint in use, and the temporary hint of ioctl 5 is not the         *)
(* handler's private one.                                                  *)
RegistryFresh ==
    /\ \A m \in Machines, k \in Hints : reg[m][k] # NoBuf => k <= curId[m]
    /\ \A h \in Handlers :
         h \in opened /\ call[h].op = "give" => private[h] # call[h].key

RegistryInv == RegistryOwned /\ RegistryFresh

LEMMA OwnedKeys ==
    ASSUME TypeInv, RegistryInv, NEW h \in Handlers, NEW k \in Hints,
           Owns(h, Home[h], k)
    PROVE  k <= curId[Home[h]] /\ reg[Home[h]][k] # NoBuf
BY ConstantFacts DEF RegistryInv, RegistryFresh, RegistryOwned

(* A step that changes neither the table nor the ownership of any hint. *)
LEMMA RegistryKept ==
    ASSUME RegistryInv, UNCHANGED <<curId, reg, leaked>>,
           \A h \in Handlers, m \in Machines, k \in Hints :
              Owns(h, m, k)' <=> Owns(h, m, k),
           \A h \in Handlers :
              h \in opened' /\ call'[h].op = "give" => private'[h] # call'[h].key
    PROVE  RegistryInv'
<1>1. RegistryOwned'
  BY DEF RegistryInv, RegistryOwned
<1>2. RegistryFresh'
  BY DEF RegistryInv, RegistryFresh
<1> QED
  BY <1>1, <1>2 DEF RegistryInv

(* Most steps only move a call along, or begin or end one that owns no     *)
(* hint.                                                                   *)
LEMMA RegistryUntouched ==
    ASSUME RegistryInv, UNCHANGED <<curId, reg, opened, private, leaked>>,
           \A h \in Handlers :
              \/ call'[h].op = call[h].op /\ call'[h].key = call[h].key
              \/ call'[h].op # "give" /\ call[h].op # "give"
    PROVE  RegistryInv'
<1>1. \A h \in Handlers, m \in Machines, k \in Hints :
         Owns(h, m, k)' <=> Owns(h, m, k)
  BY DEF Owns
<1>2. \A h \in Handlers :
         h \in opened' /\ call'[h].op = "give" => private'[h] # call'[h].key
  BY DEF RegistryInv, RegistryFresh
<1> QED
  BY <1>1, <1>2, RegistryKept

(* The new owner of a fresh hint. *)
LEMMA RegistryGrows ==
    ASSUME TypeInv, RegistryInv, NEW h \in Handlers, NEW b \in Bufs,
           RegisterHeap(Home[h], AllocId(Home[h]), b),
           UNCHANGED <<opened, leaked>>,
           \A g \in Handlers, m \in Machines, k \in Hints :
              Owns(g, m, k)' <=> \/ Owns(g, m, k)
                                 \/ g = h /\ m = Home[h] /\ k = AllocId(Home[h]),
           \A g \in Handlers :
              g \in opened /\ call'[g].op = "give" => private'[g] # call'[g].key
    PROVE  RegistryInv'
<1> USE ConstantFacts
<1> DEFINE n == AllocId(Home[h])
<1>1. n \in Hints /\ reg' = [reg EXCEPT ![Home[h]][n] = b]
                  /\ curId' = [curId EXCEPT ![Home[h]] = n]
  BY DEF RegisterHeap
<1>2. n = curId[Home[h]] + 1 /\ curId[Home[h]] \in Nat
  BY DEF AllocId, TypeInv, TypeOK
<1>3. reg \in [Machines -> [Hints -> Bufs \cup {NoBuf}]]
      /\ curId \in [Machines -> 0 .. MaxId]
  BY DEF TypeInv, TypeOK
<1>4. reg[Home[h]][n] = NoBuf
  <2>1. ~(n <= curId[Home[h]])
    BY <1>2
  <2> QED
    BY <1>1, <2>1 DEF RegistryInv, RegistryFresh
<1>5. (\A g \in Handlers : ~Owns(g, Home[h], n)) /\ <<Home[h], n>> \notin leaked
  BY <1>1, <1>4 DEF RegistryInv, RegistryOwned
<1>6. ASSUME NEW m \in Machines, NEW k \in Hints
      PROVE  /\ reg'[m][k] # NoBuf <=> \/ \E g \in Handlers : Owns(g, m, k)'
                                       \/ <<m, k>> \in leaked'
             /\ \A f, g \in Handlers : Owns(f, m, k)' /\ Owns(g, m, k)' => f = g
             /\ \A g \in Handlers : Owns(g, m, k)' => <<m, k>> \notin leaked'
             /\ reg'[m][k] # NoBuf => k <= curId'[m]
  <2>1. CASE m = Home[h] /\ k = n
    <3>1. reg'[m][k] = b /\ b # NoBuf /\ curId'[m] = n
      BY <1>1, <1>3, <2>1
    <3> QED
      BY <1>2, <1>5, <2>1, <3>1
  <2>2. CASE ~(m = Home[h] /\ k = n)
    <3>1. reg'[m][k] = reg[m][k]
      BY <1>1, <1>3, <2>2
    <3>2. \A g \in Handlers : Owns(g, m, k)' <=> Owns(g, m, k)
      BY <2>2
    <3>3. /\ reg[m][k] # NoBuf <=> \/ \E g \in Handlers : Owns(g, m, k)
                                   \/ <<m, k>> \in leaked
          /\ \A f, g \in Handlers : Owns(f, m, k) /\ Owns(g, m, k) => f = g
          /\ \A g \in Handlers : Owns(g, m, k) => <<m, k>> \notin leaked
      BY DEF RegistryInv, RegistryOwned
    <3>4. reg[m][k] # NoBuf => k <= curId[m]
      BY DEF RegistryInv, RegistryFresh
    <3>5. curId[m] <= curId'[m] /\ curId[m] \in Nat /\ curId'[m] \in Nat
      BY <1>1, <1>2, <1>3
    <3>6. reg'[m][k] # NoBuf => k <= curId'[m]
      BY <3>1, <3>4, <3>5 DEF Hints
    <3> QED
      BY <3>1, <3>2, <3>3, <3>6
  <2> QED
    BY <2>1, <2>2
<1>7. RegistryOwned'
  BY <1>6 DEF RegistryOwned
<1>8. RegistryFresh'
  BY <1>6 DEF RegistryFresh
<1> QED
  BY <1>7, <1>8 DEF RegistryInv

(* The owner h of hint n gives it up: the entry is removed, or left behind *)
(* as leaked.                                                              *)
LEMMA RegistryShrinks ==
    ASSUME TypeInv, RegistryInv, NEW h \in Handlers, NEW n \in Hints,
           Owns(h, Home[h], n), UNCHANGED curId,
           \/ Unregister(Home[h], n) /\ UNCHANGED leaked
           \/ UNCHANGED reg /\ leaked' = leaked \cup {<<Home[h], n>>},
           \A g \in Handlers, m \in Machines, k \in Hints :
              Owns(g, m, k)' <=> /\ Owns(g, m, k)
                                 /\ ~(g = h /\ m = Home[h] /\ k = n),
           \A g \in Handlers :
              g \in opened' /\ call'[g].op = "give" => private'[g] # call'[g].key
    PROVE  RegistryInv'
<1> USE ConstantFacts
<1>1. reg \in [Machines -> [Hints -> Bufs \cup {NoBuf}]]
  BY DEF TypeInv, TypeOK
<1>2. ASSUME NEW m \in Machines, NEW k \in Hints
      PROVE  /\ reg'[m][k] # NoBuf <=> \/ \E g \in Handlers : Owns(g, m, k)'
                                       \/ <<m, k>> \in leaked'
             /\ \A f, g \in Handlers : Owns(f, m, k)' /\ Owns(g, m, k)' => f = g
             /\ \A g \in Handlers : Owns(g, m, k)' => <<m, k>> \notin leaked'
             /\ reg'[m][k] # NoBuf => k <= curId'[m]
  <2>1. /\ reg[m][k] # NoBuf <=> \/ \E g \in Handlers : Owns(g, m, k)
                                 \/ <<m, k>> \in leaked
        /\ \A f, g \in Handlers : Owns(f, m, k) /\ Owns(g, m, k) => f = g
        /\ \A g \in Handlers : Owns(g, m, k) => <<m, k>> \notin leaked
    BY DEF RegistryInv, RegistryOwned
  <2>2. reg[m][k] # NoBuf => k <= curId'[m]
    BY DEF RegistryInv, RegistryFresh
  <2>3. CASE m = Home[h] /\ k = n
    <3>1. \A g \in Handlers : ~Owns(g, m, k)'
      BY <2>1, <2>3
    <3>2. CASE Unregister(Home[h], n) /\ UNCHANGED leaked
      <4>1. reg'[m][k] = NoBuf
        BY <1>1, <2>3, <3>2 DEF Unregister
      <4> QED
        BY <2>1, <2>3, <3>1, <3>2, <4>1
    <3>3. CASE UNCHANGED reg /\ leaked' = leaked \cup {<<Home[h], n>>}
      BY <2>1, <2>2, <2>3, <3>1, <3>3
    <3> QED
      BY <3>2, <3>3
  <2>4. CASE ~(m = Home[h] /\ k = n)
    <3>1. \A g \in Handlers : Owns(g, m, k)' <=> Owns(g, m, k)
      BY <2>4
    <3>2. reg'[m][k] = reg[m][k]
      BY <1>1, <2>4 DEF Unregister
    <3>3. <<m, k>> \in leaked' <=> <<m, k>> \in leaked
      BY <2>4
    <3> QED
      BY <2>1, <2>2, <3>1, <3>2, <3>3
  <2> QED
    BY <2>3, <2>4
<1>3. RegistryOwned'
  BY <1>2 DEF RegistryOwned
<1>4. RegistryFresh'
  BY <1>2 DEF RegistryFresh
<1> QED
  BY <1>3, <1>4 DEF RegistryInv

LEMMA RegistryStep ==
    ASSUME TypeInv, RegistryInv, [Next]_vars
    PROVE  RegistryInv'
<1> USE ConstantFacts, NoCallType
<1> DEFINE Kept(h) == \/ call'[h].op = call[h].op /\ call'[h].key = call[h].key
                      \/ call'[h].op # "give" /\ call[h].op # "give"
           Distinct(h) == h \in opened' /\ call'[h].op = "give" =>
                            private'[h] # call'[h].key
<1>0. /\ call \in [Threads -> Calls] /\ private \in [Handlers -> 0 .. MaxId]
      /\ pc \in [Threads -> PCs] /\ opened \subseteq Handlers
      /\ curId \in [Machines -> 0 .. MaxId]
  BY DEF TypeInv, TypeOK
<1>a. \A h \in Handlers : /\ pc[h] = "idle" <=> call[h].op = "none"
                          /\ call[h].op = "give" => call[h].key \in Hints
                          /\ h \in opened /\ call[h].op = "give" =>
                               private[h] # call[h].key
  BY DEF TypeInv, CallShape, ThreadShape, RegistryInv, RegistryFresh
<1>1. ASSUME NEW h \in Handlers, Open(h)
      PROVE  RegistryInv'
  <2>1. /\ h \notin opened /\ opened' = opened \cup {h}
        /\ private' = [private EXCEPT ![h] = NoHint] /\ call' = call
        /\ UNCHANGED <<curId, reg, leaked>>
    BY <1>1 DEF Open, heapVars, history
  <2>2. ASSUME NEW g \in Handlers
        PROVE  Distinct(g) /\ \A m \in Machines, k \in Hints :
                                 Owns(g, m, k)' <=> Owns(g, m, k)
    BY <1>0, <1>a, <2>1 DEF Owns, NoHint, Hints
  <2> QED
    BY <2>1, <2>2, RegistryKept
<1>2. ASSUME NEW h \in Handlers, Close(h)
      PROVE  RegistryInv'
  <2>1. /\ h \in opened /\ opened' = opened \ {h} /\ call[h].op = "none"
        /\ private' = [private EXCEPT ![h] = NoHint] /\ call' = call
        /\ UNCHANGED <<curId, leaked>>
    BY <1>2, <1>a DEF Close, history
  <2>2. \A g \in Handlers : Distinct(g)
    BY <1>0, <1>a, <2>1 DEF NoHint, Hints
  <2>3. CASE private[h] = NoHint
    <3>1. ASSUME NEW g \in Handlers, NEW m \in Machines, NEW k \in Hints
          PROVE  Owns(g, m, k)' <=> Owns(g, m, k)
      BY <1>0, <2>1, <2>3 DEF Owns, NoHint, Hints
    <3>2. UNCHANGED reg
      BY <1>2, <2>3 DEF Close
    <3> QED
      BY <2>1, <2>2, <3>1, <3>2, RegistryKept
  <2>4. CASE private[h] # NoHint
    <3>1. private[h] \in Hints
      BY <1>0, <2>4 DEF NoHint, Hints
    <3>2. Owns(h, Home[h], private[h]) /\ Unregister(Home[h], private[h])
      BY <1>2, <2>1, <2>4 DEF Owns, Close
    <3>3. ASSUME NEW g \in Handlers, NEW m \in Machines, NEW k \in Hints
          PROVE  Owns(g, m, k)' <=> /\ Owns(g, m, k)
                                    /\ ~(g = h /\ m = Home[h] /\ k = private[h])
      <4>1. CASE g = h
        BY <1>0, <2>1, <4>1 DEF Owns
      <4>2. CASE g # h
        BY <1>0, <2>1, <4>2 DEF Owns
      <4> QED
        BY <4>1, <4>2
    <3> QED
      BY <2>1, <2>2, <3>1, <3>2, <3>3, RegistryShrinks
  <2> QED
    BY <2>3, <2>4
<1>3. ASSUME NEW h \in Handlers, Register(h)
      PROVE  RegistryInv'
  <2>1. /\ h \in opened /\ opened' = opened /\ call[h].op = "none"
        /\ private[h] = NoHint
        /\ private' = [private EXCEPT ![h] = AllocId(Home[h])] /\ call' = call
        /\ UNCHANGED leaked
    BY <1>3, <1>a DEF Register, history
  <2>2. PICK b \in Bufs : RegisterHeap(Home[h], AllocId(Home[h]), b)
    BY <1>3 DEF Register
  <2>3. \A g \in Handlers : Distinct(g)
    BY <1>0, <1>a, <2>1
  <2>4. ASSUME NEW g \in Handlers, NEW m \in Machines, NEW k \in Hints
        PROVE  Owns(g, m, k)' <=>
                 \/ Owns(g, m, k)
                 \/ g = h /\ m = Home[h] /\ k = AllocId(Home[h])
    <3>1. CASE g = h
      BY <1>0, <2>1, <3>1 DEF Owns, NoHint, Hints
    <3>2. CASE g # h
      BY <1>0, <2>1, <3>2 DEF Owns
    <3> QED
      BY <3>1, <3>2
  <2> QED
    BY <2>1, <2>2, <2>3, <2>4, RegistryGrows
<1>4. ASSUME NEW h \in Handlers, NEW r \in Machines, NEW c \in Cpus,
             GiveStart(h, r, c)
      PROVE  RegistryInv'
  <2> DEFINE n == AllocId(Home[h])
  <2>1. PICK b \in Bufs :
          /\ RegisterHeap(Home[h], n, b)
          /\ call' = [call EXCEPT ![h] =
                        NewCall("give", c, r, n, b, Nobody, calls + 1)]
    BY <1>4 DEF GiveStart
  <2>2. /\ UNCHANGED <<opened, private, leaked>> /\ call[h].op = "none"
        /\ h \in opened
    BY <1>4, <1>a DEF GiveStart, fileVars, history
  <2>3. call'[h].op = "give" /\ call'[h].key = n
        /\ \A g \in Handlers : g # h => call'[g] = call[g]
    BY <1>0, <2>1 DEF NewCall
  <2>4. ASSUME NEW g \in Handlers, NEW m \in Machines, NEW k \in Hints
        PROVE  Owns(g, m, k)' <=> \/ Owns(g, m, k)
                                  \/ g = h /\ m = Home[h] /\ k = n
    <3>1. CASE g = h
      BY <2>2, <2>3, <3>1 DEF Owns
    <3>2. CASE g # h
      BY <2>2, <2>3, <3>2 DEF Owns
    <3> QED
      BY <3>1, <3>2
  <2>5. private[h] # n
    <3>1. n \in Hints /\ n = curId[Home[h]] + 1 /\ curId[Home[h]] \in Nat
      BY <1>0, <2>1 DEF RegisterHeap, AllocId
    <3>2. private[h] \in Hints => private[h] <= curId[Home[h]]
      BY <2>2, OwnedKeys DEF Owns
    <3> QED
      BY <1>0, <3>1, <3>2 DEF Hints
  <2>6. \A g \in Handlers : Distinct(g)
    BY <1>a, <2>2, <2>3, <2>5
  <2> QED
    BY <2>1, <2>2, <2>4, <2>6, RegistryGrows
<1>5. ASSUME NEW h \in Handlers, FailCall(h),
             UNCHANGED <<heapVars, fileVars>>
      PROVE  RegistryInv'
  <2>1. /\ UNCHANGED <<curId, reg, opened, private>>
        /\ call' = [call EXCEPT ![h] = NoCall]
        /\ call[h].op = "give" => leaked' = leaked \cup {<<Home[h], call[h].key>>}
        /\ call[h].op # "give" => leaked' = leaked
    BY <1>5 DEF FailCall, Return, heapVars, fileVars
  <2>2. call'[h].op = "none" /\ \A g \in Handlers : g # h => call'[g] = call[g]
    BY <1>0, <2>1
  <2>3. \A g \in Handlers : Distinct(g)
    BY <1>a, <2>1, <2>2
  <2>4. CASE call[h].op = "give"
    <3>1. call[h].key \in Hints /\ Owns(h, Home[h], call[h].key)
      BY <1>a, <2>4 DEF Owns
    <3>2. ASSUME NEW g \in Handlers, NEW m \in Machines, NEW k \in Hints
          PROVE  Owns(g, m, k)' <=>
                   /\ Owns(g, m, k)
                   /\ ~(g = h /\ m = Home[h] /\ k = call[h].key)
      <4>1. CASE g = h
        BY <1>a, <2>1, <2>2, <2>4, <4>1 DEF Owns
      <4>2. CASE g # h
        BY <2>1, <2>2, <4>2 DEF Owns
      <4> QED
        BY <4>1, <4>2
    <3> QED
      BY <2>1, <2>3, <2>4, <3>1, <3>2, RegistryShrinks
  <2>5. CASE call[h].op # "give"
    BY <2>1, <2>2, <2>5, RegistryUntouched
  <2> QED
    BY <2>4, <2>5
<1>6. ASSUME NEW h \in Handlers, GiveDone(h)
      PROVE  RegistryInv'
  <2>1. call[h].op = "give" /\ call[h].key \in Hints
    BY <1>6 DEF TypeInv, CallShape, ThreadShape, GiveDone
  <2>2. /\ Unregister(Home[h], call[h].key)
        /\ UNCHANGED <<curId, opened, private, leaked>>
        /\ call' = [call EXCEPT ![h] = NoCall]
    BY <1>6 DEF GiveDone, Return, fileVars
  <2>3. call'[h].op = "none" /\ \A g \in Handlers : g # h => call'[g] = call[g]
    BY <1>0, <2>2
  <2>4. \A g \in Handlers : Distinct(g)
    BY <1>a, <2>2, <2>3
  <2>5. ASSUME NEW g \in Handlers, NEW m \in Machines, NEW k \in Hints
        PROVE  Owns(g, m, k)' <=>
                 /\ Owns(g, m, k)
                 /\ ~(g = h /\ m = Home[h] /\ k = call[h].key)
    <3>1. CASE g = h
      BY <1>a, <2>1, <2>2, <2>3, <3>1 DEF Owns
    <3>2. CASE g # h
      BY <2>2, <2>3, <3>2 DEF Owns
    <3> QED
      BY <3>1, <3>2
  <2>6. Owns(h, Home[h], call[h].key)
    BY <2>1 DEF Owns
  <2> QED
    BY <2>1, <2>2, <2>4, <2>5, <2>6, RegistryShrinks
<1>7. ASSUME UNCHANGED <<curId, reg, opened, private, leaked>>,
             \A h \in Handlers : Kept(h)
      PROVE  RegistryInv'
  BY <1>7, RegistryUntouched
<1>8. ASSUME NEW h \in Handlers, Syscall(h)
      PROVE  RegistryInv'
  <2>1. ASSUME NEW r \in Machines, Connect(h, r)
        PROVE  RegistryInv'
    BY <1>7, <2>1 DEF Connect, heapVars, fileVars, history
  <2>2. ASSUME NEW k \in Hints, NEW r \in Machines, NEW c \in Cpus,
               PullStart(h, k, r, c)
        PROVE  RegistryInv'
    <3>1. \A g \in Handlers : Kept(g)
      BY <1>0, <1>a, <2>2 DEF PullStart, NewCall
    <3> QED
      BY <1>7, <2>2, <3>1 DEF PullStart, heapVars, fileVars, history
  <2> QED
    BY <1>1, <1>2, <1>3, <1>4, <1>8, <2>1, <2>2 DEF Syscall
<1>9. ASSUME NEW t \in Threads, Acquire(t) \/ FetchPost(t) \/ FetchPanics(t)
      PROVE  RegistryInv'
  <2>1. \A g \in Handlers : Kept(g)
    BY <1>0, <1>9 DEF Acquire, FetchPost, FetchPanics, Calls
  <2> QED
    BY <1>7, <1>9, <2>1 DEF Acquire, FetchPost, FetchPanics, heapVars, fileVars,
          history
<1>10. ASSUME NEW h \in Handlers, UserStep(h)
      PROVE  RegistryInv'
  <2>1. CASE SyncCallFails(h) \/ Timeout(h) \/ BadReply(h) \/ PullFails(h)
    BY <1>5, <2>1 DEF SyncCallFails, Timeout, BadReply, PullFails
  <2>2. CASE SyncCall(h)
    BY <1>7, <2>2 DEF SyncCall, heapVars, fileVars, history
  <2>3. CASE PullReply(h) \/ GiveReply(h)
    <3>1. \A g \in Handlers : Kept(g)
      BY <1>0, <2>3, SMTT(30) DEF PullReply, GiveReply, Calls
    <3> QED
      BY <1>7, <2>3, <3>1 DEF PullReply, GiveReply, heapVars, fileVars, history
  <2>4. CASE PullDone(h)
    <3>1. \A g \in Handlers : Kept(g)
      BY <1>0, <2>4 DEF PullDone, Return
    <3> QED
      BY <1>7, <2>4, <3>1 DEF PullDone, heapVars, history
  <2> QED
    BY <1>6, <1>9, <1>10, <2>1, <2>2, <2>3, <2>4 DEF UserStep
<1>11. ASSUME NEW w \in Workers, WorkerStep(w)
      PROVE  RegistryInv'
  <2>1. CASE HandleQuery(w)
    BY <1>7, <2>1 DEF HandleQuery, heapVars, fileVars, history
  <2>2. ASSUME NEW c \in Cpus, HandleGive(w, c)
        PROVE  RegistryInv'
    <3>1. \A g \in Handlers : Kept(g)
      BY <1>0, <2>2 DEF HandleGive
    <3> QED
      BY <1>7, <2>2, <3>1 DEF HandleGive, heapVars, fileVars, history
  <2>3. CASE ServeDone(w) \/ ServeFails(w)
    <3>1. \A g \in Handlers : Kept(g)
      BY <1>0, <2>3 DEF ServeDone, ServeFails, Return
    <3> QED
      BY <1>7, <2>3, <3>1 DEF ServeDone, ServeFails, heapVars, fileVars, history
  <2> QED
    BY <1>9, <1>11, <2>1, <2>2, <2>3 DEF WorkerStep
<1>12. CASE Lose \/ UNCHANGED vars
  BY <1>7, <1>12 DEF Lose, vars, heapVars, fileVars, history
<1> QED
  BY <1>8, <1>10, <1>11, <1>12 DEF Next

LEMMA RegistryInvariant == Spec => []RegistryInv
<1>1. Init => TypeInv /\ RegistryInv
  <2> SUFFICES ASSUME Init PROVE RegistryInv
    BY InitTypeInv
  <2>1. \A h \in Handlers, m \in Machines, k \in Hints : ~Owns(h, m, k)
    BY ConstantFacts, NoCallType DEF Init, Owns
  <2>2. RegistryOwned
    BY <2>1 DEF Init, RegistryOwned
  <2>3. RegistryFresh
    BY DEF Init, RegistryFresh
  <2> QED
    BY <2>2, <2>3 DEF RegistryInv
<1>2. TypeInv /\ RegistryInv /\ [Next]_vars => TypeInv' /\ RegistryInv'
  BY TypeStep, RegistryStep
<1> QED
  BY <1>1, <1>2, PTL DEF Spec

(* registered_heap holds exactly the hints some open file or some ioctl 5  *)
(* in flight answers for, plus those failed ioctl 5 calls leaked, for any  *)
(* number of machines and processes and any interleaving of their calls.   *)
THEOREM RegistryCorrect == Spec => []RegistryOwned
BY RegistryInvariant, PTL DEF RegistryInv

(* The only step that adds an entry to registered_heap uses the next id of *)
(* the machine's generator, so a hint that was handed out and freed never  *)
(* comes back, for any number of registrations.                            *)
THEOREM HintsFresh == Spec => HintNeverReused
<1> DEFINE Fresh == \A m \in Machines, k \in Hints :
                       k <= curId[m] /\ reg[m][k] = NoBuf => reg'[m][k] = NoBuf
<1>1. ASSUME TypeInv, NEW h \in Handlers, NEW b \in Bufs,
             RegisterHeap(Home[h], AllocId(Home[h]), b)
      PROVE  Fresh
  <2> SUFFICES ASSUME NEW m \in Machines, NEW k \in Hints, k <= curId[m],
                      reg[m][k] = NoBuf
               PROVE  reg'[m][k] = NoBuf
    OBVIOUS
  <2>1. /\ reg \in [Machines -> [Hints -> Bufs \cup {NoBuf}]]
        /\ curId[m] \in Nat /\ k \in Nat /\ Home[h] \in Machines
    BY <1>1, ConstantFacts DEF TypeInv, TypeOK, Hints
  <2>2. ~(m = Home[h] /\ k = AllocId(Home[h]))
    BY <2>1 DEF AllocId
  <2>3. reg' = [reg EXCEPT ![Home[h]][AllocId(Home[h])] = b]
    BY <1>1 DEF RegisterHeap
  <2> QED
    BY <2>1, <2>2, <2>3
<1>2. ASSUME TypeInv, NEW m \in Machines, NEW k, Unregister(m, k)
      PROVE  Fresh
  <2>1. reg \in [Machines -> [Hints -> Bufs \cup {NoBuf}]]
    BY <1>2 DEF TypeInv, TypeOK
  <2> QED
    BY <1>2, <2>1 DEF Unregister
<1>3. TypeInv /\ [Next]_vars => Fresh
  <2> SUFFICES ASSUME TypeInv, [Next]_vars PROVE Fresh
    OBVIOUS
  <2>1. CASE UNCHANGED reg
    BY <2>1
  <2>2. ASSUME NEW h \in Handlers, Syscall(h)
        PROVE  Fresh
    <3>1. CASE Close(h)
      BY <1>2, <2>1, <3>1, ConstantFacts DEF Close
    <3>2. CASE Register(h)
      BY <1>1, <3>2 DEF Register
    <3>3. ASSUME NEW r \in Machines, NEW c \in Cpus, GiveStart(h, r, c)
          PROVE  Fresh
      BY <1>1, <3>3 DEF GiveStart
    <3> QED
      BY <2>1, <2>2, <3>1, <3>2, <3>3
      DEF Syscall, Open, Connect, PullStart, heapVars
  <2>3. ASSUME NEW h \in Handlers, UserStep(h)
        PROVE  Fresh
    <3>1. CASE GiveDone(h)
      BY <1>2, <3>1, ConstantFacts DEF GiveDone
    <3> QED
      BY <2>1, <2>3, <3>1
      DEF UserStep, Acquire, SyncCall, SyncCallFails, Timeout, BadReply,
          PullReply, GiveReply, FetchPost, FetchPanics, PullDone, PullFails,
          heapVars
  <2>4. ASSUME NEW w \in Workers, WorkerStep(w)
        PROVE  Fresh
    BY <2>1, <2>4 DEF WorkerStep, HandleQuery, HandleGive, Acquire, FetchPost,
          FetchPanics, ServeDone, ServeFails, heapVars
  <2>5. CASE Lose \/ UNCHANGED vars
    BY <2>1, <2>5 DEF Lose, vars, heapVars
  <2> QED
    BY <2>2, <2>3, <2>4, <2>5 DEF Next
<1>4. TypeInv /\ [Next]_vars => TypeInv'
  BY TypeStep
<1> QED
  BY InitTypeInv, <1>3, <1>4, PTL DEF Spec, HintNeverReused
====
