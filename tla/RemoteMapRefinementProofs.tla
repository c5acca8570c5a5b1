--------------------- MODULE RemoteMapRefinementProofs ----------------------
(***************************************************************************)
(* What a pull maps and what ioctl 5 returns, for every instance of        *)
(* RemoteMap, and that RemoteMap implements HeapRegistry.  Locks, types    *)
(* and the ownership of hints are taken from RemoteMapProofs.              *)
(***************************************************************************)
EXTENDS RemoteMapRefinement, RemoteMapProofs

-----------------------------------------------------------------------------
(* The inductive invariant *)

(* The machine and CPU whose caller a datagram comes from or goes to. *)
Caller(msg) == IF msg.type \in {"query", "give"} THEN <<msg.from, msg.cpu>>
                                                 ELSE <<msg.to, msg.cpu>>

Awaits(h, m, c) == Home[h] = m /\ pc[h] = "wait" /\ call[h].cpu = c

Serves(w, m, c) == call[w].op = "serve" /\ call[w].peer = m /\ call[w].back = c

(* The datagram is part of the call of h. *)
PartOf(msg, h) ==
    /\ msg.type \in {"query", "queryReply"} =>
         call[h].op = "pull" /\ msg.key = call[h].key
    /\ msg.type = "query" => msg.to = call[h].peer
    /\ msg.type = "queryReply" => msg.from = call[h].peer
    /\ msg.type \in {"give", "giveReply"} => call[h].op = "give"

(* A caller that has never given up is asked nothing and told nothing but  *)
(* what belongs to the call it is waiting in, and that only once: as a     *)
(* request, as an RPC thread that serves it, or as a reply.                *)
Channel(m, c) ==
    /\ \A msg \in net : Caller(msg) = <<m, c>> =>
         \E h \in Handlers : Awaits(h, m, c) /\ PartOf(msg, h)
    /\ \A w \in Workers : Serves(w, m, c) =>
         \E h \in Handlers : Awaits(h, m, c) /\ call[h].op = "give"
    /\ \A msg, other \in net :
         Caller(msg) = <<m, c>> /\ Caller(other) = <<m, c>> => msg = other
    /\ \A msg \in net, w \in Workers :
         ~(Caller(msg) = <<m, c>> /\ Serves(w, m, c))
    /\ \A w, v \in Workers : Serves(w, m, c) /\ Serves(v, m, c) => w = v

Channels ==
    \A m \in Machines, c \in Cpus : <<m, c>> \notin timedOut => Channel(m, c)

(* Hint k of m has been handed out, and if it is still registered its      *)
(* descriptor lies at b.                                                   *)
Known(m, k, b) == k <= curId[m] /\ reg[m][k] \in {NoBuf, b}

(* Registered buffers hold the descriptor they are registered for, others  *)
(* that of an older hint.                                                  *)
BuffersTrue ==
    /\ \A m \in Machines, k \in Hints : reg[m][k] # NoBuf => buf[m][reg[m][k]] = k
    /\ \A m \in Machines, b \in Bufs : buf[m][b] <= curId[m]

RepliesTrue ==
    \A msg \in net : msg.type = "queryReply" => Known(msg.from, msg.key, msg.addr)

(* The address a pull reads from is that of the hint it asked for. *)
PullsTrue ==
    \A h \in Handlers :
        /\ call[h].op = "pull" /\ pc[h] \in {"fetch", "read"}
        /\ <<Home[h], call[h].cpu>> \notin timedOut
        => Known(call[h].peer, call[h].key, call[h].addr)

OwnQP == ~MayMigrate =>
             \A t \in Threads : pc[t] = "read" => call[t].qp = call[t].cpu

(* What has been mapped by machines that are not late is the heap that was *)
(* asked for, unless that heap is gone for good.                           *)
MappedTrue ==
    \A h \in Handlers : \A e \in public[h] :
        \/ Home[h] \in Late
        \/ e.heap = e.id
        \/ Known(e.mac, e.id, NoBuf)

GivesTrue ==
    /\ \A h \in Handlers :
         pc[h] = "free" => call[h].res = RemoteHint \/ timedOut # {}
    /\ GiveExact

ClosedClean == \A h \in Handlers \ opened : private[h] = NoHint

DeliveryInv ==
    /\ PullHasSession /\ Channels /\ BuffersTrue /\ RepliesTrue /\ PullsTrue
    /\ OwnQP /\ MappedTrue /\ GivesTrue /\ ClosedClean

-----------------------------------------------------------------------------
(* The heap service *)

(* Hints are handed out one by one and taken out of the table again;       *)
(* nothing else touches the table or the buffers.                          *)
LEMMA HeapSteps ==
    ASSUME TypeInv, [Next]_vars
    PROVE  \/ UNCHANGED heapVars
           \/ \E h \in Handlers, b \in Bufs :
                 RegisterHeap(Home[h], AllocId(Home[h]), b)
           \/ \E h \in Handlers, k \in Hints :
                 Unregister(Home[h], k) /\ UNCHANGED <<curId, buf>>
<1> DEFINE Kinds == \/ UNCHANGED heapVars
                    \/ \E h \in Handlers, b \in Bufs :
                          RegisterHeap(Home[h], AllocId(Home[h]), b)
                    \/ \E h \in Handlers, k \in Hints :
                          Unregister(Home[h], k) /\ UNCHANGED <<curId, buf>>
<1>1. ASSUME NEW h \in Handlers, Syscall(h)
      PROVE  Kinds
  <2>1. CASE Close(h)
    <3>1. CASE private[h] = NoHint
      BY <2>1, <3>1 DEF Close, heapVars
    <3>2. CASE private[h] # NoHint
      <4>1. private[h] \in Hints
        BY <3>2, ConstantFacts DEF TypeInv, TypeOK, NoHint, Hints
      <4> QED
        BY <2>1, <3>2, <4>1 DEF Close
    <3> QED
      BY <3>1, <3>2
  <2>2. CASE Register(h)
    BY <2>2 DEF Register
  <2>3. ASSUME NEW r \in Machines, NEW c \in Cpus, GiveStart(h, r, c)
        PROVE  Kinds
    BY <2>3 DEF GiveStart
  <2> QED
    BY <1>1, <2>1, <2>2, <2>3 DEF Syscall, Open, Connect, PullStart
<1>2. ASSUME NEW h \in Handlers, UserStep(h)
      PROVE  Kinds
  <2>1. CASE GiveDone(h)
    <3>1. call[h].key \in Hints
      BY <2>1 DEF TypeInv, CallShape, ThreadShape, GiveDone, Threads
    <3> QED
      BY <2>1, <3>1 DEF GiveDone
  <2> QED
    BY <1>2, <2>1
    DEF UserStep, Acquire, SyncCall, SyncCallFails, Timeout, BadReply,
        PullReply, GiveReply, FetchPost, FetchPanics, PullDone, PullFails
<1>3. ASSUME NEW w \in Workers, WorkerStep(w)
      PROVE  Kinds
  BY <1>3 DEF WorkerStep, HandleQuery, HandleGive, Acquire, FetchPost,
        FetchPanics, ServeDone, ServeFails
<1>4. CASE Lose \/ UNCHANGED vars
  BY <1>4 DEF Lose, vars
<1> QED
  BY <1>1, <1>2, <1>3, <1>4 DEF Next

(* What is known of a hint stays true: a hint is registered once, under    *)
(* one buffer.                                                             *)
LEMMA KnownStays ==
    ASSUME TypeInv, [Next]_vars,
           NEW m \in Machines, NEW k \in Hints, NEW b, Known(m, k, b)
    PROVE  Known(m, k, b)'
<1> USE ConstantFacts
<1>1. /\ reg \in [Machines -> [Hints -> Bufs \cup {NoBuf}]]
      /\ curId \in [Machines -> 0 .. MaxId]
      /\ k \in Nat
  BY DEF TypeInv, TypeOK, Hints
<1>2. CASE UNCHANGED heapVars
  BY <1>2 DEF Known, heapVars
<1>3. ASSUME NEW h \in Handlers, NEW a \in Bufs,
             RegisterHeap(Home[h], AllocId(Home[h]), a)
      PROVE  Known(m, k, b)'
  <2>1. /\ curId' = [curId EXCEPT ![Home[h]] = curId[Home[h]] + 1]
        /\ reg' = [reg EXCEPT ![Home[h]][curId[Home[h]] + 1] = a]
    BY <1>3 DEF RegisterHeap, AllocId
  <2>2. curId[m] <= curId'[m] /\ curId[m] \in Nat /\ curId'[m] \in Nat
    BY <1>1, <2>1
  <2>3. k <= curId[m] /\ reg[m][k] \in {NoBuf, b}
    BY DEF Known
  <2>4. ~(m = Home[h] /\ k = curId[Home[h]] + 1)
    BY <1>1, <2>2, <2>3
  <2>5. reg'[m][k] = reg[m][k]
    BY <1>1, <2>1, <2>4
  <2>6. k <= curId'[m]
    BY <1>1, <2>2, <2>3
  <2> QED
    BY <2>3, <2>5, <2>6 DEF Known
<1>4. ASSUME NEW h \in Handlers, NEW j \in Hints, Unregister(Home[h], j),
             UNCHANGED <<curId, buf>>
      PROVE  Known(m, k, b)'
  BY <1>1, <1>4 DEF Known, Unregister
<1> QED
  BY <1>2, <1>3, <1>4, HeapSteps

LEMMA BuffersStep ==
    ASSUME TypeInv, BuffersTrue, [Next]_vars
    PROVE  BuffersTrue'
<1> USE ConstantFacts
<1>1. /\ reg \in [Machines -> [Hints -> Bufs \cup {NoBuf}]]
      /\ curId \in [Machines -> 0 .. MaxId]
      /\ buf \in [Machines -> [Bufs -> 0 .. MaxId]]
  BY DEF TypeInv, TypeOK
<1>2. CASE UNCHANGED heapVars
  BY <1>2 DEF BuffersTrue, heapVars
<1>3. ASSUME NEW h \in Handlers, NEW a \in Bufs,
             RegisterHeap(Home[h], AllocId(Home[h]), a)
      PROVE  BuffersTrue'
  <2> DEFINE n == curId[Home[h]] + 1
  <2>1. /\ n \in Hints /\ a \notin LiveBufs(Home[h])
        /\ curId' = [curId EXCEPT ![Home[h]] = n]
        /\ reg' = [reg EXCEPT ![Home[h]][n] = a]
        /\ buf' = [buf EXCEPT ![Home[h]][a] = n]
    BY <1>3 DEF RegisterHeap, AllocId
  <2>2. ASSUME NEW m \in Machines, NEW k \in Hints, reg'[m][k] # NoBuf
        PROVE  buf'[m][reg'[m][k]] = k
    <3>1. CASE m = Home[h] /\ k = n
      BY <1>1, <2>1, <3>1
    <3>2. CASE ~(m = Home[h] /\ k = n)
      <4>1. reg'[m][k] = reg[m][k] /\ reg[m][k] \in Bufs
        BY <1>1, <2>1, <2>2, <3>2
      <4>2. buf[m][reg[m][k]] = k
        BY <2>2, <4>1 DEF BuffersTrue
      <4>3. ~(m = Home[h] /\ reg[m][k] = a)
        BY <2>1, <2>2, <4>1 DEF LiveBufs
      <4> QED
        BY <1>1, <2>1, <4>1, <4>2, <4>3
    <3> QED
      BY <3>1, <3>2
  <2>3. ASSUME NEW m \in Machines, NEW b \in Bufs
        PROVE  buf'[m][b] <= curId'[m]
    <3>1. buf[m][b] <= curId[m] /\ buf[m][b] \in Nat /\ curId[m] \in Nat
      BY <1>1 DEF BuffersTrue
    <3>2. CASE m = Home[h]
      BY <1>1, <2>1, <3>1, <3>2
    <3>3. CASE m # Home[h]
      BY <1>1, <2>1, <3>1, <3>3
    <3> QED
      BY <3>2, <3>3
  <2> QED
    BY <2>2, <2>3 DEF BuffersTrue
<1>4. ASSUME NEW h \in Handlers, NEW j \in Hints, Unregister(Home[h], j),
             UNCHANGED <<curId, buf>>
      PROVE  BuffersTrue'
  BY <1>1, <1>4 DEF BuffersTrue, Unregister
<1> QED
  BY <1>2, <1>3, <1>4, HeapSteps

-----------------------------------------------------------------------------
(* The channels *)

(* A step of thread t that leaves the channel alone: no message or RPC     *)
(* thread joins it, and t is not the handler that waits.                   *)
LEMMA ChannelElsewhere ==
    ASSUME NEW m \in Machines, NEW c \in Cpus, Channel(m, c),
           NEW t \in Threads, OnlyThread(t), ~Awaits(t, m, c),
           \A msg \in net' : Caller(msg) = <<m, c>> => msg \in net,
           t \in Workers /\ Serves(t, m, c)' => Serves(t, m, c)
    PROVE  Channel(m, c)'
<1> USE ConstantFacts
<1>1. \A h \in Handlers : Awaits(h, m, c) =>
         /\ Awaits(h, m, c)' /\ call'[h] = call[h]
         /\ \A msg : PartOf(msg, h) => PartOf(msg, h)'
  BY DEF OnlyThread, Awaits, PartOf
<1>2. \A w \in Workers : Serves(w, m, c)' => Serves(w, m, c)
  BY DEF OnlyThread, Serves
<1>3. \A msg \in net' : Caller(msg) = <<m, c>> =>
         \E h \in Handlers : Awaits(h, m, c)' /\ PartOf(msg, h)'
  BY <1>1 DEF Channel
<1>4. \A w \in Workers : Serves(w, m, c)' =>
         \E h \in Handlers : Awaits(h, m, c)' /\ call'[h].op = "give"
  BY <1>1, <1>2 DEF Channel
<1>5. \A msg, other \in net' :
         Caller(msg) = <<m, c>> /\ Caller(other) = <<m, c>> => msg = other
  BY DEF Channel
<1>6. \A msg \in net', w \in Workers :
         ~(Caller(msg) = <<m, c>> /\ Serves(w, m, c)')
  BY <1>2 DEF Channel
<1>7. \A w, v \in Workers : Serves(w, m, c)' /\ Serves(v, m, c)' => w = v
  BY <1>2 DEF Channel
<1> QED
  BY <1>3, <1>4, <1>5, <1>6, <1>7 DEF Channel, Caller

(* The waiting handler takes the answer: nothing is left on its channel.   *)
LEMMA ChannelEnds ==
    ASSUME NEW m \in Machines, NEW c \in Cpus, Channel(m, c),
           NEW h \in Handlers, OnlyThread(h),
           NEW msg \in net, Caller(msg) = <<m, c>>, net' = net \ {msg}
    PROVE  Channel(m, c)'
<1> USE ConstantFacts
<1>1. \A other \in net' : Caller(other) # <<m, c>>
  BY DEF Channel
<1>2. \A w \in Workers : ~Serves(w, m, c)'
  BY DEF Channel, OnlyThread, Serves
<1> QED
  BY <1>1, <1>2 DEF Channel, Caller

(* A handler posts its request: its channel was empty, as nobody waited.   *)
LEMMA ChannelBegins ==
    ASSUME NEW m \in Machines, NEW c \in Cpus, Channel(m, c),
           \A g \in Handlers : ~Awaits(g, m, c),
           NEW h \in Handlers, Awaits(h, m, c)', UNCHANGED call,
           NEW msg, PartOf(msg, h), net' = net \cup {msg}
    PROVE  Channel(m, c)'
<1>1. \A other \in net : Caller(other) # <<m, c>>
  BY DEF Channel
<1>2. \A w \in Workers : ~Serves(w, m, c)'
  BY DEF Channel, Serves
<1>3. PartOf(msg, h)'
  BY DEF PartOf
<1> QED
  BY <1>1, <1>2, <1>3 DEF Channel, Caller

(* An RPC thread answers a request at once, ...                            *)
LEMMA ChannelAnswered ==
    ASSUME NEW m \in Machines, NEW c \in Cpus, Channel(m, c),
           UNCHANGED <<pc, call>>,
           NEW msg \in net, Caller(msg) = <<m, c>>,
           NEW reply, net' = (net \ {msg}) \cup {reply},
           \A h \in Handlers : PartOf(msg, h) => PartOf(reply, h)
    PROVE  Channel(m, c)'
<1>1. PICK h \in Handlers : Awaits(h, m, c) /\ PartOf(msg, h)
  BY DEF Channel
<1>2. Awaits(h, m, c)' /\ PartOf(reply, h)'
  BY <1>1 DEF Awaits, PartOf
<1>3. \A other \in net' : Caller(other) = <<m, c>> => other = reply
  BY DEF Channel
<1>4. \A w \in Workers : ~Serves(w, m, c)'
  BY DEF Channel, Serves
<1> QED
  BY <1>2, <1>3, <1>4 DEF Channel, Caller

(* ... or begins to serve it, ...                                          *)
LEMMA ChannelServed ==
    ASSUME NEW m \in Machines, NEW c \in Cpus, Channel(m, c),
           NEW w \in Workers, OnlyThread(w),
           NEW msg \in net, Caller(msg) = <<m, c>>, msg.type = "give",
           net' = net \ {msg}
    PROVE  Channel(m, c)'
<1> USE ConstantFacts
<1>1. PICK h \in Handlers : Awaits(h, m, c) /\ call[h].op = "give"
  BY DEF Channel, PartOf
<1>2. Awaits(h, m, c)' /\ call'[h].op = "give"
  BY <1>1 DEF Awaits, OnlyThread
<1>3. \A other \in net' : Caller(other) # <<m, c>>
  BY DEF Channel
<1>4. \A v \in Workers : Serves(v, m, c)' => v = w
  BY DEF Channel, Serves, OnlyThread
<1> QED
  BY <1>2, <1>3, <1>4 DEF Channel, Caller

(* ... and answers later.                                                  *)
LEMMA ChannelDone ==
    ASSUME NEW m \in Machines, NEW c \in Cpus, Channel(m, c),
           NEW w \in Workers, OnlyThread(w), Serves(w, m, c),
           call'[w].op = "none",
           NEW reply, net' = net \cup {reply},
           \A h \in Handlers : call[h].op = "give" => PartOf(reply, h)
    PROVE  Channel(m, c)'
<1> USE ConstantFacts
<1>1. PICK h \in Handlers : Awaits(h, m, c) /\ call[h].op = "give"
  BY DEF Channel
<1>2. Awaits(h, m, c)' /\ PartOf(reply, h)'
  BY <1>1 DEF Awaits, PartOf, OnlyThread
<1>3. \A other \in net' : Caller(other) = <<m, c>> => other = reply
  BY DEF Channel
<1>4. \A v \in Workers : ~Serves(v, m, c)'
  BY DEF Channel, Serves, OnlyThread
<1> QED
  BY <1>2, <1>3, <1>4 DEF Channel, Caller

(* One handler at a time has the caller of a CPU. *)
LEMMA OneCaller ==
    ASSUME LockDiscipline, NEW t \in Threads, NEW u \in Threads,
           Home[t] = Home[u], call[t].cpu = call[u].cpu, call[t].cpu \in Cpus,
           pc[t] \in Critical, pc[u] \in Critical
    PROVE  t = u
BY ConstantFacts DEF LockDiscipline

LEMMA ChannelStep ==
    ASSUME TypeInv, LockDiscipline, Channels, [Next]_vars,
           NEW m \in Machines, NEW c \in Cpus, <<m, c>> \notin timedOut'
    PROVE  Channel(m, c)'
<1> USE ConstantFacts, NoCallType
<1>1. /\ pc \in [Threads -> PCs] /\ call \in [Threads -> Calls]
      /\ net \subseteq Messages
      /\ \A t \in Threads : ThreadShape(t)
  BY DEF TypeInv, TypeOK, CallShape
<1>2. <<m, c>> \notin timedOut
  BY SMTT(30) DEF Next, Syscall, UserStep, WorkerStep, Open, Close, Register, Connect,
         PullStart, GiveStart, Acquire, SyncCall, SyncCallFails, Timeout,
         BadReply, PullReply, GiveReply, FetchPost, FetchPanics, PullDone,
         PullFails, GiveDone, HandleQuery, HandleGive, ServeDone, ServeFails,
         Lose, vars, history
<1>3. Channel(m, c)
  BY <1>2 DEF Channels
<1>4. ASSUME UNCHANGED <<pc, call>>, net' \subseteq net
      PROVE  Channel(m, c)'
  BY <1>3, <1>4 DEF Channel, Awaits, PartOf, Serves, Caller
<1>5. ASSUME NEW h \in Handlers, OnlyThread(h), pc[h] # "wait",
             UNCHANGED net
      PROVE  Channel(m, c)'
  <2>1. ~Awaits(h, m, c)
    BY <1>5 DEF Awaits
  <2> QED
    BY <1>3, <1>5, <2>1, ChannelElsewhere
<1>6. ASSUME NEW h \in Handlers, Syscall(h)
      PROVE  Channel(m, c)'
  <2>1. CASE Open(h) \/ Close(h) \/ Register(h) \/ \E r \in Machines : Connect(h, r)
    BY <1>4, <2>1 DEF Open, Close, Register, Connect
  <2>2. ASSUME NEW k \in Hints, NEW r \in Machines, NEW d \in Cpus,
               PullStart(h, k, r, d)
        PROVE  Channel(m, c)'
    BY <1>5, <2>2 DEF PullStart, Goto, OnlyThread
  <2>3. ASSUME NEW r \in Machines, NEW d \in Cpus, GiveStart(h, r, d)
        PROVE  Channel(m, c)'
    BY <1>5, <2>3 DEF GiveStart, Goto, OnlyThread
  <2> QED
    BY <1>6, <2>1, <2>2, <2>3 DEF Syscall
<1>7. ASSUME NEW t \in Threads, Acquire(t) \/ FetchPost(t) \/ FetchPanics(t)
      PROVE  Channel(m, c)'
  <2>1. OnlyThread(t) /\ pc[t] # "wait" /\ net' = net
    BY <1>1, <1>7 DEF Acquire, FetchPost, FetchPanics, Goto, OnlyThread
  <2>2. Serves(t, m, c)' => Serves(t, m, c)
    BY <1>1, <1>7 DEF Acquire, FetchPost, FetchPanics, Serves, Calls
  <2>3. ~Awaits(t, m, c)
    BY <2>1 DEF Awaits
  <2> QED
    BY <1>3, <2>1, <2>2, <2>3, ChannelElsewhere
<1>8. ASSUME NEW h \in Handlers, FailCall(h), pc[h] # "wait", UNCHANGED net
      PROVE  Channel(m, c)'
  BY <1>5, <1>8 DEF FailCall, Return, OnlyThread
<1>9. ASSUME NEW h \in Handlers, SyncCall(h)
      PROVE  Channel(m, c)'
  <2> DEFINE msg == [type |-> IF call[h].op = "pull" THEN "query" ELSE "give",
                     to |-> call[h].peer, from |-> Home[h],
                     cpu |-> call[h].cpu, key |-> call[h].key,
                     addr |-> call[h].addr, tag |-> call[h].tag]
  <2>1. /\ pc[h] = "call" /\ net' = net \cup {msg} /\ UNCHANGED call
        /\ OnlyThread(h) /\ pc'[h] = "wait"
    BY <1>1, <1>9 DEF SyncCall, Goto, OnlyThread
  <2>2. Caller(msg) = <<Home[h], call[h].cpu>>
    BY DEF Caller
  <2>3. call[h].op \in {"pull", "give"} /\ call[h].cpu \in Cpus
    BY <1>1, <2>1 DEF ThreadShape
  <2>4. CASE Home[h] = m /\ call[h].cpu = c
    <3>1. ASSUME NEW g \in Handlers PROVE ~Awaits(g, m, c)
      BY <2>1, <2>3, <2>4, OneCaller DEF Awaits, Critical
    <3>2. Awaits(h, m, c)' /\ PartOf(msg, h)
      BY <2>1, <2>3, <2>4 DEF Awaits, PartOf
    <3> QED
      BY <1>3, <2>1, <3>1, <3>2, ChannelBegins
  <2>5. CASE ~(Home[h] = m /\ call[h].cpu = c)
    <3>1. ~Awaits(h, m, c)
      BY <2>5 DEF Awaits
    <3>2. \A other \in net' : Caller(other) = <<m, c>> => other \in net
      BY <2>1, <2>2, <2>5
    <3> QED
      BY <1>3, <2>1, <3>1, <3>2, ChannelElsewhere
  <2> QED
    BY <2>4, <2>5
<1>10. ASSUME NEW h \in Handlers, Timeout(h)
       PROVE  Channel(m, c)'
  <2>1. OnlyThread(h) /\ net' = net
    BY <1>10 DEF Timeout, FailCall, Return, OnlyThread
  <2>2. ~Awaits(h, m, c)
    BY <1>10 DEF Timeout, Awaits
  <2> QED
    BY <1>3, <2>1, <2>2, ChannelElsewhere
<1>11. ASSUME NEW h \in Handlers, BadReply(h) \/ PullReply(h) \/ GiveReply(h)
       PROVE  Channel(m, c)'
  <2>1. PICK msg \in Inbox(h) : net' = net \ {msg}
    BY <1>11 DEF BadReply, PullReply, GiveReply
  <2>2. msg \in net /\ Caller(msg) = <<Home[h], call[h].cpu>>
    BY <2>1 DEF Inbox, Caller
  <2>3. OnlyThread(h)
    BY <1>1, <1>11 DEF BadReply, FailCall, Return, PullReply, GiveReply, Goto,
                       OnlyThread
  <2>4. CASE Home[h] = m /\ call[h].cpu = c
    BY <1>3, <2>1, <2>2, <2>3, <2>4, ChannelEnds
  <2>5. CASE ~(Home[h] = m /\ call[h].cpu = c)
    <3>1. ~Awaits(h, m, c)
      BY <2>5 DEF Awaits
    <3> QED
      BY <1>3, <2>1, <2>3, <3>1, ChannelElsewhere
  <2> QED
    BY <2>4, <2>5
<1>12. ASSUME NEW h \in Handlers, UserStep(h)
       PROVE  Channel(m, c)'
  <2>1. CASE SyncCallFails(h) \/ PullFails(h)
    BY <1>8, <2>1 DEF SyncCallFails, PullFails
  <2>2. CASE PullDone(h) \/ GiveDone(h)
    <3>1. OnlyThread(h) /\ pc[h] # "wait" /\ net' = net
      BY <1>1, <2>2 DEF PullDone, GiveDone, Return, OnlyThread
    <3> QED
      BY <1>5, <3>1
  <2> QED
    BY <1>7, <1>9, <1>10, <1>11, <1>12, <2>1, <2>2 DEF UserStep
<1>13. ASSUME NEW w \in Workers, HandleQuery(w)
       PROVE  Channel(m, c)'
  <2>1. PICK msg \in net :
          /\ msg.type = "query" /\ msg.to = Home[w]
          /\ LET b == reg[Home[w]][msg.key] IN
             net' = (net \ {msg}) \cup
               {Reply(w, msg, IF b = NoBuf THEN "none" ELSE "queryReply", b)}
    BY <1>13 DEF HandleQuery
  <2>2. UNCHANGED <<pc, call>>
    BY <1>13 DEF HandleQuery
  <2> DEFINE b     == reg[Home[w]][msg.key]
             reply == Reply(w, msg, IF b = NoBuf THEN "none" ELSE "queryReply", b)
  <2>3. Caller(reply) = Caller(msg) /\ Caller(msg) = <<msg.from, msg.cpu>>
    BY <2>1 DEF Caller, Reply
  <2>4. CASE Caller(msg) = <<m, c>>
    <3>1. \A h \in Handlers : PartOf(msg, h) => PartOf(reply, h)
      BY <2>1 DEF PartOf, Reply
    <3> QED
      BY <1>3, <2>1, <2>2, <2>4, <3>1, ChannelAnswered
  <2>5. CASE Caller(msg) # <<m, c>>
    <3>1. \A other \in net' : Caller(other) = <<m, c>> => other \in net
      BY <2>1, <2>3, <2>5
    <3>2. OnlyThread(w) /\ ~Awaits(w, m, c) /\ (Serves(w, m, c)' => Serves(w, m, c))
      BY <1>13, <2>2 DEF OnlyThread, Awaits, Serves, HandleQuery
    <3> QED
      BY <1>3, <3>1, <3>2, ChannelElsewhere
  <2> QED
    BY <2>4, <2>5
<1>14. ASSUME NEW w \in Workers, NEW d \in Cpus, HandleGive(w, d)
       PROVE  Channel(m, c)'
  <2>1. PICK msg \in net :
          /\ msg.type = "give" /\ net' = net \ {msg}
          /\ call' = [call EXCEPT ![w] =
                        NewCall("serve", d, msg.from, msg.key, msg.addr,
                                msg.cpu, msg.tag)]
    BY <1>14 DEF HandleGive
  <2>2. Caller(msg) = <<msg.from, msg.cpu>>
    BY <2>1 DEF Caller
  <2>3. OnlyThread(w) /\ ~Awaits(w, m, c)
    BY <1>14 DEF HandleGive, Goto, OnlyThread, Awaits
  <2>4. CASE Caller(msg) = <<m, c>>
    BY <1>3, <2>1, <2>3, <2>4, ChannelServed
  <2>5. CASE Caller(msg) # <<m, c>>
    <3>1. ~Serves(w, m, c)'
      BY <1>1, <2>1, <2>2, <2>5 DEF Serves, NewCall
    <3> QED
      BY <1>3, <2>1, <2>3, <3>1, ChannelElsewhere
  <2> QED
    BY <2>4, <2>5
<1>15. ASSUME NEW w \in Workers, ServeDone(w) \/ ServeFails(w)
       PROVE  Channel(m, c)'
  <2>1. PICK type \in {"giveReply", "none"} : net' = net \cup {Answer(w, type)}
    BY <1>15 DEF ServeDone, ServeFails
  <2>2. OnlyThread(w) /\ call[w].op = "serve" /\ call'[w].op = "none"
    BY <1>1, <1>15 DEF ServeDone, ServeFails, Return, OnlyThread
  <2>3. Caller(Answer(w, type)) = <<call[w].peer, call[w].back>>
    BY <2>1 DEF Caller, Answer
  <2>4. CASE Serves(w, m, c)
    <3>1. \A h \in Handlers : call[h].op = "give" => PartOf(Answer(w, type), h)
      BY <2>1 DEF PartOf, Answer
    <3> QED
      BY <1>3, <2>1, <2>2, <2>4, <3>1, ChannelDone
  <2>5. CASE ~Serves(w, m, c)
    <3>1. \A other \in net' : Caller(other) = <<m, c>> => other \in net
      BY <2>1, <2>2, <2>3, <2>5 DEF Serves
    <3>2. ~Awaits(w, m, c) /\ ~Serves(w, m, c)'
      BY <1>15, <2>2 DEF ServeDone, ServeFails, Awaits, Serves
    <3> QED
      BY <1>3, <2>2, <3>1, <3>2, ChannelElsewhere
  <2> QED
    BY <2>4, <2>5
<1>16. ASSUME NEW w \in Workers, WorkerStep(w)
       PROVE  Channel(m, c)'
  BY <1>7, <1>13, <1>14, <1>15, <1>16 DEF WorkerStep
<1>17. CASE Lose \/ UNCHANGED vars
  BY <1>4, <1>17 DEF Lose, vars
<1> QED
  BY <1>6, <1>12, <1>16, <1>17 DEF Next

-----------------------------------------------------------------------------
(* Calls *)

(* A handler that may need a session has got past sync_call, and sessions  *)
(* are never taken down.                                                   *)
LEMMA SessionStep ==
    ASSUME TypeInv, PullHasSession, [Next]_vars
    PROVE  PullHasSession'
<1> USE ConstantFacts, NoCallType
<1>1. /\ pc \in [Threads -> PCs] /\ call \in [Threads -> Calls]
      /\ sessions \in [Machines -> SUBSET Machines]
      /\ \A t \in Threads : ThreadShape(t)
  BY DEF TypeInv, TypeOK, CallShape
<1> DEFINE Fetching == {"wait", "fetch", "read"}
           Ok(h) == pc'[h] \in Fetching =>
                       /\ call'[h].peer = call[h].peer
                       /\ pc[h] \in Fetching \/ call[h].peer \in sessions[Home[h]]
<1>2. ASSUME UNCHANGED sessions, \A h \in Handlers : Ok(h)
      PROVE  PullHasSession'
  BY <1>2 DEF PullHasSession
<1>3. ASSUME NEW h \in Handlers, Syscall(h)
      PROVE  PullHasSession'
  <2>1. CASE Open(h) \/ Close(h) \/ Register(h)
    BY <2>1 DEF Open, Close, Register, PullHasSession
  <2>2. ASSUME NEW r \in Machines, Connect(h, r)
        PROVE  PullHasSession'
    BY <1>1, <2>2 DEF Connect, PullHasSession
  <2>3. ASSUME NEW k \in Hints, NEW r \in Machines, NEW c \in Cpus,
               PullStart(h, k, r, c)
        PROVE  PullHasSession'
    BY <1>1, <1>2, <2>3 DEF PullStart, Goto
  <2>4. ASSUME NEW r \in Machines, NEW c \in Cpus, GiveStart(h, r, c)
        PROVE  PullHasSession'
    BY <1>1, <1>2, <2>4 DEF GiveStart, Goto
  <2> QED
    BY <1>3, <2>1, <2>2, <2>3, <2>4 DEF Syscall
<1>4. ASSUME NEW t \in Threads, Acquire(t) \/ FetchPost(t) \/ FetchPanics(t)
      PROVE  PullHasSession'
  <2>1. CASE Acquire(t)
    <3>1. t \in Handlers => call[t].op # "serve"
      BY <1>1 DEF ThreadShape
    <3> QED
      BY <1>1, <1>2, <2>1, <3>1 DEF Acquire, Goto
  <2>2. CASE FetchPost(t)
    BY <1>1, <1>2, <2>2 DEF FetchPost, Goto, Calls
  <2>3. CASE FetchPanics(t)
    BY <1>1, <1>2, <2>3 DEF FetchPanics, Goto
  <2> QED
    BY <1>4, <2>1, <2>2, <2>3
<1>5. ASSUME NEW h \in Handlers, UserStep(h)
      PROVE  PullHasSession'
  <2>1. CASE SyncCall(h)
    BY <1>1, <1>2, <2>1 DEF SyncCall, Goto
  <2>2. CASE SyncCallFails(h) \/ Timeout(h) \/ BadReply(h) \/ PullFails(h)
    BY <1>1, <1>2, <2>2 DEF SyncCallFails, Timeout, BadReply, PullFails,
          FailCall, Return
  <2>3. CASE PullReply(h) \/ GiveReply(h)
    BY <1>1, <1>2, <2>3 DEF PullReply, GiveReply, Goto, Calls
  <2>4. CASE PullDone(h) \/ GiveDone(h)
    BY <1>1, <1>2, <2>4 DEF PullDone, GiveDone, Return
  <2> QED
    BY <1>4, <1>5, <2>1, <2>2, <2>3, <2>4 DEF UserStep
<1>6. ASSUME NEW w \in Workers, WorkerStep(w)
      PROVE  PullHasSession'
  <2>1. CASE HandleQuery(w)
    BY <2>1 DEF HandleQuery, PullHasSession
  <2>2. ASSUME NEW c \in Cpus, HandleGive(w, c)
        PROVE  PullHasSession'
    BY <1>1, <1>2, <2>2 DEF HandleGive, Goto
  <2>3. CASE ServeDone(w) \/ ServeFails(w)
    BY <1>1, <1>2, <2>3 DEF ServeDone, ServeFails, Return
  <2> QED
    BY <1>4, <1>6, <2>1, <2>2, <2>3 DEF WorkerStep
<1>7. CASE Lose \/ UNCHANGED vars
  BY <1>7 DEF Lose, vars, PullHasSession
<1> QED
  BY <1>3, <1>5, <1>6, <1>7 DEF Next

(* Datagrams are there already, requests, or the answers of RPC threads:   *)
(* the one with an address is that of handle_query.                        *)
LEMMA RepliesStep ==
    ASSUME TypeInv, RegistryInv, RepliesTrue, [Next]_vars
    PROVE  RepliesTrue'
<1> USE ConstantFacts
<1>1. net \subseteq Messages /\ \A msg \in net : MessageShape(msg)
  BY DEF TypeInv, TypeOK, CallShape
<1> DEFINE New == {msg \in net' : msg.type = "queryReply"} \ net
<1>2. ASSUME \A msg \in New : Known(msg.from, msg.key, msg.addr)'
      PROVE  RepliesTrue'
  <2> SUFFICES ASSUME NEW msg \in net', msg.type = "queryReply"
               PROVE  Known(msg.from, msg.key, msg.addr)'
    BY DEF RepliesTrue
  <2>1. CASE msg \in net
    <3>1. msg.from \in Machines /\ msg.key \in Hints
      BY <1>1, <2>1 DEF Messages, MessageShape
    <3>2. Known(msg.from, msg.key, msg.addr)
      BY <2>1 DEF RepliesTrue
    <3> QED
      BY <3>1, <3>2, KnownStays
  <2>2. CASE msg \notin net
    BY <1>2, <2>2
  <2> QED
    BY <2>1, <2>2
<1>3. ASSUME NEW w \in Workers, HandleQuery(w)
      PROVE  \A msg \in New : Known(msg.from, msg.key, msg.addr)'
  <2>1. PICK msg \in net :
          /\ msg.type = "query" /\ msg.to = Home[w]
          /\ LET b == reg[Home[w]][msg.key] IN
             net' = (net \ {msg}) \cup
               {Reply(w, msg, IF b = NoBuf THEN "none" ELSE "queryReply", b)}
    BY <1>3 DEF HandleQuery
  <2> DEFINE b == reg[Home[w]][msg.key]
  <2>2. msg.key \in Hints
    BY <1>1, <2>1 DEF MessageShape
  <2>3. b # NoBuf => msg.key <= curId[Home[w]]
    BY <2>2 DEF RegistryInv, RegistryFresh
  <2>4. ASSUME NEW reply \in New
        PROVE  b # NoBuf /\ reply = Reply(w, msg, "queryReply", b)
    BY <2>1 DEF Reply
  <2>5. UNCHANGED <<curId, reg>>
    BY <1>3 DEF HandleQuery, heapVars
  <2> QED
    BY <2>3, <2>4, <2>5 DEF Reply, Known
<1>4. ASSUME NEW w \in Workers, ServeDone(w) \/ ServeFails(w)
      PROVE  New = {}
  BY <1>4 DEF ServeDone, ServeFails, Answer
<1>5. ASSUME NEW h \in Handlers, SyncCall(h)
      PROVE  New = {}
  BY <1>5 DEF SyncCall
<1>6. ASSUME net' \subseteq net
      PROVE  New = {}
  BY <1>6
<1>7. ASSUME NEW h \in Handlers, Syscall(h)
      PROVE  net' \subseteq net
  BY <1>7 DEF Syscall, Open, Close, Register, Connect, PullStart, GiveStart
<1>8. ASSUME NEW h \in Handlers, UserStep(h), ~SyncCall(h)
      PROVE  net' \subseteq net
  BY <1>8 DEF UserStep, Acquire, SyncCallFails, Timeout, BadReply, PullReply,
        GiveReply, FetchPost, FetchPanics, PullDone, PullFails, GiveDone
<1>9. ASSUME NEW t \in Threads, Acquire(t) \/ FetchPost(t) \/ FetchPanics(t)
      PROVE  net' \subseteq net
  BY <1>9 DEF Acquire, FetchPost, FetchPanics
<1>10. ASSUME NEW w \in Workers, NEW c \in Cpus, HandleGive(w, c)
       PROVE  net' \subseteq net
  BY <1>10 DEF HandleGive
<1>11. CASE Lose \/ UNCHANGED vars
  BY <1>2, <1>6, <1>11 DEF Lose, vars
<1>12. ASSUME NEW h \in Handlers, Syscall(h) \/ UserStep(h)
       PROVE  RepliesTrue'
  BY <1>2, <1>5, <1>6, <1>7, <1>8, <1>12
<1>13. ASSUME NEW w \in Workers, WorkerStep(w)
       PROVE  RepliesTrue'
  BY <1>2, <1>3, <1>4, <1>6, <1>9, <1>10, <1>13 DEF WorkerStep
<1> QED
  BY <1>11, <1>12, <1>13 DEF Next

(* A pull that fetches has been told where by the reply to its own         *)
(* question, or goes on.                                                   *)
LEMMA PullSteps ==
    ASSUME TypeInv, [Next]_vars, NEW h \in Handlers,
           call'[h].op = "pull", pc'[h] \in {"fetch", "read"}
    PROVE  \/ PullReply(h)
           \/ /\ pc[h] \in {"fetch", "read"} /\ call[h].op = "pull"
              /\ call'[h].peer = call[h].peer /\ call'[h].key = call[h].key
              /\ call'[h].addr = call[h].addr /\ call'[h].cpu = call[h].cpu
<1> USE ConstantFacts, NoCallType
<1>1. /\ pc \in [Threads -> PCs] /\ call \in [Threads -> Calls]
      /\ \A t \in Threads : ThreadShape(t)
  BY DEF TypeInv, TypeOK, CallShape
<1> DEFINE Goes == /\ pc[h] \in {"fetch", "read"} /\ call[h].op = "pull"
                   /\ call'[h].peer = call[h].peer /\ call'[h].key = call[h].key
                   /\ call'[h].addr = call[h].addr /\ call'[h].cpu = call[h].cpu
<1>2. ASSUME pc'[h] = pc[h] /\ call'[h] = call[h]
      PROVE  Goes
  BY <1>2
<1>4. ASSUME NEW g \in Handlers, Syscall(g)
      PROVE  Goes
  <2>1. CASE Open(g) \/ Close(g) \/ Register(g) \/ \E r \in Machines : Connect(g, r)
    BY <1>2, <2>1 DEF Open, Close, Register, Connect
  <2>2. ASSUME NEW k \in Hints, NEW r \in Machines, NEW c \in Cpus,
               PullStart(g, k, r, c)
        PROVE  Goes
    BY <1>1, <1>2, <2>2 DEF PullStart, Goto
  <2>3. ASSUME NEW r \in Machines, NEW c \in Cpus, GiveStart(g, r, c)
        PROVE  Goes
    BY <1>1, <1>2, <2>3 DEF GiveStart, Goto
  <2> QED
    BY <1>4, <2>1, <2>2, <2>3 DEF Syscall
<1>5. ASSUME NEW t \in Threads, Acquire(t) \/ FetchPost(t) \/ FetchPanics(t)
      PROVE  Goes
  <2>1. CASE Acquire(t)
    BY <1>1, <2>1 DEF Acquire, Goto, ThreadShape
  <2>2. CASE FetchPost(t)
    BY <1>1, <2>2 DEF FetchPost, Goto, Calls
  <2>3. CASE FetchPanics(t)
    BY <1>1, <2>3 DEF FetchPanics, Goto
  <2> QED
    BY <1>5, <2>1, <2>2, <2>3
<1>6. ASSUME NEW g \in Handlers, UserStep(g), ~PullReply(h)
      PROVE  Goes
  <2>1. CASE SyncCall(g)
    BY <1>1, <2>1 DEF SyncCall, Goto
  <2>2. CASE SyncCallFails(g) \/ Timeout(g) \/ BadReply(g) \/ PullFails(g)
    BY <1>1, <2>2 DEF SyncCallFails, Timeout, BadReply, PullFails, FailCall,
          Return
  <2>3. CASE PullReply(g) \/ GiveReply(g)
    BY <1>1, <1>6, <2>3 DEF PullReply, GiveReply, Goto
  <2>4. CASE PullDone(g) \/ GiveDone(g)
    BY <1>1, <2>4 DEF PullDone, GiveDone, Return
  <2> QED
    BY <1>5, <1>6, <2>1, <2>2, <2>3, <2>4 DEF UserStep
<1>7. ASSUME NEW w \in Workers, WorkerStep(w)
      PROVE  Goes
  <2>1. CASE HandleQuery(w)
    BY <1>2, <2>1 DEF HandleQuery
  <2>2. ASSUME NEW c \in Cpus, HandleGive(w, c)
        PROVE  Goes
    BY <1>1, <2>2 DEF HandleGive, Goto
  <2>3. CASE ServeDone(w) \/ ServeFails(w)
    BY <1>1, <2>3 DEF ServeDone, ServeFails, Return
  <2> QED
    BY <1>5, <1>7, <2>1, <2>2, <2>3 DEF WorkerStep
<1>8. CASE Lose \/ UNCHANGED vars
  BY <1>2, <1>8 DEF Lose, vars
<1> QED
  BY <1>4, <1>6, <1>7, <1>8 DEF Next

(* The history of timeouts only grows. *)
LEMMA TimedOutGrows ==
    ASSUME [Next]_vars
    PROVE  timedOut \subseteq timedOut' /\ Late \subseteq Late'
<1>1. timedOut \subseteq timedOut'
  BY SMTT(30) DEF Next, Syscall, UserStep, WorkerStep, Open, Close, Register, Connect,
         PullStart, GiveStart, Acquire, SyncCall, SyncCallFails, Timeout,
         BadReply, PullReply, GiveReply, FetchPost, FetchPanics, PullDone,
         PullFails, GiveDone, HandleQuery, HandleGive, ServeDone, ServeFails,
         Lose, vars, history
<1> QED
  BY <1>1 DEF Late

(* The only reply that can reach a caller that never gave up is that to    *)
(* the question of the handler that waits.                                 *)
LEMMA OwnReply ==
    ASSUME TypeInv, LockDiscipline, Channels, NEW h \in Handlers,
           pc[h] = "wait", <<Home[h], call[h].cpu>> \notin timedOut,
           NEW msg \in Inbox(h)
    PROVE  PartOf(msg, h)
<1> USE ConstantFacts
<1>1. call[h].cpu \in Cpus /\ Home[h] \in Machines
  BY DEF TypeInv, CallShape, ThreadShape
<1>2. msg \in net /\ Caller(msg) = <<Home[h], call[h].cpu>>
  BY DEF Inbox, Caller
<1>3. PICK g \in Handlers : Awaits(g, Home[h], call[h].cpu) /\ PartOf(msg, g)
  BY <1>1, <1>2 DEF Channels, Channel
<1>4. g = h
  BY <1>1, <1>3, OneCaller DEF Awaits, Critical
<1> QED
  BY <1>3, <1>4

LEMMA PullsStep ==
    ASSUME TypeInv, LockDiscipline, Channels, RepliesTrue, PullsTrue, [Next]_vars
    PROVE  PullsTrue'
<1> USE ConstantFacts
<1>1. /\ call \in [Threads -> Calls] /\ pc \in [Threads -> PCs]
      /\ net \subseteq Messages /\ \A t \in Threads : ThreadShape(t)
  BY DEF TypeInv, TypeOK, CallShape
<1> SUFFICES ASSUME NEW h \in Handlers, call'[h].op = "pull",
                    pc'[h] \in {"fetch", "read"},
                    <<Home[h], call'[h].cpu>> \notin timedOut'
             PROVE  Known(call[h].peer, call[h].key, call[h].addr)'
  BY DEF PullsTrue
<1>2. CASE PullReply(h)
  <2>1. PICK msg \in Inbox(h) : /\ msg.type = "queryReply"
                                /\ call' = [call EXCEPT ![h].addr = msg.addr]
    BY <1>2 DEF PullReply
  <2>2. /\ call'[h].peer = call[h].peer /\ call'[h].key = call[h].key
        /\ call'[h].addr = msg.addr /\ call'[h].cpu = call[h].cpu
    BY <1>1, <2>1 DEF Calls
  <2>3. <<Home[h], call[h].cpu>> \notin timedOut
    BY <2>2, TimedOutGrows
  <2>4. PartOf(msg, h)
    BY <1>2, <2>3, OwnReply DEF PullReply
  <2>5. msg.from = call[h].peer /\ msg.key = call[h].key /\ msg \in net
    BY <2>1, <2>4 DEF PartOf, Inbox
  <2>6. Known(call[h].peer, call[h].key, msg.addr)
    BY <2>1, <2>5 DEF RepliesTrue
  <2>7. call[h].peer \in Machines /\ call[h].key \in Hints
    BY <1>1, <1>2 DEF ThreadShape, PullReply
  <2>8. /\ call[h].key <= curId'[call[h].peer]
        /\ reg'[call[h].peer][call[h].key] \in {NoBuf, msg.addr}
    BY <2>6, <2>7, KnownStays DEF Known
  <2> QED
    BY <2>2, <2>8 DEF Known
<1>3. CASE /\ pc[h] \in {"fetch", "read"} /\ call[h].op = "pull"
           /\ call'[h].peer = call[h].peer /\ call'[h].key = call[h].key
           /\ call'[h].addr = call[h].addr /\ call'[h].cpu = call[h].cpu
  <2>1. <<Home[h], call[h].cpu>> \notin timedOut
    BY <1>3, TimedOutGrows
  <2>2. Known(call[h].peer, call[h].key, call[h].addr)
    BY <1>3, <2>1 DEF PullsTrue
  <2>3. call[h].peer \in Machines /\ call[h].key \in Hints
    BY <1>1, <1>3 DEF ThreadShape
  <2>4. /\ call[h].key <= curId'[call[h].peer]
        /\ reg'[call[h].peer][call[h].key] \in {NoBuf, call[h].addr}
    BY <2>2, <2>3, KnownStays DEF Known
  <2> QED
    BY <1>3, <2>4 DEF Known
<1> QED
  BY <1>2, <1>3, PullSteps

LEMMA QPStep ==
    ASSUME TypeInv, OwnQP, [Next]_vars
    PROVE  OwnQP'
<1> USE ConstantFacts
<1>1. /\ call \in [Threads -> Calls] /\ pc \in [Threads -> PCs]
  BY DEF TypeInv, TypeOK
<1> SUFFICES ASSUME ~MayMigrate, NEW u \in Threads, pc'[u] = "read"
             PROVE  call'[u].qp = call'[u].cpu
  BY DEF OwnQP
<1> DEFINE Reads == call'[u].qp = call'[u].cpu
<1>2. ASSUME pc[u] = "read", call'[u] = call[u]
      PROVE  Reads
  BY <1>2 DEF OwnQP
<1>3. ASSUME NEW t \in Threads, Acquire(t) \/ FetchPost(t) \/ FetchPanics(t)
      PROVE  Reads
  <2>1. CASE FetchPost(t)
    <3>1. PICK q \in Cpus : q = call[t].cpu /\ call' = [call EXCEPT ![t].qp = q]
      BY <2>1 DEF FetchPost
    <3>2. CASE u = t
      BY <1>1, <3>1, <3>2 DEF Calls
    <3>3. CASE u # t
      BY <1>1, <1>2, <2>1, <3>1, <3>3 DEF FetchPost, Goto
    <3> QED
      BY <3>2, <3>3
  <2>2. CASE Acquire(t) \/ FetchPanics(t)
    BY <1>1, <1>2, <2>2 DEF Acquire, FetchPanics, Goto
  <2> QED
    BY <1>3, <2>1, <2>2
<1>4. ASSUME NEW h \in Handlers, Syscall(h)
      PROVE  Reads
  BY <1>1, <1>2, <1>4 DEF Syscall, Open, Close, Register, Connect, PullStart,
        GiveStart, Goto
<1>5. ASSUME NEW h \in Handlers, UserStep(h)
      PROVE  Reads
  <2>1. CASE SyncCall(h) \/ PullReply(h) \/ GiveReply(h)
    BY <1>1, <1>2, <2>1 DEF SyncCall, PullReply, GiveReply, Goto
  <2>2. CASE SyncCallFails(h) \/ Timeout(h) \/ BadReply(h) \/ PullFails(h)
    BY <1>1, <1>2, <2>2 DEF SyncCallFails, Timeout, BadReply, PullFails,
          FailCall, Return
  <2>3. CASE PullDone(h) \/ GiveDone(h)
    BY <1>1, <1>2, <2>3 DEF PullDone, GiveDone, Return
  <2> QED
    BY <1>3, <1>5, <2>1, <2>2, <2>3 DEF UserStep
<1>6. ASSUME NEW w \in Workers, WorkerStep(w)
      PROVE  Reads
  BY <1>1, <1>2, <1>3, <1>6 DEF WorkerStep, HandleQuery, HandleGive, ServeDone,
        ServeFails, Goto, Return
<1>7. CASE Lose \/ UNCHANGED vars
  BY <1>2, <1>7 DEF Lose, vars
<1> QED
  BY <1>4, <1>5, <1>6, <1>7 DEF Next

-----------------------------------------------------------------------------
(* What is mapped and what is granted *)

(* The read of a pull on a machine that is not late finds the descriptor   *)
(* that was asked for, unless its heap is gone for good.                   *)
LEMMA PullFetches ==
    ASSUME TypeInv, LockDiscipline, BuffersTrue, PullsTrue, OwnQP,
           NEW h \in Handlers, pc[h] = "read", call[h].op = "pull",
           Home[h] \notin Late, NEW d \in Fetched(h)
    PROVE  d = call[h].key \/ Known(call[h].peer, call[h].key, NoBuf)
<1> USE ConstantFacts
<1> DEFINE m == call[h].peer
           k == call[h].key
<1>1. m \in Machines /\ k \in Hints /\ call[h].cpu \in Cpus
  BY DEF TypeInv, CallShape, ThreadShape
<1>2. ~MayMigrate /\ <<Home[h], call[h].cpu>> \notin timedOut
  BY <1>1 DEF Late
<1>3. Known(m, k, call[h].addr)
  BY <1>2 DEF PullsTrue
<1>4. CASE reg[m][k] = NoBuf
  BY <1>3, <1>4 DEF Known
<1>5. CASE reg[m][k] # NoBuf
  <2>1. call[h].addr = reg[m][k] /\ buf[m][reg[m][k]] = k
    BY <1>1, <1>3, <1>5 DEF Known, BuffersTrue
  <2>2. call[h].addr \in LiveBufs(m)
    BY <1>1, <1>5, <2>1 DEF LiveBufs
  <2>3. ~QPShared(h)
    <3> SUFFICES ASSUME NEW u \in Threads \ {h}, Home[u] = Home[h],
                        pc[u] = "read", call[u].qp = call[h].qp
                 PROVE  FALSE
      BY DEF QPShared
    <3>1. call[u].cpu = call[h].cpu
      BY <1>2 DEF OwnQP
    <3> QED
      BY <1>1, <3>1, OneCaller DEF Critical
  <2>4. d = buf[m][call[h].addr]
    BY <2>2, <2>3 DEF Fetched
  <2> QED
    BY <2>1, <2>4
<1> QED
  BY <1>4, <1>5

LEMMA MappedStep ==
    ASSUME TypeInv, LockDiscipline, BuffersTrue, PullsTrue, OwnQP, MappedTrue,
           [Next]_vars
    PROVE  MappedTrue'
<1> USE ConstantFacts
<1>1. /\ public \in [Handlers -> SUBSET Heaps] /\ call \in [Threads -> Calls]
  BY DEF TypeInv, TypeOK
<1> SUFFICES ASSUME NEW h \in Handlers, NEW e \in public'[h],
                    Home[h] \notin Late'
             PROVE  e.heap = e.id \/ Known(e.mac, e.id, NoBuf)'
  BY DEF MappedTrue
<1>2. Home[h] \notin Late
  BY TimedOutGrows
<1>3. ASSUME e \in public[h]
      PROVE  e.heap = e.id \/ Known(e.mac, e.id, NoBuf)'
  <2>1. e.mac \in Machines /\ e.id \in Hints
    BY <1>1, <1>3 DEF Heaps
  <2>2. e.heap = e.id \/ Known(e.mac, e.id, NoBuf)
    BY <1>2, <1>3 DEF MappedTrue
  <2> QED
    BY <2>1, <2>2, KnownStays
<1>4. ASSUME NEW g \in Handlers, PullDone(g)
      PROVE  e.heap = e.id \/ Known(e.mac, e.id, NoBuf)'
  <2>1. CASE e \in public[h]
    BY <1>3, <2>1
  <2>2. CASE e \notin public[h]
    <3>1. /\ g = h /\ pc[h] = "read" /\ call[h].op = "pull"
          /\ \E d \in Fetched(h) :
                e = [id |-> call[h].key, mac |-> call[h].peer, heap |-> d]
      BY <1>1, <1>4, <2>2 DEF PullDone
    <3>2. call[h].peer \in Machines /\ call[h].key \in Hints
      BY <3>1 DEF TypeInv, CallShape, ThreadShape
    <3>3. e.heap = e.id \/ Known(e.mac, e.id, NoBuf)
      BY <1>2, <3>1, PullFetches
    <3>4. e.mac \in Machines /\ e.id \in Hints
      BY <3>1, <3>2
    <3> QED
      BY <3>3, <3>4, KnownStays
  <2> QED
    BY <2>1, <2>2
<1>5. ASSUME NEW g \in Handlers, Syscall(g)
      PROVE  e \in public[h]
  BY <1>1, <1>5 DEF Syscall, Open, Close, Register, Connect, PullStart,
        GiveStart, fileVars
<1>6. ASSUME NEW g \in Handlers, UserStep(g), ~PullDone(g)
      PROVE  e \in public[h]
  BY <1>6 DEF UserStep, Acquire, SyncCall, SyncCallFails, Timeout, BadReply,
        PullReply, GiveReply, FetchPost, FetchPanics, PullFails, GiveDone,
        fileVars
<1>7. ASSUME NEW w \in Workers, WorkerStep(w)
      PROVE  e \in public[h]
  BY <1>7 DEF WorkerStep, HandleQuery, HandleGive, Acquire, FetchPost,
        FetchPanics, ServeDone, ServeFails, fileVars
<1>8. CASE Lose \/ UNCHANGED vars
  BY <1>3, <1>8 DEF Lose, vars, fileVars
<1> QED
  BY <1>3, <1>4, <1>5, <1>6, <1>7, <1>8 DEF Next

(* Only the answer of the remote handler ends an ioctl 5 that nobody on    *)
(* the machine preceded with a timeout.                                    *)
LEMMA GivesStep ==
    ASSUME TypeInv, LockDiscipline, Channels, GivesTrue, [Next]_vars
    PROVE  GivesTrue'
<1> USE ConstantFacts, NoCallType
<1>1. /\ call \in [Threads -> Calls] /\ pc \in [Threads -> PCs]
      /\ \A t \in Threads : ThreadShape(t)
  BY DEF TypeInv, TypeOK, CallShape
<1>2. timedOut # {} => timedOut' # {}
  BY TimedOutGrows
<1> DEFINE Ok(h) == pc'[h] = "free" => /\ pc[h] = "free"
                                       /\ call'[h].res = call[h].res
<1>3. ASSUME UNCHANGED granted, \A h \in Handlers : Ok(h)
      PROVE  GivesTrue'
  BY <1>2, <1>3 DEF GivesTrue, GiveExact
<1>4. ASSUME UNCHANGED <<granted, pc, call>>
      PROVE  GivesTrue'
  BY <1>3, <1>4
<1>5. ASSUME NEW h \in Handlers, Syscall(h)
      PROVE  GivesTrue'
  <2>1. CASE Open(h) \/ Close(h) \/ Register(h) \/ \E r \in Machines : Connect(h, r)
    BY <1>4, <2>1 DEF Open, Close, Register, Connect, history
  <2>2. ASSUME NEW k \in Hints, NEW r \in Machines, NEW c \in Cpus,
               PullStart(h, k, r, c)
        PROVE  GivesTrue'
    BY <1>1, <1>3, <2>2 DEF PullStart, Goto, history
  <2>3. ASSUME NEW r \in Machines, NEW c \in Cpus, GiveStart(h, r, c)
        PROVE  GivesTrue'
    BY <1>1, <1>3, <2>3 DEF GiveStart, Goto, history
  <2> QED
    BY <1>5, <2>1, <2>2, <2>3 DEF Syscall
<1>6. ASSUME NEW t \in Threads, Acquire(t) \/ FetchPost(t) \/ FetchPanics(t)
      PROVE  GivesTrue'
  <2>1. CASE Acquire(t) \/ FetchPanics(t)
    BY <1>1, <1>3, <2>1 DEF Acquire, FetchPanics, Goto, history
  <2>2. CASE FetchPost(t)
    BY <1>1, <1>3, <2>2 DEF FetchPost, Goto, history
  <2> QED
    BY <1>6, <2>1, <2>2
<1>7. ASSUME NEW h \in Handlers, GiveReply(h)
      PROVE  GivesTrue'
  <2>1. PICK msg \in Inbox(h) :
          /\ ~Undecodable(h, msg)
          /\ call' = [call EXCEPT ![h].res = IF msg.type = "giveReply"
                                            THEN RemoteHint ELSE msg.addr]
    BY <1>7 DEF GiveReply
  <2>2. /\ pc[h] = "wait" /\ call[h].op = "give" /\ pc'[h] = "free"
        /\ UNCHANGED <<timedOut, granted>>
        /\ \A g \in Handlers : g # h => pc'[g] = pc[g] /\ call'[g] = call[g]
    BY <1>1, <1>7 DEF GiveReply, Goto, history
  <2>3. call'[h].res = RemoteHint \/ timedOut # {}
    <3> SUFFICES ASSUME timedOut = {} PROVE call'[h].res = RemoteHint
      OBVIOUS
    <3>1. PartOf(msg, h)
      BY <2>2, OwnReply
    <3>2. msg.type = "giveReply"
      BY <2>1, <2>2, <3>1 DEF PartOf, Inbox, Undecodable
    <3> QED
      BY <1>1, <2>1, <3>2 DEF Calls
  <2> QED
    BY <2>2, <2>3 DEF GivesTrue, GiveExact
<1>8. ASSUME NEW h \in Handlers, GiveDone(h)
      PROVE  GivesTrue'
  <2>1. /\ pc[h] = "free" /\ UNCHANGED timedOut
        /\ granted' = granted \cup {<<call[h].peer, call[h].res>>}
    BY <1>8 DEF GiveDone
  <2>2. \A g \in Handlers : Ok(g)
    BY <1>1, <1>8 DEF GiveDone, Return
  <2> QED
    BY <2>1, <2>2 DEF GivesTrue, GiveExact
<1>9. ASSUME NEW h \in Handlers, UserStep(h)
      PROVE  GivesTrue'
  <2>1. CASE SyncCall(h) \/ PullReply(h)
    BY <1>1, <1>3, <2>1 DEF SyncCall, PullReply, Goto, history
  <2>2. CASE SyncCallFails(h) \/ Timeout(h) \/ BadReply(h) \/ PullFails(h)
    BY <1>1, <1>3, <2>2 DEF SyncCallFails, Timeout, BadReply, PullFails,
          FailCall, Return
  <2>3. CASE PullDone(h)
    BY <1>1, <1>3, <2>3 DEF PullDone, Return, history
  <2> QED
    BY <1>6, <1>7, <1>8, <1>9, <2>1, <2>2, <2>3 DEF UserStep
<1>10. ASSUME NEW w \in Workers, WorkerStep(w)
       PROVE  GivesTrue'
  <2>1. CASE HandleQuery(w)
    BY <1>4, <2>1 DEF HandleQuery, history
  <2>2. ASSUME NEW c \in Cpus, HandleGive(w, c)
        PROVE  GivesTrue'
    BY <1>1, <1>3, <2>2 DEF HandleGive, Goto, history
  <2>3. CASE ServeDone(w) \/ ServeFails(w)
    BY <1>1, <1>3, <2>3 DEF ServeDone, ServeFails, Return, history
  <2> QED
    BY <1>6, <1>10, <2>1, <2>2, <2>3 DEF WorkerStep
<1>11. CASE Lose \/ UNCHANGED vars
  BY <1>4, <1>11 DEF Lose, vars, history
<1> QED
  BY <1>5, <1>9, <1>10, <1>11 DEF Next

LEMMA ClosedStep ==
    ASSUME TypeInv, ClosedClean, [Next]_vars
    PROVE  ClosedClean'
<1> USE ConstantFacts
<1>1. private \in [Handlers -> 0 .. MaxId]
  BY DEF TypeInv, TypeOK
<1>2. CASE UNCHANGED <<opened, private>>
  BY <1>2 DEF ClosedClean
<1>3. ASSUME NEW h \in Handlers, Syscall(h)
      PROVE  ClosedClean'
  <2>1. CASE Open(h) \/ Close(h)
    BY <1>1, <2>1 DEF Open, Close, ClosedClean
  <2>2. CASE Register(h)
    BY <1>1, <2>2 DEF Register, ClosedClean
  <2> QED
    BY <1>2, <1>3, <2>1, <2>2 DEF Syscall, Connect, PullStart, GiveStart, fileVars
<1>4. ASSUME NEW h \in Handlers, UserStep(h)
      PROVE  ClosedClean'
  BY <1>2, <1>4 DEF UserStep, Acquire, SyncCall, SyncCallFails, Timeout,
        BadReply, PullReply, GiveReply, FetchPost, FetchPanics, PullDone,
        PullFails, GiveDone, fileVars
<1>5. ASSUME NEW w \in Workers, WorkerStep(w)
      PROVE  ClosedClean'
  BY <1>2, <1>5 DEF WorkerStep, HandleQuery, HandleGive, Acquire, FetchPost,
        FetchPanics, ServeDone, ServeFails, fileVars
<1>6. CASE Lose \/ UNCHANGED vars
  BY <1>2, <1>6 DEF Lose, vars, fileVars
<1> QED
  BY <1>3, <1>4, <1>5, <1>6 DEF Next

-----------------------------------------------------------------------------
(* Theorems *)

LEMMA InitDeliveryInv == Init => DeliveryInv
<1> SUFFICES ASSUME Init PROVE DeliveryInv
  OBVIOUS
<1> USE ConstantFacts, NoCallType DEF Init
<1>1. PullHasSession /\ PullsTrue /\ OwnQP /\ GivesTrue
  BY DEF PullHasSession, PullsTrue, OwnQP, GivesTrue, GiveExact
<1>2. Channels
  BY DEF Channels, Channel, Serves
<1>3. BuffersTrue
  BY DEF BuffersTrue, Junk
<1>4. RepliesTrue /\ MappedTrue /\ ClosedClean
  BY DEF RepliesTrue, MappedTrue, ClosedClean
<1> QED
  BY <1>1, <1>2, <1>3, <1>4 DEF DeliveryInv

LEMMA DeliveryStep ==
    ASSUME TypeInv, LockDiscipline, RegistryInv, DeliveryInv, [Next]_vars
    PROVE  DeliveryInv'
<1>1. PullHasSession'
  BY SessionStep DEF DeliveryInv
<1>2. Channels'
  BY ChannelStep DEF DeliveryInv, Channels
<1>3. BuffersTrue' /\ RepliesTrue' /\ PullsTrue'
  BY BuffersStep, RepliesStep, PullsStep DEF DeliveryInv
<1>4. OwnQP' /\ MappedTrue'
  BY QPStep, MappedStep DEF DeliveryInv
<1>5. GivesTrue' /\ ClosedClean'
  BY GivesStep, ClosedStep DEF DeliveryInv
<1> QED
  BY <1>1, <1>2, <1>3, <1>4, <1>5 DEF DeliveryInv

LEMMA Delivery == Spec => []DeliveryInv
<1>1. TypeInv /\ LockDiscipline /\ RegistryInv /\ DeliveryInv /\ [Next]_vars
      => DeliveryInv'
  BY DeliveryStep
<1> QED
  BY <1>1, InitDeliveryInv, TypeInvariant, LockCorrect, RegistryInvariant, PTL
  DEF Spec

(* A pull whose sync_call succeeded has the session that                   *)
(* remote_descriptor_fetch unwraps, so that syscall_rmap never panics      *)
(* there, however many processes connect, pull and give at the same time.  *)
THEOREM SessionCorrect == Spec => []PullHasSession
BY Delivery, PTL DEF DeliveryInv

(* Without late replies and migration, a pull maps the heap that was asked *)
(* for as long as that heap is registered, for any number of machines,     *)
(* CPUs, processes and RPC threads, and any loss or reordering.            *)
THEOREM PullCorrect == Spec => []PullExact
<1>1. DeliveryInv => PullExact
  <2> SUFFICES ASSUME DeliveryInv, NEW h \in Handlers,
                      NEW e \in public[h], ~MayMigrate,
                      reg[e.mac][e.id] # NoBuf,
                      \A c \in Cpus : <<Home[h], c>> \notin timedOut
               PROVE  e.heap = e.id
    BY DEF PullExact
  <2>1. Home[h] \notin Late
    BY DEF Late
  <2> QED
    BY <2>1 DEF DeliveryInv, MappedTrue, Known
<1> QED
  BY <1>1, Delivery, PTL

(* ioctl 5 returns what the remote handler answered until some call of     *)
(* some machine times out: before that no reply to a Query is ever taken   *)
(* for one to a RemoteRegister.                                            *)
THEOREM GiveCorrect == Spec => []GiveExact
BY Delivery, PTL DEF DeliveryInv, GivesTrue

-----------------------------------------------------------------------------
(* RemoteMap implements HeapRegistry *)

AllStatus == [m \in Machines |-> [k \in Hints |-> Status(m, k)]]

LEMMA StatusKept ==
    ASSUME UNCHANGED <<curId, reg>>
    PROVE  AllStatus' = AllStatus
BY DEF AllStatus, Status

(* The next hint is fresh, all smaller ones are not. *)
LEMMA StatusGrows ==
    ASSUME TypeInv, RegistryInv, NEW h \in Handlers, NEW b \in Bufs,
           RegisterHeap(Home[h], AllocId(Home[h]), b)
    PROVE  /\ AllocId(Home[h]) \in Hints
           /\ Registry!Hand(Home[h], AllocId(Home[h]))
<1> USE ConstantFacts
<1> DEFINE n == AllocId(Home[h])
           m == Home[h]
<1>1. /\ n \in Hints /\ reg' = [reg EXCEPT ![m][n] = b]
      /\ curId' = [curId EXCEPT ![m] = n]
  BY DEF RegisterHeap
<1>2. /\ reg \in [Machines -> [Hints -> Bufs \cup {NoBuf}]]
      /\ curId \in [Machines -> 0 .. MaxId] /\ m \in Machines
  BY DEF TypeInv, TypeOK
<1>3. n = curId[m] + 1 /\ curId[m] \in Nat
  BY <1>2 DEF AllocId
<1>4. AllStatus[m][n] = "fresh"
  <2>1. reg[m][n] = NoBuf
    BY <1>1, <1>2, <1>3 DEF RegistryInv, RegistryFresh, Hints
  <2> QED
    BY <1>1, <1>2, <1>3, <2>1 DEF AllStatus, Status
<1>5. ASSUME NEW j \in 1 .. n - 1 PROVE AllStatus[m][j] # "fresh"
  <2>1. j \in Hints /\ j <= curId[m]
    BY <1>1, <1>3 DEF Hints
  <2> QED
    BY <1>2, <2>1 DEF AllStatus, Status
<1>6. AllStatus' = [AllStatus EXCEPT ![m][n] = "live"]
  <2>1. ASSUME NEW i \in Machines, NEW k \in Hints
        PROVE  Status(i, k)' = IF i = m /\ k = n THEN "live" ELSE Status(i, k)
    <3>1. CASE i = m /\ k = n
      BY <1>1, <1>2, <3>1 DEF Status
    <3>2. CASE ~(i = m /\ k = n)
      <4>1. reg'[i][k] = reg[i][k]
        BY <1>1, <1>2, <3>2
      <4>2. k <= curId'[i] <=> k <= curId[i]
        BY <1>1, <1>2, <1>3, <3>2 DEF Hints
      <4> QED
        BY <3>2, <4>1, <4>2 DEF Status
    <3> QED
      BY <3>1, <3>2
  <2> QED
    BY <1>1, <1>2, <2>1 DEF AllStatus
<1> QED
  BY <1>1, <1>4, <1>5, <1>6 DEF Registry!Hand, AllStatus

(* A hint that is taken out of the table is gone. *)
LEMMA StatusGone ==
    ASSUME TypeInv, NEW m \in Machines, NEW k \in Hints, k <= curId[m],
           Unregister(m, k), UNCHANGED curId
    PROVE  AllStatus' = [AllStatus EXCEPT ![m][k] = "gone"]
<1> USE ConstantFacts
<1>1. reg \in [Machines -> [Hints -> Bufs \cup {NoBuf}]]
  BY DEF TypeInv, TypeOK
<1>2. ASSUME NEW i \in Machines, NEW j \in Hints
      PROVE  Status(i, j)' = IF i = m /\ j = k THEN "gone" ELSE Status(i, j)
  BY <1>1 DEF Status, Unregister
<1> QED
  BY <1>2 DEF AllStatus

(* The steps of HeapRegistry, under the mapping. *)
Keeps == UNCHANGED <<AllStatus, private, public, Late>>

LEMMA KeepsStutters == Keeps => UNCHANGED Registry!vars
BY DEF Keeps, Registry!vars, AllStatus

LEMMA LateKept ==
    ASSUME UNCHANGED timedOut
    PROVE  Late' = Late
BY DEF Late

(* A step that touches neither the table nor the files nor the history of  *)
(* timeouts is a step HeapRegistry does not see.                           *)
LEMMA Unseen ==
    ASSUME UNCHANGED <<curId, reg, private, public, timedOut>>
    PROVE  UNCHANGED Registry!vars
BY StatusKept, LateKept, KeepsStutters DEF Keeps

(* The last close, and an open after it, which finds no hint. *)
LEMMA Leaves ==
    ASSUME TypeInv, RegistryInv, ClosedClean, NEW h \in Handlers,
           Open(h) \/ Close(h)
    PROVE  Registry!Leave(h)
<1> USE ConstantFacts
<1>1. Late' = Late
  BY LateKept DEF Open, Close, history
<1>2. CASE private[h] = NoHint
  <2>1. UNCHANGED <<curId, reg>>
    BY <1>2 DEF Open, Close, heapVars
  <2>2. AllStatus' = AllStatus
    BY <2>1, StatusKept
  <2> QED
    BY <1>1, <1>2, <2>2 DEF Open, Close, Registry!Leave, AllStatus, NoHint
<1>3. CASE private[h] # NoHint
  <2>1. Close(h) /\ private[h] \in Hints /\ h \in opened
    BY <1>3 DEF ClosedClean, Open, Close, TypeInv, TypeOK, NoHint, Hints
  <2>2. private[h] <= curId[Home[h]]
    BY <2>1, OwnedKeys DEF Owns
  <2>3. AllStatus' = [AllStatus EXCEPT ![Home[h]][private[h]] = "gone"]
    BY <1>3, <2>1, <2>2, StatusGone DEF Close
  <2> QED
    BY <1>1, <1>3, <2>1, <2>3 DEF Close, Registry!Leave, AllStatus, NoHint
<1> QED
  BY <1>2, <1>3

(* ioctl 0 publishes a heap. *)
LEMMA Publishes ==
    ASSUME TypeInv, RegistryInv, NEW h \in Handlers, Register(h)
    PROVE  \E k \in Hints : Registry!Publish(h, k)
<1>1. PICK b \in Bufs : RegisterHeap(Home[h], AllocId(Home[h]), b)
  BY DEF Register
<1>2. AllocId(Home[h]) \in Hints /\ Registry!Hand(Home[h], AllocId(Home[h]))
  BY <1>1, StatusGrows
<1>3. Late' = Late
  BY LateKept DEF Register, history
<1>4. Registry!Publish(h, AllocId(Home[h]))
  BY <1>2, <1>3 DEF Register, Registry!Publish, NoHint
<1> QED
  BY <1>2, <1>4

(* ioctl 5 lends one until it has its answer. *)
LEMMA Lends ==
    ASSUME TypeInv, RegistryInv, NEW h \in Handlers,
           NEW r \in Machines, NEW c \in Cpus, GiveStart(h, r, c)
    PROVE  \E k \in Hints : Registry!Lend(h, k)
<1>1. PICK b \in Bufs : RegisterHeap(Home[h], AllocId(Home[h]), b)
  BY DEF GiveStart
<1>2. AllocId(Home[h]) \in Hints /\ Registry!Hand(Home[h], AllocId(Home[h]))
  BY <1>1, StatusGrows
<1>3. Late' = Late
  BY LateKept DEF GiveStart, history
<1>4. Registry!Lend(h, AllocId(Home[h]))
  BY <1>2, <1>3 DEF GiveStart, Registry!Lend, fileVars
<1> QED
  BY <1>2, <1>4

LEMMA TakesBack ==
    ASSUME TypeInv, RegistryInv, ClosedClean, NEW h \in Handlers, GiveDone(h)
    PROVE  \E m \in Machines, k \in Hints : Registry!TakeBack(m, k)
<1> USE ConstantFacts
<1> DEFINE m == Home[h]
           k == call[h].key
<1>1. m \in Machines /\ k \in Hints /\ call[h].op = "give"
  BY DEF GiveDone, TypeInv, CallShape, ThreadShape
<1>2. Owns(h, m, k)
  BY <1>1 DEF Owns
<1>3. k <= curId[m] /\ reg[m][k] # NoBuf
  BY <1>1, <1>2, OwnedKeys
<1>4. AllStatus[m][k] = "live"
  BY <1>1, <1>3 DEF AllStatus, Status
<1>5. ASSUME NEW g \in Handlers, Home[g] = m, private[g] = k
      PROVE  FALSE
  <2>1. g \in opened
    BY <1>1, <1>5 DEF ClosedClean, NoHint, Hints
  <2>2. Owns(g, m, k)
    BY <1>5, <2>1 DEF Owns
  <2>3. g = h
    BY <1>1, <1>2, <2>2 DEF RegistryInv, RegistryOwned
  <2> QED
    BY <1>1, <1>5, <2>1, <2>3 DEF RegistryInv, RegistryFresh
<1>6. AllStatus' = [AllStatus EXCEPT ![m][k] = "gone"]
  BY <1>1, <1>3, StatusGone DEF GiveDone
<1>7. Late' = Late
  BY LateKept DEF GiveDone
<1>8. Registry!TakeBack(m, k)
  BY <1>4, <1>5, <1>6, <1>7 DEF GiveDone, Registry!TakeBack, AllStatus, fileVars
<1> QED
  BY <1>1, <1>8

(* ioctl 1 maps what its read found. *)
LEMMA Maps ==
    ASSUME TypeInv, LockDiscipline, RegistryInv, BuffersTrue, PullsTrue, OwnQP,
           NEW h \in Handlers, PullDone(h)
    PROVE  \E m \in Machines, k \in Hints, d \in 0 .. MaxId :
              Registry!Map(h, m, k, d)
<1> USE ConstantFacts
<1> DEFINE m == call[h].peer
           k == call[h].key
<1>1. /\ pc[h] = "read" /\ call[h].op = "pull"
      /\ m \in Machines /\ k \in Hints /\ call[h].addr \in Bufs
  BY DEF PullDone, TypeInv, CallShape, ThreadShape
<1>2. PICK d \in Fetched(h) :
         public' = [public EXCEPT ![h] = @ \cup {[id |-> k, mac |-> m, heap |-> d]}]
  BY DEF PullDone
<1>3. /\ buf \in [Machines -> [Bufs -> 0 .. MaxId]]
      /\ curId \in [Machines -> 0 .. MaxId]
  BY DEF TypeInv, TypeOK
<1>4. d \in 0 .. MaxId /\ d <= curId[m]
  <2>1. d = buf[m][call[h].addr] \/ d = 0
    BY <1>2 DEF Fetched, Junk
  <2>2. curId[m] \in 0 .. MaxId /\ buf[m][call[h].addr] \in 0 .. MaxId
    BY <1>1, <1>3
  <2>3. buf[m][call[h].addr] <= curId[m]
    BY <1>1 DEF BuffersTrue
  <2> QED
    BY <2>1, <2>2, <2>3
<1>5. d = 0 \/ AllStatus[m][d] # "fresh"
  <2> SUFFICES ASSUME d # 0
               PROVE  AllStatus[m][d] # "fresh"
    OBVIOUS
  <2>1. d \in Hints
    BY <1>4 DEF Hints
  <2> QED
    BY <1>1, <1>4, <2>1 DEF AllStatus, Status
<1>6. \/ AllStatus[m][k] = "live" /\ d = k
      \/ AllStatus[m][k] = "gone"
      \/ Home[h] \in Late
  <2> SUFFICES ASSUME Home[h] \notin Late
               PROVE  (AllStatus[m][k] = "live" /\ d = k) \/ AllStatus[m][k] = "gone"
    OBVIOUS
  <2>1. call[h].cpu \in Cpus /\ <<Home[h], call[h].cpu>> \notin timedOut
    BY <1>1 DEF Late, TypeInv, CallShape, ThreadShape
  <2>2. k <= curId[m]
    BY <1>1, <2>1 DEF PullsTrue, Known
  <2>3. d = k \/ reg[m][k] = NoBuf
    BY <1>1, <1>2, PullFetches DEF Known
  <2> QED
    BY <1>1, <2>2, <2>3 DEF AllStatus, Status
<1>7. AllStatus' = AllStatus /\ Late' = Late /\ private' = private
  BY StatusKept, LateKept DEF PullDone, heapVars, history
<1>8. Registry!Map(h, m, k, d)
  BY <1>2, <1>5, <1>6, <1>7 DEF Registry!Map, AllStatus
<1> QED
  BY <1>1, <1>4, <1>8

(* A timeout makes the machine late. *)
LEMMA GivesUp ==
    ASSUME TypeInv, NEW h \in Handlers, Timeout(h)
    PROVE  Home[h] \in Machines /\ Registry!GiveUp(Home[h])
<1> USE ConstantFacts
<1>1. call[h].cpu \in Cpus /\ Home[h] \in Machines
  BY DEF Timeout, TypeInv, CallShape, ThreadShape
<1>2. timedOut' = timedOut \cup {<<Home[h], call[h].cpu>>}
  BY DEF Timeout
<1>3. Late' = Late \cup {Home[h]}
  BY <1>1, <1>2 DEF Late
<1>4. AllStatus' = AllStatus /\ UNCHANGED <<private, public>>
  BY StatusKept DEF Timeout, heapVars, fileVars
<1> QED
  BY <1>1, <1>3, <1>4 DEF Registry!GiveUp, AllStatus

LEMMA RefinementStep ==
    ASSUME TypeInv, LockDiscipline, RegistryInv, DeliveryInv, [Next]_vars
    PROVE  [Registry!Next]_(Registry!vars)
<1> USE DEF Registry!Hints
<1> DEFINE Step == Registry!Next \/ UNCHANGED Registry!vars
<1>1. ASSUME NEW h \in Handlers, Syscall(h)
      PROVE  Step
  <2>1. CASE Open(h) \/ Close(h)
    BY <2>1, Leaves DEF DeliveryInv, Registry!Next
  <2>2. CASE Register(h)
    BY <2>2, Publishes DEF Hints, Registry!Next
  <2>3. ASSUME NEW r \in Machines, Connect(h, r)
        PROVE  Step
    BY <2>3, Unseen DEF Connect, heapVars, fileVars, history
  <2>4. ASSUME NEW k \in Hints, NEW r \in Machines, NEW c \in Cpus,
               PullStart(h, k, r, c)
        PROVE  Step
    BY <2>4, Unseen DEF PullStart, heapVars, fileVars, history
  <2>5. ASSUME NEW r \in Machines, NEW c \in Cpus, GiveStart(h, r, c)
        PROVE  Step
    BY <2>5, Lends DEF Hints, Registry!Next
  <2> QED
    BY <1>1, <2>1, <2>2, <2>3, <2>4, <2>5 DEF Syscall
<1>2. ASSUME NEW h \in Handlers, UserStep(h)
      PROVE  Step
  <2>1. CASE Timeout(h)
    BY <2>1, GivesUp DEF Registry!Next
  <2>2. CASE PullDone(h)
    BY <2>2, Maps DEF DeliveryInv, Hints, Registry!Next
  <2>3. CASE GiveDone(h)
    BY <2>3, TakesBack DEF DeliveryInv, Hints, Registry!Next
  <2>4. CASE Acquire(h) \/ SyncCall(h) \/ FetchPost(h) \/ FetchPanics(h)
             \/ PullReply(h) \/ GiveReply(h)
    BY <2>4, Unseen DEF Acquire, SyncCall, FetchPost, FetchPanics, PullReply,
          GiveReply, heapVars, fileVars, history
  <2>5. CASE SyncCallFails(h) \/ BadReply(h) \/ PullFails(h)
    BY <2>5, Unseen DEF SyncCallFails, BadReply, PullFails, heapVars, fileVars
  <2> QED
    BY <1>2, <2>1, <2>2, <2>3, <2>4, <2>5 DEF UserStep
<1>3. ASSUME NEW w \in Workers, WorkerStep(w)
      PROVE  Step
  BY <1>3, Unseen DEF WorkerStep, HandleQuery, HandleGive, Acquire, FetchPost,
        FetchPanics, ServeDone, ServeFails, heapVars, fileVars, history
<1>4. CASE Lose \/ UNCHANGED vars
  BY <1>4, Unseen DEF Lose, vars, heapVars, fileVars, history
<1> QED
  BY <1>1, <1>2, <1>3, <1>4 DEF Next

LEMMA RefinementInit == Init => Registry!Init
<1> SUFFICES ASSUME Init
             PROVE  Registry!Init
  OBVIOUS
<1> USE ConstantFacts DEF Init
<1>1. ASSUME NEW m \in Machines, NEW k \in Hints
      PROVE  Status(m, k) = "fresh"
  BY DEF Status, Hints
<1>2. AllStatus = [m \in Machines |-> [k \in Hints |-> "fresh"]]
  BY <1>1 DEF AllStatus
<1>3. Late \in SUBSET Machines
  BY DEF Late
<1> QED
  BY <1>2, <1>3 DEF Registry!Init, Registry!Hints, Hints, AllStatus, NoHint

(* The kernel module, with its locks, buffers, datagrams and timeouts,     *)
(* implements HeapRegistry: register_heap, unregister and the files' Drop  *)
(* make hints live and gone, a published heap stays until its owner        *)
(* closes, and syscall_rmap maps the heap that was asked for while it is   *)
(* there and no reply was late.                                            *)
THEOREM RefinementCorrect == Spec => KeepsPromise
<1>1. TypeInv /\ LockDiscipline /\ RegistryInv /\ DeliveryInv /\ [Next]_vars
      => [Registry!Next]_(Registry!vars)
  BY RefinementStep
<1> QED
  BY <1>1, RefinementInit, TypeInvariant, LockCorrect, RegistryInvariant,
     Delivery, PTL
  DEF Spec, KeepsPromise, Registry!Spec
=============================================================================
