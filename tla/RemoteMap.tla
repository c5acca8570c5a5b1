----------------------------- MODULE RemoteMap -----------------------------
(***************************************************************************)
(* The register / pull protocol of the dmerge kernel module.               *)
(*                                                                         *)
(* A process opens /dev/mitosis-syscalls and gets a DmergeSyscallHandler.  *)
(* ioctl 0 registers its heap under a fresh hint: the heap's descriptor is *)
(* serialised once into a memory-pool buffer that other machines read with *)
(* one-sided RDMA.  ioctl 1 (pull, syscall_rmap) asks the owner's RPC      *)
(* thread for the address of that buffer, reads it and maps the heap.      *)
(* ioctl 5 asks a remote machine to take the heap over.  ioctl 3 makes the *)
(* session both kinds of call need.                                        *)
(*                                                                         *)
(* Every call that uses the RPC caller of a CPU holds that CPU's lock.     *)
(* Requests and replies are unreliable datagrams: they may be lost and     *)
(* overtake each other, a caller stops waiting after a timeout, and the    *)
(* reply to a call that timed out is still delivered to the caller later.  *)
(***************************************************************************)
EXTENDS Naturals, FiniteSets

CONSTANTS
    Machines,     \* machines that run the module
    Cpus,         \* CPUs of a machine: one lock, RPC caller and DC QP each
    Handlers,     \* open files, each with at most one system call in flight
    Workers,      \* RPC threads
    Home,         \* the machine a handler or a worker runs on
    Uses,         \* the ioctls the process behind a handler makes
    Peers,        \* the machines it connects to, pulls from and gives to
    Bufs,         \* addresses of the memory pool's descriptor buffers
    Nobody,       \* no thread, CPU or machine
    MayMigrate,   \* may the scheduler move a thread while it is in the kernel?
    MaxId,        \* bound: hints handed out by one machine
    MaxCalls      \* bound: calls that go over the network

Threads == Handlers \cup Workers
Hints   == 1 .. MaxId
NoHint  == 0
NoBuf   == 0
Junk    == 0      \* bytes that are no descriptor anybody registered

(* The constant handle_remote_register_fetch_apply answers with. *)
RemoteHint == 1048

ASSUME ConstantsAssumption ==
    /\ Handlers \cap Workers = {}
    /\ Home \in [Threads -> Machines]
    /\ Uses \in [Handlers -> SUBSET {"register", "connect", "pull", "give"}]
    /\ Peers \in [Handlers -> SUBSET Machines]
    /\ Bufs \subseteq Nat \ {0}
    /\ Nobody \notin Threads \cup Machines \cup Cpus
    /\ MayMigrate \in BOOLEAN
    /\ MaxId \in Nat
    /\ MaxCalls \in Nat

VARIABLES
    curId,      \* curId[m]: heap_id_generator
    reg,        \* reg[m][k]: buffer registered_heap holds for hint k, or NoBuf
    buf,        \* buf[m][b]: hint whose descriptor was last written into b
    opened,     \* handlers whose file is open
    private,    \* private[h]: private_heap_hint
    public,     \* public[h]: public_heaps
    sessions,   \* sessions[m]: machines the callers of m have a session with
    lock,       \* lock[m][c]: thread holding global_locks[c] of machine m
    pc,         \* pc[t]: where thread t is in its system call or RPC handler
    call,       \* call[t]: the arguments and locals of that call
    net,        \* datagrams in flight
    calls,      \* number of network calls started, which numbers them
    timedOut,   \* history: <<m, c>> whose caller once gave up waiting
    leaked,     \* history: <<m, k>> left behind by a failed ioctl 5
    granted     \* history: <<m, k>>, ioctl 5 returned hint k of machine m

heapVars == <<curId, reg, buf>>
fileVars == <<opened, private, public>>
history  == <<timedOut, leaked, granted>>
vars == <<heapVars, fileVars, sessions, lock, pc, call, net, calls, history>>

-----------------------------------------------------------------------------
(* Types *)

PCs == {"idle", "lock", "call", "wait", "fetch", "read", "free", "panicked"}

(* A thread is between lock() and unlock() of its CPU's lock. *)
Critical == {"call", "wait", "fetch", "read", "panicked"}

Calls == [op   : {"none", "pull", "give", "serve"},
          cpu  : Cpus \cup {Nobody},       \* get_calling_cpu_id() at the start
          peer : Machines \cup {Nobody},   \* the other machine
          key  : 0 .. MaxId,               \* the hint the call is about
          addr : Bufs \cup {NoBuf},        \* descriptor buffer on the peer
          qp   : Cpus \cup {Nobody},       \* CPU whose DC QP reads it
          back : Cpus \cup {Nobody},       \* CPU of the caller to answer
          res  : Nat,                      \* res_hint of ioctl 5
          tag  : Nat]                      \* number of the call

NewCall(op, cpu, peer, key, addr, back, tag) ==
    [op |-> op, cpu |-> cpu, peer |-> peer, key |-> key, addr |-> addr,
     qp |-> Nobody, back |-> back, res |-> 0, tag |-> tag]

NoCall == NewCall("none", Nobody, Nobody, 0, NoBuf, Nobody, 0)

(* Requests Query and RemoteRegister and their replies.  "none" is the     *)
(* reply of length 0 that both handlers send on failure.  key and tag of a *)
(* reply are not on the wire: they tell messages apart.                    *)
Messages == [type : {"query", "give", "queryReply", "giveReply", "none"},
             to   : Machines, from : Machines, cpu : Cpus,
             key  : 0 .. MaxId, addr : Bufs \cup {NoBuf}, tag : Nat]

Heaps == [id : Hints, mac : Machines, heap : 0 .. MaxId]

TypeOK ==
    /\ curId \in [Machines -> 0 .. MaxId]
    /\ reg \in [Machines -> [Hints -> Bufs \cup {NoBuf}]]
    /\ buf \in [Machines -> [Bufs -> 0 .. MaxId]]
    /\ opened \in SUBSET Handlers
    /\ private \in [Handlers -> 0 .. MaxId]
    /\ public \in [Handlers -> SUBSET Heaps]
    /\ sessions \in [Machines -> SUBSET Machines]
    /\ lock \in [Machines -> [Cpus -> Threads \cup {Nobody}]]
    /\ pc \in [Threads -> PCs]
    /\ call \in [Threads -> Calls]
    /\ net \in SUBSET Messages
    /\ calls \in Nat
    /\ timedOut \in SUBSET (Machines \X Cpus)
    /\ leaked \in SUBSET (Machines \X Hints)
    /\ granted \in SUBSET (Machines \X Nat)

Init ==
    /\ curId = [m \in Machines |-> 0]
    /\ reg = [m \in Machines |-> [k \in Hints |-> NoBuf]]
    /\ buf = [m \in Machines |-> [b \in Bufs |-> Junk]]
    /\ opened = {}
    /\ private = [h \in Handlers |-> NoHint]
    /\ public = [h \in Handlers |-> {}]
    /\ sessions = [m \in Machines |-> {}]
    /\ lock = [m \in Machines |-> [c \in Cpus |-> Nobody]]
    /\ pc = [t \in Threads |-> "idle"]
    /\ call = [t \in Threads |-> NoCall]
    /\ net = {}
    /\ calls = 0
    /\ timedOut = {}
    /\ leaked = {}
    /\ granted = {}

-----------------------------------------------------------------------------
(* Heap service: ShadowHeapService and IdFactory.  get_shs_mut() takes no  *)
(* lock; each of its operations is one step here.                          *)

LiveBufs(m) == {reg[m][k] : k \in Hints} \ {NoBuf}

(* Mutant: the smallest hint that is free is handed out again. *)
AllocIdReuses(m) ==
    CHOOSE k \in 1 .. MaxId + 1 :
        /\ k > MaxId \/ reg[m][k] = NoBuf
        /\ \A j \in 1 .. k - 1 : reg[m][j] # NoBuf

(* alloc_one_id: the ids start at 1. *)
AllocId(m) == curId[m] + 1

(* Mutant: the bundle is registered before its buffer is written. *)
RegisterHeapUnwritten(m, k, b) ==
    /\ k \in Hints
    /\ b \notin LiveBufs(m)
    /\ curId' = [curId EXCEPT ![m] = k]
    /\ reg' = [reg EXCEPT ![m][k] = b]
    /\ UNCHANGED buf

(* alloc_one_id, then register_heap: HeapBundler::new serialises the       *)
(* descriptor into a buffer popped from the memory pool.                   *)
RegisterHeap(m, k, b) ==
    /\ k \in Hints
    /\ b \notin LiveBufs(m)
    /\ curId' = [curId EXCEPT ![m] = k]
    /\ reg' = [reg EXCEPT ![m][k] = b]
    /\ buf' = [buf EXCEPT ![m][b] = k]

(* Dropping the HeapBundler frees its buffer; its bytes stay until reuse. *)
Unregister(m, k) == reg' = [reg EXCEPT ![m][k] = NoBuf]

-----------------------------------------------------------------------------
(* System calls without network traffic *)

Open(h) ==
    /\ h \notin opened
    /\ opened' = opened \cup {h}
    /\ private' = [private EXCEPT ![h] = NoHint]
    /\ public' = [public EXCEPT ![h] = {}]
    /\ UNCHANGED <<heapVars, sessions, lock, pc, call, net, calls, history>>

(* Mutant: the handler has no Drop. *)
CloseWithoutDrop(h) ==
    /\ h \in opened /\ pc[h] = "idle"
    /\ opened' = opened \ {h}
    /\ private' = [private EXCEPT ![h] = NoHint]
    /\ public' = [public EXCEPT ![h] = {}]
    /\ UNCHANGED <<heapVars, sessions, lock, pc, call, net, calls, history>>

(* The last close drops the handler; a system call in flight keeps the     *)
(* file open.                                                              *)
Close(h) ==
    /\ h \in opened /\ pc[h] = "idle"
    /\ opened' = opened \ {h}
    /\ IF private[h] # NoHint THEN Unregister(Home[h], private[h])
                              ELSE UNCHANGED reg
    /\ private' = [private EXCEPT ![h] = NoHint]
    /\ public' = [public EXCEPT ![h] = {}]
    /\ UNCHANGED <<curId, buf, sessions, lock, pc, call, net, calls, history>>

(* ioctl 0.  A handler that has a hint gets it back and nothing changes.   *)
Register(h) ==
    /\ h \in opened /\ pc[h] = "idle" /\ "register" \in Uses[h]
    /\ private[h] = NoHint
    /\ \E b \in Bufs : RegisterHeap(Home[h], AllocId(Home[h]), b)
    /\ private' = [private EXCEPT ![h] = AllocId(Home[h])]
    /\ UNCHANGED <<opened, public, sessions, lock, pc, call, net, calls,
                   history>>

(* ioctl 3.  probe_remote_rpc_end connects every caller of the machine; a  *)
(* probe that fails, or a second one, changes nothing.                     *)
Connect(h, r) ==
    /\ h \in opened /\ pc[h] = "idle" /\ "connect" \in Uses[h]
    /\ r \in Peers[h] \ sessions[Home[h]]
    /\ sessions' = [sessions EXCEPT ![Home[h]] = @ \cup {r}]
    /\ UNCHANGED <<heapVars, fileVars, lock, pc, call, net, calls, history>>

-----------------------------------------------------------------------------
(* Steps that both kinds of network call, and the RPC thread, have in      *)
(* common                                                                  *)

Goto(t, label) == pc' = [pc EXCEPT ![t] = label]

Return(t) ==
    /\ pc' = [pc EXCEPT ![t] = "idle"]
    /\ call' = [call EXCEPT ![t] = NoCall]

Lock(t) ==
    /\ lock[Home[t]][call[t].cpu] = Nobody
    /\ lock' = [lock EXCEPT ![Home[t]][call[t].cpu] = t]

Unlock(t) == lock' = [lock EXCEPT ![Home[t]][call[t].cpu] = Nobody]

(* global_locks[cpu_id].lock() *)
Acquire(t) ==
    /\ pc[t] = "lock"
    /\ Lock(t)
    /\ Goto(t, IF call[t].op = "serve" THEN "fetch" ELSE "call")
    /\ UNCHANGED <<heapVars, fileVars, sessions, call, net, calls, history>>

(* An error exit of syscall_rmap or syscall_register_remote_heap: unlock   *)
(* and return -1.  The latter leaves its local registration in place.      *)
FailCall(h) ==
    /\ Unlock(h)
    /\ Return(h)
    /\ leaked' = IF call[h].op = "give"
                 THEN leaked \cup {<<Home[h], call[h].key>>}
                 ELSE leaked

(* sync_call.  The external caller reports an error when it has no session *)
(* with the peer or cannot post the request.                               *)
SyncCallFails(h) ==
    /\ pc[h] = "call"
    /\ FailCall(h)
    /\ UNCHANGED <<heapVars, fileVars, sessions, net, calls, timedOut,
                   granted>>

(* Mutant: a request is posted without a session. *)
SyncCallUnconnected(h) ==
    /\ pc[h] = "call"
    /\ net' = net \cup
         {[type |-> IF call[h].op = "pull" THEN "query" ELSE "give",
           to |-> call[h].peer, from |-> Home[h], cpu |-> call[h].cpu,
           key |-> call[h].key, addr |-> call[h].addr, tag |-> call[h].tag]}
    /\ Goto(h, "wait")
    /\ UNCHANGED <<heapVars, fileVars, sessions, lock, call, calls, history>>

SyncCall(h) ==
    /\ pc[h] = "call"
    /\ call[h].peer \in sessions[Home[h]]
    /\ net' = net \cup
         {[type |-> IF call[h].op = "pull" THEN "query" ELSE "give",
           to |-> call[h].peer, from |-> Home[h], cpu |-> call[h].cpu,
           key |-> call[h].key, addr |-> call[h].addr, tag |-> call[h].tag]}
    /\ Goto(h, "wait")
    /\ UNCHANGED <<heapVars, fileVars, sessions, lock, call, calls, history>>

(* Mutant: block_on has no timeout. *)
TimeoutNever(h) == h \notin Handlers /\ UNCHANGED vars

(* block_on(timeout_caller) elapses. *)
Timeout(h) ==
    /\ pc[h] = "wait"
    /\ FailCall(h)
    /\ timedOut' = timedOut \cup {<<Home[h], call[h].cpu>>}
    /\ UNCHANGED <<heapVars, fileVars, sessions, net, calls, granted>>

(* Datagrams block_on may deliver: whatever reaches the caller of the CPU. *)
Inbox(h) == {msg \in net : /\ msg.type \in {"queryReply", "giveReply", "none"}
                           /\ msg.to = Home[h]
                           /\ msg.cpu = call[h].cpu}

(* The reply is too short for the structure the call deserialises. *)
Undecodable(h, msg) == \/ msg.type = "none"
                       \/ call[h].op = "pull" /\ msg.type = "giveReply"

BadReply(h) ==
    /\ pc[h] = "wait"
    /\ \E msg \in Inbox(h) :
         /\ Undecodable(h, msg)
         /\ net' = net \ {msg}
    /\ FailCall(h)
    /\ UNCHANGED <<heapVars, fileVars, sessions, calls, timedOut, granted>>

(* remote_descriptor_fetch up to the post: get_ss(session_id).unwrap(),    *)
(* then the DC QP of the CPU the thread is on now.                         *)
FetchPost(t) ==
    /\ pc[t] = "fetch"
    /\ call[t].peer \in sessions[Home[t]]
    /\ \E q \in Cpus :
         /\ MayMigrate \/ q = call[t].cpu
         /\ call' = [call EXCEPT ![t].qp = q]
    /\ Goto(t, "read")
    /\ UNCHANGED <<heapVars, fileVars, sessions, lock, net, calls, history>>

(* A panic in the kernel: unwrap() without a session, or unimplemented!()  *)
(* when the read elapses.  The thread never runs again and its CPU's lock  *)
(* stays taken.                                                            *)
FetchPanics(t) ==
    /\ \/ pc[t] = "fetch" /\ call[t].peer \notin sessions[Home[t]]
       \/ pc[t] = "read"
    /\ Goto(t, "panicked")
    /\ UNCHANGED <<heapVars, fileVars, sessions, lock, call, net, calls,
                   history>>

QPShared(t) == \E u \in Threads \ {t} :
    /\ Home[u] = Home[t] /\ pc[u] = "read" /\ call[u].qp = call[t].qp

(* What the read may find.  A freed buffer may hold its old bytes or       *)
(* anything else, and with a second reader on the QP block_on may take the *)
(* other read's completion, before this one has arrived.                   *)
Fetched(t) ==
    {buf[call[t].peer][call[t].addr]} \cup
    (IF call[t].addr \notin LiveBufs(call[t].peer) \/ QPShared(t)
     THEN {Junk} ELSE {})

-----------------------------------------------------------------------------
(* ioctl 1: syscall_rmap *)

PullStart(h, k, r, c) ==
    /\ h \in opened /\ pc[h] = "idle" /\ "pull" \in Uses[h]
    /\ r \in Peers[h]
    /\ calls < MaxCalls
    /\ calls' = calls + 1
    /\ call' = [call EXCEPT ![h] =
                  NewCall("pull", c, r, k, NoBuf, Nobody, calls + 1)]
    /\ Goto(h, "lock")
    /\ UNCHANGED <<heapVars, fileVars, sessions, lock, net, history>>

(* A reply with ready = true, the only value handle_query sends.  Nothing  *)
(* says which request it answers.                                          *)
PullReply(h) ==
    /\ pc[h] = "wait" /\ call[h].op = "pull"
    /\ \E msg \in Inbox(h) :
         /\ msg.type = "queryReply"
         /\ net' = net \ {msg}
         /\ call' = [call EXCEPT ![h].addr = msg.addr]
    /\ Goto(h, "fetch")
    /\ UNCHANGED <<heapVars, fileVars, sessions, lock, calls, history>>

(* The bytes read are deserialised, mapped (apply_to) and pushed to        *)
(* public_heaps under the requested id.                                    *)
PullDone(h) ==
    /\ pc[h] = "read" /\ call[h].op = "pull"
    /\ \E d \in Fetched(h) :
         public' = [public EXCEPT ![h] = @ \cup
                      {[id |-> call[h].key, mac |-> call[h].peer, heap |-> d]}]
    /\ Unlock(h)
    /\ Return(h)
    /\ UNCHANGED <<heapVars, opened, private, sessions, net, calls, history>>

(* The read, deserialize or AccessInfo::new reports an error. *)
PullFails(h) ==
    /\ pc[h] \in {"fetch", "read"} /\ call[h].op = "pull"
    /\ call[h].peer \in sessions[Home[h]]
    /\ FailCall(h)
    /\ UNCHANGED <<heapVars, fileVars, sessions, net, calls, timedOut,
                   granted>>

-----------------------------------------------------------------------------
(* ioctl 5: syscall_register_remote_heap *)

(* The heap is registered locally, under a hint the handler does not       *)
(* remember, before the CPU's lock is taken.                               *)
GiveStart(h, r, c) ==
    /\ h \in opened /\ pc[h] = "idle" /\ "give" \in Uses[h]
    /\ r \in Peers[h]
    /\ calls < MaxCalls
    /\ calls' = calls + 1
    /\ \E b \in Bufs :
         /\ RegisterHeap(Home[h], AllocId(Home[h]), b)
         /\ call' = [call EXCEPT ![h] =
                       NewCall("give", c, r, AllocId(Home[h]), b, Nobody,
                               calls + 1)]
    /\ Goto(h, "lock")
    /\ UNCHANGED <<fileVars, sessions, lock, net, history>>

(* The first word of the reply is the hint: of a late reply to a Query it  *)
(* is the address of a descriptor.                                         *)
GiveReply(h) ==
    /\ pc[h] = "wait" /\ call[h].op = "give"
    /\ \E msg \in Inbox(h) :
         /\ ~Undecodable(h, msg)
         /\ net' = net \ {msg}
         /\ call' = [call EXCEPT ![h].res = IF msg.type = "giveReply"
                                            THEN RemoteHint ELSE msg.addr]
    /\ Unlock(h)
    /\ Goto(h, "free")
    /\ UNCHANGED <<heapVars, fileVars, sessions, calls, history>>

(* unregister(local_hint), outside the lock; res_hint is returned. *)
GiveDone(h) ==
    /\ pc[h] = "free"
    /\ Unregister(Home[h], call[h].key)
    /\ granted' = granted \cup {<<call[h].peer, call[h].res>>}
    /\ Return(h)
    /\ UNCHANGED <<curId, buf, fileVars, sessions, lock, net, calls, timedOut,
                   leaked>>

-----------------------------------------------------------------------------
(* RPC threads *)

(* Mutant: the handler answers with the key in place of the address. *)
ReplyWithKey(w, msg, type, addr) ==
    [type |-> type, to |-> msg.from, from |-> Home[w], cpu |-> msg.cpu,
     key |-> msg.key, addr |-> msg.key, tag |-> msg.tag]

Reply(w, msg, type, addr) ==
    [type |-> type, to |-> msg.from, from |-> Home[w], cpu |-> msg.cpu,
     key |-> msg.key, addr |-> addr, tag |-> msg.tag]

(* Mutant: the request stays in the receive queue. *)
HandleQueryTwice(w) ==
    /\ pc[w] = "idle"
    /\ \E msg \in net :
         /\ msg.type = "query" /\ msg.to = Home[w]
         /\ LET b == reg[Home[w]][msg.key] IN
            net' = net \cup
                   {Reply(w, msg, IF b = NoBuf THEN "none" ELSE "queryReply", b)}
    /\ UNCHANGED <<heapVars, fileVars, sessions, lock, pc, call, calls,
                   history>>

(* Mutant: the newest heap is looked up, whatever the hint. *)
HandleQueryNewest(w) ==
    /\ pc[w] = "idle"
    /\ \E msg \in net :
         /\ msg.type = "query" /\ msg.to = Home[w]
         /\ LET id == curId[Home[w]]
                b  == IF id = 0 THEN NoBuf ELSE reg[Home[w]][id]
            IN  net' = (net \ {msg}) \cup
                       {Reply(w, msg, IF b = NoBuf THEN "none" ELSE "queryReply", b)}
    /\ UNCHANGED <<heapVars, fileVars, sessions, lock, pc, call, calls,
                   history>>

(* handle_query *)
HandleQuery(w) ==
    /\ pc[w] = "idle"
    /\ \E msg \in net :
         /\ msg.type = "query" /\ msg.to = Home[w]
         /\ LET b == reg[Home[w]][msg.key] IN
            net' = (net \ {msg}) \cup
                   {Reply(w, msg, IF b = NoBuf THEN "none" ELSE "queryReply", b)}
    /\ UNCHANGED <<heapVars, fileVars, sessions, lock, pc, call, calls,
                   history>>

(* handle_remote_register up to the lock of the CPU it runs on *)
HandleGive(w, c) ==
    /\ pc[w] = "idle"
    /\ \E msg \in net :
         /\ msg.type = "give" /\ msg.to = Home[w]
         /\ net' = net \ {msg}
         /\ call' = [call EXCEPT ![w] =
                       NewCall("serve", c, msg.from, msg.key, msg.addr,
                               msg.cpu, msg.tag)]
    /\ Goto(w, "lock")
    /\ UNCHANGED <<heapVars, fileVars, sessions, lock, calls, history>>

Answer(w, type) ==
    [type |-> type, to |-> call[w].peer, from |-> Home[w],
     cpu |-> call[w].back, key |-> call[w].key, addr |-> NoBuf,
     tag |-> call[w].tag]

(* Mutant: the RPC thread answers with the lock held. *)
ServeDoneKeepsLock(w) ==
    /\ pc[w] = "read" /\ call[w].op = "serve"
    /\ net' = net \cup {Answer(w, "giveReply")}
    /\ Return(w)
    /\ UNCHANGED <<heapVars, fileVars, sessions, lock, calls, history>>

(* The descriptor is read and decoded, and dropped: the two TODOs at the   *)
(* end of handle_remote_register_fetch_apply stand for applying it.        *)
ServeDone(w) ==
    /\ pc[w] = "read" /\ call[w].op = "serve"
    /\ net' = net \cup {Answer(w, "giveReply")}
    /\ Unlock(w)
    /\ Return(w)
    /\ UNCHANGED <<heapVars, fileVars, sessions, calls, history>>

ServeFails(w) ==
    /\ pc[w] \in {"fetch", "read"} /\ call[w].op = "serve"
    /\ call[w].peer \in sessions[Home[w]]
    /\ net' = net \cup {Answer(w, "none")}
    /\ Unlock(w)
    /\ Return(w)
    /\ UNCHANGED <<heapVars, fileVars, sessions, calls, history>>

(* The network loses a datagram. *)
Lose ==
    /\ \E msg \in net : net' = net \ {msg}
    /\ UNCHANGED <<heapVars, fileVars, sessions, lock, pc, call, calls,
                   history>>

-----------------------------------------------------------------------------
UserStep(h) ==
    \/ Acquire(h) \/ SyncCall(h) \/ SyncCallFails(h)
    \/ Timeout(h) \/ BadReply(h) \/ PullReply(h) \/ GiveReply(h)
    \/ FetchPost(h) \/ FetchPanics(h)
    \/ PullDone(h) \/ PullFails(h) \/ GiveDone(h)

WorkerStep(w) ==
    \/ HandleQuery(w) \/ (\E c \in Cpus : HandleGive(w, c))
    \/ Acquire(w) \/ FetchPost(w) \/ FetchPanics(w)
    \/ ServeDone(w) \/ ServeFails(w)

Syscall(h) ==
    \/ Open(h) \/ Close(h) \/ Register(h)
    \/ \E r \in Machines : Connect(h, r)
    \/ \E k \in Hints, r \in Machines, c \in Cpus : PullStart(h, k, r, c)
    \/ \E r \in Machines, c \in Cpus : GiveStart(h, r, c)

Next ==
    \/ \E h \in Handlers : Syscall(h) \/ UserStep(h)
    \/ \E w \in Workers : WorkerStep(w)
    \/ Lose

(* A thread in the kernel keeps running, the kernel's mutex does not       *)
(* starve a waiter, and the timer of block_on fires.  Nothing forces a     *)
(* process to make a system call or the network to deliver.                *)
Fairness ==
    /\ \A h \in Handlers : WF_vars(UserStep(h)) /\ SF_vars(Acquire(h))
    /\ \A w \in Workers : WF_vars(WorkerStep(w)) /\ SF_vars(Acquire(w))

Spec == Init /\ [][Next]_vars
FairSpec == Spec /\ Fairness

-----------------------------------------------------------------------------
(* Properties *)

(* Every path through syscall_rmap, syscall_register_remote_heap and       *)
(* handle_remote_register_fetch_apply unlocks the CPU it locked, none      *)
(* unlocks another's, and only a panic keeps a lock: a CPU's lock is held  *)
(* by t exactly while t is between its lock() and unlock().  So a caller   *)
(* and its reply queue are used by one thread at a time.                   *)
LockDiscipline ==
    \A m \in Machines, c \in Cpus, t \in Threads :
        lock[m][c] = t <=> /\ Home[t] = m
                           /\ pc[t] \in Critical
                           /\ call[t].cpu = c

Owns(h, m, k) ==
    /\ Home[h] = m
    /\ \/ h \in opened /\ private[h] = k
       \/ call[h].op = "give" /\ call[h].key = k

(* registered_heap holds a hint exactly while one handler answers for it:  *)
(* it is the private heap of an open file (freed by Drop) or the temporary *)
(* hint of an ioctl 5 in flight.  The only other entries are those a       *)
(* failed ioctl 5 left behind, which nothing will ever free.               *)
RegistryOwned ==
    \A m \in Machines, k \in Hints :
        /\ reg[m][k] # NoBuf <=> \/ \E h \in Handlers : Owns(h, m, k)
                                 \/ <<m, k>> \in leaked
        /\ \A h, g \in Handlers : Owns(h, m, k) /\ Owns(g, m, k) => h = g
        /\ \A h \in Handlers : Owns(h, m, k) => <<m, k>> \notin leaked

(* A hint a machine has handed out and freed is never registered again, so *)
(* a consumer that still holds it can get an error but never another heap  *)
(* from the Query handler.                                                 *)
HintNeverReused ==
    [][\A m \in Machines, k \in Hints :
          k <= curId[m] /\ reg[m][k] = NoBuf => reg'[m][k] = NoBuf]_vars

(* A pull that returned 0 mapped the heap that was asked for, if that heap *)
(* is still registered, no caller of this machine has ever timed out and   *)
(* threads stay on their CPU.  Each condition is needed: a late reply, a   *)
(* freed buffer or a shared DC QP delivers something else.                 *)
PullExact ==
    \A h \in Handlers : \A e \in public[h] :
        /\ ~MayMigrate
        /\ reg[e.mac][e.id] # NoBuf
        /\ \A c \in Cpus : <<Home[h], c>> \notin timedOut
        => e.heap = e.id

(* The word ioctl 5 returns is what the remote handler answered.  Only     *)
(* after a timeout it can be the first word of a late reply to a Query:    *)
(* the physical address of a descriptor, taken for a hint.                 *)
GiveExact == \A g \in granted : g[2] = RemoteHint \/ timedOut # {}

(* syscall_rmap reaches get_ss(session_id).unwrap() only after sync_call   *)
(* succeeded on the same session, so a pull never panics there.            *)
PullHasSession ==
    \A h \in Handlers :
        pc[h] \in {"wait", "fetch", "read"} => call[h].peer \in sessions[Home[h]]

Panicked(m) == \E t \in Threads : Home[t] = m /\ pc[t] = "panicked"

(* Every system call returns and every RPC handler finishes, unless a      *)
(* thread of the machine panicked with a lock held: although calls and RPC *)
(* threads of two machines can wait for each other's locks in a circle,    *)
(* the timeout of block_on breaks it.                                      *)
CallReturns ==
    \A t \in Threads :
        pc[t] # "idle" ~> (pc[t] = "idle" \/ Panicked(Home[t]))

(* What get_ss(session_id).unwrap() asserts: every thread that fetches a   *)
(* descriptor has a session with the machine it fetches from.              *)
FetchHasSession ==
    \A t \in Threads :
        pc[t] = "fetch" => call[t].peer \in sessions[Home[t]]

(* "hold the lock on this CPU": a thread only uses the DC QP of the CPU    *)
(* whose lock it holds.                                                    *)
QPOfLockedCpu ==
    \A t \in Threads : pc[t] = "read" => call[t].qp = call[t].cpu
=============================================================================
