----------------------------- MODULE Lifecycle ------------------------------
(***************************************************************************)
(* Loading and unloading the kernel module.                                *)
(*                                                                         *)
(* insmod runs start_dmerge step by step, spawns the RPC threads on the    *)
(* way, waits until all of them are ready and finally registers the system *)
(* call device.  rmmod drops the services one by one, stops the RPC        *)
(* threads last, and only then removes the device.  An RPC thread answers  *)
(* requests of other machines as soon as it polls and until it is stopped; *)
(* system calls need an open file, and an open file keeps the module.      *)
(***************************************************************************)
EXTENDS Naturals, FiniteSets

CONSTANTS
    RpcThreads,   \* config.rpc_threads_num threads
    Users,        \* threads that use the device
    MaxLoads      \* bound: how often the module is loaded

ASSUME ThreadsAssumption == IsFiniteSet(RpcThreads) /\ MaxLoads \in Nat

(* Services the module sets up, and those an operation uses. *)
Services == {"sh_service", "mitosis", "callers", "global_locks", "ids"}

Ops   == {"query", "give", "syscall"}
Needs == [query   |-> {"sh_service", "mitosis"},
          give    |-> {"global_locks", "callers", "mitosis"},
          syscall |-> Services]

VARIABLES
    pc,       \* where insmod or rmmod is; "loaded" and "unloaded" between,
              \* "gone" when insmod gave up and nothing was cleaned up
    up,       \* services that are initialised
    rpc,      \* rpc[w]: "none", "setup", "polling", "dead" or an operation
    stop,     \* threads whose kthread::should_stop() holds
    readyNum, \* RPC_HANDLER_READY_NUM
    device,   \* is the system call device registered?
    user,     \* user[u]: "out", "open" (has the file open) or "syscall"
    failed,   \* start_dmerge returned None, which nobody looks at
    loads     \* number of insmods

vars == <<pc, up, rpc, stop, readyNum, device, user, failed, loads>>

TypeOK ==
    /\ pc \in {"unloaded", "mitosis", "rpc", "callers", "barrier", "locks",
               "ids", "device", "loaded", "dropLocks", "dropIds", "end",
               "undevice", "gone"}
    /\ up \in SUBSET Services
    /\ rpc \in [RpcThreads -> {"none", "setup", "polling", "dead"} \cup Ops]
    /\ stop \in SUBSET RpcThreads
    /\ readyNum \in 0 .. Cardinality(RpcThreads)
    /\ device \in BOOLEAN
    /\ user \in [Users -> {"out", "open", "syscall"}]
    /\ failed \in BOOLEAN
    /\ loads \in 0 .. MaxLoads

Init ==
    /\ pc = "unloaded" /\ up = {} /\ rpc = [w \in RpcThreads |-> "none"]
    /\ stop = {} /\ readyNum = 0 /\ device = FALSE /\ user = [u \in Users |-> "out"]
    /\ failed = FALSE /\ loads = 0

-----------------------------------------------------------------------------
(* insmod: Module::init, start_dmerge, start_instance and init_rpc *)

Step(from, to) == pc = from /\ pc' = to

InsmodKeepsCount ==
    /\ Step("unloaded", "mitosis")
    /\ loads < MaxLoads
    /\ loads' = loads + 1
    /\ up' = up \cup {"sh_service"}
    /\ failed' = FALSE /\ stop' = {}
    /\ UNCHANGED <<rpc, readyNum, device, user>>

(* The statics of the module are new: the counter is 0 again. *)
Insmod ==
    /\ Step("unloaded", "mitosis")
    /\ loads < MaxLoads
    /\ loads' = loads + 1
    /\ up' = up \cup {"sh_service"}
    /\ failed' = FALSE /\ readyNum' = 0 /\ stop' = {}
    /\ UNCHANGED <<rpc, device, user>>

InitMitosis ==
    /\ \/ Step("mitosis", "rpc") /\ up' = up \cup {"mitosis"} /\ UNCHANGED failed
       \/ Step("mitosis", "device") /\ failed' = TRUE /\ UNCHANGED up
    /\ UNCHANGED <<rpc, stop, readyNum, device, user, loads>>

(* Service::new_with_worker(...).expect(...) *)
StartRpc ==
    /\ \/ Step("rpc", "callers") /\ rpc' = [w \in RpcThreads |-> "setup"]
       \/ Step("rpc", "gone") /\ UNCHANGED rpc
    /\ UNCHANGED <<up, stop, readyNum, device, user, failed, loads>>

(* CallerPool::new(...).expect(...) *)
InitCallers ==
    /\ \/ Step("callers", "barrier") /\ up' = up \cup {"callers"}
       \/ Step("callers", "gone") /\ UNCHANGED up
    /\ UNCHANGED <<rpc, stop, readyNum, device, user, failed, loads>>

(* wait_handlers_ready_barrier *)
Barrier ==
    /\ Step("barrier", "locks")
    /\ readyNum >= Cardinality(RpcThreads)
    /\ UNCHANGED <<up, rpc, stop, readyNum, device, user, failed, loads>>

InitLocksForgotten ==
    /\ Step("locks", "ids")
    /\ UNCHANGED <<up, rpc, stop, readyNum, device, user, failed, loads>>

InitLocks ==
    /\ Step("locks", "ids")
    /\ up' = up \cup {"global_locks"}
    /\ UNCHANGED <<rpc, stop, readyNum, device, user, failed, loads>>

InitIds ==
    /\ Step("ids", "device")
    /\ up' = up \cup {"ids"}
    /\ UNCHANGED <<rpc, stop, readyNum, device, user, failed, loads>>

(* SysCallsService::new()?; an error leaves init without a Module, whose   *)
(* Drop would have called end_dmerge.                                      *)
AddDevice ==
    /\ \/ Step("device", "loaded") /\ device' = TRUE
       \/ Step("device", "gone") /\ UNCHANGED device
    /\ UNCHANGED <<up, rpc, stop, readyNum, user, failed, loads>>

-----------------------------------------------------------------------------
(* rmmod: Drop of Module, end_dmerge, then the field service *)

RmmodInUse ==
    /\ Step("loaded", "dropLocks")
    /\ up' = up \ {"sh_service"}
    /\ UNCHANGED <<rpc, stop, readyNum, device, user, failed, loads>>

Rmmod ==
    /\ Step("loaded", "dropLocks")
    /\ \A u \in Users : user[u] = "out"
    /\ up' = up \ {"sh_service"}
    /\ UNCHANGED <<rpc, stop, readyNum, device, user, failed, loads>>

DropLocks ==
    /\ Step("dropLocks", "dropIds")
    /\ up' = up \ {"global_locks"}
    /\ UNCHANGED <<rpc, stop, readyNum, device, user, failed, loads>>

DropIds ==
    /\ Step("dropIds", "end")
    /\ up' = up \ {"ids"}
    /\ UNCHANGED <<rpc, stop, readyNum, device, user, failed, loads>>

(* end_instance stops the RPC threads one after the other (kthread_stop). *)
StopThread(w) ==
    /\ pc = "end" /\ w \notin stop
    /\ \A v \in stop : rpc[v] = "none"
    /\ stop' = stop \cup {w}
    /\ UNCHANGED <<pc, up, rpc, readyNum, device, user, failed, loads>>

EndInstanceNoJoin ==
    /\ Step("end", "undevice")
    /\ stop = RpcThreads
    /\ up' = up \ {"mitosis", "callers"}
    /\ UNCHANGED <<rpc, stop, readyNum, device, user, failed, loads>>

(* kthread_stop may or may not return for a thread that panicked. *)
JoinDead(w) ==
    /\ pc = "end" /\ w \in stop /\ rpc[w] = "dead"
    /\ rpc' = [rpc EXCEPT ![w] = "none"]
    /\ UNCHANGED <<pc, up, stop, readyNum, device, user, failed, loads>>

(* It joins the last of them before it drops mitosis and its caller pool.  *)
EndInstance ==
    /\ Step("end", "undevice")
    /\ stop = RpcThreads /\ \A w \in RpcThreads : rpc[w] = "none"
    /\ up' = up \ {"mitosis", "callers"}
    /\ UNCHANGED <<rpc, stop, readyNum, device, user, failed, loads>>

RemoveDevice ==
    /\ Step("undevice", "unloaded")
    /\ device' = FALSE
    /\ UNCHANGED <<up, rpc, stop, readyNum, user, failed, loads>>

-----------------------------------------------------------------------------
(* RPC threads: worker *)

ReadyUncounted(w) ==
    /\ rpc[w] = "setup"
    /\ rpc' = [rpc EXCEPT ![w] = "polling"]
    /\ UNCHANGED <<pc, up, stop, readyNum, device, user, failed, loads>>

(* The callbacks and receive buffers are in place. *)
Ready(w) ==
    /\ rpc[w] = "setup"
    /\ rpc' = [rpc EXCEPT ![w] = "polling"]
    /\ readyNum' = readyNum + 1
    /\ UNCHANGED <<pc, up, stop, device, user, failed, loads>>

(* .expect("failed to create server UD") *)
SetupFails(w) ==
    /\ rpc[w] = "setup"
    /\ rpc' = [rpc EXCEPT ![w] = "dead"]
    /\ UNCHANGED <<pc, up, stop, readyNum, device, user, failed, loads>>

Request(w, op) ==
    /\ rpc[w] = "polling" /\ w \notin stop /\ op \in {"query", "give"}
    /\ rpc' = [rpc EXCEPT ![w] = op]
    /\ UNCHANGED <<pc, up, stop, readyNum, device, user, failed, loads>>

(* The handler returns.  What a dropped service does to its user is        *)
(* undefined; without the caller pool .expect(...) never lets it get here. *)
Answered(w) ==
    /\ rpc[w] \in Ops /\ (rpc[w] = "give" => "callers" \in up)
    /\ rpc' = [rpc EXCEPT ![w] = "polling"]
    /\ UNCHANGED <<pc, up, stop, readyNum, device, user, failed, loads>>

(* The handler panics: a service is missing, get_ss(..).unwrap() finds no  *)
(* session, or the RDMA read ends in unimplemented!().                     *)
Panics(w) ==
    /\ rpc[w] \in Ops /\ (rpc[w] = "give" \/ ~(Needs[rpc[w]] \subseteq up))
    /\ rpc' = [rpc EXCEPT ![w] = "dead"]
    /\ UNCHANGED <<pc, up, stop, readyNum, device, user, failed, loads>>

(* The loop ends: should_stop() is asked before every poll. *)
Leave(w) ==
    /\ rpc[w] = "polling" /\ w \in stop
    /\ rpc' = [rpc EXCEPT ![w] = "none"]
    /\ UNCHANGED <<pc, up, stop, readyNum, device, user, failed, loads>>

-----------------------------------------------------------------------------
(* Users of the device *)

(* The kernel opens no file of a module that is being removed. *)
OpenFile(u) ==
    /\ user[u] = "out" /\ device /\ pc = "loaded"
    /\ user' = [user EXCEPT ![u] = "open"]
    /\ UNCHANGED <<pc, up, rpc, stop, readyNum, device, failed, loads>>

Syscall(u) ==
    /\ \/ user[u] = "open" /\ user' = [user EXCEPT ![u] = "syscall"]
       \/ user[u] = "syscall" /\ user' = [user EXCEPT ![u] = "open"]
       \/ user[u] = "open" /\ user' = [user EXCEPT ![u] = "out"]
    /\ UNCHANGED <<pc, up, rpc, stop, readyNum, device, failed, loads>>

-----------------------------------------------------------------------------
Loading == InitMitosis \/ StartRpc \/ InitCallers \/ Barrier
           \/ InitLocks \/ InitIds \/ AddDevice
Unloading == DropLocks \/ DropIds \/ EndInstance \/ RemoveDevice
             \/ \E w \in RpcThreads : StopThread(w)
Runs(w) == Ready(w) \/ SetupFails(w) \/ Answered(w) \/ Panics(w) \/ Leave(w)

Next ==
    \/ Insmod \/ Loading \/ Rmmod \/ Unloading
    \/ \E w \in RpcThreads : Runs(w) \/ JoinDead(w) \/ \E op \in Ops : Request(w, op)
    \/ \E u \in Users : OpenFile(u) \/ Syscall(u)

Spec == Init /\ [][Next]_vars

(* insmod and rmmod, once begun, and the RPC threads keep running. *)
FairSpec ==
    /\ Spec
    /\ WF_vars(Loading) /\ WF_vars(Unloading)
    /\ \A w \in RpcThreads : WF_vars(Runs(w))

-----------------------------------------------------------------------------
(* Properties *)

(* A system call finds every service initialised, in every load of the     *)
(* module - unless start_dmerge had failed: its result is ignored and the  *)
(* device is registered all the same.                                      *)
SyscallsReady ==
    \A u \in Users : user[u] = "syscall" /\ ~failed => Needs["syscall"] \subseteq up

(* While the module is loaded, the RPC threads have what they need too.    *)
RpcReadyWhenLoaded ==
    pc = "loaded" => \A w \in RpcThreads :
        rpc[w] \in Ops => Needs[rpc[w]] \subseteq up

(* When rmmod has returned nothing of the module is left: no service is    *)
(* initialised, no RPC thread runs, no user has the device open.  The code *)
(* of the module is freed then.                                            *)
NothingLeft ==
    pc = "unloaded" => /\ up = {} /\ ~device
                       /\ \A w \in RpcThreads : rpc[w] = "none"
                       /\ \A u \in Users : user[u] = "out"

SomeDead == \E w \in RpcThreads : rpc[w] = "dead"

(* insmod does not spin in wait_handlers_ready_barrier for ever unless an  *)
(* RPC thread died, and rmmod comes to its end unless one died: requests,  *)
(* however many, cannot hold it up, but a handler that panics can.         *)
LoadEnds ==
    /\ pc = "mitosis" ~> pc \in {"loaded", "gone"} \/ SomeDead
    /\ pc = "dropLocks" ~> pc = "unloaded" \/ SomeDead
=============================================================================
