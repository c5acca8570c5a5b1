--------------------------- MODULE LifecycleProofs --------------------------
(***************************************************************************)
(* Proofs about Lifecycle, for any number of RPC threads, users and loads. *)
(***************************************************************************)
EXTENDS Lifecycle, FiniteSetTheorems, TLAPS

-----------------------------------------------------------------------------
(* The inductive invariant *)

Waiting == {w \in RpcThreads : rpc[w] = "setup"}

(* RPC_HANDLER_READY_NUM counts the threads that have left their setup. *)
CountBounded ==
    /\ readyNum \in Nat
    /\ readyNum + Cardinality(Waiting) <= Cardinality(RpcThreads)
    /\ pc \in {"mitosis", "rpc"} => readyNum = 0

(* The services that are up at each place of insmod and rmmod. *)
ServicesOf(place) ==
    CASE place = "mitosis"            -> {"sh_service"}
      [] place \in {"rpc", "callers"} -> {"sh_service", "mitosis"}
      [] place \in {"barrier", "locks"} -> {"sh_service", "mitosis", "callers"}
      [] place = "ids"                -> Services \ {"ids"}
      [] place \in {"device", "loaded"} -> Services
      [] place = "dropLocks"          -> Services \ {"sh_service"}
      [] place = "dropIds"            -> {"mitosis", "callers", "ids"}
      [] place = "end"                -> {"mitosis", "callers"}
      [] OTHER                        -> {}

(* A start that failed has set up the heap service only, and no thread. *)
ServicesKept ==
    pc # "gone" =>
        IF failed /\ pc # "unloaded"
        THEN /\ pc \in {"device", "loaded", "dropLocks", "dropIds", "end", "undevice"}
             /\ up = IF pc \in {"device", "loaded"} THEN {"sh_service"} ELSE {}
        ELSE up = ServicesOf(pc)

ThreadsKept ==
    \/ pc \in {"unloaded", "mitosis", "rpc", "undevice"}
    \/ failed /\ pc # "gone"
    => \A w \in RpcThreads : rpc[w] = "none"

(* The device is there from the end of insmod to the end of rmmod, and     *)
(* files are open only in between.                                         *)
DeviceKept ==
    /\ device <=> pc \in {"loaded", "dropLocks", "dropIds", "end", "undevice"}
    /\ pc # "loaded" => \A u \in Users : user[u] = "out"

LifeInv ==
    TypeOK /\ CountBounded /\ ServicesKept /\ ThreadsKept /\ DeviceKept

-----------------------------------------------------------------------------
(* The count of ready threads *)

LEMMA WaitingFinite ==
    /\ IsFiniteSet(Waiting) /\ Cardinality(Waiting) \in Nat
    /\ Cardinality(RpcThreads) \in Nat
    /\ Cardinality(Waiting) <= Cardinality(RpcThreads)
<1>1. Waiting \subseteq RpcThreads /\ IsFiniteSet(RpcThreads)
  BY ThreadsAssumption DEF Waiting
<1>2. IsFiniteSet(Waiting) /\ Cardinality(Waiting) <= Cardinality(RpcThreads)
  BY <1>1, FS_Subset
<1> QED
  BY <1>1, <1>2, FS_CardinalityType

(* A thread that leaves its setup, for the loop or for good, makes room    *)
(* for one count more.                                                     *)
LEMMA WaitingShrinks ==
    ASSUME TypeOK, NEW w \in RpcThreads, rpc[w] = "setup",
           NEW s, s # "setup", rpc' = [rpc EXCEPT ![w] = s]
    PROVE  Cardinality(Waiting)' = Cardinality(Waiting) - 1
<1>1. w \in Waiting /\ Waiting' = Waiting \ {w}
  BY DEF Waiting, TypeOK
<1>2. Cardinality(Waiting \ {w}) = Cardinality(Waiting) - 1
  BY <1>1, WaitingFinite, FS_RemoveElement
<1> QED
  BY <1>1, <1>2

LEMMA WaitingSame ==
    ASSUME TypeOK, NEW w \in RpcThreads, rpc[w] # "setup",
           NEW s, s # "setup", rpc' = [rpc EXCEPT ![w] = s]
    PROVE  Waiting' = Waiting
BY DEF Waiting, TypeOK

LEMMA CountStep ==
    ASSUME TypeOK, CountBounded, ThreadsKept, [Next]_vars
    PROVE  CountBounded'
<1> USE WaitingFinite
<1>1. ASSUME UNCHANGED <<rpc, readyNum>>,
             pc' \in {"mitosis", "rpc"} => pc \in {"mitosis", "rpc"}
      PROVE  CountBounded'
  <2>1. Waiting' = Waiting
    BY <1>1 DEF Waiting
  <2> QED
    BY <1>1, <2>1 DEF CountBounded
<1>2. CASE Insmod
  <2>1. Waiting' = Waiting /\ readyNum' = 0
    BY <1>2 DEF Insmod, Waiting
  <2> QED
    BY <2>1 DEF CountBounded
<1>3. CASE StartRpc
  <2>1. CASE rpc' = rpc
    BY <1>1, <1>3, <2>1 DEF StartRpc, Step
  <2>2. CASE rpc' # rpc
    <3>1. /\ pc = "rpc" /\ pc' = "callers" /\ readyNum' = readyNum
          /\ rpc' = [w \in RpcThreads |-> "setup"]
      BY <1>3, <2>2 DEF StartRpc, Step
    <3>2. Waiting' = RpcThreads /\ readyNum' = 0
      BY <3>1 DEF Waiting, CountBounded
    <3> QED
      BY <3>1, <3>2 DEF CountBounded
  <2> QED
    BY <2>1, <2>2
<1>4. CASE InitMitosis \/ InitCallers \/ Barrier \/ InitLocks \/ InitIds
           \/ AddDevice \/ Rmmod \/ Unloading
  BY <1>1, <1>4 DEF InitMitosis, InitCallers, Barrier, InitLocks, InitIds,
        AddDevice, Rmmod, Unloading, DropLocks, DropIds, EndInstance,
        RemoveDevice, StopThread, Step
<1>5. ASSUME NEW w \in RpcThreads, Ready(w)
      PROVE  CountBounded'
  <2>1. Cardinality(Waiting)' = Cardinality(Waiting) - 1
    BY <1>5, WaitingShrinks DEF Ready
  <2>2. readyNum' = readyNum + 1 /\ readyNum \in Nat /\ pc' = pc
    BY <1>5 DEF Ready, CountBounded
  <2>3. pc \notin {"mitosis", "rpc"}
    BY <1>5 DEF Ready, ThreadsKept
  <2> QED
    BY <2>1, <2>2, <2>3 DEF CountBounded
<1>6. ASSUME NEW w \in RpcThreads, SetupFails(w)
      PROVE  CountBounded'
  <2>1. Cardinality(Waiting)' = Cardinality(Waiting) - 1
    BY <1>6, WaitingShrinks DEF SetupFails
  <2>2. readyNum' = readyNum /\ readyNum \in Nat /\ pc' = pc
    BY <1>6 DEF SetupFails, CountBounded
  <2> QED
    BY <2>1, <2>2 DEF CountBounded
<1>7. ASSUME NEW w \in RpcThreads,
             Answered(w) \/ Panics(w) \/ Leave(w) \/ JoinDead(w)
             \/ \E op \in Ops : Request(w, op)
      PROVE  CountBounded'
  <2>1. Waiting' = Waiting
    BY <1>7, WaitingSame DEF Answered, Panics, Leave, JoinDead, Request, Ops
  <2>2. readyNum' = readyNum /\ pc' = pc
    BY <1>7 DEF Answered, Panics, Leave, JoinDead, Request
  <2> QED
    BY <2>1, <2>2 DEF CountBounded
<1>8. CASE UNCHANGED vars \/ \E u \in Users : OpenFile(u) \/ Syscall(u)
  BY <1>1, <1>8 DEF vars, OpenFile, Syscall
<1> QED
  BY <1>2, <1>3, <1>4, <1>5, <1>6, <1>7, <1>8 DEF Next, Loading, Runs

-----------------------------------------------------------------------------
(* The rest of the invariant *)

LEMMA LifeInit == Init => LifeInv
<1> SUFFICES ASSUME Init PROVE LifeInv
  OBVIOUS
<1> USE WaitingFinite, ThreadsAssumption DEF Init
<1>1. CountBounded
  BY DEF CountBounded
<1>2. TypeOK
  <2>1. device \in BOOLEAN /\ failed \in BOOLEAN
    BY Zenon
  <2>2. readyNum \in 0 .. Cardinality(RpcThreads) /\ loads \in 0 .. MaxLoads
    OBVIOUS
  <2> QED
    BY <2>1, <2>2 DEF TypeOK
<1>3. ServicesKept /\ ThreadsKept /\ DeviceKept
  BY DEF ServicesKept, ServicesOf, ThreadsKept, DeviceKept
<1> QED
  BY <1>1, <1>2, <1>3 DEF LifeInv

LEMMA TypeStep ==
    ASSUME TypeOK, CountBounded', [Next]_vars
    PROVE  TypeOK'
<1> USE WaitingFinite, ThreadsAssumption
<1>1. readyNum' \in 0 .. Cardinality(RpcThreads)
  <2>1. Waiting' \subseteq RpcThreads
    BY DEF Waiting
  <2>2. Cardinality(Waiting') \in Nat
    BY <2>1, FS_Subset, FS_CardinalityType
  <2> QED
    BY <2>2 DEF CountBounded
<1>2. CASE Insmod \/ Loading
  <2>1. CASE Insmod
    <3>1. failed' \in BOOLEAN
      BY <2>1, Zenon DEF Insmod
    <3>2. loads' \in 0 .. MaxLoads
      BY <2>1 DEF Insmod, TypeOK
    <3> QED
      BY <1>1, <2>1, <3>1, <3>2 DEF TypeOK, Insmod, Step, Services
  <2>2. CASE InitMitosis
    <3>1. failed' \in BOOLEAN
      BY <2>2, Zenon DEF InitMitosis, TypeOK
    <3> QED
      BY <1>1, <2>2, <3>1 DEF TypeOK, InitMitosis, Step, Services
  <2>3. CASE AddDevice
    <3>1. device' \in BOOLEAN
      BY <2>3, Zenon DEF AddDevice, TypeOK
    <3> QED
      BY <1>1, <2>3, <3>1 DEF TypeOK, AddDevice, Step
  <2>4. CASE StartRpc \/ InitCallers \/ Barrier \/ InitLocks \/ InitIds
    BY <1>1, <2>4 DEF TypeOK, StartRpc, InitCallers, Barrier, InitLocks,
          InitIds, Step, Services
  <2> QED
    BY <1>2, <2>1, <2>2, <2>3, <2>4 DEF Loading
<1>3. CASE Rmmod \/ Unloading
  BY <1>1, <1>3 DEF TypeOK, Rmmod, Unloading, DropLocks, DropIds, StopThread,
        EndInstance, RemoveDevice, Step
<1>4. ASSUME NEW w \in RpcThreads, Runs(w) \/ JoinDead(w) \/ \E op \in Ops : Request(w, op)
      PROVE  TypeOK'
  BY <1>1, <1>4 DEF TypeOK, Runs, Ready, SetupFails, Request, Answered, Panics,
        Leave, JoinDead
<1>5. ASSUME NEW u \in Users, OpenFile(u) \/ Syscall(u)
      PROVE  TypeOK'
  BY <1>1, <1>5 DEF TypeOK, OpenFile, Syscall
<1>6. CASE UNCHANGED vars
  BY <1>6 DEF TypeOK, vars
<1> QED
  BY <1>2, <1>3, <1>4, <1>5, <1>6 DEF Next

LEMMA ServicesStep ==
    ASSUME TypeOK, ServicesKept, [Next]_vars
    PROVE  ServicesKept'
<1> USE DEF TypeOK, ServicesKept, ServicesOf, Services, Step
<1>1. CASE Insmod
  BY <1>1 DEF Insmod
<1>2. CASE InitMitosis
  BY <1>2 DEF InitMitosis
<1>3. CASE StartRpc \/ InitCallers
  BY <1>3 DEF StartRpc, InitCallers
<1>4. CASE Barrier \/ InitLocks
  BY <1>4 DEF Barrier, InitLocks
<1>5. CASE InitIds \/ AddDevice
  BY <1>5 DEF InitIds, AddDevice
<1>6. CASE Rmmod \/ DropLocks
  BY <1>6 DEF Rmmod, DropLocks
<1>7. CASE DropIds
  BY <1>7 DEF DropIds
<1>8. CASE EndInstance \/ RemoveDevice \/ \E w \in RpcThreads : StopThread(w)
  BY <1>8 DEF EndInstance, RemoveDevice, StopThread
<1>9. ASSUME UNCHANGED <<pc, up, failed>>
      PROVE  ServicesKept'
  BY <1>9
<1>10. ASSUME NEW w \in RpcThreads, Runs(w) \/ JoinDead(w) \/ \E op \in Ops : Request(w, op)
       PROVE  UNCHANGED <<pc, up, failed>>
  BY <1>10 DEF Runs, Ready, SetupFails, Request, Answered, Panics,
        Leave, JoinDead
<1>11. ASSUME NEW u \in Users, OpenFile(u) \/ Syscall(u)
       PROVE  UNCHANGED <<pc, up, failed>>
  BY <1>11 DEF OpenFile, Syscall
<1>12. CASE UNCHANGED vars
  BY <1>9, <1>12 DEF vars
<1> QED
  BY <1>1, <1>2, <1>3, <1>4, <1>5, <1>6, <1>7, <1>8, <1>9, <1>10, <1>11, <1>12
  DEF Next, Loading, Unloading

LEMMA ThreadsStep ==
    ASSUME TypeOK, ServicesKept, ThreadsKept, [Next]_vars
    PROVE  ThreadsKept'
<1> USE DEF TypeOK, ThreadsKept, Step
<1>1. CASE Insmod \/ InitMitosis
  BY <1>1 DEF Insmod, InitMitosis
<1>2. CASE StartRpc \/ InitCallers \/ Barrier
  BY <1>2 DEF StartRpc, InitCallers, Barrier, ServicesKept
<1>3. CASE InitLocks \/ InitIds \/ AddDevice
  BY <1>3 DEF InitLocks, InitIds, AddDevice
<1>4. CASE Rmmod \/ Unloading
  BY <1>4 DEF Rmmod, Unloading, DropLocks, DropIds, StopThread, EndInstance,
        RemoveDevice
<1>5. ASSUME NEW w \in RpcThreads, Runs(w) \/ JoinDead(w) \/ \E op \in Ops : Request(w, op)
      PROVE  ThreadsKept'
  BY <1>5 DEF Runs, Ready, SetupFails, Request, Answered, Panics,
        Leave, JoinDead, Ops
<1>6. ASSUME NEW u \in Users, OpenFile(u) \/ Syscall(u)
      PROVE  ThreadsKept'
  BY <1>6 DEF OpenFile, Syscall
<1>7. CASE UNCHANGED vars
  BY <1>7 DEF vars
<1> QED
  BY <1>1, <1>2, <1>3, <1>4, <1>5, <1>6, <1>7 DEF Next, Loading

LEMMA DeviceStep ==
    ASSUME TypeOK, DeviceKept, [Next]_vars
    PROVE  DeviceKept'
<1> USE DEF TypeOK, DeviceKept, Step
<1>1. CASE Insmod \/ Loading
  BY <1>1 DEF Insmod, Loading, InitMitosis, StartRpc, InitCallers, Barrier,
        InitLocks, InitIds, AddDevice
<1>2. CASE Rmmod \/ Unloading
  BY <1>2 DEF Rmmod, Unloading, DropLocks, DropIds, StopThread, EndInstance,
        RemoveDevice
<1>3. ASSUME NEW w \in RpcThreads, Runs(w) \/ JoinDead(w) \/ \E op \in Ops : Request(w, op)
      PROVE  DeviceKept'
  BY <1>3 DEF Runs, Ready, SetupFails, Request, Answered, Panics,
        Leave, JoinDead
<1>4. ASSUME NEW u \in Users, OpenFile(u) \/ Syscall(u)
      PROVE  DeviceKept'
  BY <1>4 DEF OpenFile, Syscall
<1>5. CASE UNCHANGED vars
  BY <1>5 DEF vars
<1> QED
  BY <1>1, <1>2, <1>3, <1>4, <1>5 DEF Next

LEMMA LifeInvariant == Spec => []LifeInv
<1>1. LifeInv /\ [Next]_vars => LifeInv'
  BY CountStep, TypeStep, ServicesStep, ThreadsStep, DeviceStep DEF LifeInv
<1> QED
  BY <1>1, LifeInit, PTL DEF Spec

-----------------------------------------------------------------------------
(* Types; among them that RPC_HANDLER_READY_NUM never exceeds the number   *)
(* of RPC threads, in the first load of the module and in every later one: *)
(* each thread counts itself once, and Insmod starts from 0 again.         *)
THEOREM LifeTypeCorrect == Spec => []TypeOK
BY LifeInvariant, PTL DEF LifeInv

(* A system call never meets a service that start_dmerge has not set up or *)
(* end_dmerge has dropped, unless start_dmerge failed and nobody looked.   *)
THEOREM SyscallsCorrect == Spec => []SyscallsReady
<1>1. LifeInv => SyscallsReady
  BY DEF LifeInv, TypeOK, ServicesKept, ServicesOf, DeviceKept, SyscallsReady,
         Needs
<1> QED
  BY <1>1, LifeInvariant, PTL

(* RPC threads poll before insmod has set up the locks; once the module is *)
(* loaded they find everything, also when start_dmerge failed, since no    *)
(* thread has been spawned then.                                           *)
THEOREM RpcCorrect == Spec => []RpcReadyWhenLoaded
<1>1. LifeInv => RpcReadyWhenLoaded
  <2> SUFFICES ASSUME LifeInv, pc = "loaded", NEW w \in RpcThreads, rpc[w] \in Ops
               PROVE  Needs[rpc[w]] \subseteq up
    BY DEF RpcReadyWhenLoaded
  <2>1. ~failed
    BY DEF LifeInv, ThreadsKept, Ops
  <2>2. up = Services
    BY <2>1 DEF LifeInv, ServicesKept, ServicesOf
  <2> QED
    BY <2>2 DEF Needs, Ops, Services
<1> QED
  BY <1>1, LifeInvariant, PTL

(* After rmmod nothing of the module is left, whatever happened to its     *)
(* start: the threads are joined before their code is freed.               *)
THEOREM UnloadCorrect == Spec => []NothingLeft
<1>1. LifeInv => NothingLeft
  BY DEF LifeInv, TypeOK, ServicesKept, ServicesOf, ThreadsKept, DeviceKept,
         NothingLeft
<1> QED
  BY <1>1, LifeInvariant, PTL
=============================================================================
