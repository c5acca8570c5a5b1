------------------------ MODULE RemoteMapRefinement -------------------------
(* RemoteMap keeps the promise of HeapRegistry. *)
EXTENDS RemoteMap

(* A hint is live while registered_heap holds it, and gone when it has     *)
(* been handed out but is not there.                                       *)
Status(m, k) == IF reg[m][k] # NoBuf THEN "live"
                ELSE IF k <= curId[m] THEN "gone" ELSE "fresh"

(* Callers may take an older reply after a timeout, and another thread's   *)
(* completion if threads change their CPU.                                 *)
Late == {m \in Machines : MayMigrate \/ \E c \in Cpus : <<m, c>> \in timedOut}

Registry == INSTANCE HeapRegistry WITH
    status <- [m \in Machines |-> [k \in Hints |-> Status(m, k)]],
    hint   <- private,
    mapped <- public,
    late   <- Late

(* Whatever system calls, RPC threads, losses, timeouts and late replies   *)
(* do: hints go from fresh to live to gone, a published heap stays         *)
(* available until its owner closes the file, and a pull maps the heap     *)
(* that was asked for, as long as the heap is there and no reply was late. *)
KeepsPromise == Registry!Spec
=============================================================================
