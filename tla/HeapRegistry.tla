---------------------------- MODULE HeapRegistry ----------------------------
(***************************************************************************)
(* What the kernel module promises to the processes that share heaps: a    *)
(* heap that was published can be mapped under its hint until its owner    *)
(* leaves, a hint stands for one heap for ever, and a process that maps a  *)
(* hint gets that heap and no other.                                       *)
(*                                                                         *)
(* Nothing is said of the locks, messages, buffers and sessions by which   *)
(* the module keeps the promise; that it does is shown in                  *)
(* RemoteMapRefinement.                                                    *)
(***************************************************************************)
EXTENDS Naturals

CONSTANTS
    Machines,
    Handlers,   \* processes that use the module
    Home,       \* Home[h]: the machine process h runs on
    MaxId       \* bound: hints of one machine

Hints == 1 .. MaxId

VARIABLES
    status,     \* status[m][k]: "fresh", then "live", then "gone"
    hint,       \* hint[h]: hint of the heap h has published, or 0
    mapped,     \* mapped[h]: heaps h has mapped
    late        \* machines whose calls may be answered by older replies

vars == <<status, hint, mapped, late>>

Init ==
    /\ status = [m \in Machines |-> [k \in Hints |-> "fresh"]]
    /\ hint = [h \in Handlers |-> 0]
    /\ mapped = [h \in Handlers |-> {}]
    /\ late \in SUBSET Machines

(* Hints are handed out one after the other. *)
Hand(m, k) ==
    /\ status[m][k] = "fresh"
    /\ \A j \in 1 .. k - 1 : status[m][j] # "fresh"
    /\ status' = [status EXCEPT ![m][k] = "live"]

(* h makes its heap available to the others. *)
Publish(h, k) ==
    /\ hint[h] = 0
    /\ Hand(Home[h], k)
    /\ hint' = [hint EXCEPT ![h] = k]
    /\ UNCHANGED <<mapped, late>>

(* h hands its heap to another machine, under a hint of its own ... *)
Lend(h, k) ==
    /\ Hand(Home[h], k)
    /\ UNCHANGED <<hint, mapped, late>>

(* ... which is taken back; never one that somebody has published. *)
TakeBack(m, k) ==
    /\ status[m][k] = "live"
    /\ \A h \in Handlers : Home[h] = m => hint[h] # k
    /\ status' = [status EXCEPT ![m][k] = "gone"]
    /\ UNCHANGED <<hint, mapped, late>>

(* h maps hint k of machine m and gets heap d of that machine, or bytes    *)
(* that are no heap (0).                                                   *)
Map(h, m, k, d) ==
    /\ d = 0 \/ status[m][d] # "fresh"
    /\ \/ status[m][k] = "live" /\ d = k
       \/ status[m][k] = "gone"
       \/ Home[h] \in late
    /\ mapped' = [mapped EXCEPT ![h] = @ \cup {[id |-> k, mac |-> m, heap |-> d]}]
    /\ UNCHANGED <<status, hint, late>>

(* h ends: its heap cannot be mapped any longer. *)
Leave(h) ==
    /\ status' = IF hint[h] = 0 THEN status
                 ELSE [status EXCEPT ![Home[h]][hint[h]] = "gone"]
    /\ hint' = [hint EXCEPT ![h] = 0]
    /\ mapped' = [mapped EXCEPT ![h] = {}]
    /\ UNCHANGED late

(* A call of machine m is given up; its answer may still come. *)
GiveUp(m) ==
    /\ late' = late \cup {m}
    /\ UNCHANGED <<status, hint, mapped>>

Next ==
    \/ \E h \in Handlers, k \in Hints : Publish(h, k) \/ Lend(h, k)
    \/ \E m \in Machines, k \in Hints : TakeBack(m, k)
    \/ \E h \in Handlers, m \in Machines, k \in Hints, d \in 0 .. MaxId :
          Map(h, m, k, d)
    \/ \E h \in Handlers : Leave(h)
    \/ \E m \in Machines : GiveUp(m)

Spec == Init /\ [][Next]_vars
=============================================================================
