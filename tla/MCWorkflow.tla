---------------------------- MODULE MCWorkflow ------------------------------
(* Deployments of the workflows. *)
EXTENDS Workflow

(* n parallel services with the IDs 0 .. n - 1, one process per stage. *)
Deploy(app, protocol, n, p, l) ==
    [app |-> app, protocol |-> protocol, num |-> n, ids |-> [i \in 1 .. n |-> i - 1],
     procs |-> 1, pings |-> p, loop |-> l, resident |-> TRUE, faults |-> 0, dups |-> 0]

(* Two chains of workflows at the same time. *)
Chains == {Deploy("wordcount", "RPC", 3, 2, 0), Deploy("wordcount", "ES", 2, 2, 1),
           Deploy("finra", "ES", 2, 2, 1),      Deploy("finra", "RPC", 2, 2, 1),
           Deploy("ml", "ES", 2, 2, 1),         Deploy("ml", "RPC", 4, 1, 1),
           Deploy("digits", "RRPC", 3, 2, 0),   Deploy("digits", "RPC", 2, 2, 1),
           Deploy("micro", "ES", 2, 2, 1),      Deploy("micro", "RPC", 3, 1, 1),
           Deploy("thpt", "DMERGE", 1, 3, 0),   Deploy("thpt", "RPC", 1, 2, 0)}

(* One chain, in which each workflow replaces the objects of the one       *)
(* before.                                                                 *)
Objects == {Deploy("wordcount", "DMERGE", 3, 1, 2), Deploy("finra", "DMERGE_PUSH", 2, 1, 2),
            Deploy("ml", "DMERGE", 4, 1, 1),        Deploy("digits", "DMERGE", 3, 1, 2),
            Deploy("micro", "DMERGE_PUSH", 2, 1, 2)}

(* Configurations that do not work: a protocol the functions do not agree  *)
(* on, objects that are replaced too early or lie outside the registered   *)
(* pages, bundles that do not come out even, more predictors than rows,    *)
(* two services with the same ID (as trainer-3 and trainer-5 in            *)
(* ml-pipeline/service.yaml), a barrier in two processes.                  *)
Broken == {Deploy("finra", "RRPC", 2, 1, 0), Deploy("ml", "RRPC", 2, 1, 0),
           Deploy("micro", "RRPC", 2, 1, 0), Deploy("thpt", "RRPC", 1, 2, 0),
           Deploy("digits", "DMERGE", 2, 2, 0), Deploy("ml", "RPC", 3, 1, 1),
           Deploy("digits", "DMERGE", 6, 1, 0),
           [Deploy("ml", "RPC", 4, 1, 0) EXCEPT !.ids[4] = 1],
           [Deploy("ml", "DMERGE", 2, 1, 1) EXCEPT !.resident = FALSE],
           [Deploy("wordcount", "RPC", 2, 2, 0) EXCEPT !.procs = 2]}

(* Lost events, crashes, failed pulls; events delivered twice. *)
Faulty == {[Deploy("wordcount", "DMERGE", 2, 1, 1) EXCEPT !.faults = 2],
           [Deploy("finra", "DMERGE", 2, 1, 1) EXCEPT !.faults = 2],
           [Deploy("digits", "RPC", 2, 2, 0) EXCEPT !.faults = 2],
           [Deploy("ml", "DMERGE", 2, 1, 1) EXCEPT !.faults = 1],
           [Deploy("finra", "RPC", 2, 1, 1) EXCEPT !.dups = 1],
           [Deploy("wordcount", "RPC", 2, 1, 1) EXCEPT !.dups = 1]}

All == Chains \cup Objects \cup Broken \cup Faulty

(* The mappers of wordcount put their results under the same key. *)
OneStore == {Deploy("wordcount", "ES", 2, 1, 0)}
=============================================================================
