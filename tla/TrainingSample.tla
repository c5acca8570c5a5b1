--------------------------- MODULE TrainingSample ---------------------------
(***************************************************************************)
(* The sample workflow samples/knative/python/ml-pipeline: the splitter    *)
(* divides the hyper-parameters into bundles, trainer ID trains the models *)
(* of bundle ID in child processes, the reducer reports on every trainer's *)
(* event.  Flask serves requests in threads, so that workflows overlap; a  *)
(* job is the work of one trainer for one workflow.                        *)
(*                                                                         *)
(* All children of a run train the same hyper-parameter.  The model of     *)
(* child t goes through a file of the trainer and into an object of S3,    *)
(* both named after the bundle and t only.                                 *)
(***************************************************************************)
EXTENDS Naturals, FiniteSets

CONSTANTS
    HyperParams,  \* length of list_hyper_params: 16
    Threads,      \* j["threads"]: 6
    Top,          \* accuracies the reducer reports: 10
    Deployments,  \* [num, wfs]: MAPPER_NUM and trainers; pings
    MaxFaults     \* bound: children that fail

ASSUME TrainingAssumption ==
    /\ HyperParams \in Nat \ {0} /\ Threads \in Nat \ {0} /\ Top \in Nat /\ MaxFaults \in Nat
    /\ \A d \in Deployments : d.num \in Nat \ {0} /\ d.wfs \in Nat

VARIABLES
    dep,       \* it never changes
    job,       \* job[j]: "none", "waiting", "started", "running", "answered",
               \* "raised"
    run,       \* run[j]: hyper-parameter of the bundle that is trained
    child,     \* child[j][h][t]: "idle", "training", "saved", "uploaded", "ended",
               \* "failed"
    file,      \* file[i][t]: the model in the trainer's tmp directory
    object,    \* object[i][t]: the model in S3
    uploads,   \* history: <<job, hyper-parameter>> a child has uploaded
    results,   \* results[j]: keys of return_dict
    reported,  \* reported[j]: what the reducer took from the event of a job
    faults

vars == <<dep, job, run, child, file, object, uploads, results, reported, faults>>

Items    == 1 .. HyperParams
Trainers == 0 .. dep.num - 1
Jobs     == (1 .. dep.wfs) \X Trainers
Children == 1 .. Threads
Models   == {<< >>} \cup {<<j, h>> : j \in Jobs, h \in Items}

ID(j) == j[2]

(* Mutant: > instead of >=. *)
BundlesLate(num) ==
    LET size == CHOOSE count \in 1 .. HyperParams + 1 : /\ count * num > HyperParams
                                                        /\ (count - 1) * num <= HyperParams
    IN  [b \in 0 .. (HyperParams \div size) - 1 |-> b * size + 1 .. (b + 1) * size]

(* splitter: a bundle is closed as soon as count >= 16 / num; what is left *)
(* over when the list ends is dropped.                                     *)
Bundles(num) ==
    LET size == CHOOSE count \in Items : /\ count * num >= HyperParams
                                         /\ (count - 1) * num < HyperParams
    IN  [b \in 0 .. (HyperParams \div size) - 1 |-> b * size + 1 .. (b + 1) * size]

Bundle(j) == Bundles(dep.num)[ID(j)]

TypeOK ==
    /\ dep \in Deployments
    /\ job \in [Jobs -> {"none", "waiting", "started", "running", "answered", "raised"}]
    /\ run \in [Jobs -> 0 .. HyperParams]
    /\ child \in [Jobs -> [Items -> [Children ->
                   {"idle", "training", "saved", "uploaded", "ended", "failed"}]]]
    /\ file \in [Trainers -> [Children -> Models]]
    /\ object \in [Trainers -> [Children -> Models]]
    /\ uploads \subseteq Jobs \X Items
    /\ results \in [Jobs -> SUBSET Items] /\ reported \in [Jobs -> SUBSET Items]
    /\ \A j \in Jobs : Cardinality(reported[j]) <= Top
    /\ faults \in 0 .. MaxFaults

Init ==
    /\ dep \in Deployments
    /\ job = [j \in Jobs |-> "none"]
    /\ run = [j \in Jobs |-> 0]
    /\ child = [j \in Jobs |-> [h \in Items |-> [t \in Children |-> "idle"]]]
    /\ file = [i \in Trainers |-> [t \in Children |-> << >>]]
    /\ object = [i \in Trainers |-> [t \in Children |-> << >>]]
    /\ uploads = {}
    /\ results = [j \in Jobs |-> {}] /\ reported = [j \in Jobs |-> {}]
    /\ faults = MaxFaults

-----------------------------------------------------------------------------
(* splitter: the training data, the same for all workflows, go to S3, and  *)
(* the event with the bundles goes to every trainer.                       *)
Split(wf) ==
    /\ \A i \in Trainers : job[<<wf, i>>] = "none"
    /\ job' = [j \in Jobs |-> IF j[1] = wf THEN "waiting" ELSE job[j]]
    /\ UNCHANGED <<dep, run, child, file, object, uploads, results, reported, faults>>

(* trainer *)

(* meta['detail']['indeces'][int(id)] *)
Start(j) ==
    /\ job[j] = "waiting"
    /\ job' = [job EXCEPT ![j] = IF ID(j) \in DOMAIN Bundles(dep.num)
                                 THEN "started" ELSE "raised"]
    /\ UNCHANGED <<dep, run, child, file, object, uploads, results, reported, faults>>

Ended(j, h, t) == child[j][h][t] \in {"ended", "failed"}

(* Mutant: only the first child is joined. *)
JoinedFirst(j) == job[j] = "running" /\ Ended(j, run[j], 1)

(* Mutant: a child that has failed is waited for. *)
JoinedWell(j) == job[j] = "running" /\ \A t \in Children : child[j][run[j]][t] = "ended"

(* join() returns for every child, however it has ended. *)
Joined(j) == job[j] = "running" /\ \A t \in Children : Ended(j, run[j], t)

Left(j) == {h \in Bundle(j) : h > run[j]}

(* The loop starts the children of the next run. *)
StartRun(j) ==
    /\ job[j] = "started" \/ Joined(j)
    /\ Left(j) # {}
    /\ job' = [job EXCEPT ![j] = "running"]
    /\ LET next == CHOOSE h \in Left(j) : \A g \in Left(j) : h <= g
       IN  /\ run' = [run EXCEPT ![j] = next]
           /\ child' = [child EXCEPT ![j][next] = [t \in Children |-> "training"]]
    /\ UNCHANGED <<dep, file, object, uploads, results, reported, faults>>

(* The event of the trainer carries return_dict. *)
Answer(j) ==
    /\ Joined(j) /\ Left(j) = {}
    /\ job' = [job EXCEPT ![j] = "answered"]
    /\ UNCHANGED <<dep, run, child, file, object, uploads, results, reported, faults>>

-----------------------------------------------------------------------------
(* train_tree, in a process of its own *)
Becomes(j, h, t, state) == child' = [child EXCEPT ![j][h][t] = state]

Save(j, h, t) ==
    /\ child[j][h][t] = "training"
    /\ Becomes(j, h, t, "saved")
    /\ file' = [file EXCEPT ![ID(j)][t] = <<j, h>>]
    /\ UNCHANGED <<dep, job, run, object, uploads, results, reported, faults>>

(* fput_object reads the file again. *)
Upload(j, h, t) ==
    /\ child[j][h][t] = "saved"
    /\ Becomes(j, h, t, "uploaded")
    /\ object' = [object EXCEPT ![ID(j)][t] = file[ID(j)][t]]
    /\ uploads' = uploads \cup {<<j, h>>}
    /\ UNCHANGED <<dep, job, run, file, results, reported, faults>>

(* Mutant: the accuracy is recorded before the model is stored. *)
RecordEarly(j, h, t) ==
    /\ child[j][h][t] = "saved"
    /\ Becomes(j, h, t, "ended")
    /\ results' = [results EXCEPT ![j] = @ \cup {h}]
    /\ UNCHANGED <<dep, job, run, file, object, uploads, reported, faults>>

Record(j, h, t) ==
    /\ child[j][h][t] = "uploaded"
    /\ Becomes(j, h, t, "ended")
    /\ results' = [results EXCEPT ![j] = @ \cup {h}]
    /\ UNCHANGED <<dep, job, run, file, object, uploads, reported, faults>>

(* A child raises; nobody looks at its exit code. *)
Fail(j, h, t) ==
    /\ faults > 0 /\ faults' = faults - 1
    /\ child[j][h][t] \in {"training", "saved"}
    /\ Becomes(j, h, t, "failed")
    /\ UNCHANGED <<dep, job, run, file, object, uploads, results, reported>>

-----------------------------------------------------------------------------
(* Mutant: all accuracies are reported. *)
ReduceAll(j) ==
    /\ job[j] = "answered" /\ reported[j] = {}
    /\ reported' = [reported EXCEPT ![j] = results[j]]
    /\ UNCHANGED <<dep, job, run, child, file, object, uploads, results, faults>>

(* reduce: the best ten of one trainer; which they are is left open.       *)
Reduce(j) ==
    /\ job[j] = "answered" /\ reported[j] = {}
    /\ \E best \in SUBSET results[j] :
          /\ Cardinality(best) = IF Cardinality(results[j]) < Top
                                 THEN Cardinality(results[j]) ELSE Top
          /\ reported' = [reported EXCEPT ![j] = best]
    /\ UNCHANGED <<dep, job, run, child, file, object, uploads, results, faults>>

Next ==
    \/ \E wf \in 1 .. dep.wfs : Split(wf)
    \/ \E j \in Jobs :
        \/ Start(j) \/ StartRun(j) \/ Answer(j) \/ Reduce(j)
        \/ \E h \in Items, t \in Children :
              Save(j, h, t) \/ Upload(j, h, t) \/ Record(j, h, t) \/ Fail(j, h, t)

Spec == Init /\ [][Next]_vars

(* The pings come, Knative delivers every event, training ends. *)
FairSpec == Spec /\ WF_vars(Next)

-----------------------------------------------------------------------------
(* Properties *)

Fits == HyperParams % dep.num = 0 /\ faults = MaxFaults

(* functions.py:245, the joins: a trainer that has answered, or started    *)
(* the next run, has no child left over; a late one would overwrite the    *)
(* model of the later run, and its accuracy would miss the event.          *)
NoLateChild ==
    \A j \in Jobs : \A h \in Items, t \in Children :
        h < run[j] \/ job[j] = "answered" =>
            child[j][h][t] \in {"idle", "ended", "failed"}

(* Every accuracy that is reported is of a hyper-parameter of the          *)
(* trainer's own bundle, and a child of that workflow has been through     *)
(* fput_object for it, which comes before return_dict.                     *)
ReportStored ==
    \A j \in Jobs : \A h \in reported[j] : h \in Bundle(j) /\ <<j, h>> \in uploads

(* When no child fails and the bundles come out even, no trainer raises    *)
(* and their events carry each hyper-parameter exactly once.               *)
TrainedOnce ==
    Fits => \A wf \in 1 .. dep.wfs :
        (\A i \in Trainers : job[<<wf, i>>] \in {"answered", "raised"}) =>
            \A h \in Items : Cardinality({i \in Trainers : h \in results[<<wf, i>>]}) = 1

(* The models are named after the bundle and the child: those of the last  *)
(* run remain.  True while one workflow is under way; overlapping ones     *)
(* also share the files of the trainer and upload each other's models.     *)
LastModelKept ==
    Fits /\ dep.wfs = 1 => \A j \in Jobs : job[j] = "answered" =>
        \A t \in Children : object[ID(j)][t] = <<j, run[j]>>

(* Every trainer answers or raises, also when children fail. *)
TrainersEnd == <>(\A j \in Jobs : job[j] \in {"answered", "raised"})
=============================================================================
