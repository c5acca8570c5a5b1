------------------------ MODULE TrainingSampleProofs ------------------------
(***************************************************************************)
(* Proofs about TrainingSample, for any numbers of hyper-parameters,       *)
(* children, trainers, workflows and failing children.                     *)
(***************************************************************************)
EXTENDS TrainingSample, FiniteSetTheorems, TLAPS

-----------------------------------------------------------------------------
(* The inductive invariant *)

Trained == {"running", "answered"}

(* A job that is under way has a bundle, and its runs are of that bundle.  *)
RunsKept ==
    \A j \in Jobs :
        /\ job[j] \in Trained \cup {"started"} => ID(j) \in DOMAIN Bundles(dep.num)
        /\ job[j] = "raised" => ID(j) \notin DOMAIN Bundles(dep.num)
        /\ job[j] \in Trained => run[j] \in Bundle(j)
        /\ job[j] \notin Trained => run[j] = 0
        /\ job[j] = "answered" => \A h \in Bundle(j) : h <= run[j]

(* The children that have been started are those of the runs so far. *)
ChildrenKept ==
    \A j \in Jobs : \A h \in Items, t \in Children :
        child[j][h][t] # "idle" <=>
            job[j] \in Trained /\ h \in Bundle(j) /\ h <= run[j]

(* What a child has left behind. *)
ResultsKept ==
    \A j \in Jobs :
        /\ \A h \in Items, t \in Children :
             /\ child[j][h][t] \in {"uploaded", "ended"} => <<j, h>> \in uploads
             /\ child[j][h][t] = "ended" => h \in results[j]
        /\ \A h \in results[j] : h \in Bundle(j) /\ <<j, h>> \in uploads
        /\ reported[j] \subseteq results[j]

(* The models of the current run, if there is one workflow only. *)
ModelsKept ==
    /\ faults = MaxFaults => \A j \in Jobs : \A h \in Items, t \in Children :
         child[j][h][t] # "failed"
    /\ dep.wfs = 1 => \A j \in Jobs : \A h \in Items, t \in Children :
         h = run[j] =>
            /\ child[j][h][t] = "saved" => file[ID(j)][t] = <<j, h>>
            /\ child[j][h][t] \in {"uploaded", "ended"} =>
                 object[ID(j)][t] = <<j, h>>

TrainInv ==
    TypeOK /\ RunsKept /\ ChildrenKept /\ NoLateChild /\ ResultsKept /\ ModelsKept

-----------------------------------------------------------------------------
(* Bundles *)

(* The length at which the splitter closes a bundle. *)
Size(num) == CHOOSE count \in Items : /\ count * num >= HyperParams
                                      /\ (count - 1) * num < HyperParams

LEMMA SizeFacts ==
    ASSUME NEW num \in Nat \ {0}
    PROVE  /\ Size(num) \in Items
           /\ Size(num) * num >= HyperParams
           /\ (Size(num) - 1) * num < HyperParams
<1> USE TrainingAssumption
<1> DEFINE c == (HyperParams + num - 1) \div num
<1>1. c \in Nat /\ c * num <= HyperParams + num - 1 /\ HyperParams + num - 1 < (c + 1) * num
  OBVIOUS
<1>2. (c + 1) * num = c * num + num /\ (c - 1) * num = c * num - num
  BY <1>1
<1>3. c * num >= HyperParams /\ (c - 1) * num < HyperParams
  BY <1>1, <1>2
<1>4. c >= 1
  BY <1>1, <1>3
<1>5. c <= HyperParams
  <2>1. (c - 1) * num >= c - 1
    BY <1>1, <1>4
  <2> QED
    BY <1>1, <1>3, <2>1
<1>6. c \in Items
  BY <1>1, <1>4, <1>5 DEF Items
<1> HIDE DEF c
<1>7. \E count \in Items : count * num >= HyperParams /\ (count - 1) * num < HyperParams
  BY <1>3, <1>6
<1> QED
  BY <1>7 DEF Size

LEMMA MulMonotone ==
    ASSUME NEW a \in Nat, NEW b \in Nat, NEW c \in Nat, a <= b
    PROVE  a * c <= b * c
OBVIOUS

(* Bundles are not empty and hold hyper-parameters. *)
LEMMA BundleFacts ==
    ASSUME NEW num \in Nat \ {0}, NEW b \in DOMAIN Bundles(num)
    PROVE  /\ b \in Nat /\ Size(num) \in Nat \ {0}
           /\ Bundles(num)[b] = b * Size(num) + 1 .. (b + 1) * Size(num)
           /\ Bundles(num)[b] \subseteq Items
<1> USE TrainingAssumption
<1> DEFINE size == Size(num)
<1>1. size \in Nat \ {0}
  BY SizeFacts DEF Items
<1>2. Bundles(num) = [i \in 0 .. (HyperParams \div size) - 1 |-> i * size + 1 .. (i + 1) * size]
  BY DEF Bundles, Size
<1> HIDE DEF size
<1>3. HyperParams \div size \in Nat /\ (HyperParams \div size) * size <= HyperParams
  BY <1>1
<1>4. b \in Nat /\ b + 1 <= HyperParams \div size
  BY <1>2, <1>3
<1>5. (b + 1) * size <= HyperParams /\ b * size >= 0
  BY <1>1, <1>3, <1>4, MulMonotone
<1>6. Bundles(num)[b] = b * size + 1 .. (b + 1) * size
  BY <1>2, <1>4
<1>7. b * size + 1 .. (b + 1) * size \subseteq Items
  BY <1>1, <1>4, <1>5 DEF Items
<1> QED
  BY <1>1, <1>4, <1>6, <1>7 DEF size

(* If the trainers divide the list there is one bundle for each of them.   *)
LEMMA EvenBundles ==
    ASSUME NEW num \in Nat \ {0}, HyperParams % num = 0
    PROVE  /\ DOMAIN Bundles(num) = 0 .. num - 1
           /\ \A h \in Items : \E b \in 0 .. num - 1 :
                 \A i \in 0 .. num - 1 : h \in Bundles(num)[i] <=> i = b
<1> USE TrainingAssumption
<1> DEFINE size == Size(num)
           q    == HyperParams \div num
<1>1. size \in Nat \ {0} /\ size * num >= HyperParams /\ (size - 1) * num < HyperParams
  BY SizeFacts DEF Items
<1>2. q \in Nat /\ q * num = HyperParams
  OBVIOUS
<1> HIDE DEF size, q
<1>3. size = q
  <2>1. size >= q
    <3> SUFFICES ASSUME size + 1 <= q PROVE FALSE
      BY <1>1, <1>2
    <3>1. (size + 1) * num <= q * num
      BY <1>1, <1>2, MulMonotone
    <3>2. (size + 1) * num = size * num + num
      BY <1>1
    <3>3. size * num \in Nat /\ size * num >= HyperParams /\ q * num = HyperParams
      BY <1>1, <1>2
    <3> QED
      BY <3>1, <3>2, <3>3
  <2>2. size - 1 < q
    <3> SUFFICES ASSUME q <= size - 1 PROVE FALSE
      BY <1>1, <1>2
    <3>1. q * num <= (size - 1) * num
      BY <1>1, <1>2, MulMonotone
    <3> QED
      BY <1>1, <1>2, <3>1
  <2> QED
    BY <1>1, <1>2, <2>1, <2>2
<1>4. num * size = HyperParams
  BY <1>1, <1>2, <1>3
<1>5. HyperParams \div size = num
  BY <1>1, <1>4
<1>6. Bundles(num) = [i \in 0 .. num - 1 |-> i * size + 1 .. (i + 1) * size]
  BY <1>5 DEF Bundles, Size, size
<1>7. ASSUME NEW h \in Items
      PROVE  \E b \in 0 .. num - 1 :
                \A i \in 0 .. num - 1 : h \in Bundles(num)[i] <=> i = b
  <2> DEFINE b == (h - 1) \div size
  <2>1. h \in Nat /\ h >= 1 /\ h <= HyperParams
    BY DEF Items
  <2>2. b \in Nat /\ b * size <= h - 1 /\ h - 1 < (b + 1) * size
    BY <1>1, <2>1
  <2> HIDE DEF b
  <2>3. b < num
    <3> SUFFICES ASSUME num <= b PROVE FALSE
      BY <2>2
    <3>1. num * size <= b * size
      BY <1>1, <2>2, MulMonotone
    <3> QED
      BY <1>1, <1>4, <2>1, <2>2, <3>1
  <2>4. ASSUME NEW i \in 0 .. num - 1
        PROVE  h \in Bundles(num)[i] <=> i = b
    <3>1. Bundles(num)[i] = i * size + 1 .. (i + 1) * size
      BY <1>6
    <3>2. h \in Bundles(num)[i] <=> i * size < h /\ h <= (i + 1) * size
      BY <1>1, <2>1, <3>1
    <3>3. CASE i = b
      BY <1>1, <2>1, <2>2, <3>2, <3>3
    <3>4. CASE i < b
      <4>1. (i + 1) * size <= b * size
        BY <1>1, <2>2, <3>4, MulMonotone
      <4> QED
        BY <1>1, <2>1, <2>2, <3>2, <3>4, <4>1
    <3>5. CASE i > b
      <4>1. (b + 1) * size <= i * size
        BY <1>1, <2>2, <3>5, MulMonotone
      <4> QED
        BY <1>1, <2>1, <2>2, <3>2, <3>5, <4>1
    <3> QED
      BY <2>2, <3>3, <3>4, <3>5
  <2>5. b \in 0 .. num - 1
    BY <2>2, <2>3
  <2> QED
    BY <2>4, <2>5
<1> QED
  BY <1>6, <1>7

-----------------------------------------------------------------------------
(* Facts about every state and every step *)

LEMMA DepFacts ==
    ASSUME TypeOK
    PROVE  /\ dep.num \in Nat \ {0} /\ dep.wfs \in Nat
           /\ \A j \in Jobs : ID(j) \in Trainers
           /\ \A j \in Jobs, h \in Items : <<j, h>> \in Models
           /\ \A h \in Items : h \in Nat
<1>1. dep.num \in Nat \ {0} /\ dep.wfs \in Nat
  BY TrainingAssumption DEF TypeOK
<1>2. \A j \in Jobs : ID(j) \in Trainers
  BY DEF Jobs, ID
<1> QED
  BY <1>1, <1>2 DEF Models, Items

LEMMA DepKept ==
    ASSUME [Next]_vars
    PROVE  dep' = dep
BY DEF Next, vars, Split, Start, StartRun, Answer, Save, Upload, Record, Fail,
       Reduce

LEMMA SameDep ==
    ASSUME dep' = dep
    PROVE  /\ Jobs' = Jobs /\ Trainers' = Trainers /\ Models' = Models
           /\ \A j : Bundle(j)' = Bundle(j)
BY DEF Jobs, Trainers, Models, Bundle

LEMMA BundleItems ==
    ASSUME TypeOK, RunsKept, NEW j \in Jobs, job[j] \in Trained \cup {"started"}
    PROVE  Bundle(j) \subseteq Items
BY DepFacts, BundleFacts DEF RunsKept, Bundle

(* The hyper-parameter that StartRun takes is the smallest that is left. *)
LEMMA NextRun ==
    ASSUME TypeOK, RunsKept, NEW j \in Jobs, job[j] \in Trained \cup {"started"},
           Left(j) # {}
    PROVE  LET next == CHOOSE h \in Left(j) : \A g \in Left(j) : h <= g
           IN  next \in Left(j) /\ \A g \in Left(j) : next <= g
<1> DEFINE b  == ID(j)
           lo == b * Size(dep.num) + 1
           hi == (b + 1) * Size(dep.num)
<1>1. /\ b \in Nat /\ Size(dep.num) \in Nat \ {0}
      /\ Bundle(j) = lo .. hi
  BY DepFacts, BundleFacts DEF RunsKept, Bundle
<1>2. hi = lo + Size(dep.num) - 1 /\ lo \in Nat /\ hi \in Nat
  BY <1>1
<1>3. run[j] \in Nat
  BY TrainingAssumption DEF TypeOK
<1> HIDE DEF lo, hi, b
<1>4. PICK g \in Left(j) : TRUE
  OBVIOUS
<1>5. g \in lo .. hi /\ g > run[j]
  BY <1>1, <1>4 DEF Left
<1> DEFINE x == IF run[j] < lo THEN lo ELSE run[j] + 1
<1>6. x \in lo .. hi /\ x > run[j] /\ \A i \in lo .. hi : i > run[j] => x <= i
  BY <1>2, <1>3, <1>5
<1>7. x \in Left(j) /\ \A i \in Left(j) : x <= i
  BY <1>1, <1>6 DEF Left
<1> HIDE DEF x
<1> QED
  BY <1>7

(* One workflow at a time: a trainer has one job. *)
LEMMA OneJob ==
    ASSUME dep.wfs = 1, NEW j \in Jobs, NEW g \in Jobs, ID(j) = ID(g)
    PROVE  j = g
BY DEF Jobs, ID

LEMMA ReportSmall ==
    ASSUME TypeOK, NEW j \in Jobs, NEW best \in SUBSET results[j],
           Cardinality(best) = IF Cardinality(results[j]) < Top
                               THEN Cardinality(results[j]) ELSE Top
    PROVE  Cardinality(best) <= Top
<1>1. results[j] \subseteq 1 .. HyperParams
  BY DEF TypeOK, Items
<1>2. IsFiniteSet(1 .. HyperParams)
  BY FS_Interval, TrainingAssumption
<1>3. IsFiniteSet(results[j])
  BY <1>1, <1>2, FS_Subset
<1>4. Cardinality(results[j]) \in Nat
  BY <1>3, FS_CardinalityType
<1> QED
  BY <1>4, TrainingAssumption

-----------------------------------------------------------------------------
(* Types *)

LEMMA TypeStep ==
    ASSUME TypeOK, RunsKept, [Next]_vars
    PROVE  TypeOK'
<1> USE DepFacts, TrainingAssumption
<1>1. dep' = dep /\ Jobs' = Jobs /\ Trainers' = Trainers /\ Models' = Models
  BY DepKept, SameDep
<1>2. ASSUME NEW wf \in 1 .. dep.wfs, Split(wf)
      PROVE  TypeOK'
  BY <1>1, <1>2 DEF TypeOK, Split
<1>3. ASSUME NEW j \in Jobs, Start(j) \/ Answer(j)
      PROVE  TypeOK'
  BY <1>1, <1>3 DEF TypeOK, Start, Answer
<1>4. ASSUME NEW j \in Jobs, StartRun(j)
      PROVE  TypeOK'
  <2> DEFINE next == CHOOSE h \in Left(j) : \A g \in Left(j) : h <= g
  <2>1. job[j] \in Trained \cup {"started"} /\ Left(j) # {}
    BY <1>4 DEF StartRun, Joined, Trained
  <2>2. next \in Items
    BY <2>1, NextRun, BundleItems DEF Left
  <2>3. /\ job' = [job EXCEPT ![j] = "running"]
        /\ run' = [run EXCEPT ![j] = next]
        /\ child' = [child EXCEPT ![j][next] = [t \in Children |-> "training"]]
        /\ UNCHANGED <<file, object, uploads, results, reported, faults>>
    BY <1>4 DEF StartRun, TypeOK
  <2> HIDE DEF next
  <2>4. run' \in [Jobs -> 0 .. HyperParams]
    BY <2>2, <2>3 DEF TypeOK, Items
  <2> QED
    BY <1>1, <2>3, <2>4 DEF TypeOK
<1>5. ASSUME NEW j \in Jobs, NEW h \in Items, NEW t \in Children, Save(j, h, t)
      PROVE  TypeOK'
  BY <1>1, <1>5 DEF TypeOK, Save, Becomes
<1>6. ASSUME NEW j \in Jobs, NEW h \in Items, NEW t \in Children, Upload(j, h, t)
      PROVE  TypeOK'
  BY <1>1, <1>6 DEF TypeOK, Upload, Becomes
<1>7. ASSUME NEW j \in Jobs, NEW h \in Items, NEW t \in Children,
             Record(j, h, t) \/ Fail(j, h, t)
      PROVE  TypeOK'
  <2>1. CASE Record(j, h, t)
    BY <1>1, <2>1 DEF TypeOK, Record, Becomes
  <2>2. CASE Fail(j, h, t)
    <3>1. faults' \in 0 .. MaxFaults
      BY <2>2 DEF TypeOK, Fail
    <3> QED
      BY <1>1, <2>2, <3>1 DEF TypeOK, Fail, Becomes
  <2> QED
    BY <1>7, <2>1, <2>2
<1>8. ASSUME NEW j \in Jobs, Reduce(j)
      PROVE  TypeOK'
  <2>1. PICK best \in SUBSET results[j] :
           /\ Cardinality(best) = IF Cardinality(results[j]) < Top
                                  THEN Cardinality(results[j]) ELSE Top
           /\ reported' = [reported EXCEPT ![j] = best]
    BY <1>8 DEF Reduce
  <2>2. Cardinality(best) <= Top
    BY <2>1, ReportSmall
  <2>3. /\ reported' \in [Jobs -> SUBSET Items]
        /\ \A i \in Jobs : Cardinality(reported'[i]) <= Top
    BY <2>1, <2>2 DEF TypeOK
  <2> QED
    BY <1>1, <1>8, <2>3 DEF TypeOK, Reduce
<1>9. CASE UNCHANGED vars
  BY <1>1, <1>9 DEF TypeOK, vars
<1> QED
  BY <1>2, <1>3, <1>4, <1>5, <1>6, <1>7, <1>8, <1>9 DEF Next

-----------------------------------------------------------------------------
(* The steps, seen from the rest of the invariant *)

ChildStep(j, h, t) ==
    Save(j, h, t) \/ Upload(j, h, t) \/ Record(j, h, t) \/ Fail(j, h, t)

(* A child goes on; it was training, had saved or had uploaded. *)
LEMMA ChildSteps ==
    ASSUME NEW j \in Jobs, NEW h \in Items, NEW t \in Children, ChildStep(j, h, t)
    PROVE  /\ child[j][h][t] \in {"training", "saved", "uploaded"}
           /\ \E s \in {"saved", "uploaded", "ended", "failed"} : Becomes(j, h, t, s)
           /\ UNCHANGED <<dep, job, run>>
BY DEF ChildStep, Save, Upload, Record, Fail

(* The next run of a job. *)
LEMMA RunSteps ==
    ASSUME TypeOK, RunsKept, NEW j \in Jobs, StartRun(j)
    PROVE  \E next \in Bundle(j) :
              /\ next \in Items /\ next > run[j]
              /\ \A h \in Bundle(j) : h > run[j] => next <= h
              /\ job' = [job EXCEPT ![j] = "running"]
              /\ run' = [run EXCEPT ![j] = next]
              /\ child' = [child EXCEPT ![j][next] = [t \in Children |-> "training"]]
<1> DEFINE next == CHOOSE h \in Left(j) : \A g \in Left(j) : h <= g
<1>1. job[j] \in Trained \cup {"started"} /\ Left(j) # {}
  BY DEF StartRun, Joined, Trained
<1>2. next \in Left(j) /\ \A g \in Left(j) : next <= g
  BY <1>1, NextRun
<1>3. next \in Items
  BY <1>1, <1>2, BundleItems DEF Left
<1>4. /\ job' = [job EXCEPT ![j] = "running"]
      /\ run' = [run EXCEPT ![j] = next]
      /\ child' = [child EXCEPT ![j][next] = [t \in Children |-> "training"]]
  BY DEF StartRun
<1> HIDE DEF next
<1> QED
  BY <1>2, <1>3, <1>4 DEF Left

(* Steps that leave runs and children alone. *)
LEMMA StepKinds ==
    ASSUME [Next]_vars
    PROVE  \/ \E j \in Jobs : Start(j) \/ StartRun(j) \/ Answer(j)
           \/ \E j \in Jobs : \E h \in Items, t \in Children : ChildStep(j, h, t)
           \/ \E wf \in 1 .. dep.wfs : Split(wf)
           \/ /\ UNCHANGED <<job, run, child>>
              /\ UNCHANGED vars \/ \E j \in Jobs : Reduce(j)
BY DEF Next, ChildStep, Reduce, vars

LEMMA RunsStep ==
    ASSUME TypeOK, RunsKept, ChildrenKept, [Next]_vars
    PROVE  RunsKept'
<1> USE DEF Trained
<1>1. dep' = dep /\ Jobs' = Jobs /\ \A j : Bundle(j)' = Bundle(j)
  BY DepKept, SameDep
<1>2. /\ job \in [Jobs -> {"none", "waiting", "started", "running", "answered", "raised"}]
      /\ run \in [Jobs -> 0 .. HyperParams]
  BY DEF TypeOK
<1>3. CASE UNCHANGED <<job, run>>
  BY <1>1, <1>3 DEF RunsKept
<1>4. ASSUME NEW wf \in 1 .. dep.wfs, Split(wf)
      PROVE  RunsKept'
  <2>1. /\ run' = run
        /\ \A j \in Jobs :
             job'[j] = job[j] \/ (job'[j] = "waiting" /\ job[j] = "none")
    <3>1. ASSUME NEW j \in Jobs, j[1] = wf
          PROVE  job[j] = "none"
      <4>1. j = <<wf, j[2]>> /\ j[2] \in Trainers
        BY <3>1 DEF Jobs
      <4> QED
        BY <1>4, <4>1 DEF Split
    <3> QED
      BY <1>4, <3>1 DEF Split
  <2> QED
    BY <1>1, <1>2, <2>1 DEF RunsKept
<1>5. ASSUME NEW j \in Jobs, Start(j)
      PROVE  RunsKept'
  BY <1>1, <1>2, <1>5 DEF RunsKept, Start
<1>6. ASSUME NEW j \in Jobs, Answer(j)
      PROVE  RunsKept'
  <2>1. \A h \in Bundle(j) : ~(h > run[j])
    BY <1>6 DEF Answer, Left
  <2>2. Bundle(j) \subseteq Items /\ job[j] = "running"
    BY <1>6, BundleItems DEF Answer, Joined
  <2>3. \A h \in Bundle(j) : h <= run[j]
    BY <1>2, <2>1, <2>2, TrainingAssumption DEF Items
  <2> QED
    BY <1>1, <1>2, <1>6, <2>2, <2>3 DEF RunsKept, Answer
<1>7. ASSUME NEW j \in Jobs, StartRun(j)
      PROVE  RunsKept'
  <2>1. job[j] \in Trained \cup {"started"}
    BY <1>7 DEF StartRun, Joined
  <2> QED
    BY <1>1, <1>2, <1>7, <2>1, RunSteps DEF RunsKept
<1> QED
  BY <1>3, <1>4, <1>5, <1>6, <1>7, StepKinds, ChildSteps

LEMMA ChildrenStep ==
    ASSUME TypeOK, RunsKept, ChildrenKept, [Next]_vars
    PROVE  ChildrenKept'
<1> USE DEF Trained
<1>1. dep' = dep /\ Jobs' = Jobs /\ \A j : Bundle(j)' = Bundle(j)
  BY DepKept, SameDep
<1>2. /\ job \in [Jobs -> {"none", "waiting", "started", "running", "answered", "raised"}]
      /\ run \in [Jobs -> 0 .. HyperParams]
      /\ child \in [Jobs -> [Items -> [Children ->
            {"idle", "training", "saved", "uploaded", "ended", "failed"}]]]
  BY DEF TypeOK
<1>3. ASSUME UNCHANGED <<run, child>>,
             \A j \in Jobs : job'[j] \in Trained <=> job[j] \in Trained
      PROVE  ChildrenKept'
  BY <1>1, <1>3 DEF ChildrenKept
<1>4. ASSUME NEW wf \in 1 .. dep.wfs, Split(wf)
      PROVE  ChildrenKept'
  <2>1. ASSUME NEW j \in Jobs, j[1] = wf
        PROVE  job[j] = "none"
    <3>1. j = <<wf, j[2]>> /\ j[2] \in Trainers
      BY <2>1 DEF Jobs
    <3> QED
      BY <1>4, <3>1 DEF Split
  <2> QED
    BY <1>3, <1>4, <2>1 DEF Split
<1>5. ASSUME NEW j \in Jobs, Start(j) \/ Answer(j)
      PROVE  ChildrenKept'
  BY <1>2, <1>3, <1>5 DEF Start, Answer, Joined
<1>6. ASSUME NEW j \in Jobs, StartRun(j)
      PROVE  ChildrenKept'
  <2>1. PICK next \in Bundle(j) :
              /\ next \in Items /\ next > run[j]
              /\ \A h \in Bundle(j) : h > run[j] => next <= h
              /\ job' = [job EXCEPT ![j] = "running"]
              /\ run' = [run EXCEPT ![j] = next]
              /\ child' = [child EXCEPT ![j][next] = [t \in Children |-> "training"]]
    BY <1>6, RunSteps
  <2> SUFFICES ASSUME NEW i \in Jobs, NEW h \in Items, NEW t \in Children
               PROVE  child'[i][h][t] # "idle" <=>
                         job'[i] \in Trained /\ h \in Bundle(i) /\ h <= run'[i]
    BY <1>1 DEF ChildrenKept
  <2>2. CASE i # j
    BY <1>2, <2>1, <2>2 DEF ChildrenKept
  <2>3. CASE i = j
    <3>1. h \in Nat /\ next \in Nat /\ run[j] \in Nat
      BY <1>2, <2>1 DEF Items
    <3>2. CASE h = next
      BY <1>2, <2>1, <2>3, <3>1, <3>2
    <3>3. CASE h # next
      <4>1. child'[j][h][t] = child[j][h][t]
        BY <1>2, <2>1, <3>3
      <4>2. h \in Bundle(j) => (h <= next <=> h <= run[j])
        BY <2>1, <3>1, <3>3
      <4>3. job[j] \in Trained \/ job[j] = "started"
        BY <1>6 DEF StartRun, Joined
      <4>4. CASE job[j] \in Trained
        BY <1>2, <2>1, <2>3, <4>1, <4>2, <4>4 DEF ChildrenKept
      <4>5. CASE job[j] = "started"
        <5>1. run[j] = 0
          BY <4>5 DEF RunsKept
        <5>2. ~(h <= run[j])
          BY <5>1 DEF Items
        <5> QED
          BY <1>2, <2>1, <2>3, <4>1, <4>2, <4>5, <5>2 DEF ChildrenKept
      <4> QED
        BY <4>3, <4>4, <4>5
    <3> QED
      BY <3>2, <3>3
  <2> QED
    BY <2>2, <2>3
<1>7. ASSUME NEW j \in Jobs, NEW h \in Items, NEW t \in Children, ChildStep(j, h, t)
      PROVE  ChildrenKept'
  <2>1. UNCHANGED <<job, run>>
    BY <1>7, ChildSteps
  <2>2. \A i \in Jobs, g \in Items, u \in Children :
           child'[i][g][u] # "idle" <=> child[i][g][u] # "idle"
    <3>1. PICK s \in {"saved", "uploaded", "ended", "failed"} :
             child' = [child EXCEPT ![j][h][t] = s]
      BY <1>7, ChildSteps DEF Becomes
    <3>2. child[j][h][t] # "idle"
      BY <1>7, ChildSteps
    <3> QED
      BY <1>2, <3>1, <3>2
  <2> QED
    BY <1>1, <2>1, <2>2 DEF ChildrenKept
<1> QED
  BY <1>3, <1>4, <1>5, <1>6, <1>7, StepKinds

(* join() has returned for every child of a run before the next begins. *)
LEMMA LateStep ==
    ASSUME TypeOK, RunsKept, ChildrenKept, NoLateChild, [Next]_vars
    PROVE  NoLateChild'
<1> DEFINE Over == {"idle", "ended", "failed"}
<1>1. dep' = dep /\ Jobs' = Jobs
  BY DepKept, SameDep
<1>2. /\ job \in [Jobs -> {"none", "waiting", "started", "running", "answered", "raised"}]
      /\ run \in [Jobs -> 0 .. HyperParams]
      /\ child \in [Jobs -> [Items -> [Children ->
            {"idle", "training", "saved", "uploaded", "ended", "failed"}]]]
  BY DEF TypeOK
<1>3. ASSUME UNCHANGED <<run, child>>,
             \A j \in Jobs : job'[j] = "answered" => job[j] = "answered"
      PROVE  NoLateChild'
  BY <1>1, <1>3 DEF NoLateChild
<1>4. ASSUME NEW j \in Jobs, Joined(j)
      PROVE  \A h \in Items, t \in Children : child[j][h][t] \in Over
  <2> SUFFICES ASSUME NEW h \in Items, NEW t \in Children
               PROVE  child[j][h][t] \in Over
    OBVIOUS
  <2>1. h \in Nat /\ run[j] \in Nat
    BY <1>2 DEF Items
  <2>2. CASE h < run[j]
    BY <2>2 DEF NoLateChild
  <2>3. CASE h = run[j]
    BY <1>4, <2>3 DEF Joined, Ended
  <2>4. CASE h > run[j]
    BY <2>1, <2>4 DEF ChildrenKept
  <2> QED
    BY <2>1, <2>2, <2>3, <2>4
<1>5. ASSUME NEW wf \in 1 .. dep.wfs, Split(wf)
      PROVE  NoLateChild'
  BY <1>3, <1>5 DEF Split
<1>6. ASSUME NEW j \in Jobs, Start(j)
      PROVE  NoLateChild'
  BY <1>2, <1>3, <1>6 DEF Start
<1>7. ASSUME NEW j \in Jobs, Answer(j)
      PROVE  NoLateChild'
  BY <1>1, <1>2, <1>4, <1>7 DEF Answer, NoLateChild
<1>8. ASSUME NEW j \in Jobs, StartRun(j)
      PROVE  NoLateChild'
  <2>1. PICK next \in Bundle(j) :
              /\ next \in Items /\ next > run[j]
              /\ job' = [job EXCEPT ![j] = "running"]
              /\ run' = [run EXCEPT ![j] = next]
              /\ child' = [child EXCEPT ![j][next] = [t \in Children |-> "training"]]
    BY <1>8, RunSteps
  <2>2. \A h \in Items, t \in Children : child[j][h][t] \in Over
    <3>1. CASE Joined(j)
      BY <1>4, <3>1
    <3>2. CASE job[j] = "started"
      BY <3>2 DEF ChildrenKept, Trained
    <3> QED
      BY <1>8, <3>1, <3>2 DEF StartRun
  <2> SUFFICES ASSUME NEW i \in Jobs, NEW h \in Items, NEW t \in Children,
                      h < run'[i] \/ job'[i] = "answered"
               PROVE  child'[i][h][t] \in Over
    BY <1>1 DEF NoLateChild
  <2>3. CASE i # j
    BY <1>2, <2>1, <2>3 DEF NoLateChild
  <2>4. CASE i = j
    <3>1. h < next
      BY <1>2, <2>1, <2>4
    <3>2. h # next
      BY <2>1, <3>1 DEF Items
    <3> QED
      BY <1>2, <2>1, <2>2, <2>4, <3>2
  <2> QED
    BY <2>3, <2>4
<1>9. ASSUME NEW j \in Jobs, NEW h \in Items, NEW t \in Children, ChildStep(j, h, t)
      PROVE  NoLateChild'
  <2>1. PICK s \in {"saved", "uploaded", "ended", "failed"} :
           child' = [child EXCEPT ![j][h][t] = s]
    BY <1>9, ChildSteps DEF Becomes
  <2>2. ~(h < run[j] \/ job[j] = "answered") /\ UNCHANGED <<job, run>>
    BY <1>9, ChildSteps DEF NoLateChild
  <2> QED
    BY <1>1, <1>2, <2>1, <2>2 DEF NoLateChild
<1> QED
  BY <1>3, <1>5, <1>6, <1>7, <1>8, <1>9, StepKinds

LEMMA ResultsStep ==
    ASSUME TypeOK, RunsKept, ChildrenKept, ResultsKept, [Next]_vars
    PROVE  ResultsKept'
<1>1. dep' = dep /\ Jobs' = Jobs /\ \A j : Bundle(j)' = Bundle(j)
  BY DepKept, SameDep
<1>2. /\ child \in [Jobs -> [Items -> [Children ->
            {"idle", "training", "saved", "uploaded", "ended", "failed"}]]]
      /\ results \in [Jobs -> SUBSET Items] /\ reported \in [Jobs -> SUBSET Items]
  BY DEF TypeOK
<1>3. ASSUME UNCHANGED <<child, uploads, results, reported>>
      PROVE  ResultsKept'
  BY <1>1, <1>3 DEF ResultsKept
<1>4. ASSUME NEW j \in Jobs, StartRun(j)
      PROVE  ResultsKept'
  <2>1. PICK next \in Bundle(j) : next \in Items /\
              child' = [child EXCEPT ![j][next] = [t \in Children |-> "training"]]
    BY <1>4, RunSteps
  <2>2. \A i \in Jobs, h \in Items, t \in Children :
           child'[i][h][t] = child[i][h][t] \/ child'[i][h][t] = "training"
    BY <1>2, <2>1
  <2>3. UNCHANGED <<uploads, results, reported>>
    BY <1>4 DEF StartRun
  <2> QED
    BY <1>1, <2>2, <2>3 DEF ResultsKept
<1>5. ASSUME NEW j \in Jobs, NEW h \in Items, NEW t \in Children,
             Save(j, h, t) \/ Fail(j, h, t)
      PROVE  ResultsKept'
  <2>1. \A i \in Jobs, g \in Items, u \in Children :
           child'[i][g][u] = child[i][g][u] \/ child'[i][g][u] \in {"saved", "failed"}
    <3>1. PICK s \in {"saved", "failed"} : child' = [child EXCEPT ![j][h][t] = s]
      BY <1>5 DEF Save, Fail, Becomes
    <3> QED
      BY <1>2, <3>1
  <2>2. UNCHANGED <<uploads, results, reported>>
    BY <1>5 DEF Save, Fail
  <2> QED
    BY <1>1, <2>1, <2>2 DEF ResultsKept
<1>6. ASSUME NEW j \in Jobs, NEW h \in Items, NEW t \in Children, Upload(j, h, t)
      PROVE  ResultsKept'
  <2>1. \A i \in Jobs, g \in Items, u \in Children :
           \/ child'[i][g][u] = child[i][g][u]
           \/ child'[i][g][u] = "uploaded" /\ i = j /\ g = h
    BY <1>2, <1>6 DEF Upload, Becomes
  <2>2. uploads' = uploads \cup {<<j, h>>} /\ UNCHANGED <<results, reported>>
    BY <1>6 DEF Upload
  <2> QED
    BY <1>1, <2>1, <2>2 DEF ResultsKept
<1>7. ASSUME NEW j \in Jobs, NEW h \in Items, NEW t \in Children, Record(j, h, t)
      PROVE  ResultsKept'
  <2>1. \A i \in Jobs, g \in Items, u \in Children :
           \/ child'[i][g][u] = child[i][g][u]
           \/ child'[i][g][u] = "ended" /\ i = j /\ g = h
    BY <1>2, <1>7 DEF Record, Becomes
  <2>2. h \in Bundle(j) /\ <<j, h>> \in uploads
    BY <1>7 DEF Record, ChildrenKept, ResultsKept
  <2>3. results' = [results EXCEPT ![j] = @ \cup {h}] /\ UNCHANGED <<uploads, reported>>
    BY <1>7 DEF Record
  <2> QED
    <3>1. \A i \in Jobs : results[i] \subseteq results'[i]
      BY <1>2, <2>3
    <3>2. \A i \in Jobs : \A g \in results'[i] :
             g \in results[i] \/ (i = j /\ g = h)
      BY <1>2, <2>3
    <3>3. h \in results'[j]
      BY <1>2, <2>3
    <3> QED
      BY <1>1, <2>1, <2>2, <2>3, <3>1, <3>2, <3>3 DEF ResultsKept
<1>8. ASSUME NEW j \in Jobs, Reduce(j)
      PROVE  ResultsKept'
  <2>1. \A i \in Jobs : reported'[i] = reported[i] \/ reported'[i] \subseteq results[i]
    BY <1>2, <1>8 DEF Reduce
  <2>2. UNCHANGED <<child, uploads, results>>
    BY <1>8 DEF Reduce
  <2> QED
    BY <1>1, <2>1, <2>2 DEF ResultsKept
<1>9. CASE UNCHANGED vars \/ (\E wf \in 1 .. dep.wfs : Split(wf))
           \/ \E j \in Jobs : Start(j) \/ Answer(j)
  BY <1>3, <1>9 DEF vars, Split, Start, Answer
<1> QED
  BY <1>4, <1>5, <1>6, <1>7, <1>8, <1>9 DEF Next

LEMMA ModelsStep ==
    ASSUME TypeOK, RunsKept, ChildrenKept, NoLateChild, ModelsKept, [Next]_vars
    PROVE  ModelsKept'
<1>1. dep' = dep /\ Jobs' = Jobs
  BY DepKept, SameDep
<1>2. /\ child \in [Jobs -> [Items -> [Children ->
            {"idle", "training", "saved", "uploaded", "ended", "failed"}]]]
      /\ file \in [Trainers -> [Children -> Models]]
      /\ object \in [Trainers -> [Children -> Models]]
      /\ run \in [Jobs -> 0 .. HyperParams] /\ faults \in 0 .. MaxFaults
      /\ \A j \in Jobs : ID(j) \in Trainers
  BY DepFacts DEF TypeOK
<1>3. ASSUME UNCHANGED <<run, child, file, object, faults>>
      PROVE  ModelsKept'
  BY <1>1, <1>3 DEF ModelsKept
<1>4. ASSUME NEW j \in Jobs, StartRun(j)
      PROVE  ModelsKept'
  <2>1. PICK next \in Bundle(j) :
              /\ next \in Items
              /\ run' = [run EXCEPT ![j] = next]
              /\ child' = [child EXCEPT ![j][next] = [t \in Children |-> "training"]]
    BY <1>4, RunSteps
  <2>2. UNCHANGED <<file, object, faults>>
    BY <1>4 DEF StartRun
  <2>3. \A i \in Jobs, h \in Items, t \in Children :
           /\ child'[i][h][t] = child[i][h][t] \/ child'[i][h][t] = "training"
           /\ h = run'[i] => h = run[i] \/ child'[i][h][t] = "training"
    BY <1>2, <2>1
  <2> QED
    BY <1>1, <2>2, <2>3 DEF ModelsKept
<1>5. ASSUME NEW j \in Jobs, NEW h \in Items, NEW t \in Children, ChildStep(j, h, t)
      PROVE  h = run[j]
  <2>1. child[j][h][t] \in {"training", "saved", "uploaded"}
    BY <1>5, ChildSteps
  <2>2. h <= run[j] /\ ~(h < run[j])
    BY <2>1 DEF ChildrenKept, NoLateChild
  <2> QED
    BY <1>2, <2>2 DEF Items
<1>6. ASSUME NEW j \in Jobs, NEW h \in Items, NEW t \in Children, Save(j, h, t)
      PROVE  ModelsKept'
  <2>1. \A i \in Jobs, g \in Items, u \in Children :
           \/ child'[i][g][u] = child[i][g][u] /\ ~(i = j /\ g = h /\ u = t)
           \/ child'[i][g][u] = "saved" /\ i = j /\ g = h /\ u = t
    BY <1>2, <1>6 DEF Save, Becomes
  <2>2. file' = [file EXCEPT ![ID(j)][t] = <<j, h>>] /\ UNCHANGED <<run, object, faults>>
    BY <1>6 DEF Save
  <2>3. ASSUME dep.wfs = 1, NEW i \in Jobs, NEW g \in Items, NEW u \in Children,
               g = run[i], child'[i][g][u] = "saved"
        PROVE  file'[ID(i)][u] = <<i, g>>
    <3>1. CASE i = j /\ u = t
      BY <1>2, <1>5, <1>6, <2>2, <2>3, <3>1 DEF ChildStep
    <3>2. CASE ~(i = j /\ u = t)
      <4>1. ID(i) = ID(j) => u # t
        BY <2>3, <3>2, OneJob
      <4>2. file'[ID(i)][u] = file[ID(i)][u]
        BY <1>2, <2>2, <4>1
      <4>3. child[i][g][u] = "saved"
        BY <2>1, <2>3, <3>2
      <4> QED
        BY <2>3, <4>2, <4>3 DEF ModelsKept
    <3> QED
      BY <3>1, <3>2
  <2> QED
    BY <1>1, <2>1, <2>2, <2>3 DEF ModelsKept
<1>7. ASSUME NEW j \in Jobs, NEW h \in Items, NEW t \in Children, Upload(j, h, t)
      PROVE  ModelsKept'
  <2>1. \A i \in Jobs, g \in Items, u \in Children :
           \/ child'[i][g][u] = child[i][g][u] /\ ~(i = j /\ g = h /\ u = t)
           \/ child'[i][g][u] = "uploaded" /\ i = j /\ g = h /\ u = t
    BY <1>2, <1>7 DEF Upload, Becomes
  <2>2. /\ object' = [object EXCEPT ![ID(j)][t] = file[ID(j)][t]]
        /\ UNCHANGED <<run, file, faults>>
    BY <1>7 DEF Upload
  <2>3. dep.wfs = 1 => file[ID(j)][t] = <<j, h>>
    BY <1>5, <1>7 DEF Upload, ChildStep, ModelsKept
  <2>4. ASSUME dep.wfs = 1, NEW i \in Jobs, NEW g \in Items, NEW u \in Children,
               g = run[i], child'[i][g][u] \in {"uploaded", "ended"}
        PROVE  object'[ID(i)][u] = <<i, g>>
    <3>1. CASE i = j /\ u = t
      BY <1>2, <1>5, <1>7, <2>2, <2>3, <2>4, <3>1 DEF ChildStep
    <3>2. CASE ~(i = j /\ u = t)
      <4>1. ID(i) = ID(j) => u # t
        BY <2>4, <3>2, OneJob
      <4>2. object'[ID(i)][u] = object[ID(i)][u]
        BY <1>2, <2>2, <4>1
      <4>3. child[i][g][u] \in {"uploaded", "ended"}
        BY <2>1, <2>4, <3>2
      <4> QED
        BY <2>4, <4>2, <4>3 DEF ModelsKept
    <3> QED
      BY <3>1, <3>2
  <2> QED
    BY <1>1, <2>1, <2>2, <2>4 DEF ModelsKept
<1>8. ASSUME NEW j \in Jobs, NEW h \in Items, NEW t \in Children, Record(j, h, t)
      PROVE  ModelsKept'
  <2>1. \A i \in Jobs, g \in Items, u \in Children :
           \/ child'[i][g][u] = child[i][g][u]
           \/ child'[i][g][u] = "ended" /\ child[i][g][u] = "uploaded"
    BY <1>2, <1>8 DEF Record, Becomes
  <2>2. UNCHANGED <<run, file, object, faults>>
    BY <1>8 DEF Record
  <2> QED
    BY <1>1, <2>1, <2>2 DEF ModelsKept
<1>9. ASSUME NEW j \in Jobs, NEW h \in Items, NEW t \in Children, Fail(j, h, t)
      PROVE  ModelsKept'
  <2>1. \A i \in Jobs, g \in Items, u \in Children :
           child'[i][g][u] = child[i][g][u] \/ child'[i][g][u] = "failed"
    BY <1>2, <1>9 DEF Fail, Becomes
  <2>2. UNCHANGED <<run, file, object>> /\ faults' # MaxFaults
    BY <1>2, <1>9, TrainingAssumption DEF Fail
  <2> QED
    BY <1>1, <2>1, <2>2 DEF ModelsKept
<1>10. CASE UNCHANGED vars \/ (\E wf \in 1 .. dep.wfs : Split(wf))
           \/ \E j \in Jobs : Start(j) \/ Answer(j) \/ Reduce(j)
  BY <1>3, <1>10 DEF vars, Split, Start, Answer, Reduce
<1> QED
  BY <1>4, <1>6, <1>7, <1>8, <1>9, <1>10 DEF Next

-----------------------------------------------------------------------------
(* Results *)

LEMMA TrainInit == Init => TrainInv
<1> SUFFICES ASSUME Init PROVE TrainInv
  OBVIOUS
<1> USE TrainingAssumption DEF Init
<1>1. TypeOK
  <2>1. Cardinality({}) = 0
    BY FS_EmptySet
  <2>2. << >> \in Models
    BY DEF Models
  <2> QED
    BY <2>1, <2>2 DEF TypeOK
<1>2. RunsKept /\ NoLateChild
  BY DEF RunsKept, Trained, NoLateChild
<1>3. ChildrenKept /\ ResultsKept /\ ModelsKept
  BY DEF ChildrenKept, Trained, ResultsKept, ModelsKept
<1> QED
  BY <1>1, <1>2, <1>3 DEF TrainInv

LEMMA TrainInvariant == Spec => []TrainInv
<1>1. TrainInv /\ [Next]_vars => TrainInv'
  BY TypeStep, RunsStep, ChildrenStep, LateStep, ResultsStep, ModelsStep
  DEF TrainInv
<1> QED
  BY <1>1, TrainInit, PTL DEF Spec

(* Types; among them that reduce never reports more than the best ten. *)
THEOREM TrainTypeCorrect == Spec => []TypeOK
BY TrainInvariant, PTL DEF TrainInv

(* The joins of functions.py:245: however many children a run has and      *)
(* however they end, none outlives its run.                                *)
THEOREM JoinCorrect == Spec => []NoLateChild
BY TrainInvariant, PTL DEF TrainInv

(* Only what has been stored is reported, by the trainer it belongs to,    *)
(* with overlapping workflows and failing children too.                    *)
THEOREM ReportCorrect == Spec => []ReportStored
<1>1. TrainInv => ReportStored
  BY DEF TrainInv, ResultsKept, ReportStored
<1> QED
  BY <1>1, TrainInvariant, PTL

(* A trainer that has answered without a fault has the whole bundle in its *)
(* return_dict.                                                            *)
LEMMA AnsweredAll ==
    ASSUME TrainInv, faults = MaxFaults, NEW j \in Jobs, job[j] = "answered"
    PROVE  results[j] = Bundle(j)
<1>1. results[j] \subseteq Bundle(j)
  BY DEF TrainInv, ResultsKept
<1>2. ASSUME NEW h \in Bundle(j)
      PROVE  h \in results[j]
  <2>1. h \in Items /\ h <= run[j] /\ 1 \in Children
    BY BundleItems, TrainingAssumption
    DEF TrainInv, RunsKept, Trained, Children
  <2>2. child[j][h][1] # "idle"
    BY <2>1 DEF TrainInv, ChildrenKept, Trained
  <2>3. child[j][h][1] \in {"idle", "ended", "failed"}
    BY <2>1 DEF TrainInv, NoLateChild
  <2>4. child[j][h][1] # "failed"
    BY <2>1 DEF TrainInv, ModelsKept
  <2> QED
    BY <2>1, <2>2, <2>3, <2>4 DEF TrainInv, ResultsKept
<1> QED
  BY <1>1, <1>2

(* The splitter's bundles cover the list without overlap when the trainers *)
(* divide it, and each trainer reports its whole bundle.                   *)
THEOREM TrainedOnceCorrect == Spec => []TrainedOnce
<1>1. TrainInv => TrainedOnce
  <2> SUFFICES ASSUME TrainInv, Fits, NEW wf \in 1 .. dep.wfs,
                      \A i \in Trainers : job[<<wf, i>>] \in {"answered", "raised"},
                      NEW h \in Items
               PROVE  Cardinality({i \in Trainers : h \in results[<<wf, i>>]}) = 1
    BY DEF TrainedOnce
  <2>1. dep.num \in Nat \ {0} /\ HyperParams % dep.num = 0 /\ faults = MaxFaults
    BY DepFacts DEF TrainInv, Fits
  <2>2. DOMAIN Bundles(dep.num) = Trainers
    BY <2>1, EvenBundles DEF Trainers
  <2>3. ASSUME NEW i \in Trainers
        PROVE  results[<<wf, i>>] = Bundles(dep.num)[i]
    <3>1. <<wf, i>> \in Jobs /\ ID(<<wf, i>>) = i
      BY DEF Jobs, ID
    <3>2. job[<<wf, i>>] = "answered"
      BY <2>2, <3>1 DEF TrainInv, RunsKept
    <3> QED
      BY <2>1, <3>1, <3>2, AnsweredAll DEF Bundle
  <2>4. PICK b \in Trainers : \A i \in Trainers : h \in Bundles(dep.num)[i] <=> i = b
    BY <2>1, EvenBundles DEF Trainers
  <2>5. {i \in Trainers : h \in results[<<wf, i>>]} = {b}
    BY <2>3, <2>4
  <2> QED
    BY <2>5, FS_Singleton
<1> QED
  BY <1>1, TrainInvariant, PTL

(* With one workflow under way the models of the last run are the ones     *)
(* that stay in S3.                                                        *)
THEOREM LastModelCorrect == Spec => []LastModelKept
<1>1. TrainInv => LastModelKept
  <2> SUFFICES ASSUME TrainInv, Fits, dep.wfs = 1, NEW j \in Jobs,
                      job[j] = "answered", NEW t \in Children
               PROVE  object[ID(j)][t] = <<j, run[j]>>
    BY DEF LastModelKept
  <2>1. run[j] \in Bundle(j) /\ run[j] \in Items
    BY BundleItems DEF TrainInv, RunsKept, Trained
  <2>2. run[j] <= run[j]
    BY <2>1 DEF Items
  <2>3. child[j][run[j]][t] # "idle"
    BY <2>1, <2>2 DEF TrainInv, ChildrenKept, Trained
  <2>4. child[j][run[j]][t] \in {"idle", "ended", "failed"}
    BY <2>1 DEF TrainInv, NoLateChild
  <2>5. child[j][run[j]][t] # "failed"
    BY <2>1 DEF TrainInv, ModelsKept, Fits
  <2> QED
    BY <2>1, <2>3, <2>4, <2>5 DEF TrainInv, ModelsKept
<1> QED
  BY <1>1, TrainInvariant, PTL
=============================================================================
