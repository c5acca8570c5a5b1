--------------------------- MODULE WorkflowProofs ---------------------------
(* Theorems about the workflows: the types of the variables, the barrier,  *)
(* the load, what the functions hand to each other and how they divide the *)
(* work.                                                                   *)
EXTENDS Workflow, FiniteSetTheorems, TLAPS

-----------------------------------------------------------------------------
(* The inductive invariant *)

Did(svc, wf) == \E r \in ran : r.svc = svc /\ r.wf = wf

(* A function runs for a workflow that was started, after all functions of *)
(* the stage before.                                                       *)
RunKept(r) ==
    /\ r.svc \in Services /\ r.wf \in 1 .. started /\ r.run \in Nat
    /\ r.svc[1] # First => \A f \in ServicesOf(Before(r.svc[1])) : Did(f, r.wf)

RunsKept == IsFiniteSet(ran) /\ \A r \in ran : RunKept(r)

(* The event of a function comes after its run, and to a function that has *)
(* not run yet, unless the broker brings it again.                         *)
EventKept(e) ==
    /\ e.type # "reply" /\ e.svc \in Services /\ e.svc[1] # First
    /\ e.from \in ServicesOf(Before(e.svc[1])) /\ e.wf \in 1 .. started
    /\ Did(e.from, e.wf)
    /\ e.svc[1] \notin App.broker => ~Did(e.svc, e.wf)
    /\ e.svc[1] \in App.wait =>
         \A p \in Processes : \A n \in 1 .. Len(Waiting(e.svc[1], p, e.wf)) :
             Waiting(e.svc[1], p, e.wf)[n].from # e.from

EventsKept == \A e \in inflight : EventKept(e)

EventsOnce ==
    \A e, g \in inflight : e.svc = g.svc /\ e.wf = g.wf /\ e.from = g.from => e = g

(* upstream_info: in all processes of a stage together there is at most    *)
(* one event of each function before, and none once the stage has run.     *)
EntryKept(s, p, wf) ==
    LET q == Waiting(s, p, wf) IN
    /\ q \in Seq(Range(q))
    /\ q # << >> => s \notin App.broker /\ ~Did(<<s, 1>>, wf)
    /\ \A n \in 1 .. Len(q) :
         /\ q[n].from \in ServicesOf(Before(s)) /\ Did(q[n].from, wf)
         /\ \A o \in Processes : \A m \in 1 .. Len(Waiting(s, o, wf)) :
              Waiting(s, o, wf)[m].from = q[n].from => o = p /\ m = n

WaitingKept ==
    \A s \in App.wait, p \in Processes, wf \in 1 .. started : EntryKept(s, p, wf)

(* The broker starts a function again only by delivering its event twice.  *)
BrokerRuns(svc, wf) ==
    /\ Runs(svc, wf) <= 1 + dep.dups - dups
    /\ (\E e \in inflight : e.svc = svc /\ e.wf = wf) => Runs(svc, wf) <= dep.dups - dups

BrokerKept ==
    \A svc \in Services, wf \in 1 .. started :
        svc[1] \in App.broker \ {First} => BrokerRuns(svc, wf)

InfoDomain ==
    DOMAIN info = App.wait /\ \A s \in App.wait : DOMAIN info[s] = Processes

NumbersKept ==
    /\ \A s \in App.wait, p \in Processes : DOMAIN info[s][p] \subseteq 1 .. started
    /\ started \in Nat /\ dups \in 0 .. dep.dups

BarrierInv ==
    /\ InfoDomain /\ NumbersKept /\ RunsKept /\ EventsKept /\ EventsOnce
    /\ WaitingKept /\ BrokerKept /\ BarrierComplete

(* The throughput test has no barrier. *)
WorkInv == dep \in Deployments /\ (App.wait # {} => BarrierInv)
-----------------------------------------------------------------------------
(* The shape of the workflows *)

(* Where the entries differ, the place of an entry is unique. *)
LEMMA IndexFacts ==
    ASSUME NEW f, NEW D, NEW k \in D, \A j \in D : f[j] = f[k] => j = k
    PROVE  (CHOOSE j \in D : f[j] = f[k]) = k
OBVIOUS

(* The place of a stage in the flow *)
LEMMA FlowFacts ==
    ASSUME NEW n \in Nat, Len(App.flow) = n, DOMAIN App.flow = 1 .. n, n >= 1,
           \A j, k \in 1 .. n : App.flow[j] = App.flow[k] => j = k
    PROVE  /\ Stages = {App.flow[k] : k \in 1 .. n}
           /\ First = App.flow[1] /\ Last = App.flow[n]
           /\ \A k \in 1 .. n : /\ After(App.flow[k]) = App.flow[1 + k]
                                /\ Before(App.flow[k]) = App.flow[k - 1]
<1>1. ASSUME NEW k \in 1 .. n
      PROVE  (CHOOSE j \in DOMAIN App.flow : App.flow[j] = App.flow[k]) = k
  BY IndexFacts
<1>2. \A k \in 1 .. n : /\ After(App.flow[k]) = App.flow[1 + k]
                        /\ Before(App.flow[k]) = App.flow[k - 1]
  BY <1>1 DEF After, Before
<1> QED BY <1>2 DEF Stages, First, Last, Range

(* The stages of wordcount, in order *)
LEMMA WordCountFacts ==
    ASSUME dep.app = "wordcount"
    PROVE  /\ App = WC!App
           /\ Stages = {"splitter", "mapper", "reducer"}
           /\ First = "splitter" /\ Last = "reducer"
           /\ After("splitter") = "mapper" /\ After("mapper") = "reducer"
           /\ Before("mapper") = "splitter" /\ Before("reducer") = "mapper"
           /\ UpstreamNum("reducer") = dep.num
<1>1. App = WC!App
  BY DEF App
<1>2. App.flow = <<"splitter", "mapper", "reducer">>
  BY <1>1 DEF WC!App
<1>3. /\ Len(App.flow) = 3 /\ DOMAIN App.flow = 1 .. 3
      /\ App.flow[1] = "splitter" /\ App.flow[2] = "mapper"
      /\ App.flow[3] = "reducer"
  BY <1>2
<1>4. \A j, k \in 1 .. 3 : App.flow[j] = App.flow[k] => j = k
  BY <1>3
<1>5. UpstreamNum("reducer") = dep.num
  BY DEF UpstreamNum, WC!upstream_num
<1> QED BY <1>1, <1>3, <1>4, <1>5, FlowFacts

(* The stages of finra; its two fetchers are the parallel ones. *)
LEMMA FinraFacts ==
    ASSUME dep.app = "finra"
    PROVE  /\ App = FI!App
           /\ Stages = {"source", "fetchData", "runAuditRule", "sink"}
           /\ First = "source" /\ Last = "sink"
           /\ After("source") = "fetchData" /\ After("fetchData") = "runAuditRule"
           /\ After("runAuditRule") = "sink"
           /\ Before("fetchData") = "source" /\ Before("runAuditRule") = "fetchData"
           /\ Before("sink") = "runAuditRule"
           /\ UpstreamNum("runAuditRule") = 2 /\ UpstreamNum("sink") = 1
<1>1. App = FI!App
  BY DEF App
<1>2. App.flow = <<"source", "fetchData", "runAuditRule", "sink">>
  BY <1>1 DEF FI!App
<1>3. /\ Len(App.flow) = 4 /\ DOMAIN App.flow = 1 .. 4
      /\ App.flow[1] = "source" /\ App.flow[2] = "fetchData"
      /\ App.flow[3] = "runAuditRule" /\ App.flow[4] = "sink"
  BY <1>2
<1>4. \A j, k \in 1 .. 4 : App.flow[j] = App.flow[k] => j = k
  BY <1>3
<1>5. UpstreamNum("runAuditRule") = 2 /\ UpstreamNum("sink") = 1
  BY DEF UpstreamNum, FI!upstream_num
<1> QED BY <1>1, <1>3, <1>4, <1>5, FlowFacts

(* The stages of ml-pipeline *)
LEMMA MLPipelineFacts ==
    ASSUME dep.app = "ml"
    PROVE  /\ App = ML!App
           /\ Stages = {"source", "pca", "trainer", "combinemodels", "sink"}
           /\ First = "source" /\ Last = "sink"
           /\ After("source") = "pca" /\ After("pca") = "trainer"
           /\ After("trainer") = "combinemodels" /\ After("combinemodels") = "sink"
           /\ Before("pca") = "source" /\ Before("trainer") = "pca"
           /\ Before("combinemodels") = "trainer" /\ Before("sink") = "combinemodels"
           /\ UpstreamNum("combinemodels") = dep.num
<1>1. App = ML!App
  BY DEF App
<1>2. App.flow = <<"source", "pca", "trainer", "combinemodels", "sink">>
  BY <1>1 DEF ML!App
<1>3. /\ Len(App.flow) = 5 /\ DOMAIN App.flow = 1 .. 5
      /\ App.flow[1] = "source" /\ App.flow[2] = "pca"
      /\ App.flow[3] = "trainer" /\ App.flow[4] = "combinemodels"
      /\ App.flow[5] = "sink"
  BY <1>2
<1>4. \A j, k \in 1 .. 5 : App.flow[j] = App.flow[k] => j = k
  BY <1>3
<1>5. UpstreamNum("combinemodels") = dep.num
  BY DEF UpstreamNum, ML!upstream_num
<1> QED BY <1>1, <1>3, <1>4, <1>5, FlowFacts

(* The stages of digital-minist *)
LEMMA DigitsFacts ==
    ASSUME dep.app = "digits"
    PROVE  /\ App = DG!App
           /\ Stages = {"splitter", "predict", "combine"}
           /\ First = "splitter" /\ Last = "combine"
           /\ After("splitter") = "predict" /\ After("predict") = "combine"
           /\ Before("predict") = "splitter" /\ Before("combine") = "predict"
           /\ UpstreamNum("combine") = dep.num
<1>1. App = DG!App
  BY DEF App
<1>2. App.flow = <<"splitter", "predict", "combine">>
  BY <1>1 DEF DG!App
<1>3. /\ Len(App.flow) = 3 /\ DOMAIN App.flow = 1 .. 3
      /\ App.flow[1] = "splitter" /\ App.flow[2] = "predict"
      /\ App.flow[3] = "combine"
  BY <1>2
<1>4. \A j, k \in 1 .. 3 : App.flow[j] = App.flow[k] => j = k
  BY <1>3
<1>5. UpstreamNum("combine") = dep.num
  BY DEF UpstreamNum, DG!upstream_num
<1> QED BY <1>1, <1>3, <1>4, <1>5, FlowFacts

(* The stages of the micro-benchmark *)
LEMMA MicroFacts ==
    ASSUME dep.app = "micro"
    PROVE  /\ App = MI!App
           /\ Stages = {"splitter", "producer", "consumer", "sink"}
           /\ First = "splitter" /\ Last = "sink"
           /\ After("splitter") = "producer" /\ After("producer") = "consumer"
           /\ After("consumer") = "sink"
           /\ Before("producer") = "splitter" /\ Before("consumer") = "producer"
           /\ Before("sink") = "consumer"
           /\ UpstreamNum("sink") = dep.num
<1>1. App = MI!App
  BY DEF App
<1>2. App.flow = <<"splitter", "producer", "consumer", "sink">>
  BY <1>1 DEF MI!App
<1>3. /\ Len(App.flow) = 4 /\ DOMAIN App.flow = 1 .. 4
      /\ App.flow[1] = "splitter" /\ App.flow[2] = "producer"
      /\ App.flow[3] = "consumer" /\ App.flow[4] = "sink"
  BY <1>2
<1>4. \A j, k \in 1 .. 4 : App.flow[j] = App.flow[k] => j = k
  BY <1>3
<1>5. UpstreamNum("sink") = dep.num
  BY DEF UpstreamNum, MI!upstream_num
<1> QED BY <1>1, <1>3, <1>4, <1>5, FlowFacts

(* The workflows with a stage that waits *)
LEMMA AppCases ==
    ASSUME dep \in Deployments, App.wait # {}
    PROVE  dep.app \in {"wordcount", "finra", "ml", "digits", "micro"}
<1>1. dep.app \in {"wordcount", "finra", "ml", "digits", "micro", "thpt"}
  BY DeploymentsAssumption
<1>2. ASSUME dep.app = "thpt" PROVE FALSE
  BY <1>2 DEF App, TH!App
<1> QED BY <1>1, <1>2

(* What the proof needs to know of a workflow: only the stages that wait   *)
(* have several services before them, and the broker feeds only the first  *)
(* and the last one.                                                       *)
LEMMA ShapeFacts ==
    ASSUME dep \in Deployments, App.wait # {}
    PROVE  /\ ~App.sync
           /\ First \in Stages /\ First # Last
           /\ First # App.parallel /\ Last # App.parallel
           /\ "reply" \notin Stages
           /\ \A s \in Stages \ {First} : Before(s) \in Stages \ {Last, s}
           /\ \A s \in Stages \ {Last} :
                 After(s) \in Stages \ {First} /\ Before(After(s)) = s
           /\ App.wait \subseteq Stages \ {First, App.parallel}
           /\ \A s \in Stages \ {First} :
                 s \notin App.wait \/ s \in App.broker => Before(s) # App.parallel
           /\ App.broker \subseteq {First, Last} \ {App.parallel}
<1>1. CASE dep.app = "wordcount"
  BY <1>1, WordCountFacts DEF WC!App
<1>2. CASE dep.app = "finra"
  BY <1>2, FinraFacts DEF FI!App
<1>3. CASE dep.app = "ml"
  BY <1>3, MLPipelineFacts DEF ML!App
<1>4. CASE dep.app = "digits"
  BY <1>4, DigitsFacts DEF DG!App
<1>5. CASE dep.app = "micro"
  BY <1>5, MicroFacts DEF MI!App
<1> QED BY <1>1, <1>2, <1>3, <1>4, <1>5, AppCases

(* UPSTREAM_NUM is the number of services before a stage that waits. *)
LEMMA UpstreamFacts ==
    ASSUME dep \in Deployments, NEW s \in App.wait
    PROVE  /\ IsFiniteSet(ServicesOf(Before(s)))
           /\ UpstreamNum(s) = Cardinality(ServicesOf(Before(s)))
<1>1. /\ dep.num \in Nat \ {0} /\ dep.ids \in Seq(Nat)
      /\ Len(dep.ids) = IF dep.app = "finra" THEN 2 ELSE dep.num
  BY DeploymentsAssumption
<1>2. ASSUME NEW n \in Nat, NEW b
      PROVE  /\ IsFiniteSet({b} \X (1 .. n))
             /\ Cardinality({b} \X (1 .. n)) = n
  <2>1. IsFiniteSet(1 .. n) /\ Cardinality(1 .. n) = n
    BY FS_Interval
  <2>2. IsFiniteSet({b}) /\ Cardinality({b}) = 1
    BY FS_Singleton
  <2> QED BY <2>1, <2>2, FS_Product
<1>3. CASE Before(s) = App.parallel /\ UpstreamNum(s) = Len(dep.ids)
  <2>1. ServicesOf(Before(s)) = {Before(s)} \X (1 .. Len(dep.ids))
    BY <1>1, <1>3 DEF ServicesOf
  <2>2. Len(dep.ids) \in Nat
    BY <1>1
  <2>3. /\ IsFiniteSet({Before(s)} \X (1 .. Len(dep.ids)))
        /\ Cardinality({Before(s)} \X (1 .. Len(dep.ids))) = Len(dep.ids)
    BY <1>2, <2>2
  <2> QED BY <1>3, <2>1, <2>3
<1>4. CASE Before(s) # App.parallel /\ UpstreamNum(s) = 1
  <2>1. ServicesOf(Before(s)) = {Before(s)} \X (1 .. 1)
    BY <1>4 DEF ServicesOf
  <2> QED BY <1>2, <1>4, <2>1
<1>5. \/ Before(s) = App.parallel /\ UpstreamNum(s) = Len(dep.ids)
      \/ Before(s) # App.parallel /\ UpstreamNum(s) = 1
  <2>1. CASE dep.app = "wordcount"
    BY <1>1, <2>1, WordCountFacts DEF WC!App
  <2>2. CASE dep.app = "finra"
    BY <1>1, <2>2, FinraFacts DEF FI!App
  <2>3. CASE dep.app = "ml"
    BY <1>1, <2>3, MLPipelineFacts DEF ML!App
  <2>4. CASE dep.app = "digits"
    BY <1>1, <2>4, DigitsFacts DEF DG!App
  <2>5. CASE dep.app = "micro"
    BY <1>1, <2>5, MicroFacts DEF MI!App
  <2> QED BY <2>1, <2>2, <2>3, <2>4, <2>5, AppCases
<1> QED BY <1>3, <1>4, <1>5

(* All of this is fixed by the deployment. *)
LEMMA ShapeKept ==
    ASSUME dep' = dep
    PROVE  /\ App' = App /\ First' = First /\ Last' = Last /\ Stages' = Stages
           /\ Services' = Services /\ Processes' = Processes
           /\ \A s : Before(s)' = Before(s) /\ ServicesOf(s)' = ServicesOf(s)
<1>1. App' = App
  BY DEF App, WC!App, FI!App, ML!App, DG!App, MI!App, TH!App
<1>2. \A s : Before(s)' = Before(s) /\ ServicesOf(s)' = ServicesOf(s)
  BY <1>1 DEF Before, ServicesOf
<1>3. First' = First /\ Last' = Last /\ Stages' = Stages /\ Processes' = Processes
  BY <1>1 DEF First, Last, Stages, Processes
<1> QED BY <1>1, <1>2, <1>3 DEF Services

-----------------------------------------------------------------------------
(* Sequences of events *)

(* A sequence is one over its own entries. *)
LEMMA SeqFacts ==
    ASSUME NEW S, NEW r \in Seq(S)
    PROVE  r \in Seq(Range(r)) /\ DOMAIN r = 1 .. Len(r) /\ Len(r) \in Nat
<1>1. r \in [1 .. Len(r) -> Range(r)] /\ Len(r) \in Nat
  BY DEF Range
<1>2. r \in Seq(Range(r))
  BY <1>1
<1> QED BY <1>1, <1>2

(* What append does to a list of events *)
LEMMA AppendFacts ==
    ASSUME NEW q, q \in Seq(Range(q)), NEW e
    PROVE  /\ Len(q) \in Nat /\ Len(Append(q, e)) = Len(q) + 1
           /\ Append(q, e) \in Seq(Range(Append(q, e)))
           /\ DOMAIN Append(q, e) = 1 .. Len(q) + 1
           /\ Append(q, e)[Len(q) + 1] = e
           /\ \A n \in 1 .. Len(q) : Append(q, e)[n] = q[n]
<1> DEFINE S == Range(q) \cup {e}
<1>1. q \in Seq(S) /\ e \in S
  OBVIOUS
<1> HIDE DEF S
<1>2. /\ Len(q) \in Nat /\ Append(q, e) \in Seq(S) /\ Len(Append(q, e)) = Len(q) + 1
      /\ Append(q, e)[Len(q) + 1] = e
      /\ \A n \in 1 .. Len(q) : Append(q, e)[n] = q[n]
  BY <1>1
<1>3. /\ Append(q, e) \in Seq(Range(Append(q, e)))
      /\ DOMAIN Append(q, e) = 1 .. Len(Append(q, e))
  BY <1>2, SeqFacts
<1> QED BY <1>2, <1>3

(* As many events as there are services, all from different ones. *)
Fills(f, k, B) ==
    /\ IsFiniteSet(B) /\ k \in Nat /\ k >= Cardinality(B)
    /\ f \in [1 .. k -> B] /\ \A m, n \in 1 .. k : f[m] = f[n] => m = n

(* Pigeonhole: such events are one of each service. *)
LEMMA FullFacts ==
    ASSUME NEW B, NEW k, NEW f, Fills(f, k, B)
    PROVE  Range(f) = B /\ Len(f) = Cardinality(Range(f))
<1> USE DEF Fills
<1>1. f \in Injection(1 .. k, B)
  BY DEF Injection, IsInjective
<1>2. IsFiniteSet(1 .. k) /\ Cardinality(1 .. k) = k
  BY FS_Interval
<1>3. Cardinality(B) \in Nat
  BY FS_CardinalityType
<1>4. k = Cardinality(B) /\ f \in Surjection(1 .. k, B)
  BY <1>1, <1>2, <1>3, FS_Injection
<1>5. Range(f) = B
  BY <1>4 DEF Surjection, Range
<1>6. Len(f) = k
  <2>1. f \in Seq(B)
    OBVIOUS
  <2> QED BY <2>1
<1> QED BY <1>4, <1>5, <1>6

-----------------------------------------------------------------------------
(* Steps that start no function and store no event *)

(* Entries of upstream_info are removed, none is added. *)
InfoShrinks ==
    \A s \in App.wait, p \in Processes :
        /\ DOMAIN info'[s][p] \subseteq DOMAIN info[s][p]
        /\ \A wf \in DOMAIN info'[s][p] : info'[s][p][wf] = info[s][p][wf]

Moves ==
    /\ dep' = dep /\ started' \in {started, started + 1} /\ dups' \in {dups, dups - 1}
    /\ dups' >= 0

(* What waits for a workflow is gone or as before. *)
LEMMA WaitingShrinks ==
    ASSUME InfoShrinks, NumbersKept,
           NEW s \in App.wait, NEW p \in Processes, NEW wf
    PROVE  \/ Waiting(s, p, wf)' = << >>
           \/ wf \in 1 .. started /\ Waiting(s, p, wf)' = Waiting(s, p, wf)
BY DEF InfoShrinks, Waiting, NumbersKept

(* The empty list *)
LEMMA EmptyFacts == << >> \in Seq(Range(<< >>)) /\ Len(<< >>) = 0
BY DEF Range

(* A service that does not run has run as often as before. *)
LEMMA RunsSame ==
    ASSUME ran' = ran
    PROVE  \A svc, wf : Runs(svc, wf)' = Runs(svc, wf) /\ Did(svc, wf)' = Did(svc, wf)
BY DEF Runs, Did

(* The number of runs is a number, and 0 for a service that never ran. *)
LEMMA RunsType ==
    ASSUME RunsKept, NEW svc, NEW wf
    PROVE  /\ Runs(svc, wf) \in Nat /\ (~Did(svc, wf) => Runs(svc, wf) = 0)
           /\ IsFiniteSet({r \in ran : r.svc = svc /\ r.wf = wf})
<1>1. IsFiniteSet({r \in ran : r.svc = svc /\ r.wf = wf})
  BY FS_Subset DEF RunsKept
<1>2. ~Did(svc, wf) => {r \in ran : r.svc = svc /\ r.wf = wf} = {}
  BY DEF Did
<1> QED BY <1>1, <1>2, FS_CardinalityType, FS_EmptySet DEF Runs

(* A step that only drops events keeps the invariant. *)
LEMMA ShrinkStep ==
    ASSUME dep \in Deployments, App.wait # {}, BarrierInv, Moves, InfoDomain',
           InfoShrinks, ran' = ran, inflight' \subseteq inflight
    PROVE  BarrierInv'
<1> USE DEF BarrierInv
<1>1. /\ App' = App /\ First' = First /\ Services' = Services /\ Processes' = Processes
      /\ \A s : Before(s)' = Before(s) /\ ServicesOf(s)' = ServicesOf(s)
  BY ShapeKept DEF Moves
<1>2. \A svc, wf : Runs(svc, wf)' = Runs(svc, wf) /\ Did(svc, wf)' = Did(svc, wf)
  BY RunsSame
<1>3. /\ started \in Nat /\ started' \in Nat /\ started <= started'
      /\ dep' = dep /\ dep.dups \in Nat
      /\ dups \in Nat /\ dups' \in Nat /\ dups' <= dups /\ dups <= dep.dups
  BY DeploymentsAssumption DEF Moves, NumbersKept
<1>4. NumbersKept'
  <2>1. ASSUME NEW s \in App.wait, NEW p \in Processes
        PROVE  DOMAIN info'[s][p] \subseteq 1 .. started'
    <3>1. DOMAIN info'[s][p] \subseteq 1 .. started
      BY DEF NumbersKept, InfoShrinks
    <3> QED BY <1>3, <3>1
  <2> QED BY <1>1, <1>3, <2>1 DEF NumbersKept
<1>5. RunsKept'
  BY <1>1, <1>2, <1>3 DEF RunsKept, RunKept
<1>6. \A s \in App.wait, p \in Processes : \A wf :
        \/ Waiting(s, p, wf)' = << >>
        \/ wf \in 1 .. started /\ Waiting(s, p, wf)' = Waiting(s, p, wf)
  BY WaitingShrinks
<1>7. ASSUME NEW e \in inflight' PROVE EventKept(e)'
  <2>1. EventKept(e)
    BY DEF EventsKept
  <2>2. ASSUME e.svc[1] \in App.wait, NEW p \in Processes,
               NEW n \in 1 .. Len(Waiting(e.svc[1], p, e.wf)')
        PROVE  Waiting(e.svc[1], p, e.wf)'[n].from # e.from
    BY <1>6, <2>1, <2>2, EmptyFacts DEF EventKept
  <2> QED BY <1>1, <1>2, <1>3, <2>1, <2>2 DEF EventKept
<1>8. EventsOnce'
  BY DEF EventsOnce
<1>9. ASSUME NEW s \in App.wait, NEW p \in Processes, NEW wf \in 1 .. started'
      PROVE  EntryKept(s, p, wf)'
  <2>1. CASE Waiting(s, p, wf)' = << >>
    BY <2>1, EmptyFacts DEF EntryKept
  <2>2. CASE wf \in 1 .. started /\ Waiting(s, p, wf)' = Waiting(s, p, wf)
    <3>1. \A o \in Processes : \/ Waiting(s, o, wf)' = << >>
                              \/ Waiting(s, o, wf)' = Waiting(s, o, wf)
      BY <1>6
    <3>2. EntryKept(s, p, wf)
      BY <2>2 DEF WaitingKept
    <3> QED BY <1>1, <1>2, <2>2, <3>1, <3>2, EmptyFacts DEF EntryKept
  <2> QED BY <1>6, <2>1, <2>2
<1>10. ASSUME NEW svc \in Services, NEW wf \in 1 .. started', svc[1] \in App.broker \ {First}
       PROVE  BrokerRuns(svc, wf)'
  <2>1. Runs(svc, wf) \in Nat
    BY RunsType
  <2>2. CASE wf \in 1 .. started
    BY <1>2, <1>3, <1>10, <2>1, <2>2 DEF BrokerKept, BrokerRuns
  <2>3. CASE wf \notin 1 .. started
    <3>1. ~Did(svc, wf)
      BY <2>3 DEF RunsKept, RunKept, Did
    <3>2. Runs(svc, wf)' = 0
      BY <1>2, <3>1, RunsType
    <3> QED BY <1>3, <3>2 DEF BrokerRuns
  <2> QED BY <2>2, <2>3
<1>11. BarrierComplete'
  <2> SUFFICES ASSUME NEW r \in ran, r.svc[1] \in App.wait
               PROVE  /\ Range(r.from) = ServicesOf(Before(r.svc[1]))
                      /\ Len(r.from) = Cardinality(Range(r.from))
                      /\ r.run <= IF r.svc[1] \in App.broker THEN 1 + dep.dups - dups' ELSE 1
    BY <1>1, <1>3 DEF BarrierComplete
  <2>1. r.run \in Nat
    BY DEF RunsKept, RunKept
  <2> QED BY <1>3, <2>1 DEF BarrierComplete
<1> QED
  BY <1>1, <1>4, <1>5, <1>7, <1>8, <1>9, <1>10, <1>11 DEF EventsKept, WaitingKept, BrokerKept

-----------------------------------------------------------------------------
(* Steps in which a function runs *)

(* Function svc runs for workflow wf: it has not done so before, all       *)
(* functions of the stage before have, and its event is gone, unless the   *)
(* broker will bring it again.                                             *)
MayRun(svc, wf, from, rest) ==
    /\ svc \in Services /\ wf \in 1 .. started'
    /\ svc[1] \notin App.broker \ {First} => ~Did(svc, wf)
    /\ svc[1] # First => \A f \in ServicesOf(Before(svc[1])) : Did(f, wf)
    /\ rest \subseteq inflight
    /\ svc[1] \notin App.broker => \A e \in rest : ~(e.svc = svc /\ e.wf = wf)
    /\ svc[1] \in App.wait =>
         /\ \A p \in Processes : Waiting(svc[1], p, wf)' = << >>
         /\ Range(from) = ServicesOf(Before(svc[1])) /\ Len(from) = Cardinality(Range(from))
    /\ svc[1] \in App.broker \ {First} =>
         /\ Runs(svc, wf) + 1 <= 1 + dep.dups - dups'
         /\ (\E e \in rest : e.svc = svc /\ e.wf = wf) =>
              Runs(svc, wf) + 1 <= dep.dups - dups'

(* A run counts for its own service and workflow only. *)
LEMMA RunsAdd ==
    ASSUME RunsKept, NEW r, ran' = ran \cup {r}, NEW svc, NEW wf
    PROVE  /\ IsFiniteSet(ran')
           /\ Did(svc, wf)' <=> Did(svc, wf) \/ (r.svc = svc /\ r.wf = wf)
           /\ ~(r.svc = svc /\ r.wf = wf) => Runs(svc, wf)' = Runs(svc, wf)
           /\ Runs(svc, wf)' \in Nat /\ Runs(svc, wf)' <= Runs(svc, wf) + 1
<1>1. IsFiniteSet(ran')
  BY FS_AddElement DEF RunsKept
<1>2. Did(svc, wf)' <=> Did(svc, wf) \/ (r.svc = svc /\ r.wf = wf)
  BY DEF Did
<1> DEFINE S == {x \in ran : x.svc = svc /\ x.wf = wf}
           T == {x \in ran' : x.svc = svc /\ x.wf = wf}
<1>3. IsFiniteSet(S) /\ Cardinality(S) \in Nat
  BY RunsType, FS_CardinalityType
<1>4. Runs(svc, wf) = Cardinality(S) /\ Runs(svc, wf)' = Cardinality(T)
  BY DEF Runs
<1>5. r.svc = svc /\ r.wf = wf => T = S \cup {r}
  OBVIOUS
<1>6. ~(r.svc = svc /\ r.wf = wf) => T = S
  OBVIOUS
<1> HIDE DEF S, T
<1>7. CASE r.svc = svc /\ r.wf = wf
  <2>1. Cardinality(T) = IF r \in S THEN Cardinality(S) ELSE Cardinality(S) + 1
    BY <1>3, <1>5, <1>7, FS_AddElement
  <2>2. Cardinality(T) \in Nat /\ Cardinality(T) <= Cardinality(S) + 1
    BY <1>3, <2>1
  <2> QED BY <1>1, <1>2, <1>4, <1>7, <2>2
<1>8. CASE ~(r.svc = svc /\ r.wf = wf)
  BY <1>1, <1>2, <1>3, <1>4, <1>6, <1>8
<1> QED BY <1>7, <1>8

(* The events a function sends *)
LEMMA SentFacts ==
    ASSUME dep \in Deployments, App.wait # {}, NEW svc \in Services,
           NEW wf, NEW loop, NEW fields, NEW g \in Sent(svc, wf, loop, fields)
    PROVE  /\ svc[1] \in Stages \ {Last} /\ svc \in ServicesOf(svc[1])
           /\ g.type = svc[1] /\ g.from = svc /\ g.wf = wf
           /\ g.svc \in Services /\ g.svc[1] \in Stages \ {First}
           /\ Before(g.svc[1]) = svc[1] /\ g.svc # svc
           /\ \A e \in Sent(svc, wf, loop, fields) : e.svc = g.svc => e = g
<1>1. svc[1] \in Stages /\ svc \in ServicesOf(svc[1])
  BY DEF Services, ServicesOf
<1>2. svc[1] # Last
  BY DEF Sent
<1>3. /\ g.type = svc[1] /\ g.from = svc /\ g.wf = wf
      /\ g.svc \in ServicesOf(After(svc[1]))
      /\ \A e \in Sent(svc, wf, loop, fields) : e.svc = g.svc => e = g
  BY <1>2 DEF Sent
<1>4. /\ After(svc[1]) \in Stages \ {First} /\ Before(After(svc[1])) = svc[1]
      /\ After(svc[1]) # svc[1]
  BY <1>1, <1>2, ShapeFacts
<1>5. g.svc[1] = After(svc[1]) /\ g.svc \in Services
  BY <1>3, <1>4 DEF Services, ServicesOf
<1> QED BY <1>1, <1>2, <1>3, <1>4, <1>5

(* A run that may happen keeps the invariant, with the events it sends. *)
LEMMA RunStep ==
    ASSUME dep \in Deployments, App.wait # {}, BarrierInv, Moves, InfoDomain', InfoShrinks,
           NEW svc, NEW wf, NEW rest, NEW loop, NEW fields, NEW r,
           MayRun(svc, wf, r.from, rest),
           r.svc = svc, r.wf = wf, r.run = Runs(svc, wf) + 1, ran' = ran \cup {r},
           inflight' = rest \cup Sent(svc, wf, loop, fields)
    PROVE  BarrierInv'
<1> USE DEF BarrierInv
<1>0. /\ svc \in Services /\ wf \in 1 .. started' /\ rest \subseteq inflight
      /\ svc[1] \in Stages
  BY DEF MayRun, Services, ServicesOf
<1>1. /\ App' = App /\ First' = First /\ Services' = Services /\ Processes' = Processes
      /\ \A s : Before(s)' = Before(s) /\ ServicesOf(s)' = ServicesOf(s)
  BY ShapeKept DEF Moves
<1>2. /\ IsFiniteSet(ran')
      /\ \A f, w : /\ Did(f, w)' <=> Did(f, w) \/ (f = svc /\ w = wf)
                   /\ ~(f = svc /\ w = wf) => Runs(f, w)' = Runs(f, w)
                   /\ Runs(f, w)' \in Nat /\ Runs(f, w)' <= Runs(f, w) + 1
                   /\ Runs(f, w) \in Nat
  BY RunsAdd, RunsType
<1>3. /\ started \in Nat /\ started' \in Nat /\ started <= started'
      /\ dep' = dep /\ dep.dups \in Nat
      /\ dups \in Nat /\ dups' \in Nat /\ dups' <= dups /\ dups <= dep.dups
  BY DeploymentsAssumption DEF Moves, NumbersKept
<1>4. NumbersKept'
  <2>1. ASSUME NEW s \in App.wait, NEW p \in Processes
        PROVE  DOMAIN info'[s][p] \subseteq 1 .. started'
    <3>1. DOMAIN info'[s][p] \subseteq 1 .. started
      BY DEF NumbersKept, InfoShrinks
    <3> QED BY <1>3, <3>1
  <2> QED BY <1>1, <1>3, <2>1 DEF NumbersKept
<1>5. RunsKept'
  <2>1. ASSUME NEW x \in ran' PROVE RunKept(x)'
    <3>1. CASE x \in ran
      BY <1>1, <1>2, <1>3, <3>1 DEF RunsKept, RunKept
    <3>2. CASE x = r
      BY <1>0, <1>1, <1>2, <3>2 DEF RunKept, MayRun
    <3> QED BY <3>1, <3>2
  <2> QED BY <1>2, <2>1 DEF RunsKept
<1>6. \A s \in App.wait, p \in Processes : \A w :
        \/ Waiting(s, p, w)' = << >>
        \/ w \in 1 .. started /\ Waiting(s, p, w)' = Waiting(s, p, w)
  BY WaitingShrinks
<1>7. ASSUME NEW e \in rest PROVE EventKept(e)'
  <2>1. EventKept(e)
    BY <1>0 DEF EventsKept
  <2>2. ASSUME e.svc[1] \in App.wait, NEW p \in Processes,
               NEW n \in 1 .. Len(Waiting(e.svc[1], p, e.wf)')
        PROVE  Waiting(e.svc[1], p, e.wf)'[n].from # e.from
    BY <1>6, <2>1, <2>2, EmptyFacts DEF EventKept
  <2>3. e.svc[1] \notin App.broker => ~Did(e.svc, e.wf)'
    BY <1>2, <2>1 DEF EventKept, MayRun
  <2> QED BY <1>1, <1>2, <1>3, <2>1, <2>2, <2>3 DEF EventKept
<1>8. ASSUME NEW g \in Sent(svc, wf, loop, fields)
      PROVE  /\ ~Did(svc, wf) /\ ~Did(g.svc, wf)
             /\ g.from = svc /\ g.wf = wf /\ g.svc # svc
             /\ EventKept(g)'
  <2>1. /\ svc[1] \in Stages \ {Last} /\ svc \in ServicesOf(svc[1])
        /\ g.type = svc[1] /\ g.from = svc /\ g.wf = wf
        /\ g.svc \in Services /\ g.svc[1] \in Stages \ {First}
        /\ Before(g.svc[1]) = svc[1] /\ g.svc # svc
    BY <1>0, SentFacts
  <2>2. ~Did(svc, wf)
    BY <2>1, ShapeFacts DEF MayRun
  <2>3. ~Did(g.svc, wf)
    <3> SUFFICES ASSUME Did(g.svc, wf) PROVE FALSE
      OBVIOUS
    <3>1. PICK x \in ran : x.svc = g.svc /\ x.wf = wf
      BY DEF Did
    <3>2. RunKept(x)
      BY DEF RunsKept
    <3> QED BY <2>1, <2>2, <3>1, <3>2 DEF RunKept
  <2>4. ASSUME g.svc[1] \in App.wait, NEW p \in Processes,
               NEW n \in 1 .. Len(Waiting(g.svc[1], p, wf)')
        PROVE  Waiting(g.svc[1], p, wf)'[n].from # svc
    <3>1. CASE Waiting(g.svc[1], p, wf)' = << >>
      BY <2>4, <3>1, EmptyFacts
    <3>2. CASE wf \in 1 .. started /\ Waiting(g.svc[1], p, wf)' = Waiting(g.svc[1], p, wf)
      <4>1. EntryKept(g.svc[1], p, wf)
        BY <2>4, <3>2 DEF WaitingKept
      <4> QED BY <2>2, <2>4, <3>2, <4>1 DEF EntryKept
    <3> QED BY <1>6, <2>4, <3>1, <3>2
  <2>5. g.type # "reply"
    BY <2>1, ShapeFacts
  <2>6. Did(svc, wf)' /\ ~Did(g.svc, wf)'
    BY <1>2, <2>1, <2>3
  <2>7. EventKept(g)'
    BY <1>0, <1>1, <2>1, <2>4, <2>5, <2>6 DEF EventKept
  <2> QED BY <2>1, <2>2, <2>3, <2>7
<1>9. EventsOnce'
  <2> SUFFICES ASSUME NEW e \in inflight', NEW g \in inflight',
                      e.svc = g.svc, e.wf = g.wf, e.from = g.from
               PROVE  e = g
    BY DEF EventsOnce
  <2>1. CASE e \in rest /\ g \in rest
    BY <1>0, <2>1 DEF EventsOnce
  <2>2. ASSUME NEW x \in rest, NEW y \in Sent(svc, wf, loop, fields)
        PROVE  ~(x.wf = y.wf /\ x.from = y.from)
    <3>1. EventKept(x)
      BY <1>0 DEF EventsKept
    <3> QED BY <1>8, <3>1 DEF EventKept
  <2>3. CASE e \in Sent(svc, wf, loop, fields) /\ g \in Sent(svc, wf, loop, fields)
    BY <1>0, <2>3, SentFacts
  <2> QED BY <2>1, <2>2, <2>3
<1>10. ASSUME NEW s \in App.wait, NEW p \in Processes, NEW w \in 1 .. started'
       PROVE  EntryKept(s, p, w)'
  <2>1. CASE Waiting(s, p, w)' = << >>
    BY <2>1, EmptyFacts DEF EntryKept
  <2>2. CASE w \in 1 .. started /\ Waiting(s, p, w)' = Waiting(s, p, w)
             /\ Waiting(s, p, w)' # << >>
    <3>1. \A o \in Processes : \/ Waiting(s, o, w)' = << >>
                              \/ Waiting(s, o, w)' = Waiting(s, o, w)
      BY <1>6
    <3>2. EntryKept(s, p, w)
      BY <2>2 DEF WaitingKept
    <3>3. ~(<<s, 1>> = svc /\ w = wf)
      BY <2>2 DEF MayRun
    <3>4. PICK q : q = Waiting(s, p, w)
      OBVIOUS
    <3>5. /\ q \in Seq(Range(q)) /\ s \notin App.broker /\ ~Did(<<s, 1>>, w)'
      BY <1>2, <2>2, <3>2, <3>3, <3>4 DEF EntryKept
    <3>6. \A n \in 1 .. Len(q) :
            q[n].from \in ServicesOf(Before(s)) /\ Did(q[n].from, w)'
      BY <1>2, <3>2, <3>4 DEF EntryKept
    <3>7. ASSUME NEW n \in 1 .. Len(q), NEW o \in Processes,
                 NEW m \in 1 .. Len(Waiting(s, o, w)'),
                 Waiting(s, o, w)'[m].from = q[n].from
          PROVE  o = p /\ m = n
      <4>1. Waiting(s, o, w)' = Waiting(s, o, w)
        BY <3>1, <3>7, EmptyFacts
      <4> QED BY <3>2, <3>4, <3>7, <4>1 DEF EntryKept
    <3> QED BY <1>1, <2>2, <3>4, <3>5, <3>6, <3>7 DEF EntryKept
  <2> QED BY <1>6, <2>1, <2>2
<1>11. ASSUME NEW f \in Services, NEW w \in 1 .. started', f[1] \in App.broker \ {First}
       PROVE  BrokerRuns(f, w)'
  <2>1. CASE f = svc /\ w = wf
    <3>1. Runs(f, w)' <= 1 + dep.dups - dups'
      BY <1>2, <1>3, <1>11, <2>1 DEF MayRun
    <3>2. ASSUME NEW e \in inflight', e.svc = f, e.wf = w
          PROVE  Runs(f, w)' <= dep.dups - dups'
      <4>1. e \in rest
        BY <1>8, <2>1, <3>2
      <4> QED BY <1>2, <1>3, <1>11, <2>1, <3>2, <4>1 DEF MayRun
    <3> QED BY <1>3, <3>1, <3>2 DEF BrokerRuns
  <2>2. CASE ~(f = svc /\ w = wf)
    <3>1. Runs(f, w)' = Runs(f, w) /\ Runs(f, w) \in Nat
      BY <1>2, <2>2
    <3>2. CASE ~Did(f, w)
      <4>1. Runs(f, w) = 0
        BY <3>2, RunsType
      <4> QED BY <1>3, <3>1, <4>1 DEF BrokerRuns
    <3>3. CASE Did(f, w)
      <4>1. w \in 1 .. started
        BY <3>3 DEF RunsKept, RunKept, Did
      <4>2. BrokerRuns(f, w)
        BY <1>11, <4>1 DEF BrokerKept
      <4>3. \A e \in inflight' : e.svc = f /\ e.wf = w => e \in inflight
        BY <1>0, <1>8, <3>3
      <4> QED BY <1>3, <3>1, <4>2, <4>3 DEF BrokerRuns
    <3> QED BY <3>2, <3>3
  <2> QED BY <2>1, <2>2
<1>12. BarrierComplete'
  <2> SUFFICES ASSUME NEW x \in ran', x.svc[1] \in App.wait
               PROVE  /\ Range(x.from) = ServicesOf(Before(x.svc[1]))
                      /\ Len(x.from) = Cardinality(Range(x.from))
                      /\ x.run <= IF x.svc[1] \in App.broker THEN 1 + dep.dups - dups' ELSE 1
    BY <1>1, <1>3 DEF BarrierComplete
  <2>1. CASE x \in ran
    <3>1. x.run \in Nat
      BY <2>1 DEF RunsKept, RunKept
    <3> QED BY <1>3, <2>1, <3>1 DEF BarrierComplete
  <2>2. CASE x = r
    <3>1. svc[1] # First
      BY <2>2, ShapeFacts
    <3>2. x.run <= IF x.svc[1] \in App.broker THEN 1 + dep.dups - dups' ELSE 1
      <4>1. CASE svc[1] \in App.broker
        BY <2>2, <3>1, <4>1 DEF MayRun
      <4>2. CASE svc[1] \notin App.broker
        <5>1. Runs(svc, wf) = 0
          BY <4>2, RunsType DEF MayRun
        <5> QED BY <2>2, <4>2, <5>1
      <4> QED BY <4>1, <4>2
    <3> QED BY <2>2, <3>2 DEF MayRun
  <2> QED BY <2>1, <2>2
<1>13. EventsKept'
  BY <1>7, <1>8 DEF EventsKept
<1> QED
  BY <1>1, <1>4, <1>5, <1>9, <1>10, <1>11, <1>12, <1>13 DEF WaitingKept, BrokerKept

-----------------------------------------------------------------------------
(* An event waits *)

(* A stage that waits has one service. *)
LEMMA WaitServices ==
    ASSUME dep \in Deployments, NEW s \in App.wait, NEW svc \in Services, svc[1] = s
    PROVE  svc = <<s, 1>>
BY ShapeFacts DEF Services, ServicesOf

(* Behind a broker a stage waits for one event only. *)
LEMMA BrokerUpstream ==
    ASSUME dep \in Deployments, NEW s \in App.wait \cap App.broker
    PROVE  UpstreamNum(s) = 1
<1>1. s \in Stages \ {First} /\ Before(s) # App.parallel
  BY ShapeFacts
<1>2. ServicesOf(Before(s)) = {<<Before(s), 1>>}
  BY <1>1 DEF ServicesOf
<1> QED BY <1>2, UpstreamFacts, FS_Singleton

(* An event that is stored keeps the invariant. *)
LEMMA WaitStep ==
    ASSUME dep \in Deployments, App.wait # {}, BarrierInv,
           NEW e \in inflight, NEW p \in Processes, Wait(e, p)
    PROVE  BarrierInv'
<1> USE DEF BarrierInv
<1> DEFINE s == e.svc[1]
<1>1. /\ s \in App.wait /\ dep' = dep /\ started' = started /\ ran' = ran
      /\ ~Enough(e, p)
  BY DEF Wait, history
<1>2. EventKept(e)
  BY DEF EventsKept
<1>3. EntryKept(s, p, e.wf) /\ e.wf \in 1 .. started
  BY <1>1, <1>2 DEF WaitingKept, EventKept
<1> DEFINE q == Waiting(s, p, e.wf)
<1>4. /\ Len(q) \in Nat /\ Len(Append(q, e)) = Len(q) + 1
      /\ Append(q, e) \in Seq(Range(Append(q, e)))
      /\ Append(q, e)[Len(q) + 1] = e
      /\ \A n \in 1 .. Len(q) : Append(q, e)[n] = q[n]
  BY <1>3, AppendFacts DEF EntryKept
<1>5. s \notin App.broker
  BY <1>1, <1>4, BrokerUpstream DEF Enough, Events
<1>6. inflight' = inflight \ {e} /\ dups' = dups
  BY <1>5 DEF Wait, Again, Delivered, Left
<1>7. /\ App' = App /\ First' = First /\ Services' = Services /\ Processes' = Processes
      /\ \A t : Before(t)' = Before(t) /\ ServicesOf(t)' = ServicesOf(t)
  BY <1>1, ShapeKept
<1>8. \A svc, wf : Runs(svc, wf)' = Runs(svc, wf) /\ Did(svc, wf)' = Did(svc, wf)
  BY <1>1, RunsSame
<1>9. /\ InfoDomain'
      /\ info'[s][p] = Put(info[s][p], e.wf, Append(q, e))
      /\ \A t \in App.wait, o \in Processes : t # s \/ o # p => info'[t][o] = info[t][o]
  <2> DEFINE d == Put(info[s][p], e.wf, Append(q, e))
  <2>1. info' = [info EXCEPT ![s][p] = d]
    BY <1>1 DEF Wait, Events
  <2> HIDE DEF s, q, d
  <2>2. /\ InfoDomain' /\ info'[s][p] = d
        /\ \A t \in App.wait, o \in Processes : t # s \/ o # p => info'[t][o] = info[t][o]
    BY <1>1, <1>7, <2>1 DEF InfoDomain
  <2> QED BY <2>2 DEF d
<1>10. /\ \A t \in App.wait, o \in Processes :
             DOMAIN info'[t][o] \subseteq DOMAIN info[t][o] \cup {e.wf}
       /\ Waiting(s, p, e.wf)' = Append(q, e)
       /\ \A t \in App.wait, o \in Processes : \A wf :
            t # s \/ o # p \/ wf # e.wf => Waiting(t, o, wf)' = Waiting(t, o, wf)
  <2> HIDE DEF s, q
  <2>1. /\ DOMAIN info'[s][p] = DOMAIN info[s][p] \cup {e.wf}
        /\ info'[s][p][e.wf] = Append(q, e)
        /\ \A wf \in DOMAIN info[s][p] : wf # e.wf => info'[s][p][wf] = info[s][p][wf]
    BY <1>9 DEF Put
  <2>2. ASSUME NEW t \in App.wait, NEW o \in Processes
        PROVE  DOMAIN info'[t][o] \subseteq DOMAIN info[t][o] \cup {e.wf}
    <3>1. CASE t = s /\ o = p
      BY <2>1, <3>1
    <3>2. CASE t # s \/ o # p
      BY <1>9, <3>2
    <3> QED BY <3>1, <3>2
  <2>3. Waiting(s, p, e.wf)' = Append(q, e)
    BY <2>1 DEF Waiting
  <2>4. ASSUME NEW t \in App.wait, NEW o \in Processes, NEW wf, t # s \/ o # p \/ wf # e.wf
        PROVE  Waiting(t, o, wf)' = Waiting(t, o, wf)
    <3>1. CASE t = s /\ o = p
      BY <2>1, <2>4, <3>1 DEF Waiting
    <3>2. CASE t # s \/ o # p
      BY <1>9, <3>2 DEF Waiting
    <3> QED BY <3>1, <3>2
  <2> QED BY <2>2, <2>3, <2>4
<1>11. NumbersKept'
  <2> HIDE DEF s, q
  <2> QED BY <1>1, <1>3, <1>6, <1>7, <1>10 DEF NumbersKept
<1>12. RunsKept'
  BY <1>1, <1>7, <1>8 DEF RunsKept, RunKept
<1>13. ASSUME NEW g \in inflight' PROVE EventKept(g)'
  <2>1. EventKept(g) /\ g \in inflight /\ g # e
    BY <1>6 DEF EventsKept
  <2>2. ASSUME g.svc[1] \in App.wait, NEW o \in Processes,
               NEW n \in 1 .. Len(Waiting(g.svc[1], o, g.wf)')
        PROVE  Waiting(g.svc[1], o, g.wf)'[n].from # g.from
    <3>1. CASE g.svc[1] = s /\ o = p /\ g.wf = e.wf
      <4>1. Waiting(g.svc[1], o, g.wf)' = Append(q, e) /\ n \in 1 .. Len(q) + 1
        BY <1>1, <1>4, <1>10, <3>1, <2>2
      <4>2. CASE n \in 1 .. Len(q)
        BY <1>4, <2>1, <2>2, <3>1, <4>1, <4>2 DEF EventKept
      <4>3. CASE n = Len(q) + 1
        <5>1. g.svc = e.svc
          BY <1>1, <1>2, <2>1, <3>1, WaitServices DEF EventKept
        <5> QED BY <1>4, <2>1, <3>1, <4>1, <4>3, <5>1 DEF EventsOnce
      <4> QED BY <1>4, <4>1, <4>2, <4>3
    <3>2. CASE ~(g.svc[1] = s /\ o = p /\ g.wf = e.wf)
      BY <1>10, <2>1, <2>2, <3>2 DEF EventKept
    <3> QED BY <3>1, <3>2
  <2> QED BY <1>1, <1>7, <1>8, <2>1, <2>2 DEF EventKept
<1>14. EventsOnce'
  BY <1>6 DEF EventsOnce
<1>15. ASSUME NEW t \in App.wait, NEW o \in Processes, NEW wf \in 1 .. started
       PROVE  EntryKept(t, o, wf)'
  <2>1. EntryKept(t, o, wf)
    BY DEF WaitingKept
  <2>2. CASE ~(t = s /\ wf = e.wf)
    <3>1. \A a \in Processes : Waiting(t, a, wf)' = Waiting(t, a, wf)
      BY <1>10, <2>2
    <3> QED BY <1>7, <1>8, <2>1, <3>1 DEF EntryKept
  <2>3. CASE t = s /\ wf = e.wf
    <3>1. ASSUME NEW a \in Processes, NEW n \in 1 .. Len(Waiting(s, a, wf)')
          PROVE  \/ /\ n \in 1 .. Len(Waiting(s, a, wf))
                    /\ Waiting(s, a, wf)'[n] = Waiting(s, a, wf)[n]
                 \/ a = p /\ n = Len(q) + 1 /\ Waiting(s, a, wf)'[n] = e
      BY <1>1, <1>4, <1>10, <2>3
    <3>2. \A a \in Processes : EntryKept(s, a, wf)
      BY <1>1 DEF WaitingKept
    <3>3. \A a \in Processes : \A n \in 1 .. Len(Waiting(s, a, wf)) :
             Waiting(s, a, wf)[n].from # e.from
      BY <1>1, <1>2, <2>3 DEF EventKept
    <3>4. Waiting(s, o, wf)' \in Seq(Range(Waiting(s, o, wf)'))
      <4>1. CASE o = p
        <5>1. Waiting(s, o, wf)' = Append(q, e)
          BY <1>10, <2>3, <4>1
        <5> QED BY <1>4, <5>1
      <4>2. CASE o # p
        <5>1. Waiting(s, o, wf)' = Waiting(s, o, wf)
          BY <1>1, <1>10, <4>2
        <5> QED BY <3>2, <5>1 DEF EntryKept
      <4> QED BY <4>1, <4>2
    <3>5. s \notin App.broker /\ ~Did(<<s, 1>>, wf)
      BY <1>1, <1>2, <1>5, <2>3, WaitServices DEF EventKept
    <3>6. ASSUME NEW n \in 1 .. Len(Waiting(s, o, wf)')
          PROVE  /\ Waiting(s, o, wf)'[n].from \in ServicesOf(Before(s))
                 /\ Did(Waiting(s, o, wf)'[n].from, wf)
      BY <1>2, <2>3, <3>1, <3>2 DEF EventKept, EntryKept
    <3>7. ASSUME NEW n \in 1 .. Len(Waiting(s, o, wf)'), NEW a \in Processes,
                 NEW m \in 1 .. Len(Waiting(s, a, wf)'),
                 Waiting(s, a, wf)'[m].from = Waiting(s, o, wf)'[n].from
          PROVE  a = o /\ m = n
      <4>1. CASE /\ n \in 1 .. Len(Waiting(s, o, wf)) /\ m \in 1 .. Len(Waiting(s, a, wf))
                 /\ Waiting(s, o, wf)'[n] = Waiting(s, o, wf)[n]
                 /\ Waiting(s, a, wf)'[m] = Waiting(s, a, wf)[m]
        <5>1. Waiting(s, a, wf)[m].from = Waiting(s, o, wf)[n].from
          BY <3>7, <4>1
        <5>2. EntryKept(s, o, wf)
          BY <3>2
        <5> QED BY <4>1, <5>1, <5>2 DEF EntryKept
      <4>2. CASE /\ n \in 1 .. Len(Waiting(s, o, wf)) /\ Waiting(s, a, wf)'[m] = e
                 /\ Waiting(s, o, wf)'[n] = Waiting(s, o, wf)[n]
        BY <3>3, <3>7, <4>2
      <4>3. CASE /\ m \in 1 .. Len(Waiting(s, a, wf)) /\ Waiting(s, o, wf)'[n] = e
                 /\ Waiting(s, a, wf)'[m] = Waiting(s, a, wf)[m]
        BY <3>3, <3>7, <4>3
      <4>4. CASE o = p /\ n = Len(q) + 1 /\ a = p /\ m = Len(q) + 1
        BY <4>4
      <4> QED BY <3>1, <4>1, <4>2, <4>3, <4>4
    <3> QED BY <1>7, <1>8, <2>3, <3>4, <3>5, <3>6, <3>7 DEF EntryKept
  <2> QED BY <2>2, <2>3
<1>16. BrokerKept'
  BY <1>1, <1>6, <1>7, <1>8 DEF BrokerKept, BrokerRuns
<1>17. BarrierComplete'
  BY <1>1, <1>6, <1>7 DEF BarrierComplete
<1>18. EventsKept' /\ WaitingKept'
  BY <1>1, <1>7, <1>13, <1>15 DEF EventsKept, WaitingKept
<1> QED BY <1>9, <1>11, <1>12, <1>14, <1>16, <1>17, <1>18

-----------------------------------------------------------------------------
(* The handlers *)

RunOf(svc, wf, metas, r) ==
    [svc |-> svc, wf |-> wf, read |-> r.read,
     from |-> [n \in DOMAIN metas |-> metas[n].from], run |-> Runs(svc, wf) + 1]

(* A handler that returns *)
LEMMA CompletesFacts ==
    ASSUME ~App.sync, NEW svc, NEW wf, NEW loop, NEW metas, NEW r, NEW rest,
           Completes(svc, wf, loop, metas, r, rest)
    PROVE  /\ ran' = ran \cup {RunOf(svc, wf, metas, r)}
           /\ inflight' = rest \cup Sent(svc, wf, loop, r.fields)
<1>1. ran' = ran \cup {RunOf(svc, wf, metas, r)}
  BY DEF Completes, RunOf
<1>2. inflight' = rest \cup Sent(svc, wf, loop, r.fields)
  BY DEF Completes, Reply, Sent
<1> QED BY <1>1, <1>2

(* A handler that raises, or whose process dies *)
LEMMA StopsFacts ==
    ASSUME ~App.sync, NEW svc, NEW wf, NEW r, NEW rest,
           Fails(svc, wf, r, rest) \/ Dies(svc, wf, r, rest)
    PROVE  ran' = ran /\ inflight' = rest
BY DEF Fails, Dies, Reply

(* A delivery uses up at most one of the duplicates. *)
LEMMA DeliveredFacts ==
    ASSUME dups \in Nat, NEW s, NEW again \in Again(s), Delivered(again)
    PROVE  \/ again = FALSE /\ dups' = dups
           \/ again = TRUE /\ s \in App.broker /\ dups > 0 /\ dups' = dups - 1
<1>1. again = FALSE \/ (again = TRUE /\ s \in App.broker /\ dups > 0)
  BY Zenon DEF Again
<1>2. CASE again = FALSE
  BY <1>2 DEF Delivered
<1>3. CASE again = TRUE
  BY <1>1, <1>3 DEF Delivered
<1> QED BY <1>1, <1>2, <1>3

(* upstream_info is left alone. *)
LEMMA InfoSame ==
    ASSUME info' = info, dep' = dep, InfoDomain
    PROVE  InfoDomain' /\ InfoShrinks
BY ShapeKept DEF InfoDomain, InfoShrinks

(* A ping keeps the invariant. *)
LEMMA StartStep ==
    ASSUME dep \in Deployments, App.wait # {}, BarrierInv,
           NEW y, Start(y)
    PROVE  BarrierInv'
<1>0. PICK svc, wf, metas, rest : /\ svc = <<First, 1>> /\ wf = started + 1
                                  /\ metas = << >> /\ rest = inflight
  OBVIOUS
<1>1. /\ InfoDomain /\ NumbersKept /\ RunsKept /\ EventsKept
      /\ started \in Nat /\ dups \in Nat
  BY DEF BarrierInv, NumbersKept
<1>2. PICK r : \/ Completes(svc, wf, y.loop, metas, r, rest)
               \/ Fails(svc, wf, r, rest)
  BY <1>0 DEF Start
<1>3. dep' = dep /\ info' = info /\ started' = started + 1
  BY DEF Start
<1>4. Moves
  <2>1. PICK again \in Again(First) : Delivered(again)
    BY DEF Start
  <2>2. dups' = dups \/ (dups > 0 /\ dups' = dups - 1)
    BY <1>1, <2>1, DeliveredFacts, Zenon
  <2> QED BY <1>1, <1>3, <2>2 DEF Moves
<1>5. InfoDomain' /\ InfoShrinks
  BY <1>1, <1>3, InfoSame
<1>6. ~App.sync /\ First \in Stages /\ First # App.parallel /\ First \notin App.wait
  BY ShapeFacts
<1>7. \A from : MayRun(svc, wf, from, rest)
  <2>1. svc \in Services /\ svc[1] = First
    BY <1>0, <1>6 DEF Services, ServicesOf
  <2>2. ~Did(svc, wf)
    BY <1>0, <1>1 DEF RunsKept, RunKept, Did
  <2>3. \A e \in inflight : e.wf # wf
    BY <1>0, <1>1 DEF EventsKept, EventKept
  <2>4. wf \in 1 .. started'
    BY <1>0, <1>1, <1>3
  <2> QED BY <1>0, <1>6, <2>1, <2>2, <2>3, <2>4 DEF MayRun
<1>8. CASE Fails(svc, wf, r, rest)
  BY <1>0, <1>4, <1>5, <1>6, <1>8, StopsFacts, ShrinkStep
<1>9. CASE Completes(svc, wf, y.loop, metas, r, rest)
  <2>1. PICK x : x = RunOf(svc, wf, metas, r)
    OBVIOUS
  <2>2. x.svc = svc /\ x.wf = wf /\ x.run = Runs(svc, wf) + 1
    BY <2>1 DEF RunOf
  <2>3. ran' = ran \cup {x} /\ inflight' = rest \cup Sent(svc, wf, y.loop, r.fields)
    BY <1>6, <1>9, <2>1, CompletesFacts
  <2>4. MayRun(svc, wf, x.from, rest)
    BY <1>7
  <2> QED BY <1>4, <1>5, <2>2, <2>3, <2>4, RunStep
<1> QED BY <1>2, <1>8, <1>9

(* Where one service comes before, there is one event. *)
LEMMA SingleEvent ==
    ASSUME BarrierInv, NEW e \in inflight, Before(e.svc[1]) # App.parallel
    PROVE  /\ ServicesOf(Before(e.svc[1])) = {e.from}
           /\ \A g \in inflight : g.svc = e.svc /\ g.wf = e.wf => g = e
<1>1. \A g \in inflight : EventKept(g)
  BY DEF BarrierInv, EventsKept
<1>2. ServicesOf(Before(e.svc[1])) = {<<Before(e.svc[1]), 1>>}
  BY DEF ServicesOf
<1>3. ServicesOf(Before(e.svc[1])) = {e.from}
  BY <1>1, <1>2 DEF EventKept
<1>4. ASSUME NEW g \in inflight, g.svc = e.svc, g.wf = e.wf PROVE g = e
  <2>1. g.from = e.from
    BY <1>1, <1>3, <1>4 DEF EventKept
  <2> QED BY <1>4, <2>1 DEF BarrierInv, EventsOnce
<1> QED BY <1>3, <1>4

(* A delivery of the broker is the last one, or uses up a duplicate. *)
LEMMA BrokerDelivery ==
    ASSUME dep \in Deployments, App.wait # {}, BarrierInv, NEW e \in inflight,
           NEW again \in Again(e.svc[1]), Delivered(again)
    PROVE  /\ dups' = dups \/ (dups > 0 /\ dups' = dups - 1)
           /\ Left(e, again) \subseteq inflight
           /\ e.svc[1] \notin App.broker => Left(e, again) = inflight \ {e}
           /\ e.svc[1] \in App.broker =>
                /\ Runs(e.svc, e.wf) + 1 <= 1 + dep.dups - dups'
                /\ (\E g \in Left(e, again) : g.svc = e.svc /\ g.wf = e.wf) =>
                     Runs(e.svc, e.wf) + 1 <= dep.dups - dups'
<1>1. /\ EventKept(e) /\ dups \in Nat /\ dep.dups \in Nat /\ RunsKept /\ BrokerKept
  BY DeploymentsAssumption DEF BarrierInv, EventsKept, NumbersKept
<1>2. \/ again = FALSE /\ dups' = dups
      \/ again = TRUE /\ e.svc[1] \in App.broker /\ dups > 0 /\ dups' = dups - 1
  BY <1>1, DeliveredFacts, Zenon
<1>3. Runs(e.svc, e.wf) \in Nat
  BY <1>1, RunsType
<1>4. ASSUME e.svc[1] \in App.broker
      PROVE  /\ Runs(e.svc, e.wf) <= dep.dups - dups
             /\ \A g \in inflight : g.svc = e.svc /\ g.wf = e.wf => g = e
  <2>1. /\ e.svc \in Services /\ e.svc[1] \in Stages \ {First} /\ e.wf \in 1 .. started
    BY <1>1 DEF EventKept, Services, ServicesOf
  <2>2. Before(e.svc[1]) # App.parallel
    BY <1>4, <2>1, ShapeFacts
  <2>3. BrokerRuns(e.svc, e.wf)
    BY <1>1, <1>4, <2>1 DEF BrokerKept
  <2> QED BY <2>2, <2>3, SingleEvent DEF BrokerRuns
<1>5. CASE again = FALSE /\ dups' = dups
  <2>1. Left(e, again) = inflight \ {e}
    BY <1>5 DEF Left
  <2> QED BY <1>1, <1>3, <1>4, <1>5, <2>1
<1>6. CASE again = TRUE /\ e.svc[1] \in App.broker /\ dups > 0 /\ dups' = dups - 1
  <2>1. Left(e, again) = inflight
    BY <1>6 DEF Left
  <2> QED BY <1>1, <1>3, <1>4, <1>6, <2>1
<1> QED BY <1>2, <1>5, <1>6

(* An event for a stage that does not wait keeps the invariant. *)
LEMMA HandleStep ==
    ASSUME dep \in Deployments, App.wait # {}, BarrierInv,
           NEW e \in inflight, Handle(e)
    PROVE  BarrierInv'
<1>1. /\ InfoDomain /\ EventKept(e) /\ started \in Nat /\ dups \in Nat
  BY DEF BarrierInv, EventsKept, NumbersKept
<1>2. PICK svc, wf, metas : svc = e.svc /\ wf = e.wf /\ metas = <<e>>
  OBVIOUS
<1>3. PICK again, r :
        /\ again \in Again(svc[1]) /\ Delivered(again)
        /\ \/ Completes(svc, wf, e.loop, metas, r, Left(e, again))
           \/ Fails(svc, wf, r, Left(e, again))
           \/ Dies(svc, wf, r, Left(e, again))
  BY <1>2 DEF Handle
<1>4. PICK rest : rest = Left(e, again)
  OBVIOUS
<1>5. /\ dups' = dups \/ (dups > 0 /\ dups' = dups - 1)
      /\ rest \subseteq inflight
      /\ svc[1] \notin App.broker => rest = inflight \ {e}
      /\ svc[1] \in App.broker =>
           /\ Runs(svc, wf) + 1 <= 1 + dep.dups - dups'
           /\ (\E g \in rest : g.svc = svc /\ g.wf = wf) =>
                Runs(svc, wf) + 1 <= dep.dups - dups'
  BY <1>2, <1>3, <1>4, BrokerDelivery
<1>6. dep' = dep /\ info' = info /\ started' = started /\ svc[1] \notin App.wait
  BY <1>2 DEF Handle
<1>7. Moves
  BY <1>1, <1>5, <1>6 DEF Moves
<1>8. InfoDomain' /\ InfoShrinks
  BY <1>1, <1>6, InfoSame
<1>9. ~App.sync
  BY ShapeFacts
<1>10. \A from : MayRun(svc, wf, from, rest)
  <2>1. /\ svc \in Services /\ svc[1] \in Stages \ {First} /\ wf \in 1 .. started'
        /\ svc[1] \notin App.broker => ~Did(svc, wf)
        /\ Did(e.from, wf)
    BY <1>1, <1>2, <1>6 DEF EventKept, Services, ServicesOf
  <2>2. Before(svc[1]) # App.parallel
    BY <1>6, <2>1, ShapeFacts
  <2>3. /\ ServicesOf(Before(svc[1])) = {e.from}
        /\ \A g \in inflight : g.svc = svc /\ g.wf = wf => g = e
    BY <1>2, <2>2, SingleEvent
  <2> QED BY <1>5, <1>6, <2>1, <2>3 DEF MayRun
<1>11. CASE Fails(svc, wf, r, rest) \/ Dies(svc, wf, r, rest)
  BY <1>5, <1>7, <1>8, <1>9, <1>11, StopsFacts, ShrinkStep
<1>12. CASE Completes(svc, wf, e.loop, metas, r, rest)
  <2>1. PICK x : x = RunOf(svc, wf, metas, r)
    OBVIOUS
  <2>2. x.svc = svc /\ x.wf = wf /\ x.run = Runs(svc, wf) + 1
    BY <2>1 DEF RunOf
  <2>3. ran' = ran \cup {x} /\ inflight' = rest \cup Sent(svc, wf, e.loop, r.fields)
    BY <1>9, <1>12, <2>1, CompletesFacts
  <2>4. MayRun(svc, wf, x.from, rest)
    BY <1>10
  <2> QED BY <1>7, <1>8, <2>2, <2>3, <2>4, RunStep
<1> QED BY <1>3, <1>4, <1>11, <1>12

-----------------------------------------------------------------------------
(* The barrier *)

(* Entries are removed from upstream_info of one process. *)
LEMMA InfoRemove ==
    ASSUME NEW s \in App.wait, NEW p \in Processes, NEW d,
           DOMAIN d \subseteq DOMAIN info[s][p],
           \A wf \in DOMAIN d : d[wf] = info[s][p][wf], info'[s][p] = d,
           \A t \in App.wait, o \in Processes : t # s \/ o # p => info'[t][o] = info[t][o]
    PROVE  InfoShrinks
<1>1. ASSUME NEW t \in App.wait, NEW o \in Processes
      PROVE  /\ DOMAIN info'[t][o] \subseteq DOMAIN info[t][o]
             /\ \A wf \in DOMAIN info'[t][o] : info'[t][o][wf] = info[t][o][wf]
  <2>1. CASE t = s /\ o = p
    BY <2>1
  <2>2. CASE t # s \/ o # p
    BY <2>2
  <2> QED BY <2>1, <2>2
<1> QED BY <1>1 DEF InfoShrinks

(* Event e opens the barrier of stage s in process p. *)
Opens(e, p, s, metas, from) ==
    /\ e \in inflight /\ p \in Processes /\ s \in App.wait /\ s = e.svc[1] /\ Enough(e, p)
    /\ metas = Events(e, p) /\ from = [n \in DOMAIN metas |-> metas[n].from]

(* What has come together when the barrier opens: an event of every        *)
(* service before, so that no other process and no channel has one.        *)
LEMMA FullBarrier ==
    ASSUME dep \in Deployments, BarrierInv, NEW e, NEW p, NEW s, NEW metas, NEW from,
           Opens(e, p, s, metas, from)
    PROVE  /\ Range(from) = ServicesOf(Before(s)) /\ Len(from) = Cardinality(Range(from))
           /\ \A f \in ServicesOf(Before(s)) : Did(f, e.wf)
           /\ \A g \in inflight : g.svc = e.svc /\ g.wf = e.wf => g = e
           /\ \A o \in Processes : o # p => Waiting(s, o, e.wf) = << >>
           /\ \A m, n \in DOMAIN metas : from[m] = from[n] => m = n
<1> USE DEF Opens
<1>1. /\ \A g \in inflight : EventKept(g)
      /\ e.wf \in 1 .. started /\ e.from \in ServicesOf(Before(s)) /\ Did(e.from, e.wf)
  BY DEF BarrierInv, EventsKept, EventKept
<1>2. \A o \in Processes : EntryKept(s, o, e.wf)
  BY <1>1 DEF BarrierInv, WaitingKept
<1>3. PICK q : q = Waiting(s, p, e.wf)
  OBVIOUS
<1>4. /\ Len(q) \in Nat /\ Len(metas) = Len(q) + 1
      /\ DOMAIN metas = 1 .. Len(q) + 1
      /\ metas[Len(q) + 1] = e
      /\ \A n \in 1 .. Len(q) : metas[n] = q[n]
  <2>1. q \in Seq(Range(q)) /\ metas = Append(q, e)
    BY <1>2, <1>3 DEF EntryKept, Events
  <2> QED BY <2>1, AppendFacts
<1>5. PICK k : k = Len(q) + 1
  OBVIOUS
<1>6. /\ k \in Nat /\ DOMAIN from = 1 .. k /\ from[k] = e.from
      /\ \A n \in 1 .. Len(q) : from[n] = q[n].from
  BY <1>4, <1>5
<1>7. \A n \in 1 .. k : n \in 1 .. Len(q) \/ n = k
  BY <1>4, <1>5
<1>8. \A n \in 1 .. k : from[n] \in ServicesOf(Before(s)) /\ Did(from[n], e.wf)
  <2>1. \A n \in 1 .. Len(q) : q[n].from \in ServicesOf(Before(s)) /\ Did(q[n].from, e.wf)
    BY <1>2, <1>3 DEF EntryKept
  <2> QED BY <1>1, <1>6, <1>7, <2>1
<1>9. \A m \in 1 .. Len(q) : q[m].from # e.from
  BY <1>1, <1>3 DEF EventKept
<1>10. \A m, n \in 1 .. k : from[m] = from[n] => m = n
  <2>1. \A m, n \in 1 .. Len(q) : q[m].from = q[n].from => m = n
    BY <1>2, <1>3 DEF EntryKept
  <2> SUFFICES ASSUME NEW m \in 1 .. k, NEW n \in 1 .. k, from[m] = from[n]
               PROVE  m = n
    OBVIOUS
  <2>2. CASE m \in 1 .. Len(q) /\ n \in 1 .. Len(q)
    <3>1. q[m].from = q[n].from
      BY <1>6, <2>2
    <3> QED BY <2>1, <2>2, <3>1
  <2>3. CASE m = k /\ n = k
    BY <2>3
  <2>4. CASE m = k /\ n \in 1 .. Len(q)
    BY <1>6, <1>9, <2>4
  <2>5. CASE n = k /\ m \in 1 .. Len(q)
    BY <1>6, <1>9, <2>5
  <2> QED BY <1>7, <2>2, <2>3, <2>4, <2>5
<1>11. /\ IsFiniteSet(ServicesOf(Before(s)))
       /\ k >= Cardinality(ServicesOf(Before(s)))
  <2>1. Len(metas) >= UpstreamNum(s)
    BY DEF Enough
  <2> QED BY <1>4, <1>5, <2>1, UpstreamFacts
<1>12. from \in [1 .. k -> ServicesOf(Before(s))]
  BY <1>6, <1>8
<1>13. Range(from) = ServicesOf(Before(s)) /\ Len(from) = Cardinality(Range(from))
  <2>1. Fills(from, k, ServicesOf(Before(s)))
    BY <1>6, <1>10, <1>11, <1>12 DEF Fills
  <2> QED BY <2>1, FullFacts
<1>14. \A f \in ServicesOf(Before(s)) : \E n \in 1 .. k : from[n] = f
  BY <1>6, <1>13 DEF Range
<1>15. ASSUME NEW g \in inflight, g.svc = e.svc, g.wf = e.wf PROVE g = e
  <2>1. PICK n \in 1 .. k : from[n] = g.from
    BY <1>1, <1>14, <1>15 DEF EventKept
  <2>2. n \notin 1 .. Len(q)
    <3>1. \A m \in 1 .. Len(q) : q[m].from # g.from
      BY <1>1, <1>3, <1>15 DEF EventKept
    <3> QED BY <1>6, <2>1, <3>1
  <2>3. g.from = e.from
    BY <1>6, <1>7, <2>1, <2>2
  <2> QED BY <1>15, <2>3 DEF BarrierInv, EventsOnce
<1>16. ASSUME NEW o \in Processes, o # p PROVE Waiting(s, o, e.wf) = << >>
  <2> SUFFICES ASSUME Waiting(s, o, e.wf) # << >> PROVE FALSE
    OBVIOUS
  <2>1. PICK w : w = Waiting(s, o, e.wf)
    OBVIOUS
  <2>2. w \in Seq(Range(w)) /\ w # << >>
    BY <1>2, <2>1 DEF EntryKept
  <2>3. 1 \in 1 .. Len(w)
    BY <2>2
  <2>4. w[1].from \in ServicesOf(Before(s)) /\ w[1].from # e.from
    BY <1>1, <1>2, <2>1, <2>3 DEF EntryKept, EventKept
  <2>5. PICK n \in 1 .. k : from[n] = w[1].from
    BY <1>14, <2>4
  <2>6. n \in 1 .. Len(q) /\ q[n].from = w[1].from
    BY <1>6, <1>7, <2>4, <2>5
  <2> QED BY <1>2, <1>3, <1>16, <2>1, <2>3, <2>6 DEF EntryKept
<1>17. \A m, n \in DOMAIN metas : from[m] = from[n] => m = n
  BY <1>4, <1>5, <1>10
<1>18. \A f \in ServicesOf(Before(s)) : Did(f, e.wf)
  BY <1>8, <1>14
<1> QED BY <1>13, <1>15, <1>16, <1>17, <1>18

(* handle_reduce removes its entry; a process that dies loses all of them. *)
LEMMA JoinInfo ==
    ASSUME InfoDomain, dep' = dep, NEW s \in App.wait, NEW p \in Processes, NEW wf,
           \/ info' = [info EXCEPT ![s][p] = Restrict(@, DOMAIN @ \ {wf})]
           \/ info' = [info EXCEPT ![s][p] = << >>]
    PROVE  /\ InfoDomain' /\ InfoShrinks /\ Waiting(s, p, wf)' = << >>
<1>0. App' = App /\ Processes' = Processes
  BY ShapeKept
<1>1. CASE info' = [info EXCEPT ![s][p] = Restrict(@, DOMAIN @ \ {wf})]
  <2>1. PICK d : d = Restrict(info[s][p], DOMAIN info[s][p] \ {wf})
    OBVIOUS
  <2>2. /\ DOMAIN d = DOMAIN info[s][p] \ {wf}
        /\ \A w \in DOMAIN d : d[w] = info[s][p][w]
    BY <2>1 DEF Restrict
  <2>3. info' = [info EXCEPT ![s][p] = d]
    BY <1>1, <2>1
  <2>4. /\ InfoDomain' /\ info'[s][p] = d
        /\ \A t \in App.wait, o \in Processes : t # s \/ o # p => info'[t][o] = info[t][o]
    BY <1>0, <2>3 DEF InfoDomain
  <2>5. InfoShrinks
    BY <2>2, <2>4, InfoRemove
  <2> QED BY <2>2, <2>4, <2>5 DEF Waiting
<1>2. CASE info' = [info EXCEPT ![s][p] = << >>]
  <2>1. PICK d : d = << >>
    OBVIOUS
  <2>2. /\ DOMAIN d = {} /\ DOMAIN d \subseteq DOMAIN info[s][p]
        /\ \A w \in DOMAIN d : d[w] = info[s][p][w]
    BY <2>1
  <2>3. info' = [info EXCEPT ![s][p] = d]
    BY <1>2, <2>1
  <2>4. /\ InfoDomain' /\ info'[s][p] = d
        /\ \A t \in App.wait, o \in Processes : t # s \/ o # p => info'[t][o] = info[t][o]
    BY <1>0, <2>3 DEF InfoDomain
  <2>5. InfoShrinks
    BY <2>2, <2>4, InfoRemove
  <2> QED BY <2>2, <2>4, <2>5 DEF Waiting
<1> QED BY <1>1, <1>2

(* The event that opens the barrier keeps the invariant. *)
LEMMA JoinStep ==
    ASSUME dep \in Deployments, App.wait # {}, BarrierInv,
           NEW e \in inflight, NEW p \in Processes, Join(e, p)
    PROVE  BarrierInv'
<1>1. /\ InfoDomain /\ NumbersKept /\ EventKept(e) /\ started \in Nat /\ dups \in Nat
  BY DEF BarrierInv, EventsKept, NumbersKept
<1>2. PICK svc, wf, metas : svc = e.svc /\ wf = e.wf /\ metas = Events(e, p)
  OBVIOUS
<1>3. PICK again, r :
        /\ again \in Again(svc[1]) /\ Delivered(again)
        /\ \/ Completes(svc, wf, e.loop, metas, r, Left(e, again))
           \/ Fails(svc, wf, r, Left(e, again))
           \/ Dies(svc, wf, r, Left(e, again))
        /\ \/ info' = [info EXCEPT ![svc[1]][p] = Restrict(@, DOMAIN @ \ {wf})]
           \/ info' = [info EXCEPT ![svc[1]][p] = << >>]
  BY <1>2 DEF Join
<1>4. PICK rest : rest = Left(e, again)
  OBVIOUS
<1>5. /\ dups' = dups \/ (dups > 0 /\ dups' = dups - 1)
      /\ rest \subseteq inflight
      /\ svc[1] \notin App.broker => rest = inflight \ {e}
      /\ svc[1] \in App.broker =>
           /\ Runs(svc, wf) + 1 <= 1 + dep.dups - dups'
           /\ (\E g \in rest : g.svc = svc /\ g.wf = wf) =>
                Runs(svc, wf) + 1 <= dep.dups - dups'
  BY <1>2, <1>3, <1>4, BrokerDelivery
<1>6. dep' = dep /\ started' = started /\ svc[1] \in App.wait /\ Enough(e, p)
  BY <1>2 DEF Join
<1>7. Moves
  BY <1>1, <1>5, <1>6 DEF Moves
<1>8. InfoDomain' /\ InfoShrinks /\ Waiting(svc[1], p, wf)' = << >>
  BY <1>1, <1>3, <1>6, JoinInfo
<1>9. ~App.sync
  BY ShapeFacts
<1>10. PICK from : from = [n \in DOMAIN metas |-> metas[n].from]
  OBVIOUS
<1>11. MayRun(svc, wf, from, rest)
  <2>1. /\ svc \in Services /\ svc[1] # First /\ wf \in 1 .. started'
        /\ svc[1] \notin App.broker => ~Did(svc, wf)
    BY <1>1, <1>2, <1>6 DEF EventKept
  <2>2. /\ Range(from) = ServicesOf(Before(svc[1]))
        /\ Len(from) = Cardinality(Range(from))
        /\ \A f \in ServicesOf(Before(svc[1])) : Did(f, wf)
        /\ \A g \in inflight : g.svc = svc /\ g.wf = wf => g = e
        /\ \A o \in Processes : o # p => Waiting(svc[1], o, wf) = << >>
    <3>1. PICK s : s = svc[1]
      OBVIOUS
    <3>2. Opens(e, p, s, metas, from)
      BY <1>2, <1>6, <1>10, <3>1 DEF Opens
    <3>3. /\ Range(from) = ServicesOf(Before(s)) /\ Len(from) = Cardinality(Range(from))
          /\ \A f \in ServicesOf(Before(s)) : Did(f, e.wf)
          /\ \A g \in inflight : g.svc = e.svc /\ g.wf = e.wf => g = e
          /\ \A o \in Processes : o # p => Waiting(s, o, e.wf) = << >>
      BY <3>2, FullBarrier
    <3> QED BY <1>2, <3>1, <3>3
  <2>3. \A o \in Processes : Waiting(svc[1], o, wf)' = << >>
    BY <1>1, <1>6, <1>8, <2>2, WaitingShrinks
  <2> QED BY <1>5, <2>1, <2>2, <2>3 DEF MayRun
<1>12. CASE Fails(svc, wf, r, rest) \/ Dies(svc, wf, r, rest)
  BY <1>5, <1>7, <1>8, <1>9, <1>12, StopsFacts, ShrinkStep
<1>13. CASE Completes(svc, wf, e.loop, metas, r, rest)
  <2>1. PICK x : x = RunOf(svc, wf, metas, r)
    OBVIOUS
  <2>2. x.svc = svc /\ x.wf = wf /\ x.run = Runs(svc, wf) + 1 /\ x.from = from
    BY <1>10, <2>1 DEF RunOf
  <2>3. ran' = ran \cup {x} /\ inflight' = rest \cup Sent(svc, wf, e.loop, r.fields)
    BY <1>9, <1>13, <2>1, CompletesFacts
  <2> QED BY <1>7, <1>8, <1>11, <2>2, <2>3, RunStep
<1> QED BY <1>3, <1>4, <1>12, <1>13

-----------------------------------------------------------------------------
(* Faults, and the theorem *)

(* Lost events and crashes keep the invariant. *)
LEMMA FaultStep ==
    ASSUME dep \in Deployments, App.wait # {}, BarrierInv,
           \/ \E e \in inflight : Lose(e)
           \/ \E svc \in Services, p \in Processes : Crash(svc, p)
           \/ UNCHANGED vars
    PROVE  BarrierInv'
<1>1. InfoDomain /\ started \in Nat /\ dups \in Nat
  BY DEF BarrierInv, NumbersKept
<1>2. Moves /\ ran' = ran /\ inflight' \subseteq inflight
  <2> DEFINE Same == /\ dep' = dep /\ started' = started /\ ran' = ran /\ dups' = dups
                     /\ inflight' \subseteq inflight
  <2>1. ASSUME NEW e \in inflight, Lose(e) PROVE Same
    BY <2>1 DEF Lose, history
  <2>2. ASSUME NEW svc \in Services, NEW p \in Processes, Crash(svc, p) PROVE Same
    BY <2>2 DEF Crash, history
  <2>3. ASSUME UNCHANGED vars PROVE Same
    BY <2>3 DEF vars, history
  <2>4. Same
    BY <2>1, <2>2, <2>3
  <2> QED BY <1>1, <2>4 DEF Moves
<1>3. dep' = dep
  BY <1>2 DEF Moves
<1>4. CASE info' = info
  BY <1>1, <1>2, <1>3, <1>4, InfoSame, ShrinkStep
<1>5. ASSUME NEW s \in App.wait, NEW p \in Processes, info' = [info EXCEPT ![s][p] = << >>]
      PROVE  BarrierInv'
  BY <1>1, <1>2, <1>3, <1>5, JoinInfo, ShrinkStep
<1>6. \/ info' = info
      \/ \E s \in App.wait, p \in Processes : info' = [info EXCEPT ![s][p] = << >>]
  BY DEF Lose, Crash, vars
<1> QED BY <1>4, <1>5, <1>6

(* The invariant holds at the start. *)
LEMMA BarrierInit ==
    ASSUME Init, App.wait # {}
    PROVE  BarrierInv
<1>1. /\ ran = {} /\ inflight = {} /\ started = 0 /\ dep \in Deployments /\ dups = dep.dups
      /\ dep.dups \in Nat
  BY DeploymentsAssumption DEF Init
<1>2. InfoDomain /\ \A s \in App.wait, p \in Processes : DOMAIN info[s][p] = {}
  BY DEF Init, InfoDomain
<1>3. NumbersKept
  BY <1>1, <1>2 DEF NumbersKept
<1>4. RunsKept
  BY <1>1, FS_EmptySet DEF RunsKept
<1> QED
  BY <1>1, <1>2, <1>3, <1>4 DEF BarrierInv, EventsKept, EventsOnce, WaitingKept, BrokerKept,
       BarrierComplete

(* Every step keeps it. *)
LEMMA BarrierNext ==
    ASSUME WorkInv, [Next]_vars
    PROVE  WorkInv'
<1>1. dep \in Deployments
  BY DEF WorkInv
<1>2. dep' = dep
  BY DEF Next, Deliver, Start, Handle, Wait, Join, Return, Lose, Crash, vars
<1>3. App' = App
  BY <1>2, ShapeKept
<1> SUFFICES ASSUME App.wait # {} PROVE BarrierInv'
  BY <1>1, <1>2, <1>3 DEF WorkInv
<1>4. BarrierInv
  BY DEF WorkInv
<1>5. ASSUME NEW y \in pings, Start(y) PROVE BarrierInv'
  BY <1>1, <1>4, <1>5, StartStep
<1>6. ASSUME NEW e \in inflight, Handle(e) PROVE BarrierInv'
  BY <1>1, <1>4, <1>6, HandleStep
<1>7. ASSUME NEW e \in inflight, NEW p \in Processes, Wait(e, p) PROVE BarrierInv'
  BY <1>1, <1>4, <1>7, WaitStep
<1>8. ASSUME NEW e \in inflight, NEW p \in Processes, Join(e, p) PROVE BarrierInv'
  BY <1>1, <1>4, <1>8, JoinStep
<1>9. ASSUME NEW e \in inflight, Return(e) PROVE FALSE
  BY <1>4, <1>9 DEF Return, BarrierInv, EventsKept, EventKept
<1>10. CASE \/ \E e \in inflight : Lose(e)
            \/ \E svc \in Services, p \in Processes : Crash(svc, p)
            \/ UNCHANGED vars
  BY <1>1, <1>4, <1>10, FaultStep
<1> QED
  BY <1>5, <1>6, <1>7, <1>8, <1>9, <1>10 DEF Next, Deliver, Requests

(* The comment at app.py:73 holds of handle_reduce: for every deployment   *)
(* in which UPSTREAM_NUM is the number of the workers, a stage that waits  *)
(* runs with exactly one event of every worker, and once per workflow,     *)
(* however events are mixed, lost or delivered twice, and whatever crashes.*)
THEOREM BarrierCorrect == Spec => []BarrierComplete
<1>1. Init => WorkInv
  BY BarrierInit DEF WorkInv, Init
<1>2. WorkInv /\ [Next]_vars => WorkInv'
  BY BarrierNext
<1>3. WorkInv => BarrierComplete
  <2>1. App.wait = {} => BarrierComplete
    BY DEF BarrierComplete
  <2> QED BY <2>1 DEF WorkInv, BarrierInv
<1> QED BY <1>1, <1>2, <1>3, PTL DEF Spec

-----------------------------------------------------------------------------
(* The load: chains of workflows *)

(* Workflows and pings form chains, each started by a ping from outside or *)
(* by an event that was delivered twice.                                   *)
Chains == dep.pings + dep.dups - dups

(* Events of the last stage that come once more, although it has run *)
Repeats == {e \in inflight : ~App.sync /\ e.svc[1] = Last /\ e.wf \in ended}

(* c gives each workflow its chain and loop count, p and q give a chain to *)
(* the pings and to the repeated events that may send one.                 *)
SlotType(c, p, q) ==
    /\ c \in [1 .. started -> (1 .. Chains) \X (0 .. dep.loop)]
    /\ p \in [pings -> 1 .. Chains]
    /\ q \in [Repeats -> 1 .. Chains]

(* Of the workflows of a chain only the one with the lowest count may      *)
(* still be under way.                                                     *)
SlotFree(c) ==
    \A w, v \in 1 .. started : w # v /\ c[w][1] = c[v][1] =>
        c[w][2] # c[v][2] /\ (c[w][2] < c[v][2] => v \in ended)

(* A chain that waits for a ping has no workflow under way. *)
SlotNext(c, p, q) ==
    /\ \A x, y \in pings : p[x] = p[y] => x = y
    /\ \A e, g \in Repeats : q[e] = q[g] => e = g
    /\ \A x \in pings, e \in Repeats : p[x] # q[e]
    /\ \A x \in pings, w \in 1 .. started :
         p[x] = c[w][1] => w \in ended /\ x.loop < c[w][2]
    /\ \A e \in Repeats, w \in 1 .. started : q[e] # c[w][1]

(* Events carry the loop count of their workflow. *)
SlotEvents(c) ==
    \A e \in inflight : e.type # "reply" => e.loop = c[e.wf][2]

Slots(c, p, q) ==
    SlotType(c, p, q) /\ SlotFree(c) /\ SlotNext(c, p, q) /\ SlotEvents(c)

(* A step that starts and ends no workflow keeps the chains. *)
LEMMA SlotsStay ==
    ASSUME dep' = dep, started' = started, Chains \in Nat, Chains' \in Nat, Chains <= Chains',
           NEW c, NEW p, NEW q, Slots(c, p, q),
           ended \subseteq ended', pings' \subseteq pings, Repeats' \subseteq Repeats,
           \A g \in inflight' : \/ g.type = "reply" \/ g \in inflight
                                \/ \E e \in inflight : /\ e.type # "reply" /\ g.wf = e.wf
                                                       /\ g.loop = e.loop
    PROVE  \E a, b, d : Slots(a, b, d)'
<1>1. PICK b : b = [x \in pings' |-> p[x]]
  OBVIOUS
<1>2. PICK d : d = [e \in Repeats' |-> q[e]]
  OBVIOUS
<1>3. /\ \A x \in pings' : x \in pings /\ b[x] = p[x]
      /\ \A e \in Repeats' : e \in Repeats /\ d[e] = q[e]
  BY <1>1, <1>2
<1>4. SlotType(c, b, d)'
  <2>1. \A k \in 1 .. Chains : k \in 1 .. Chains'
    OBVIOUS
  <2>2. c \in [1 .. started -> (1 .. Chains) \X (0 .. dep.loop)]
    BY DEF Slots, SlotType
  <2>3. c \in [1 .. started' -> (1 .. Chains') \X (0 .. dep'.loop)]
    BY <2>1, <2>2
  <2>4. b \in [pings' -> 1 .. Chains'] /\ d \in [Repeats' -> 1 .. Chains']
    BY <1>1, <1>2, <1>3, <2>1 DEF Slots, SlotType
  <2> QED BY <2>3, <2>4 DEF SlotType
<1>5. SlotFree(c)'
  BY DEF Slots, SlotFree
<1>6. SlotNext(c, b, d)'
  BY <1>3 DEF Slots, SlotNext
<1>7. SlotEvents(c)'
  BY DEF Slots, SlotEvents
<1>8. Slots(c, b, d)'
  BY <1>4, <1>5, <1>6, <1>7 DEF Slots
<1> QED BY <1>8

(* A ping starts a workflow: it takes the chain of the ping, or a new one. *)
LEMMA SlotsStart ==
    ASSUME dep' = dep, started \in Nat, started' = started + 1, ended' = ended,
           ended \subseteq 1 .. started,
           Chains \in Nat, NEW c, NEW p, NEW q, Slots(c, p, q), NEW x \in pings,
           x.loop \in 0 .. dep.loop,
           \/ pings' = pings /\ Chains' = Chains + 1
           \/ pings' = pings \ {x} /\ Chains' = Chains,
           Repeats' \subseteq Repeats,
           \A e \in inflight : e.wf \in 1 .. started,
           \A g \in inflight' : \/ g \in inflight
                                \/ g.wf = started + 1 /\ g.loop = x.loop
    PROVE  \E a, b, d : Slots(a, b, d)'
<1>1. /\ c \in [1 .. started -> (1 .. Chains) \X (0 .. dep.loop)]
      /\ p \in [pings -> 1 .. Chains] /\ q \in [Repeats -> 1 .. Chains]
  BY DEF Slots, SlotType
<1>2. Chains' \in Nat /\ \A k \in 1 .. Chains : k \in 1 .. Chains'
  OBVIOUS
<1>3. /\ \A w \in 1 .. started : c[w][1] \in 1 .. Chains
      /\ \A y \in pings : p[y] \in 1 .. Chains
      /\ \A e \in Repeats : q[e] \in 1 .. Chains
  BY <1>1
<1>4. PICK k \in 1 .. Chains' :
        /\ \A y \in pings' : y \in pings /\ p[y] # k
        /\ \A e \in Repeats : q[e] # k
        /\ \A w \in 1 .. started : c[w][1] = k => w \in ended /\ x.loop < c[w][2]
  <2>1. CASE pings' = pings /\ Chains' = Chains + 1
    <3>1. Chains' \notin 1 .. Chains /\ Chains' \in 1 .. Chains'
      BY <2>1
    <3> QED BY <1>3, <2>1, <3>1
  <2>2. CASE pings' = pings \ {x} /\ Chains' = Chains
    <3>1. /\ p[x] \in 1 .. Chains'
          /\ \A y \in pings' : y \in pings /\ p[y] # p[x]
          /\ \A e \in Repeats : q[e] # p[x]
          /\ \A w \in 1 .. started : c[w][1] = p[x] => w \in ended /\ x.loop < c[w][2]
      BY <1>3, <2>2 DEF Slots, SlotNext
    <3> QED BY <3>1
  <2> QED BY <2>1, <2>2
<1>5. PICK n : n = started + 1
  OBVIOUS
<1>6. PICK a : a = [w \in 1 .. started' |-> IF w = n THEN <<k, x.loop>> ELSE c[w]]
  OBVIOUS
<1>7. /\ n \in 1 .. started' /\ n \notin 1 .. started /\ n \notin ended
      /\ \A w \in 1 .. started' : w = n \/ w \in 1 .. started
      /\ \A w \in 1 .. started : w \in 1 .. started' /\ w # n
  BY <1>5
<1>8. /\ a[n][1] = k /\ a[n][2] = x.loop
      /\ \A w \in 1 .. started : a[w] = c[w]
  BY <1>6, <1>7
<1>9. PICK b : b = [y \in pings' |-> p[y]]
  OBVIOUS
<1>10. PICK d : d = [e \in Repeats' |-> q[e]]
  OBVIOUS
<1>11. /\ \A y \in pings' : b[y] = p[y]
       /\ \A e \in Repeats' : e \in Repeats /\ d[e] = q[e]
  BY <1>9, <1>10
<1>12. SlotType(a, b, d)'
  <2>1. <<k, x.loop>> \in (1 .. Chains') \X (0 .. dep'.loop)
    OBVIOUS
  <2>2. \A w \in 1 .. started : c[w] \in (1 .. Chains') \X (0 .. dep'.loop)
    BY <1>1, <1>2
  <2>3. a \in [1 .. started' -> (1 .. Chains') \X (0 .. dep'.loop)]
    BY <1>6, <1>7, <2>1, <2>2
  <2>4. b \in [pings' -> 1 .. Chains'] /\ d \in [Repeats' -> 1 .. Chains']
    BY <1>2, <1>3, <1>4, <1>9, <1>10, <1>11
  <2> QED BY <2>3, <2>4 DEF SlotType
<1>13. SlotFree(a)'
  <2> SUFFICES ASSUME NEW w \in 1 .. started', NEW v \in 1 .. started',
                      w # v, a[w][1] = a[v][1]
               PROVE  a[w][2] # a[v][2] /\ (a[w][2] < a[v][2] => v \in ended)
    BY DEF SlotFree
  <2>1. CASE w \in 1 .. started /\ v \in 1 .. started
    BY <1>8, <2>1 DEF Slots, SlotFree
  <2>2. CASE w = n /\ v \in 1 .. started
    <3>1. v \in ended /\ x.loop < c[v][2]
      BY <1>4, <1>8, <2>2
    <3>2. x.loop \in Int /\ c[v][2] \in Int
      BY <1>1, <2>2
    <3> QED BY <1>8, <2>2, <3>1, <3>2
  <2>3. CASE v = n /\ w \in 1 .. started
    <3>1. x.loop < c[w][2]
      BY <1>4, <1>8, <2>3
    <3>2. x.loop \in Int /\ c[w][2] \in Int
      BY <1>1, <2>3
    <3> QED BY <1>8, <2>3, <3>1, <3>2
  <2> QED BY <1>7, <2>1, <2>2, <2>3
<1>14. SlotNext(a, b, d)'
  <2>1. /\ \A y, z \in pings' : b[y] = b[z] => y = z
        /\ \A e, g \in Repeats' : d[e] = d[g] => e = g
        /\ \A y \in pings', e \in Repeats' : b[y] # d[e]
    BY <1>4, <1>11 DEF Slots, SlotNext
  <2>2. ASSUME NEW y \in pings', NEW w \in 1 .. started', b[y] = a[w][1]
        PROVE  w \in ended /\ y.loop < a[w][2]
    <3>1. w \in 1 .. started
      BY <1>4, <1>7, <1>8, <1>11, <2>2
    <3> QED BY <1>4, <1>8, <1>11, <2>2, <3>1 DEF Slots, SlotNext
  <2>3. ASSUME NEW e \in Repeats', NEW w \in 1 .. started' PROVE d[e] # a[w][1]
    <3>1. CASE w = n
      BY <1>4, <1>8, <1>11, <3>1
    <3>2. CASE w \in 1 .. started
      BY <1>8, <1>11, <3>2 DEF Slots, SlotNext
    <3> QED BY <1>7, <3>1, <3>2
  <2> QED BY <2>1, <2>2, <2>3 DEF SlotNext
<1>15. SlotEvents(a)'
  <2> SUFFICES ASSUME NEW g \in inflight', g.type # "reply" PROVE g.loop = a[g.wf][2]
    BY DEF SlotEvents
  <2>1. CASE g \in inflight
    BY <1>8, <2>1 DEF Slots, SlotEvents
  <2>2. CASE g.wf = n /\ g.loop = x.loop
    BY <1>8, <2>2
  <2> QED BY <1>5, <2>1, <2>2
<1>16. Slots(a, b, d)'
  BY <1>12, <1>13, <1>14, <1>15 DEF Slots
<1> QED BY <1>16

(* Chains for the ping x that e.wf sends and for e, if it comes again *)
Gives(k, j, x, e, c, p, q) ==
    /\ k \in 1 .. Chains' /\ j \in 1 .. Chains'
    /\ x \in pings' \ pings =>
         /\ \A y \in pings : p[y] # k
         /\ \A g \in Repeats : g # e => q[g] # k
         /\ \A w \in 1 .. started : c[w][1] = k => w \in ended' /\ x.loop < c[w][2]
    /\ e \in Repeats' =>
         /\ x \in pings' \ pings => j # k
         /\ \A y \in pings : p[y] # j
         /\ \A g \in Repeats : g # e => q[g] # j
         /\ \A w \in 1 .. started : c[w][1] # j

(* The chains hold again when those that Gives names are given. *)
LEMMA SlotsGive ==
    ASSUME dep' = dep, started' = started, Chains \in Nat, Chains' \in Nat, Chains <= Chains',
           NEW c, NEW p, NEW q, Slots(c, p, q),
           NEW e, NEW x, NEW k, NEW j, Gives(k, j, x, e, c, p, q),
           ended \subseteq ended', pings' \subseteq pings \cup {x}, inflight' \subseteq inflight,
           Repeats' \subseteq Repeats \cup {e}
    PROVE  \E a, b, d : Slots(a, b, d)'
<1> USE DEF Gives
<1>1. /\ c \in [1 .. started -> (1 .. Chains) \X (0 .. dep.loop)]
      /\ p \in [pings -> 1 .. Chains] /\ q \in [Repeats -> 1 .. Chains]
  BY DEF Slots, SlotType
<1>2. \A i \in 1 .. Chains : i \in 1 .. Chains'
  OBVIOUS
<1>3. PICK b : b = [y \in pings' |-> IF y \in pings THEN p[y] ELSE k]
  OBVIOUS
<1>4. PICK d : d = [g \in Repeats' |-> IF g = e THEN j ELSE q[g]]
  OBVIOUS
<1>5. /\ \A y \in pings' : \/ y \in pings /\ b[y] = p[y]
                           \/ y = x /\ y \notin pings /\ b[y] = k
      /\ \A g \in Repeats' : \/ g \in Repeats /\ g # e /\ d[g] = q[g]
                             \/ g = e /\ d[g] = j
  BY <1>3, <1>4
<1>6. SlotType(c, b, d)'
  <2>1. c \in [1 .. started' -> (1 .. Chains') \X (0 .. dep'.loop)]
    BY <1>1, <1>2
  <2>2. b \in [pings' -> 1 .. Chains'] /\ d \in [Repeats' -> 1 .. Chains']
    BY <1>1, <1>2, <1>3, <1>4, <1>5
  <2> QED BY <2>1, <2>2 DEF SlotType
<1>7. SlotFree(c)'
  BY DEF Slots, SlotFree
<1>8. SlotNext(c, b, d)'
  <2>1. ASSUME NEW y \in pings', NEW z \in pings', b[y] = b[z] PROVE y = z
    BY <1>5, <2>1 DEF Slots, SlotNext
  <2>2. ASSUME NEW g \in Repeats', NEW h \in Repeats', d[g] = d[h] PROVE g = h
    BY <1>5, <2>2 DEF Slots, SlotNext
  <2>3. ASSUME NEW y \in pings', NEW g \in Repeats' PROVE b[y] # d[g]
    BY <1>5 DEF Slots, SlotNext
  <2>4. ASSUME NEW y \in pings', NEW w \in 1 .. started, b[y] = c[w][1]
        PROVE  w \in ended' /\ y.loop < c[w][2]
    BY <1>5, <2>4 DEF Slots, SlotNext
  <2>5. ASSUME NEW g \in Repeats', NEW w \in 1 .. started PROVE d[g] # c[w][1]
    BY <1>5 DEF Slots, SlotNext
  <2> QED BY <2>1, <2>2, <2>3, <2>4, <2>5 DEF SlotNext
<1>9. SlotEvents(c)'
  BY DEF Slots, SlotEvents
<1>10. Slots(c, b, d)'
  BY <1>6, <1>7, <1>8, <1>9 DEF Slots
<1> QED BY <1>10

(* The last function runs for e: e.wf has ended and may send a ping. *)
LEMMA SlotsEnd ==
    ASSUME dep' = dep, started' = started, Chains \in Nat,
           NEW c, NEW p, NEW q, Slots(c, p, q), NEW e \in inflight, e.type # "reply",
           e.wf \in 1 .. started, e.loop \in Nat,
           ended' = ended \cup {e.wf}, inflight' \subseteq inflight,
           \/ pings' = pings
           \/ \E x : e.loop > 0 /\ x.loop = e.loop - 1 /\ pings' = pings \cup {x},
           \/ Chains' = Chains /\ Repeats' \subseteq Repeats \ {e}
           \/ Chains' = Chains + 1 /\ Repeats' \subseteq Repeats \cup {e},
           e \in Repeats <=> e.wf \in ended
    PROVE  \E a, b, d : Slots(a, b, d)'
<1>1. /\ c \in [1 .. started -> (1 .. Chains) \X (0 .. dep.loop)]
      /\ p \in [pings -> 1 .. Chains] /\ q \in [Repeats -> 1 .. Chains]
  BY DEF Slots, SlotType
<1>2. Chains' \in Nat /\ Chains <= Chains' /\ \A k \in 1 .. Chains : k \in 1 .. Chains'
  OBVIOUS
<1>3. /\ \A w \in 1 .. started : c[w][1] \in 1 .. Chains /\ c[w][2] \in Int
      /\ \A y \in pings : p[y] \in 1 .. Chains
      /\ \A g \in Repeats : q[g] \in 1 .. Chains
  BY <1>1
<1>4. e.loop = c[e.wf][2]
  BY DEF Slots, SlotEvents
<1>5. PICK n : n = Chains + 1
  OBVIOUS
<1>6. /\ n \notin 1 .. Chains
      /\ \A w \in 1 .. started : c[w][1] # n
      /\ \A y \in pings : p[y] # n
      /\ \A g \in Repeats : q[g] # n
  BY <1>3, <1>5
<1>7. PICK x : \/ pings' = pings
               \/ e.loop > 0 /\ x.loop = e.loop - 1 /\ pings' = pings \cup {x}
  OBVIOUS
<1>8. /\ pings' \subseteq pings \cup {x} /\ Repeats' \subseteq Repeats \cup {e}
      /\ ended \subseteq ended'
      /\ x \in pings' \ pings => x.loop = e.loop - 1
      /\ e \in Repeats' => Chains' = n
  BY <1>5, <1>7
<1>9. CASE e.wf \notin ended
  <2>1. PICK k : k = c[e.wf][1]
    OBVIOUS
  <2>2. /\ k \in 1 .. Chains' /\ k # n
        /\ \A y \in pings : p[y] # k
        /\ \A g \in Repeats : q[g] # k
    BY <1>2, <1>3, <1>6, <1>9, <2>1 DEF Slots, SlotNext
  <2>3. ASSUME NEW w \in 1 .. started, c[w][1] = k
        PROVE  w \in ended' /\ e.loop - 1 < c[w][2]
    <3>1. CASE w = e.wf
      BY <1>3, <1>4, <3>1
    <3>2. CASE w # e.wf
      <4>1. c[e.wf][2] # c[w][2] /\ ~(c[w][2] < c[e.wf][2])
        BY <1>9, <2>1, <2>3, <3>2 DEF Slots, SlotFree
      <4>2. c[e.wf][2] < c[w][2]
        BY <1>3, <4>1
      <4>3. w \in ended
        BY <2>1, <2>3, <3>2, <4>2 DEF Slots, SlotFree
      <4> QED BY <1>3, <1>4, <4>2, <4>3
    <3> QED BY <3>1, <3>2
  <2>4. CASE e \in Repeats'
    <3>1. n \in 1 .. Chains'
      BY <1>5, <1>8, <2>4
    <3>2. Gives(k, n, x, e, c, p, q)
      BY <1>6, <1>8, <2>2, <2>3, <3>1 DEF Gives
    <3> QED BY <1>2, <1>8, <3>2, SlotsGive
  <2>5. CASE e \notin Repeats'
    <3>1. Gives(k, k, x, e, c, p, q)
      BY <1>8, <2>2, <2>3, <2>5 DEF Gives
    <3> QED BY <1>2, <1>8, <3>1, SlotsGive
  <2> QED BY <2>4, <2>5
<1>10. CASE e.wf \in ended
  <2>1. e \in Repeats /\ q[e] \in 1 .. Chains'
    BY <1>2, <1>3, <1>10
  <2>2. PICK k : k = q[e]
    OBVIOUS
  <2>3. /\ \A y \in pings : p[y] # k
        /\ \A g \in Repeats : g # e => q[g] # k
        /\ \A w \in 1 .. started : c[w][1] # k
    BY <2>1, <2>2 DEF Slots, SlotNext
  <2>4. CASE e \in Repeats'
    <3>1. n \in 1 .. Chains' /\ n # k
      BY <1>3, <1>5, <1>6, <1>8, <2>1, <2>2, <2>4
    <3>2. Gives(n, k, x, e, c, p, q)
      BY <1>6, <1>8, <2>1, <2>2, <2>3, <3>1 DEF Gives
    <3> QED BY <1>2, <1>8, <3>2, SlotsGive
  <2>5. CASE e \notin Repeats'
    <3>1. Gives(k, k, x, e, c, p, q)
      BY <1>8, <2>1, <2>2, <2>3, <2>5 DEF Gives
    <3> QED BY <1>2, <1>8, <3>1, SlotsGive
  <2> QED BY <2>4, <2>5
<1> QED BY <1>9, <1>10

-----------------------------------------------------------------------------
(* The types of the state *)

(* The stages of the throughput test *)
LEMMA ThroughputFacts ==
    ASSUME dep.app = "thpt"
    PROVE  /\ App = TH!App
           /\ Stages = {"splitter", "producer", "consumer"}
           /\ First = "splitter" /\ Last = "consumer"
           /\ After("splitter") = "producer" /\ After("producer") = "consumer"
           /\ Before("producer") = "splitter" /\ Before("consumer") = "producer"
<1>1. App = TH!App
  BY DEF App
<1>2. App.flow = <<"splitter", "producer", "consumer">>
  BY <1>1 DEF TH!App
<1>3. /\ Len(App.flow) = 3 /\ DOMAIN App.flow = 1 .. 3
      /\ App.flow[1] = "splitter" /\ App.flow[2] = "producer"
      /\ App.flow[3] = "consumer"
  BY <1>2
<1>4. \A j, k \in 1 .. 3 : App.flow[j] = App.flow[k] => j = k
  BY <1>3
<1> QED BY <1>1, <1>3, <1>4, FlowFacts

(* A workflow without a stage that waits is the throughput test: its       *)
(* functions are called, and there is no loop.                             *)
LEMMA SyncFacts ==
    ASSUME dep \in Deployments, App.wait = {}
    PROVE  App.sync /\ dep.app = "thpt" /\ dep.loop = 0
<1>1. dep.app \in {"wordcount", "finra", "ml", "digits", "micro", "thpt"}
  BY DeploymentsAssumption
<1>2. CASE dep.app = "wordcount"
  BY <1>2, WordCountFacts DEF WC!App
<1>3. CASE dep.app = "finra"
  BY <1>3, FinraFacts DEF FI!App
<1>4. CASE dep.app = "ml"
  BY <1>4, MLPipelineFacts DEF ML!App
<1>5. CASE dep.app = "digits"
  BY <1>5, DigitsFacts DEF DG!App
<1>6. CASE dep.app = "micro"
  BY <1>6, MicroFacts DEF MI!App
<1>7. CASE dep.app = "thpt"
  BY <1>7, ThroughputFacts, DeploymentsAssumption DEF TH!App
<1> QED BY <1>1, <1>2, <1>3, <1>4, <1>5, <1>6, <1>7

(* What all workflows share *)
LEMMA FlowShape ==
    ASSUME dep \in Deployments
    PROVE  /\ <<First, 1>> \in Services
           /\ First # Last /\ "reply" \notin Stages
           /\ \A s \in Stages \ {Last} : ServicesOf(After(s)) \subseteq Services
           /\ \A s \in Stages \ {First} : ServicesOf(Before(s)) \subseteq Services
           /\ \A svc \in Services : svc[1] \in Stages /\ svc \in ServicesOf(svc[1])
<1>1. /\ First \in Stages /\ First # Last /\ First # App.parallel /\ "reply" \notin Stages
      /\ \A s \in Stages \ {Last} : After(s) \in Stages
      /\ \A s \in Stages \ {First} : Before(s) \in Stages
  <2>1. CASE App.wait = {}
    BY <2>1, SyncFacts, ThroughputFacts DEF TH!App
  <2>2. CASE App.wait # {}
    BY <2>2, ShapeFacts
  <2> QED BY <2>1, <2>2
<1>2. \A s \in Stages : ServicesOf(s) \subseteq Services
  BY DEF Services
<1>3. <<First, 1>> \in ServicesOf(First)
  BY <1>1 DEF ServicesOf
<1>4. \A svc \in Services : svc[1] \in Stages /\ svc \in ServicesOf(svc[1])
  BY DEF Services, ServicesOf
<1> QED BY <1>1, <1>2, <1>3, <1>4

EventTyped(e) ==
    /\ e.type \in Stages \cup {"reply"}
    /\ e.svc \in Services /\ e.from \in Services
    /\ e.wf \in 1 .. started /\ e.loop \in 0 .. dep.loop

EventsTyped == \A e \in inflight : EventTyped(e)

HeapTyped == heap \in [Services -> [epoch : Nat, gen : Nat, visible : BOOLEAN]]

InfoTyped ==
    \A s \in App.wait, p \in Processes : \A wf \in DOMAIN info[s][p] :
        \A n \in DOMAIN info[s][p][wf] : info[s][p][wf][n].wf = wf

PingsTyped == \A x \in pings : x.loop \in 0 .. dep.loop /\ x.by \in Nat \X Nat

CountsTyped ==
    started \in Nat /\ faults \in 0 .. dep.faults /\ dups \in 0 .. dep.dups

ServicesTyped == blocked \subseteq Services /\ ended \subseteq 1 .. started

(* The types, without the bound on the workflows *)
TypeInv ==
    /\ dep \in Deployments
    /\ EventsTyped /\ HeapTyped /\ InfoTyped /\ PingsTyped /\ CountsTyped /\ ServicesTyped

(* The events a function sends have their types. *)
LEMMA SentTyped ==
    ASSUME dep \in Deployments, NEW svc \in Services, NEW wf, NEW loop, NEW fields,
           loop \in 0 .. dep.loop,
           NEW g \in Sent(svc, wf, loop, fields) \cup Reply(svc, wf)
    PROVE  /\ g.type \in Stages \cup {"reply"} /\ g.svc \in Services /\ g.from \in Services
           /\ g.wf = wf /\ g.loop \in 0 .. dep.loop
           /\ g.type = "reply" \/ g.loop = loop
<1>1. dep.loop \in Nat /\ svc[1] \in Stages
  BY FlowShape, DeploymentsAssumption
<1>2. CASE g \in Sent(svc, wf, loop, fields)
  <2>1. svc[1] # Last
    BY <1>2 DEF Sent
  <2>2. PICK to \in ServicesOf(After(svc[1])) :
          g = [type |-> svc[1], svc |-> to, from |-> svc, wf |-> wf, loop |-> loop,
               fields |-> fields]
    BY <1>2, <2>1 DEF Sent
  <2>3. to \in Services
    BY <1>1, <2>1, FlowShape
  <2> QED BY <1>1, <2>2, <2>3
<1>3. CASE g \in Reply(svc, wf)
  <2>1. svc[1] # First
    BY <1>3 DEF Reply
  <2>2. PICK to \in ServicesOf(Before(svc[1])) :
          g = [type |-> "reply", svc |-> to, from |-> svc, wf |-> wf, loop |-> 0,
               fields |-> << >>]
    BY <1>3, <2>1 DEF Reply
  <2>3. to \in Services
    BY <1>1, <2>1, FlowShape
  <2> QED BY <1>1, <2>2, <2>3
<1> QED BY <1>2, <1>3

(* The number of workflows never shrinks. *)
Counted == dep' = dep /\ started' \in {started, started + 1}

(* The events a step adds are those of a function. *)
LEMMA EventsTypedNext ==
    ASSUME TypeInv, Counted, NEW svc \in Services, NEW wf \in 1 .. started',
           NEW loop \in 0 .. dep.loop, NEW fields,
           inflight' \subseteq inflight \cup (Sent(svc, wf, loop, fields) \cup Reply(svc, wf))
    PROVE  EventsTyped'
<1>1. dep' = dep /\ Services' = Services /\ Stages' = Stages
  BY ShapeKept DEF Counted
<1>2. \A w \in 1 .. started : w \in 1 .. started'
  BY DEF Counted, TypeInv, CountsTyped
<1>3. ASSUME NEW g \in inflight' PROVE EventTyped(g)'
  <2>1. CASE g \in inflight
    BY <1>1, <1>2, <2>1 DEF TypeInv, EventsTyped, EventTyped
  <2>2. CASE g \in Sent(svc, wf, loop, fields) \cup Reply(svc, wf)
    <3>1. /\ g.type \in Stages \cup {"reply"} /\ g.svc \in Services /\ g.from \in Services
          /\ g.wf = wf /\ g.loop \in 0 .. dep.loop
      BY <2>2, SentTyped DEF TypeInv
    <3> QED BY <1>1, <3>1 DEF EventTyped
  <2> QED BY <2>1, <2>2
<1> QED BY <1>3 DEF EventsTyped

(* A push and a restart keep the type of the heaps. *)
LEMMA HeapTypedNext ==
    ASSUME HeapTyped, dep' = dep, NEW svc \in Services,
           \/ heap' = heap
           \/ \E visible \in BOOLEAN : heap' = [heap EXCEPT ![svc] = Pushed(svc, visible)]
           \/ Restarted(svc)
    PROVE  HeapTyped'
<1>1. Services' = Services
  BY ShapeKept
<1>2. PICK T : T = [epoch : Nat, gen : Nat, visible : BOOLEAN]
  OBVIOUS
<1>3. heap \in [Services -> T] /\ heap[svc] \in T
  BY <1>2 DEF HeapTyped
<1>4. ASSUME NEW visible \in BOOLEAN PROVE Pushed(svc, visible) \in T
  <2>1. PICK h \in T : h = heap[svc]
    BY <1>3
  <2>2. PICK n \in Nat : n = h.gen + 1
    BY <1>2
  <2>3. Pushed(svc, visible) = [h EXCEPT !.gen = n, !.visible = visible]
    BY <2>1, <2>2 DEF Pushed
  <2>4. [h EXCEPT !.gen = n, !.visible = visible] \in T
    BY <1>2, Zenon
  <2> QED BY <2>3, <2>4
<1>5. FreshHeap(heap[svc].epoch + 1) \in T
  BY <1>2, <1>3 DEF FreshHeap
<1>6. CASE heap' = heap
  BY <1>1, <1>6 DEF HeapTyped
<1>7. ASSUME NEW x \in T, heap' = [heap EXCEPT ![svc] = x] PROVE HeapTyped'
  BY <1>1, <1>2, <1>3, <1>7 DEF HeapTyped
<1>8. CASE Restarted(svc)
  <2>1. heap' = [heap EXCEPT ![svc] = FreshHeap(heap[svc].epoch + 1)]
    BY <1>8 DEF Restarted
  <2> QED BY <1>5, <1>7, <2>1
<1> QED BY <1>4, <1>6, <1>7, <1>8

(* What a handler leaves behind has its type, however it ends. *)
LEMMA HandlerTyped ==
    ASSUME TypeInv, Counted, NEW svc \in Services, NEW wf \in 1 .. started',
           NEW loop \in 0 .. dep.loop, NEW metas, NEW r, NEW rest, rest \subseteq inflight,
           \/ Completes(svc, wf, loop, metas, r, rest)
           \/ Fails(svc, wf, r, rest)
           \/ Dies(svc, wf, r, rest)
    PROVE  EventsTyped' /\ HeapTyped' /\ ServicesTyped'
<1>1. dep' = dep /\ Services' = Services /\ HeapTyped /\ ServicesTyped /\ started \in Nat
  BY ShapeKept DEF Counted, TypeInv, CountsTyped
<1>2. \A w \in 1 .. started : w \in 1 .. started'
  BY <1>1 DEF Counted
<1>3. inflight' \subseteq inflight \cup (Sent(svc, wf, loop, r.fields) \cup Reply(svc, wf))
  BY DEF Completes, Fails, Dies
<1>4. \/ heap' = heap
      \/ \E visible \in BOOLEAN : heap' = [heap EXCEPT ![svc] = Pushed(svc, visible)]
      \/ Restarted(svc)
  BY DEF Completes, Fails, Dies
<1>5. blocked' \subseteq blocked \cup {svc} /\ ended' \subseteq ended \cup {wf}
  BY DEF Completes, Fails, Dies
<1>6. EventsTyped'
  BY <1>3, EventsTypedNext
<1>7. HeapTyped'
  BY <1>1, <1>4, HeapTypedNext
<1>8. ServicesTyped'
  BY <1>1, <1>2, <1>5 DEF ServicesTyped
<1> QED BY <1>6, <1>7, <1>8

-----------------------------------------------------------------------------
(* Steps keep the chains *)

(* Where the last function ran, the workflow has ended. *)
EndedKept == \A w \in ended : Did(<<Last, 1>>, w)

SlotsExist == \E c, p, q : Slots(c, p, q)

LoadInv ==
    TypeInv /\ (App.wait # {} => BarrierInv /\ EndedKept) /\ SlotsExist

(* The number of chains grows with the duplicates that were delivered. *)
LEMMA ChainsFacts ==
    ASSUME TypeInv, dep' = dep, dups' = dups \/ (dups > 0 /\ dups' = dups - 1)
    PROVE  /\ Chains \in Nat /\ Chains' \in Nat /\ Chains <= Chains'
           /\ dups' = dups => Chains' = Chains
           /\ dups' = dups - 1 => Chains' = Chains + 1
           /\ dups' \in 0 .. dep.dups
<1>1. /\ dep.pings \in Nat /\ dep.dups \in Nat /\ dups \in 0 .. dep.dups
  BY DeploymentsAssumption DEF TypeInv, CountsTyped
<1>2. /\ Chains = dep.pings + dep.dups - dups
      /\ Chains' = dep.pings + dep.dups - dups'
  BY DEF Chains
<1> QED BY <1>1, <1>2

(* A failed pull uses up a fault. *)
LEMMA ChargedFacts ==
    ASSUME TypeInv, NEW svc, NEW wf, NEW metas, NEW pulled \in Pulls(svc, wf, metas),
           Charged(pulled)
    PROVE  faults' \in 0 .. dep.faults
<1>1. pulled = TRUE \/ (pulled = FALSE /\ faults > 0)
  BY Zenon DEF Pulls
<1>2. faults \in 0 .. dep.faults /\ dep.faults \in Nat
  BY DeploymentsAssumption DEF TypeInv, CountsTyped
<1>3. CASE pulled = TRUE
  BY <1>2, <1>3 DEF Charged
<1>4. CASE pulled = FALSE /\ faults > 0
  BY <1>2, <1>4 DEF Charged
<1> QED BY <1>1, <1>3, <1>4

(* The throughput test repeats no event. *)
LEMMA SyncRepeats ==
    ASSUME dep \in Deployments, App.wait = {}, dep' = dep
    PROVE  Repeats = {} /\ Repeats' = {}
BY SyncFacts, ShapeKept DEF Repeats

(* A function that sends to the last stage does so before that has run.    *)
LEMMA SentFresh ==
    ASSUME LoadInv, App.wait # {}, NEW e \in inflight, NEW loop, NEW fields,
           NEW g \in Sent(e.svc, e.wf, loop, fields), g.svc[1] = Last
    PROVE  e.wf \notin ended
<1>1. /\ dep \in Deployments /\ BarrierInv /\ EndedKept /\ EventKept(e) /\ RunsKept
  BY DEF LoadInv, TypeInv, BarrierInv, EventsKept
<1>2. e.svc \in Services /\ e.svc[1] # First
  BY <1>1 DEF EventKept
<1>3. /\ e.svc[1] \in Stages \ {Last} /\ e.svc \in ServicesOf(e.svc[1])
      /\ Before(Last) = e.svc[1]
  BY <1>1, <1>2, SentFacts
<1>4. ~Did(e.svc, e.wf)
  BY <1>1, <1>2, <1>3, ShapeFacts DEF EventKept
<1> SUFFICES ASSUME e.wf \in ended PROVE FALSE
  OBVIOUS
<1>5. PICK x \in ran : x.svc = <<Last, 1>> /\ x.wf = e.wf
  BY <1>1 DEF EndedKept, Did
<1>6. x.svc[1] = Last /\ RunKept(x) /\ First # Last
  BY <1>1, <1>5, ShapeFacts DEF RunsKept
<1>7. \A f \in ServicesOf(Before(Last)) : Did(f, e.wf)
  BY <1>5, <1>6 DEF RunKept
<1> QED BY <1>3, <1>4, <1>7

(* When the last function runs, no other event waits for it. *)
LEMMA LastEvent ==
    ASSUME dep \in Deployments, App.wait # {}, BarrierInv, NEW e \in inflight,
           e.svc[1] = Last,
           e.svc[1] \notin App.wait \/ \E p \in Processes : Enough(e, p)
    PROVE  /\ e.svc = <<Last, 1>>
           /\ \A g \in inflight : g.svc[1] = Last /\ g.wf = e.wf => g = e
<1>1. \A g \in inflight : EventKept(g)
  BY DEF BarrierInv, EventsKept
<1>2. \A g \in inflight : g.svc[1] = Last => g.svc = <<Last, 1>>
  BY <1>1, ShapeFacts DEF EventKept, Services, ServicesOf
<1>3. \A g \in inflight : g.svc = e.svc /\ g.wf = e.wf => g = e
  <2>1. CASE e.svc[1] \notin App.wait
    <3>1. e.svc[1] \in Stages \ {First}
      BY <1>1 DEF EventKept, Services, ServicesOf
    <3>2. Before(e.svc[1]) # App.parallel
      BY <2>1, <3>1, ShapeFacts
    <3> QED BY <3>2, SingleEvent
  <2>2. ASSUME e.svc[1] \in App.wait, NEW p \in Processes, Enough(e, p)
        PROVE  \A g \in inflight : g.svc = e.svc /\ g.wf = e.wf => g = e
    <3>1. PICK s, metas, from : Opens(e, p, s, metas, from)
      BY <2>2 DEF Opens
    <3> QED BY <3>1, FullBarrier
  <2> QED BY <2>1, <2>2
<1> QED BY <1>2, <1>3

(* Each handler is given an event; only the last function sends a ping. *)
HandlerStep(e, again, metas, r) ==
    /\ e \in inflight /\ e.type # "reply"
    /\ again \in Again(e.svc[1]) /\ Delivered(again)
    /\ dep' = dep /\ started' = started
    /\ \/ /\ Completes(e.svc, e.wf, e.loop, metas, r, Left(e, again))
          /\ e.svc[1] = Last => pings' = NextPings(e)
          /\ e.svc[1] # Last => pings' = pings
       \/ /\ Fails(e.svc, e.wf, r, Left(e, again)) \/ Dies(e.svc, e.wf, r, Left(e, again))
          /\ pings' = pings
    /\ e.svc[1] \notin App.wait \/ \E p \in Processes : Enough(e, p)

(* What the proofs use of it *)
LEMMA HandlerFacts ==
    ASSUME LoadInv, NEW e, NEW again, NEW metas, NEW r, HandlerStep(e, again, metas, r)
    PROVE  /\ EventTyped(e) /\ (dups' = dups \/ (dups > 0 /\ dups' = dups - 1))
           /\ Left(e, again) \subseteq inflight
           /\ dups' = dups => Left(e, again) = inflight \ {e}
           /\ dups' = dups => dups' # dups - 1
           /\ EventsTyped' /\ HeapTyped' /\ ServicesTyped'
<1>1. e \in inflight /\ EventTyped(e) /\ dups \in Nat /\ Counted
  BY DEF LoadInv, TypeInv, EventsTyped, CountsTyped, HandlerStep, Counted
<1>2. \/ again = FALSE /\ dups' = dups
      \/ again = TRUE /\ e.svc[1] \in App.broker /\ dups > 0 /\ dups' = dups - 1
  <2>1. again \in Again(e.svc[1]) /\ Delivered(again)
    BY DEF HandlerStep
  <2> QED BY <1>1, <2>1, DeliveredFacts, Zenon
<1>3. /\ Left(e, again) \subseteq inflight
      /\ again = FALSE => Left(e, again) = inflight \ {e}
  BY DEF Left
<1>4. dups' = dups => dups' # dups - 1
  BY <1>1
<1>5. dups' = dups => again = FALSE
  BY <1>1, <1>2
<1>6. dups' = dups \/ (dups > 0 /\ dups' = dups - 1)
  BY <1>2
<1>7. EventsTyped' /\ HeapTyped' /\ ServicesTyped'
  <2>1. e.svc \in Services /\ e.wf \in 1 .. started' /\ e.loop \in 0 .. dep.loop
    BY <1>1 DEF EventTyped, HandlerStep
  <2>2. \/ Completes(e.svc, e.wf, e.loop, metas, r, Left(e, again))
        \/ Fails(e.svc, e.wf, r, Left(e, again))
        \/ Dies(e.svc, e.wf, r, Left(e, again))
    BY DEF HandlerStep
  <2> QED BY <1>1, <1>3, <2>1, <2>2, HandlerTyped DEF LoadInv
<1> QED BY <1>1, <1>3, <1>4, <1>5, <1>6, <1>7

(* The throughput test keeps its chains. *)
LEMMA SyncSlots ==
    ASSUME LoadInv, App.wait = {},
           NEW e, NEW again, NEW metas, NEW r, HandlerStep(e, again, metas, r)
    PROVE  PingsTyped' /\ SlotsExist'
<1>1. /\ EventTyped(e) /\ (dups' = dups \/ (dups > 0 /\ dups' = dups - 1))
      /\ Left(e, again) \subseteq inflight
  BY HandlerFacts
<1>2. /\ dep' = dep /\ started' = started /\ dep \in Deployments /\ TypeInv
      /\ e \in inflight /\ e.type # "reply"
  BY DEF HandlerStep, LoadInv, TypeInv
<1>3. pings' = pings
  <2>1. e.loop = 0
    BY <1>1, <1>2, SyncFacts DEF EventTyped
  <2>2. NextPings(e) = pings
    BY <2>1 DEF NextPings
  <2> QED BY <2>2 DEF HandlerStep
<1>4. Repeats' \subseteq Repeats
  BY <1>2, SyncRepeats
<1>5. Chains \in Nat /\ Chains' \in Nat /\ Chains <= Chains'
  BY <1>1, <1>2, ChainsFacts
<1>6. ended \subseteq ended'
  BY DEF HandlerStep, Completes, Fails, Dies
<1>7. ASSUME NEW g \in inflight'
      PROVE  \/ g.type = "reply" \/ g \in inflight
             \/ \E h \in inflight : h.type # "reply" /\ g.wf = h.wf /\ g.loop = h.loop
  <2>1. \/ g \in Left(e, again)
        \/ g \in Sent(e.svc, e.wf, e.loop, r.fields) \cup Reply(e.svc, e.wf)
    BY DEF HandlerStep, Completes, Fails, Dies
  <2>2. ASSUME g \in Sent(e.svc, e.wf, e.loop, r.fields) \cup Reply(e.svc, e.wf)
        PROVE  g.wf = e.wf /\ (g.type = "reply" \/ g.loop = e.loop)
    <3>1. e.svc \in Services /\ e.loop \in 0 .. dep.loop
      BY <1>1 DEF EventTyped
    <3> QED BY <1>2, <2>2, <3>1, SentTyped
  <2> QED BY <1>1, <1>2, <2>1, <2>2
<1>8. PICK c, p, q : Slots(c, p, q)
  BY DEF LoadInv, SlotsExist
<1>9. SlotsExist'
  BY <1>2, <1>3, <1>4, <1>5, <1>6, <1>7, <1>8, SlotsStay DEF SlotsExist
<1>10. PingsTyped'
  BY <1>2, <1>3 DEF TypeInv, PingsTyped
<1> QED BY <1>9, <1>10

(* A handler that is not the last, or fails, keeps the chains. *)
LEMMA PassSlots ==
    ASSUME LoadInv, App.wait # {},
           NEW e, NEW again, NEW metas, NEW r, HandlerStep(e, again, metas, r),
           \/ e.svc[1] # Last
           \/ /\ Fails(e.svc, e.wf, r, Left(e, again)) \/ Dies(e.svc, e.wf, r, Left(e, again))
              /\ pings' = pings
    PROVE  PingsTyped' /\ EndedKept' /\ SlotsExist'
<1>1. /\ EventTyped(e) /\ (dups' = dups \/ (dups > 0 /\ dups' = dups - 1))
      /\ Left(e, again) \subseteq inflight
  BY HandlerFacts
<1>2. /\ dep' = dep /\ started' = started /\ dep \in Deployments /\ TypeInv /\ BarrierInv
      /\ EndedKept /\ e \in inflight /\ e.type # "reply"
  BY DEF HandlerStep, LoadInv, TypeInv
<1>3. ~App.sync
  BY <1>2, ShapeFacts
<1>4. /\ pings' = pings /\ ended' = ended /\ ran \subseteq ran'
      /\ inflight' \subseteq Left(e, again) \cup Sent(e.svc, e.wf, e.loop, r.fields)
  BY <1>3 DEF HandlerStep, Completes, Fails, Dies, Reply, Sent
<1>5. Chains \in Nat /\ Chains' \in Nat /\ Chains <= Chains'
  BY <1>1, <1>2, ChainsFacts
<1>6. ASSUME NEW g \in inflight', g \notin inflight
      PROVE  /\ g \in Sent(e.svc, e.wf, e.loop, r.fields)
             /\ g.wf = e.wf /\ (g.type = "reply" \/ g.loop = e.loop)
  <2>1. g \in Sent(e.svc, e.wf, e.loop, r.fields)
    BY <1>1, <1>4, <1>6
  <2> QED BY <1>1, <1>2, <2>1, SentTyped DEF EventTyped
<1>7. App' = App /\ Last' = Last
  BY <1>2, ShapeKept
<1>8. Repeats' \subseteq Repeats
  <2> SUFFICES ASSUME NEW g \in Repeats' PROVE g \in Repeats
    OBVIOUS
  <2>1. g \in inflight' /\ g.svc[1] = Last /\ g.wf \in ended /\ ~App.sync
    BY <1>4, <1>7 DEF Repeats
  <2>2. CASE g \in inflight
    BY <2>1, <2>2 DEF Repeats
  <2>3. CASE g \notin inflight
    BY <1>2, <1>6, <2>1, <2>3, SentFresh
  <2> QED BY <2>2, <2>3
<1>9. \A g \in inflight' :
        \/ g.type = "reply" \/ g \in inflight
        \/ \E h \in inflight : h.type # "reply" /\ g.wf = h.wf /\ g.loop = h.loop
  BY <1>2, <1>6
<1>10. PICK c, p, q : Slots(c, p, q)
  BY DEF LoadInv, SlotsExist
<1>11. SlotsExist'
  BY <1>2, <1>4, <1>5, <1>8, <1>9, <1>10, SlotsStay DEF SlotsExist
<1>12. PingsTyped'
  BY <1>2, <1>4 DEF TypeInv, PingsTyped
<1>13. EndedKept'
  BY <1>2, <1>4, <1>7 DEF EndedKept, Did
<1> QED BY <1>11, <1>12, <1>13

(* The last function ends its workflow, and its chain goes on with a ping. *)
LEMMA LastSlots ==
    ASSUME LoadInv, App.wait # {},
           NEW e, NEW again, NEW metas, NEW r, HandlerStep(e, again, metas, r),
           e.svc[1] = Last, Completes(e.svc, e.wf, e.loop, metas, r, Left(e, again)),
           pings' = NextPings(e)
    PROVE  PingsTyped' /\ EndedKept' /\ SlotsExist'
<1>1. /\ EventTyped(e) /\ (dups' = dups \/ (dups > 0 /\ dups' = dups - 1))
      /\ Left(e, again) \subseteq inflight
      /\ dups' = dups => Left(e, again) = inflight \ {e}
  BY HandlerFacts
<1>2. /\ dep' = dep /\ started' = started /\ dep \in Deployments /\ TypeInv /\ BarrierInv
      /\ EndedKept /\ e \in inflight /\ e.type # "reply"
      /\ e.svc[1] \notin App.wait \/ \E p \in Processes : Enough(e, p)
  BY DEF HandlerStep, LoadInv, TypeInv
<1>3. ~App.sync
  BY <1>2, ShapeFacts
<1>4. /\ ended' = ended \cup {e.wf} /\ inflight' = Left(e, again)
      /\ ran' = ran \cup {RunOf(e.svc, e.wf, metas, r)}
  BY <1>3 DEF Completes, Reply, RunOf
<1>5. /\ Chains \in Nat /\ (dups' = dups => Chains' = Chains)
      /\ dups' = dups - 1 => Chains' = Chains + 1
  BY <1>1, <1>2, ChainsFacts
<1>6. /\ e.svc = <<Last, 1>>
      /\ \A g \in inflight : g.svc[1] = Last /\ g.wf = e.wf => g = e
  BY <1>2, LastEvent
<1>7. App' = App /\ Last' = Last
  BY <1>2, ShapeKept
<1>8. e \in Repeats <=> e.wf \in ended
  BY <1>2, <1>3 DEF Repeats
<1>9. Repeats' \subseteq Repeats \cup {e} /\ (dups' = dups => Repeats' \subseteq Repeats \ {e})
  <2>1. \A g \in Repeats' : /\ g \in Left(e, again) /\ g \in inflight
                            /\ g \in Repeats \/ g = e
    BY <1>1, <1>3, <1>4, <1>6, <1>7 DEF Repeats
  <2> QED BY <1>1, <2>1
<1>10. \/ pings' = pings
       \/ /\ e.loop > 0
          /\ pings' = pings \cup {[loop |-> e.loop - 1, by |-> <<e.wf, Runs(e.svc, e.wf) + 1>>]}
  BY DEF NextPings
<1>11. e.wf \in 1 .. started /\ e.loop \in 0 .. dep.loop /\ dep.loop \in Nat
  BY <1>1, <1>2, DeploymentsAssumption DEF EventTyped
<1>12. \/ pings' = pings
       \/ \E x : e.loop > 0 /\ x.loop = e.loop - 1 /\ pings' = pings \cup {x}
  <2>1. CASE pings' = pings
    BY <2>1
  <2>2. CASE e.loop > 0 /\ pings' # pings
    <3>1. PICK x : x = [loop |-> e.loop - 1, by |-> <<e.wf, Runs(e.svc, e.wf) + 1>>]
      OBVIOUS
    <3> QED BY <1>10, <2>2, <3>1
  <2> QED BY <1>10, <2>1, <2>2
<1>13. \/ Chains' = Chains /\ Repeats' \subseteq Repeats \ {e}
       \/ Chains' = Chains + 1 /\ Repeats' \subseteq Repeats \cup {e}
  BY <1>1, <1>5, <1>9
<1>14. PICK c, p, q : Slots(c, p, q)
  BY DEF LoadInv, SlotsExist
<1>15. inflight' \subseteq inflight /\ e.loop \in Nat
  BY <1>1, <1>4, <1>11
<1>16. SlotsExist'
  BY <1>2, <1>4, <1>5, <1>8, <1>11, <1>12, <1>13, <1>14, <1>15, SlotsEnd DEF SlotsExist
<1>17. PingsTyped'
  <2>1. Runs(e.svc, e.wf) + 1 \in Nat
    <3>1. RunsKept
      BY <1>2 DEF BarrierInv
    <3>2. Runs(e.svc, e.wf) \in Nat
      BY <3>1, RunsType
    <3> QED BY <3>2
  <2>2. ASSUME NEW x, x = [loop |-> e.loop - 1, by |-> <<e.wf, Runs(e.svc, e.wf) + 1>>],
               e.loop > 0
        PROVE  x.loop \in 0 .. dep.loop /\ x.by \in Nat \X Nat
    BY <1>11, <2>1, <2>2
  <2> QED BY <1>2, <1>10, <2>2 DEF TypeInv, PingsTyped
<1>18. EndedKept'
  <2>1. Did(<<Last, 1>>, e.wf)'
    <3>1. PICK x : x = RunOf(e.svc, e.wf, metas, r)
      OBVIOUS
    <3>2. x \in ran' /\ x.svc = <<Last, 1>> /\ x.wf = e.wf
      BY <1>4, <1>6, <3>1 DEF RunOf
    <3> QED BY <1>7, <3>2 DEF Did
  <2>2. \A w : Did(<<Last, 1>>, w) => Did(<<Last, 1>>, w)'
    BY <1>4, <1>7 DEF Did
  <2> QED BY <1>2, <1>4, <1>7, <2>1, <2>2 DEF EndedKept
<1> QED BY <1>16, <1>17, <1>18

(* What each action keeps of LoadInv, besides BarrierInv *)
LoadKept == TypeInv /\ (App.wait # {} => EndedKept) /\ SlotsExist

(* Entries of upstream_info that are removed, or left alone *)
LEMMA InfoTypedNext ==
    ASSUME InfoTyped, dep' = dep, info' = info \/ InfoShrinks
    PROVE  InfoTyped'
<1>1. App' = App /\ Processes' = Processes
  BY ShapeKept
<1>2. CASE info' = info
  BY <1>1, <1>2 DEF InfoTyped
<1>3. CASE InfoShrinks
  <2> SUFFICES ASSUME NEW s \in App.wait, NEW p \in Processes,
                      NEW wf \in DOMAIN info'[s][p], NEW n \in DOMAIN info'[s][p][wf]
               PROVE  info'[s][p][wf][n].wf = wf
    BY <1>1 DEF InfoTyped
  <2>1. wf \in DOMAIN info[s][p] /\ info'[s][p][wf] = info[s][p][wf]
    BY <1>3 DEF InfoShrinks
  <2> QED BY <2>1 DEF InfoTyped
<1> QED BY <1>2, <1>3

(* A handler keeps LoadInv. *)
LEMMA HandlerLoad ==
    ASSUME LoadInv, NEW e, NEW again, NEW metas, NEW r, HandlerStep(e, again, metas, r),
           info' = info \/ InfoShrinks, faults' \in 0 .. dep.faults
    PROVE  LoadKept'
<1>1. dep' = dep /\ started' = started /\ TypeInv /\ dep \in Deployments
  BY DEF HandlerStep, LoadInv, TypeInv
<1>2. App' = App
  BY <1>1, ShapeKept
<1>3. /\ EventTyped(e) /\ (dups' = dups \/ (dups > 0 /\ dups' = dups - 1))
      /\ EventsTyped' /\ HeapTyped' /\ ServicesTyped'
  BY HandlerFacts
<1>4. PingsTyped' /\ (App.wait # {} => EndedKept') /\ SlotsExist'
  <2>1. CASE App.wait = {}
    BY <2>1, SyncSlots
  <2>2. CASE /\ App.wait # {} /\ e.svc[1] = Last /\ pings' = NextPings(e)
             /\ Completes(e.svc, e.wf, e.loop, metas, r, Left(e, again))
    BY <2>2, LastSlots
  <2>3. CASE /\ App.wait # {}
             /\ \/ e.svc[1] # Last
                \/ /\ \/ Fails(e.svc, e.wf, r, Left(e, again))
                      \/ Dies(e.svc, e.wf, r, Left(e, again))
                   /\ pings' = pings
    BY <2>3, PassSlots
  <2> QED BY <2>1, <2>2, <2>3 DEF HandlerStep
<1>5. InfoTyped'
  BY <1>1, InfoTypedNext DEF TypeInv
<1>6. CountsTyped'
  BY <1>1, <1>3, ChainsFacts DEF TypeInv, CountsTyped
<1> QED BY <1>1, <1>2, <1>3, <1>4, <1>5, <1>6 DEF LoadKept, TypeInv

(* An event for a stage that does not wait keeps LoadInv. *)
LEMMA HandleLoad ==
    ASSUME LoadInv, NEW e \in Requests, Handle(e)
    PROVE  LoadKept'
<1>1. PICK metas : metas = <<e>>
  OBVIOUS
<1>2. PICK again, pulled, r :
        /\ again \in Again(e.svc[1]) /\ Delivered(again)
        /\ pulled \in Pulls(e.svc, e.wf, metas) /\ Charged(pulled)
        /\ \/ /\ Completes(e.svc, e.wf, e.loop, metas, r, Left(e, again))
              /\ e.svc[1] = Last => pings' = NextPings(e)
              /\ e.svc[1] # Last => pings' = pings
           \/ /\ Fails(e.svc, e.wf, r, Left(e, again)) \/ Dies(e.svc, e.wf, r, Left(e, again))
              /\ pings' = pings
  BY <1>1 DEF Handle
<1>3. /\ e \in inflight /\ e.type # "reply" /\ e.svc[1] \notin App.wait
      /\ dep' = dep /\ started' = started /\ info' = info
  BY DEF Handle, Requests
<1>4. HandlerStep(e, again, metas, r)
  BY <1>2, <1>3 DEF HandlerStep
<1>5. faults' \in 0 .. dep.faults
  BY <1>2, ChargedFacts DEF LoadInv
<1> QED BY <1>3, <1>4, <1>5, HandlerLoad

(* The event that opens the barrier keeps it. *)
LEMMA JoinLoad ==
    ASSUME LoadInv, NEW e \in Requests, NEW p \in Processes, Join(e, p)
    PROVE  LoadKept'
<1>1. PICK metas : metas = Events(e, p)
  OBVIOUS
<1>2. PICK again, pulled, r :
        /\ again \in Again(e.svc[1]) /\ Delivered(again)
        /\ pulled \in Pulls(e.svc, e.wf, metas) /\ Charged(pulled)
        /\ \/ /\ Completes(e.svc, e.wf, e.loop, metas, r, Left(e, again))
              /\ e.svc[1] = Last => pings' = NextPings(e)
              /\ e.svc[1] # Last => pings' = pings
           \/ /\ Fails(e.svc, e.wf, r, Left(e, again)) \/ Dies(e.svc, e.wf, r, Left(e, again))
              /\ pings' = pings
        /\ \/ info' = [info EXCEPT ![e.svc[1]][p] = Restrict(@, DOMAIN @ \ {e.wf})]
           \/ info' = [info EXCEPT ![e.svc[1]][p] = << >>]
  BY <1>1 DEF Join
<1>3. /\ e \in inflight /\ e.type # "reply" /\ e.svc[1] \in App.wait /\ Enough(e, p)
      /\ dep' = dep /\ started' = started
  BY DEF Join, Requests
<1>4. HandlerStep(e, again, metas, r)
  BY <1>2, <1>3 DEF HandlerStep
<1>5. faults' \in 0 .. dep.faults
  BY <1>2, ChargedFacts DEF LoadInv
<1>6. InfoDomain
  BY <1>3 DEF LoadInv, BarrierInv
<1>7. InfoShrinks
  BY <1>2, <1>3, <1>6, JoinInfo
<1> QED BY <1>4, <1>5, <1>7, HandlerLoad

(* A step that sends nothing, or an answer, keeps the chains. *)
LEMMA QuietSlots ==
    ASSUME LoadInv, dep' = dep, started' = started, pings' = pings,
           dups' = dups \/ (dups > 0 /\ dups' = dups - 1), ended \subseteq ended',
           App.wait # {} => ended' = ended /\ ran' = ran /\ inflight' \subseteq inflight,
           \A g \in inflight' : g.type = "reply" \/ g \in inflight
    PROVE  PingsTyped' /\ (App.wait # {} => EndedKept') /\ SlotsExist'
<1>1. TypeInv /\ dep \in Deployments /\ App' = App /\ Last' = Last
  BY ShapeKept DEF LoadInv, TypeInv
<1>2. Chains \in Nat /\ Chains' \in Nat /\ Chains <= Chains'
  BY <1>1, ChainsFacts
<1>3. Repeats' \subseteq Repeats
  <2>1. CASE App.wait = {}
    BY <1>1, <2>1, SyncRepeats
  <2>2. CASE App.wait # {}
    BY <1>1, <2>2 DEF Repeats
  <2> QED BY <2>1, <2>2
<1>4. PICK c, p, q : Slots(c, p, q)
  BY DEF LoadInv, SlotsExist
<1>5. SlotsExist'
  BY <1>2, <1>3, <1>4, SlotsStay DEF SlotsExist
<1>6. PingsTyped'
  BY <1>1 DEF TypeInv, PingsTyped
<1>7. App.wait # {} => EndedKept'
  BY <1>1 DEF LoadInv, EndedKept, Did
<1> QED BY <1>5, <1>6, <1>7

(* An event that is stored keeps it. *)
LEMMA WaitLoad ==
    ASSUME LoadInv, NEW e \in Requests, NEW p \in Processes, Wait(e, p)
    PROVE  LoadKept'
<1>1. /\ dep' = dep /\ started' = started /\ pings' = pings /\ ended' = ended /\ ran' = ran
      /\ heap' = heap /\ blocked' = blocked /\ faults' = faults
      /\ e \in inflight /\ e.svc[1] \in App.wait
  BY DEF Wait, history, Requests
<1>2. TypeInv /\ dep \in Deployments /\ dups \in Nat /\ BarrierInv
  BY <1>1 DEF LoadInv, TypeInv, CountsTyped
<1>3. PICK again : again \in Again(e.svc[1]) /\ Delivered(again) /\ inflight' = Left(e, again)
  BY DEF Wait
<1>4. dups' = dups \/ (dups > 0 /\ dups' = dups - 1)
  <2>1. \/ again = FALSE /\ dups' = dups
        \/ again = TRUE /\ e.svc[1] \in App.broker /\ dups > 0 /\ dups' = dups - 1
    BY <1>2, <1>3, DeliveredFacts, Zenon
  <2> QED BY <2>1
<1>5. inflight' \subseteq inflight
  BY <1>3 DEF Left
<1>6. PingsTyped' /\ (App.wait # {} => EndedKept') /\ SlotsExist'
  BY <1>1, <1>4, <1>5, QuietSlots
<1>7. App' = App /\ Stages' = Stages /\ Services' = Services /\ Processes' = Processes
  BY <1>1, ShapeKept
<1>8. EventsTyped' /\ HeapTyped' /\ ServicesTyped'
  BY <1>1, <1>2, <1>5, <1>7
     DEF TypeInv, EventsTyped, EventTyped, HeapTyped, ServicesTyped
<1>9. CountsTyped'
  BY <1>1, <1>2, <1>4, ChainsFacts DEF TypeInv, CountsTyped
<1>10. InfoTyped'
  <2>1. PICK s, q, d : /\ s = e.svc[1] /\ q = Waiting(s, p, e.wf)
                       /\ d = Put(info[s][p], e.wf, Append(q, e))
    OBVIOUS
  <2>2. info' = [info EXCEPT ![s][p] = d]
    BY <2>1 DEF Wait, Events
  <2>3. InfoDomain /\ s \in App.wait
    BY <1>1, <1>2, <2>1 DEF BarrierInv
  <2>4. /\ info'[s][p] = d
        /\ \A t \in App.wait, o \in Processes : t # s \/ o # p => info'[t][o] = info[t][o]
    BY <2>2, <2>3 DEF InfoDomain
  <2>5. e.wf \in 1 .. started /\ EntryKept(s, p, e.wf)
    BY <1>1, <1>2, <2>1 DEF BarrierInv, EventsKept, EventKept, WaitingKept
  <2>6. /\ Len(q) \in Nat /\ DOMAIN Append(q, e) = 1 .. Len(q) + 1
        /\ Append(q, e)[Len(q) + 1] = e /\ DOMAIN q = 1 .. Len(q)
        /\ \A n \in 1 .. Len(q) : Append(q, e)[n] = q[n]
    <3>1. q \in Seq(Range(q))
      BY <2>1, <2>5 DEF EntryKept
    <3> QED BY <3>1, AppendFacts, SeqFacts
  <2>7. \A n \in DOMAIN q : q[n].wf = e.wf
    <3>1. CASE e.wf \in DOMAIN info[s][p]
      BY <1>2, <2>1, <2>3, <3>1 DEF TypeInv, InfoTyped, Waiting
    <3>2. CASE e.wf \notin DOMAIN info[s][p]
      BY <2>1, <3>2 DEF Waiting
    <3> QED BY <3>1, <3>2
  <2>8. \A n \in DOMAIN Append(q, e) : Append(q, e)[n].wf = e.wf
    <3>1. \A n \in 1 .. Len(q) + 1 : n \in 1 .. Len(q) \/ n = Len(q) + 1
      BY <2>6
    <3> QED BY <2>6, <2>7, <3>1
  <2>9. ASSUME NEW t \in App.wait, NEW o \in Processes, NEW w \in DOMAIN info'[t][o],
               NEW n \in DOMAIN info'[t][o][w]
        PROVE  info'[t][o][w][n].wf = w
    <3>1. CASE t = s /\ o = p /\ w = e.wf
      BY <2>1, <2>4, <2>8, <2>9, <3>1 DEF Put
    <3>2. CASE t = s /\ o = p /\ w # e.wf
      <4>1. w \in DOMAIN info[t][o] /\ info'[t][o][w] = info[t][o][w]
        BY <2>1, <2>4, <3>2 DEF Put
      <4> QED BY <1>2, <2>9, <4>1 DEF TypeInv, InfoTyped
    <3>3. CASE t # s \/ o # p
      BY <1>2, <2>4, <2>9, <3>3 DEF TypeInv, InfoTyped
    <3> QED BY <3>1, <3>2, <3>3
  <2> QED BY <1>7, <2>9 DEF InfoTyped
<1> QED BY <1>1, <1>2, <1>6, <1>7, <1>8, <1>9, <1>10 DEF LoadKept, TypeInv

(* An answer keeps it. *)
LEMMA ReturnLoad ==
    ASSUME LoadInv, NEW e \in inflight, Return(e)
    PROVE  LoadKept'
<1>1. /\ dep' = dep /\ started' = started /\ pings' = pings /\ heap' = heap /\ info' = info
      /\ faults' = faults /\ dups' = dups /\ e.type = "reply"
      /\ blocked' \subseteq blocked /\ ended' \subseteq ended \cup {e.wf}
      /\ ended \subseteq ended'
      /\ inflight' \subseteq inflight \cup Reply(e.svc, e.wf)
  BY DEF Return
<1>2. TypeInv /\ dep \in Deployments /\ EventTyped(e) /\ dep.loop \in Nat
  BY DeploymentsAssumption DEF LoadInv, TypeInv, EventsTyped
<1>3. App.wait = {}
  BY <1>1 DEF LoadInv, BarrierInv, EventsKept, EventKept
<1>4. e.svc \in Services /\ e.wf \in 1 .. started' /\ 0 \in 0 .. dep.loop /\ Counted
  BY <1>1, <1>2 DEF EventTyped, Counted
<1>5. EventsTyped'
  <2>1. inflight' \subseteq inflight \cup (Sent(e.svc, e.wf, 0, << >>) \cup Reply(e.svc, e.wf))
    BY <1>1
  <2> QED BY <1>2, <1>4, <2>1, EventsTypedNext
<1>6. \A g \in inflight' : g.type = "reply" \/ g \in inflight
  BY <1>1 DEF Reply
<1>7. PingsTyped' /\ SlotsExist'
  BY <1>1, <1>3, <1>6, QuietSlots
<1>8. App' = App /\ Services' = Services
  BY <1>1, ShapeKept
<1>9. HeapTyped' /\ ServicesTyped' /\ CountsTyped'
  BY <1>1, <1>2, <1>4, <1>8 DEF TypeInv, HeapTyped, ServicesTyped, CountsTyped
<1>10. InfoTyped'
  BY <1>1, <1>2, InfoTypedNext DEF TypeInv
<1> QED BY <1>1, <1>2, <1>3, <1>5, <1>7, <1>8, <1>9, <1>10 DEF LoadKept, TypeInv

(* Faults keep it. *)
LEMMA FaultLoad ==
    ASSUME LoadInv,
           \/ \E e \in inflight : Lose(e)
           \/ \E svc \in Services, p \in Processes : Crash(svc, p)
           \/ UNCHANGED vars
    PROVE  LoadKept'
<1>1. /\ dep' = dep /\ started' = started /\ pings' = pings /\ dups' = dups
      /\ blocked' = blocked /\ ended' = ended /\ ran' = ran
      /\ faults' = faults \/ (faults > 0 /\ faults' = faults - 1)
      /\ inflight' \subseteq inflight
  BY DEF Lose, Crash, vars, history
<1>2. TypeInv /\ dep \in Deployments /\ dep.faults \in Nat
  BY DeploymentsAssumption DEF LoadInv, TypeInv
<1>3. PingsTyped' /\ (App.wait # {} => EndedKept') /\ SlotsExist'
  BY <1>1, QuietSlots
<1>4. App' = App /\ Stages' = Stages /\ Services' = Services /\ Processes' = Processes
  BY <1>1, ShapeKept
<1>5. EventsTyped' /\ ServicesTyped' /\ CountsTyped'
  BY <1>1, <1>2, <1>4 DEF TypeInv, EventsTyped, EventTyped, ServicesTyped, CountsTyped
<1>6. HeapTyped'
  <2>1. heap' = heap \/ \E svc \in Services : Restarted(svc)
    BY DEF Lose, Crash, vars
  <2>2. CASE heap' = heap
    BY <1>2, <1>4, <2>2 DEF TypeInv, HeapTyped
  <2>3. ASSUME NEW svc \in Services, Restarted(svc) PROVE HeapTyped'
    BY <1>1, <1>2, <2>3, HeapTypedNext DEF TypeInv
  <2> QED BY <2>1, <2>2, <2>3
<1>7. InfoTyped'
  <2>1. \/ info' = info
        \/ \E s \in App.wait, p \in Processes : info' = [info EXCEPT ![s][p] = << >>]
    BY DEF Lose, Crash, vars
  <2>2. ASSUME NEW s \in App.wait, NEW p \in Processes, info' = [info EXCEPT ![s][p] = << >>]
        PROVE  InfoShrinks
    <3>1. InfoDomain
      BY DEF LoadInv, BarrierInv
    <3> QED BY <1>1, <2>2, <3>1, JoinInfo
  <2> QED BY <1>1, <1>2, <2>1, <2>2, InfoTypedNext DEF TypeInv
<1> QED BY <1>1, <1>2, <1>3, <1>4, <1>5, <1>6, <1>7 DEF LoadKept, TypeInv

(* A ping starts the next workflow of its chain; one that comes twice      *)
(* starts a chain of its own.                                              *)
LEMMA StartLoad ==
    ASSUME LoadInv, NEW x \in pings, Start(x)
    PROVE  LoadKept'
<1>1. PICK svc, wf, metas, r :
        /\ svc = <<First, 1>> /\ wf = started + 1 /\ metas = << >>
        /\ r = Result(svc, started + 1, << >>, TRUE)
  OBVIOUS
<1>2. PICK again : /\ again \in Again(First) /\ Delivered(again)
                   /\ pings' = IF again THEN pings ELSE pings \ {x}
  BY DEF Start
<1>3. /\ dep' = dep /\ started' = started + 1 /\ info' = info /\ faults' = faults
      /\ \/ Completes(svc, wf, x.loop, metas, r, inflight)
         \/ Fails(svc, wf, r, inflight)
  BY <1>1 DEF Start
<1>4. /\ TypeInv /\ dep \in Deployments /\ started \in Nat /\ dups \in Nat
      /\ x.loop \in 0 .. dep.loop /\ ended \subseteq 1 .. started
  BY DEF LoadInv, TypeInv, CountsTyped, PingsTyped, ServicesTyped
<1>5. svc \in Services /\ svc[1] = First /\ First # Last /\ wf \in 1 .. started' /\ Counted
  BY <1>1, <1>3, <1>4, FlowShape DEF Counted
<1>6. EventsTyped' /\ HeapTyped' /\ ServicesTyped'
  BY <1>3, <1>4, <1>5, HandlerTyped
<1>7. /\ ended' = ended /\ ran \subseteq ran'
      /\ inflight' \subseteq inflight \cup Sent(svc, wf, x.loop, r.fields)
  BY <1>3, <1>5 DEF Completes, Fails, Reply
<1>8. \/ dups' = dups /\ pings' = pings \ {x}
      \/ dups > 0 /\ dups' = dups - 1 /\ pings' = pings
  <2>1. \/ again = FALSE /\ dups' = dups
        \/ again = TRUE /\ First \in App.broker /\ dups > 0 /\ dups' = dups - 1
    BY <1>2, <1>4, DeliveredFacts, Zenon
  <2>2. CASE again = FALSE /\ dups' = dups
    BY <1>2, <2>2
  <2>3. CASE again = TRUE /\ dups > 0 /\ dups' = dups - 1
    BY <1>2, <2>3
  <2> QED BY <2>1, <2>2, <2>3
<1>9. /\ Chains \in Nat /\ dups' \in 0 .. dep.dups
      /\ dups' = dups => Chains' = Chains
      /\ dups' = dups - 1 => Chains' = Chains + 1
  BY <1>3, <1>4, <1>8, ChainsFacts
<1>10. ASSUME NEW g \in inflight'
       PROVE  g \in inflight \/ (g.wf = started + 1 /\ g.loop = x.loop)
  <2>1. CASE g \in Sent(svc, wf, x.loop, r.fields)
    <3>1. PICK to \in ServicesOf(After(svc[1])) :
            g = [type |-> svc[1], svc |-> to, from |-> svc, wf |-> wf, loop |-> x.loop,
                 fields |-> r.fields]
      BY <1>5, <2>1 DEF Sent
    <3> QED BY <1>1, <3>1
  <2> QED BY <1>7, <2>1
<1>11. App' = App /\ Last' = Last
  BY <1>3, ShapeKept
<1>12. Repeats' \subseteq Repeats
  <2>1. started + 1 \notin ended
    BY <1>4
  <2> QED BY <1>7, <1>10, <1>11, <2>1 DEF Repeats
<1>13. \A e \in inflight : e.wf \in 1 .. started
  BY <1>4 DEF TypeInv, EventsTyped, EventTyped
<1>14. PICK c, p, q : Slots(c, p, q)
  BY DEF LoadInv, SlotsExist
<1>15. SlotsExist'
  <2>1. \/ pings' = pings /\ Chains' = Chains + 1
        \/ pings' = pings \ {x} /\ Chains' = Chains
    BY <1>8, <1>9
  <2> QED BY <1>3, <1>4, <1>7, <1>9, <1>10, <1>12, <1>13, <1>14, <2>1, SlotsStart
          DEF SlotsExist
<1>16. PingsTyped' /\ CountsTyped'
  BY <1>3, <1>4, <1>8, <1>9 DEF TypeInv, PingsTyped, CountsTyped
<1>17. InfoTyped'
  BY <1>3, <1>4, InfoTypedNext DEF TypeInv
<1>18. App.wait # {} => EndedKept'
  BY <1>7, <1>11 DEF LoadInv, EndedKept, Did
<1> QED BY <1>3, <1>4, <1>6, <1>11, <1>15, <1>16, <1>17, <1>18 DEF LoadKept, TypeInv

(* At the start every ping has a chain. *)
LEMMA LoadInit ==
    ASSUME Init
    PROVE  LoadInv
<1>1. /\ dep \in Deployments /\ started = 0 /\ inflight = {} /\ blocked = {} /\ ended = {}
      /\ faults = dep.faults /\ dups = dep.dups
      /\ pings = {[loop |-> dep.loop, by |-> <<0, n>>] : n \in 1 .. dep.pings}
  BY DEF Init
<1>2. dep.pings \in Nat /\ dep.loop \in Nat /\ dep.faults \in Nat /\ dep.dups \in Nat
  BY <1>1, DeploymentsAssumption
<1>3. HeapTyped
  BY DEF Init, HeapTyped, FreshHeap
<1>4. InfoTyped
  BY DEF Init, InfoTyped
<1>5. \A x \in pings : \E n \in 1 .. dep.pings : x.loop = dep.loop /\ x.by = <<0, n>>
                                                 /\ x = [loop |-> dep.loop, by |-> <<0, n>>]
  BY <1>1
<1>6. PingsTyped
  <2> SUFFICES ASSUME NEW x \in pings PROVE x.loop \in 0 .. dep.loop /\ x.by \in Nat \X Nat
    BY DEF PingsTyped
  <2>1. PICK n \in 1 .. dep.pings : x.loop = dep.loop /\ x.by = <<0, n>>
    BY <1>5
  <2> QED BY <1>2, <2>1
<1>7. TypeInv
  BY <1>1, <1>2, <1>3, <1>4, <1>6 DEF TypeInv, EventsTyped, CountsTyped, ServicesTyped
<1>8. App.wait # {} => BarrierInv /\ EndedKept
  BY <1>1, BarrierInit DEF EndedKept
<1>9. SlotsExist
  <2>1. Chains = dep.pings
    BY <1>1, <1>2 DEF Chains
  <2>2. PICK c, p, q : /\ c = [w \in 1 .. started |-> <<1, 0>>]
                       /\ p = [x \in pings |-> x.by[2]]
                       /\ q = [e \in Repeats |-> 1]
    OBVIOUS
  <2>3. Repeats = {} /\ 1 .. started = {}
    BY <1>1 DEF Repeats
  <2>4. \A x \in pings : p[x] \in 1 .. Chains /\ x = [loop |-> dep.loop, by |-> <<0, p[x]>>]
    <3> SUFFICES ASSUME NEW x \in pings
                 PROVE  p[x] \in 1 .. Chains /\ x = [loop |-> dep.loop, by |-> <<0, p[x]>>]
      OBVIOUS
    <3>1. PICK n \in 1 .. dep.pings :
            x.by = <<0, n>> /\ x = [loop |-> dep.loop, by |-> <<0, n>>]
      BY <1>5
    <3>2. p[x] = n
      BY <2>2, <3>1
    <3> QED BY <2>1, <3>1, <3>2
  <2>5. SlotType(c, p, q)
    BY <2>2, <2>3, <2>4 DEF SlotType
  <2>6. SlotFree(c) /\ SlotEvents(c)
    BY <1>1, <2>3 DEF SlotFree, SlotEvents
  <2>7. SlotNext(c, p, q)
    BY <2>3, <2>4 DEF SlotNext
  <2> QED BY <2>5, <2>6, <2>7 DEF SlotsExist, Slots
<1> QED BY <1>7, <1>8, <1>9 DEF LoadInv

(* Every step keeps LoadInv. *)
LEMMA LoadNext ==
    ASSUME LoadInv, [Next]_vars
    PROVE  LoadInv'
<1>1. dep' = dep
  BY DEF Next, Deliver, Start, Handle, Wait, Join, Return, Lose, Crash, vars
<1>2. WorkInv /\ App' = App
  BY <1>1, ShapeKept DEF LoadInv, TypeInv, WorkInv
<1>3. WorkInv'
  BY <1>2, BarrierNext
<1>4. LoadKept'
  <2>1. ASSUME NEW x \in pings, Start(x) PROVE LoadKept'
    BY <2>1, StartLoad
  <2>2. ASSUME NEW e \in Requests, Handle(e) PROVE LoadKept'
    BY <2>2, HandleLoad
  <2>3. ASSUME NEW e \in Requests, NEW p \in Processes, Wait(e, p) PROVE LoadKept'
    BY <2>3, WaitLoad
  <2>4. ASSUME NEW e \in Requests, NEW p \in Processes, Join(e, p) PROVE LoadKept'
    BY <2>4, JoinLoad
  <2>5. ASSUME NEW e \in inflight, Return(e) PROVE LoadKept'
    BY <2>5, ReturnLoad
  <2>6. CASE \/ \E e \in inflight : Lose(e)
             \/ \E svc \in Services, p \in Processes : Crash(svc, p)
             \/ UNCHANGED vars
    BY <2>6, FaultLoad
  <2> QED BY <2>1, <2>2, <2>3, <2>4, <2>5, <2>6 DEF Next, Deliver
<1> QED BY <1>2, <1>3, <1>4 DEF LoadInv, LoadKept, WorkInv

-----------------------------------------------------------------------------
(* Counting *)

(* A map that tells the elements of S apart bounds their number. *)
Distinct(f, S) == \A x, y \in S : f[x] = f[y] => x = y

(* A set that such a map sends into T is not larger than T. *)
LEMMA CountFacts ==
    ASSUME NEW S, NEW T, IsFiniteSet(T), NEW f, \A x \in S : f[x] \in T, Distinct(f, S)
    PROVE  /\ IsFiniteSet(S) /\ Cardinality(S) \in Nat
           /\ Cardinality(S) <= Cardinality(T)
<1>1. PICK g : g = [x \in S |-> f[x]]
  OBVIOUS
<1>2. g \in Injection(S, T)
  BY <1>1 DEF Injection, IsInjective, Distinct
<1>3. IsFiniteSet(S) /\ Cardinality(S) <= Cardinality(T)
  BY <1>2, FS_Injection
<1> QED BY <1>3, FS_CardinalityType

(* The numbers up to n *)
LEMMA IntervalFacts ==
    ASSUME NEW n \in Nat
    PROVE  /\ IsFiniteSet(1 .. n) /\ Cardinality(1 .. n) = n
           /\ IsFiniteSet(0 .. n) /\ Cardinality(0 .. n) = n + 1
<1>1. IsFiniteSet(1 .. n) /\ Cardinality(1 .. n) = IF 1 > n THEN 0 ELSE n - 1 + 1
  BY FS_Interval
<1>2. IsFiniteSet(0 .. n) /\ Cardinality(0 .. n) = IF 0 > n THEN 0 ELSE n - 0 + 1
  BY FS_Interval
<1> QED BY <1>1, <1>2

(* No chain has more workflows than its loop count allows. *)
LEMMA StartedBound ==
    ASSUME LoadInv
    PROVE  started <= MaxWf
<1>1. /\ started \in Nat /\ dups \in Nat /\ dep.pings \in Nat /\ dep.dups \in Nat
      /\ dep.loop \in Nat /\ dups <= dep.dups
  BY DeploymentsAssumption DEF LoadInv, TypeInv, CountsTyped
<1>2. Chains \in Nat /\ Chains <= dep.pings + dep.dups
  BY <1>1 DEF Chains
<1>3. PICK c, p, q : Slots(c, p, q)
  BY DEF LoadInv, SlotsExist
<1>4. PICK T : T = (1 .. Chains) \X (0 .. dep.loop)
  OBVIOUS
<1>5. IsFiniteSet(T) /\ Cardinality(T) = Chains * (dep.loop + 1)
  <2>1. /\ IsFiniteSet(1 .. Chains) /\ Cardinality(1 .. Chains) = Chains
        /\ IsFiniteSet(0 .. dep.loop) /\ Cardinality(0 .. dep.loop) = dep.loop + 1
    BY <1>1, <1>2, IntervalFacts
  <2>2. /\ IsFiniteSet(T)
        /\ Cardinality(T) = Cardinality(1 .. Chains) * Cardinality(0 .. dep.loop)
    BY <1>4, <2>1, FS_Product
  <2> QED BY <2>1, <2>2
<1>6. \A w \in 1 .. started : c[w] \in T
  BY <1>3, <1>4 DEF Slots, SlotType
<1>7. Distinct(c, 1 .. started)
  BY <1>3 DEF Slots, SlotFree, Distinct
<1>8. Cardinality(1 .. started) <= Cardinality(T)
  BY <1>5, <1>6, <1>7, CountFacts
<1>9. started <= Chains * (dep.loop + 1)
  BY <1>1, <1>5, <1>8, IntervalFacts
<1>10. Chains * (dep.loop + 1) <= (dep.pings + dep.dups) * (dep.loop + 1)
  <2>1. ASSUME NEW a \in Nat, NEW b \in Nat, NEW k \in Nat, a <= b PROVE a * k <= b * k
    <3>1. (b - a) * k >= 0 /\ (b - a) * k = b * k - a * k
      BY <2>1
    <3>2. a * k \in Int /\ b * k \in Int
      OBVIOUS
    <3> QED BY <3>1, <3>2
  <2>2. dep.loop + 1 \in Nat /\ dep.pings + dep.dups \in Nat
    BY <1>1
  <2> QED BY <1>2, <2>1, <2>2
<1>11. /\ Chains * (dep.loop + 1) \in Nat
       /\ (dep.pings + dep.dups) * (dep.loop + 1) \in Nat
  BY <1>1, <1>2
<1> QED BY <1>1, <1>9, <1>10, <1>11 DEF MaxWf

(* The workflows under way and the pings have chains of their own. *)
LEMMA LoadCount ==
    ASSUME LoadInv
    PROVE  LoadBounded
<1>1. /\ started \in Nat /\ dups \in Nat /\ dep.pings \in Nat /\ dep.dups \in Nat
      /\ dups <= dep.dups /\ ended \subseteq 1 .. started
  BY DeploymentsAssumption DEF LoadInv, TypeInv, CountsTyped, ServicesTyped
<1>2. Chains \in Nat /\ Chains = dep.pings + (dep.dups - dups)
  BY <1>1 DEF Chains
<1>3. PICK c, p, q : Slots(c, p, q)
  BY DEF LoadInv, SlotsExist
<1>4. PICK U, C, A, B :
        /\ U = (1 .. started) \ ended /\ C = 1 .. Chains
        /\ A = {c[w][1] : w \in U} /\ B = C \ A
  OBVIOUS
<1>5. IsFiniteSet(C) /\ Cardinality(C) = Chains
  BY <1>2, <1>4, IntervalFacts
<1>6. \A w \in U : c[w][1] \in A /\ c[w][1] \in C
  BY <1>3, <1>4 DEF Slots, SlotType
<1>7. A \subseteq C
  BY <1>4, <1>6
<1>8. IsFiniteSet(A) /\ Cardinality(A) \in Nat
  BY <1>5, <1>7, FS_Subset, FS_CardinalityType
<1>9. Cardinality(U) <= Cardinality(A)
  <2>1. PICK f : f = [w \in U |-> c[w][1]]
    OBVIOUS
  <2>2. Distinct(f, U)
    <3> SUFFICES ASSUME NEW w \in U, NEW v \in U, f[w] = f[v], w # v PROVE FALSE
      BY DEF Distinct
    <3>1. w \in 1 .. started /\ v \in 1 .. started /\ w \notin ended /\ v \notin ended
          /\ c[w][1] = c[v][1]
      BY <1>4, <2>1
    <3>2. c[w][2] # c[v][2] /\ ~(c[w][2] < c[v][2]) /\ ~(c[v][2] < c[w][2])
      BY <1>3, <3>1 DEF Slots, SlotFree
    <3>3. c[w][2] \in Int /\ c[v][2] \in Int
      BY <1>3, <3>1 DEF Slots, SlotType
    <3> QED BY <3>2, <3>3
  <2>3. \A w \in U : f[w] \in A
    BY <1>6, <2>1
  <2> QED BY <1>8, <2>2, <2>3, CountFacts
<1>10. IsFiniteSet(B) /\ Cardinality(B) = Chains - Cardinality(A)
  <2>1. IsFiniteSet(B) /\ Cardinality(B) = Cardinality(C) - Cardinality(C \cap A)
    BY <1>4, <1>5, FS_Difference
  <2>2. C \cap A = A
    BY <1>7
  <2> QED BY <1>5, <2>1, <2>2
<1>11. Cardinality(pings) \in Nat /\ Cardinality(pings) <= Cardinality(B)
  <2>1. \A x \in pings : p[x] \in B
    <3> SUFFICES ASSUME NEW x \in pings PROVE p[x] \in C /\ p[x] \notin A
      BY <1>4
    <3>1. p[x] \in C
      BY <1>3, <1>4 DEF Slots, SlotType
    <3>2. \A w \in U : p[x] # c[w][1]
      BY <1>3, <1>4 DEF Slots, SlotNext
    <3> QED BY <1>4, <3>1, <3>2
  <2>2. Distinct(p, pings)
    BY <1>3 DEF Slots, SlotNext, Distinct
  <2> QED BY <1>10, <2>1, <2>2, CountFacts
<1>12. Cardinality(U) = started - Cardinality(ended) /\ Cardinality(ended) \in Nat
  <2>1. IsFiniteSet(1 .. started) /\ Cardinality(1 .. started) = started
    BY <1>1, IntervalFacts
  <2>2. Cardinality(U) = Cardinality(1 .. started) - Cardinality((1 .. started) \cap ended)
    BY <1>4, <2>1, FS_Difference
  <2>3. (1 .. started) \cap ended = ended
    BY <1>1
  <2>4. IsFiniteSet(ended)
    BY <1>1, <2>1, FS_Subset
  <2> QED BY <2>1, <2>2, <2>3, <2>4, FS_CardinalityType
<1>13. started - Cardinality(ended) + Cardinality(pings) <= Chains
  BY <1>1, <1>2, <1>8, <1>9, <1>10, <1>11, <1>12
<1> QED BY <1>2, <1>13 DEF LoadBounded

(* The types of the workflows hold for every deployment, and the loop      *)
(* count bounds the workflows that are ever started.                       *)
THEOREM TypeCorrect == Spec => []TypeOK
<1>1. LoadInv => TypeOK
  <2> SUFFICES ASSUME LoadInv PROVE TypeOK
    OBVIOUS
  <2>1. started \in 0 .. MaxWf
    <3>1. started \in Nat /\ started <= MaxWf
      BY StartedBound DEF LoadInv, TypeInv, CountsTyped
    <3>2. MaxWf \in Nat
      BY DeploymentsAssumption DEF MaxWf, LoadInv, TypeInv
    <3> QED BY <3>1, <3>2
  <2> QED BY <2>1 DEF LoadInv, TypeInv, EventsTyped, EventTyped, HeapTyped, InfoTyped,
                      PingsTyped, CountsTyped, ServicesTyped, TypeOK
<1> QED BY <1>1, LoadInit, LoadNext, PTL DEF Spec

(* The loop of send_request is closed for every deployment: lost events,   *)
(* crashes and failed handlers end a chain of workflows, and only an event *)
(* that the broker delivers twice adds one.                                *)
THEOREM LoadCorrect == Spec => []LoadBounded
BY LoadInit, LoadNext, LoadCount, PTL DEF Spec

-----------------------------------------------------------------------------
(* What the functions hand over *)

(* How all functions of a workflow hand over their results, where the      *)
(* protocol fits *)
DataWay ==
    CASE dep.protocol = "ES"   -> "store"
      [] dep.protocol = "RPC"  -> "inline"
      [] dep.protocol = "RRPC" -> IF dep.app = "digits" THEN "store" ELSE "inline"
      [] OTHER                 -> "object"

(* The part of the work that a parallel service does *)
Share(svc) ==
    CASE dep.app = "wordcount" -> WC!split(dep.num)[ID(svc) + 1]
      [] dep.app = "digits"    -> DG!array_split(dep.num)[ID(svc) + 1]
      [] dep.app = "ml"        -> ML!post_handle(dep.num)[ID(svc) + 1]
      [] dep.app = "finra"     -> {ID(svc) + 1}

(* Does svc hand over a result?  *)
Hands(svc) ==
    CASE dep.app = "wordcount" -> svc[1] \in {"splitter", "mapper"}
      [] dep.app = "digits"    -> svc[1] \in {"splitter", "predict"}
      [] dep.app = "ml"        -> svc[1] = "pca"
      [] dep.app = "finra"     -> svc[1] = "fetchData" /\ ID(svc) = 0
      [] dep.app = "micro"     -> svc[1] = "producer"
      [] dep.app = "thpt"      -> FALSE

(* The splitter of digits stores each part under a key of its own. *)
Scatters(svc) == dep.app = "digits" /\ svc[1] = "splitter" /\ DataWay = "store"

KeyOf(svc, wf) ==
    CASE dep.app = "wordcount" -> IF svc[1] = "splitter" THEN <<"text.txt", 0>>
                                                         ELSE <<"/tmp/wc.txt", 0>>
      [] dep.app = "digits"    -> <<"y_pred", ID(svc)>>
      [] dep.app = "ml"        -> <<"ML_Pipeline/train_pca_transform_2.txt", 0>>
      [] dep.app = "finra"     -> <<"whole_data", 0>>
      [] dep.app = "micro"     -> <<"Data", wf>>

Keys(svc, wf) ==
    IF Scatters(svc) THEN {<<"digit", i>> : i \in 0 .. dep.num - 1} ELSE {KeyOf(svc, wf)}

DataOf(svc) ==
    CASE dep.app = "wordcount" -> IF svc[1] = "splitter" THEN WC!split(dep.num)
                                                         ELSE << Share(svc) >>
      [] dep.app = "digits"    -> IF svc[1] = "splitter" THEN DG!array_split(dep.num)
                                                         ELSE << Share(svc) >>
      [] OTHER                 -> << {1} >>

(* What may lie under a key; the mappers of wordcount share one. *)
Stored(key) ==
    CASE dep.app = "wordcount" ->
           IF key = <<"text.txt", 0>> THEN {WC!split(dep.num)}
           ELSE {<< WC!split(dep.num)[i] >> : i \in 1 .. dep.num}
      [] dep.app = "digits" -> {<< DG!array_split(dep.num)[key[2] + 1] >>}
      [] OTHER -> {<< {1} >>}

StoreKept ==
    \A key \in DOMAIN store : key[1] # "lightGBM_model" => store[key] \in Stored(key)

(* The fields of an event of svc, but for the data *)
FieldsShape(svc, wf, fields) ==
    /\ Hands(svc) /\ DataWay = "store" /\ ~Scatters(svc) =>
         "s3_obj_key" \in DOMAIN fields /\ fields.s3_obj_key = KeyOf(svc, wf)
    /\ Scatters(svc) => fields.s3_obj_key_data = dep.num
    /\ dep.app = "finra" /\ svc[1] = "fetchData" =>
         /\ ID(svc) = 0 => fields.body = "marketData"
         /\ ID(svc) = 1 => fields.body = "valid"
    /\ dep.app = "ml" /\ svc[1] = "source" => fields.trainer_num = dep.num
    /\ dep.app = "ml" /\ svc[1] = "pca" => fields.indeces = ML!post_handle(dep.num)
    /\ dep.app = "thpt" /\ svc[1] = "producer" =>
         /\ DataWay = "store"  => "s3_obj_key" \in DOMAIN fields
         /\ DataWay = "inline" => "payload" \in DOMAIN fields
         /\ DataWay = "object" => "route" \in DOMAIN fields

(* The data can be had through the event. *)
Carries(svc, wf, fields) ==
    /\ DataWay = "store"  => Keys(svc, wf) \subseteq DOMAIN store
    /\ DataWay = "inline" => "payload" \in DOMAIN fields /\ fields.payload = DataOf(svc)
    /\ DataWay = "object" =>
         /\ "route" \in DOMAIN fields
         /\ fields.route = [svc |-> svc, epoch |-> heap[svc].epoch, gen |-> heap[svc].gen,
                            data |-> DataOf(svc)]
         /\ heap[svc].visible = TRUE

FieldsFit(svc, wf, fields) ==
    FieldsShape(svc, wf, fields) /\ (Hands(svc) => Carries(svc, wf, fields))

EventFits(e) ==
    /\ e.svc[1] # First /\ e.from \in ServicesOf(Before(e.svc[1]))
    /\ FieldsFit(e.from, e.wf, e.fields)

EventsFit == \A e \in Requests : EventFits(e)

EntryFits(s, p, wf) ==
    \A n \in 1 .. Len(Waiting(s, p, wf)) :
        FieldsFit(Waiting(s, p, wf)[n].from, wf, Waiting(s, p, wf)[n].fields)

WaitingFits ==
    \A s \in App.wait, p \in Processes, wf \in 1 .. started : EntryFits(s, p, wf)

(* What a function has read: data, a trainer its bundle, and in a stage    *)
(* that waits for the parallel services the share of each.                 *)
ReadFits(r) ==
    /\ dep.app = "ml" /\ r.svc[1] = "trainer" => r.read[1] = << Share(r.svc) >>
    /\ Garbage \notin Range(r.read)
    /\ /\ r.svc[1] \in App.wait /\ Before(r.svc[1]) = App.parallel /\ r.read # << >>
       /\ ~(dep.app = "wordcount" /\ dep.protocol = "ES")
       => /\ DOMAIN r.read = DOMAIN r.from /\ dep.app # "micro"
          /\ \A n \in DOMAIN r.read : r.read[n] = << Share(r.from[n]) >>
          /\ \A m, n \in DOMAIN r.from : r.from[m] = r.from[n] => m = n

ReadsFit == \A r \in ran : ReadFits(r)

DataKept == failed = {} /\ StoreKept /\ EventsFit /\ WaitingFits /\ ReadsFit

DataInv == Proper => DataKept

(* All of this is fixed by the deployment. *)
LEMMA DataStatic ==
    ASSUME dep' = dep
    PROVE  /\ DataWay' = DataWay /\ (Proper' <=> Proper)
           /\ \A f : /\ ID(f)' = ID(f) /\ Share(f)' = Share(f) /\ (Hands(f)' <=> Hands(f))
                     /\ DataOf(f)' = DataOf(f)
           /\ \A f, wf : KeyOf(f, wf)' = KeyOf(f, wf) /\ Keys(f, wf)' = Keys(f, wf)
           /\ \A key : Stored(key)' = Stored(key)
           /\ \A f, wf, fields : FieldsShape(f, wf, fields)' <=> FieldsShape(f, wf, fields)
<1>1. App' = App
  BY ShapeKept
<1>2. DataWay' = DataWay
  BY DEF DataWay
<1>3. Proper' <=> Proper
  BY DEF Proper, IDsFit, ProtocolFits, BundlesFit, RowsFit, ObjectsLast
<1>4. \A f : ID(f)' = ID(f)
  BY <1>1 DEF ID
<1>5. \A f : Share(f)' = Share(f)
  BY <1>4 DEF Share
<1>6. \A f : Hands(f)' <=> Hands(f)
  BY <1>4 DEF Hands
<1>7. \A f : DataOf(f)' = DataOf(f)
  BY <1>5 DEF DataOf
<1>8. \A f : Scatters(f)' <=> Scatters(f)
  BY <1>2 DEF Scatters
<1>9. \A f, wf : KeyOf(f, wf)' = KeyOf(f, wf)
  BY <1>4 DEF KeyOf
<1>10. \A f, wf : Keys(f, wf)' = Keys(f, wf)
  BY <1>8, <1>9 DEF Keys
<1>11. \A key : Stored(key)' = Stored(key)
  BY DEF Stored
<1>12. \A f, wf, fields : FieldsShape(f, wf, fields)' <=> FieldsShape(f, wf, fields)
  BY <1>2, <1>4, <1>5, <1>6, <1>8, <1>9 DEF FieldsShape
<1> QED BY <1>2, <1>3, <1>4, <1>5, <1>6, <1>7, <1>9, <1>10, <1>11, <1>12

(* What an event carries can be had as long as nothing is deleted from the *)
(* store and its sender makes no new object.                               *)
LEMMA FieldsKept ==
    ASSUME dep' = dep, DOMAIN store \subseteq DOMAIN store', NEW f, NEW wf, NEW fields,
           DataWay = "object" /\ Hands(f) => heap'[f] = heap[f], FieldsFit(f, wf, fields)
    PROVE  FieldsFit(f, wf, fields)'
<1>1. /\ DataWay' = DataWay /\ (Hands(f)' <=> Hands(f)) /\ DataOf(f)' = DataOf(f)
      /\ Keys(f, wf)' = Keys(f, wf)
      /\ FieldsShape(f, wf, fields)' <=> FieldsShape(f, wf, fields)
  BY DataStatic
<1>2. FieldsShape(f, wf, fields)'
  BY <1>1 DEF FieldsFit
<1>3. ASSUME Hands(f) PROVE Carries(f, wf, fields)'
  <2>1. Carries(f, wf, fields)
    BY <1>3 DEF FieldsFit
  <2>2. DataWay = "object" => heap'[f] = heap[f]
    BY <1>3
  <2> QED BY <1>1, <2>1, <2>2 DEF Carries
<1> QED BY <1>1, <1>2, <1>3 DEF FieldsFit

(* Where the protocol fits, there is a way. *)
LEMMA WayFacts ==
    DataWay \in {"store", "inline", "object"}
BY DEF DataWay

Env(svc, wf) == [protocol |-> dep.protocol, svc |-> svc, id |-> ID(svc),
                 num |-> dep.num, wf |-> wf, pulled |-> TRUE]

(* The data that svc hands over, before its handler returns *)
Made(svc, wf, r) ==
    /\ DataWay = "store"  => Keys(svc, wf) \subseteq DOMAIN r.puts
    /\ DataWay = "inline" => "payload" \in DOMAIN r.fields /\ r.fields.payload = DataOf(svc)
    /\ DataWay = "object" =>
         /\ r.push = TRUE /\ "route" \in DOMAIN r.fields
         /\ r.fields.route = [svc |-> svc, epoch |-> heap[svc].epoch,
                              gen |-> heap[svc].gen + 1, data |-> DataOf(svc)]

PutsFit(r) == \A key \in DOMAIN r.puts : key[1] # "lightGBM_model" => r.puts[key] \in Stored(key)

(* It raised nothing. *)
Fine(r) == r.ok = TRUE

(* What a handler may do that has read the data of its events *)
ResultFits(svc, wf, r) ==
    /\ Fine(r) /\ PutsFit(r)
    /\ \A n \in DOMAIN r.read : r.read[n] # Garbage
    /\ svc[1] # Last => FieldsShape(svc, wf, r.fields) /\ (Hands(svc) => Made(svc, wf, r))

(* svc hands its data over with Send. *)
Sends(svc, wf, read, r) ==
    /\ ~Scatters(svc) /\ DataOf(svc) \in Stored(KeyOf(svc, wf))
    /\ r = Send(DataWay, Env(svc, wf), read, KeyOf(svc, wf), DataOf(svc))

(* Then its event says where they are. *)
LEMMA SendFacts ==
    ASSUME NEW svc, NEW wf, NEW read, NEW r, Sends(svc, wf, read, r)
    PROVE  /\ Fine(r) /\ r.read = read /\ PutsFit(r) /\ Made(svc, wf, r)
           /\ DataWay = "store" =>
                "s3_obj_key" \in DOMAIN r.fields /\ r.fields.s3_obj_key = KeyOf(svc, wf)
<1> USE DEF Sends, Fine
<1>1. Keys(svc, wf) = {KeyOf(svc, wf)}
  BY DEF Keys
<1>2. CASE DataWay = "store"
  <2>1. /\ r.ok = TRUE /\ r.read = read /\ r.puts = Dict(KeyOf(svc, wf), DataOf(svc))
        /\ "s3_obj_key" \in DOMAIN r.fields /\ r.fields.s3_obj_key = KeyOf(svc, wf)
    BY <1>2 DEF Send, Returns
  <2>2. DOMAIN r.puts = {KeyOf(svc, wf)} /\ r.puts[KeyOf(svc, wf)] = DataOf(svc)
    BY <2>1 DEF Dict
  <2> QED BY <1>1, <1>2, <2>1, <2>2 DEF PutsFit, Made
<1>3. CASE DataWay = "inline"
  <2>1. /\ r.ok = TRUE /\ r.read = read /\ DOMAIN r.puts = {}
        /\ "payload" \in DOMAIN r.fields /\ r.fields.payload = DataOf(svc)
    BY <1>3 DEF Send, Returns
  <2> QED BY <1>3, <2>1 DEF PutsFit, Made
<1>4. CASE DataWay = "object"
  <2>1. /\ r.ok = TRUE /\ r.read = read /\ DOMAIN r.puts = {} /\ r.push = TRUE
        /\ "route" \in DOMAIN r.fields /\ r.fields.route = push(Env(svc, wf), DataOf(svc))
    BY <1>4 DEF Send, Returns
  <2>2. push(Env(svc, wf), DataOf(svc)) =
          [svc |-> svc, epoch |-> heap[svc].epoch, gen |-> heap[svc].gen + 1,
           data |-> DataOf(svc)]
    BY DEF push, Env
  <2> QED BY <1>4, <2>1, <2>2 DEF PutsFit, Made
<1> QED BY <1>2, <1>3, <1>4, WayFacts

(* What Take finds *)
TakenFrom(f, wf) == IF DataWay = "store" THEN Stored(KeyOf(f, wf)) ELSE {DataOf(f)}

(* meta carries data of f. *)
Sender(f, wf, meta) ==
    /\ FieldsFit(f, wf, meta.fields) /\ Hands(f) /\ ~Scatters(f)
    /\ KeyOf(f, wf)[1] # "lightGBM_model"

(* Take finds the data of the sender, as long as they can be had. *)
LEMMA TakeFacts ==
    ASSUME StoreKept, NEW f, NEW wf, NEW svc, NEW meta, NEW checked, Sender(f, wf, meta)
    PROVE  Take(DataWay, Env(svc, wf), meta, checked) \in TakenFrom(f, wf)
<1> USE DEF Sender
<1>1. Carries(f, wf, meta.fields) /\ FieldsShape(f, wf, meta.fields)
  BY DEF FieldsFit
<1>2. CASE DataWay = "store"
  <2>1. /\ "s3_obj_key" \in DOMAIN meta.fields
        /\ meta.fields.s3_obj_key = KeyOf(f, wf) /\ KeyOf(f, wf) \in DOMAIN store
    BY <1>1, <1>2 DEF FieldsShape, Carries, Keys
  <2>2. Take(DataWay, Env(svc, wf), meta, checked) = store[KeyOf(f, wf)]
    <3>1. redis_get(meta.fields.s3_obj_key) = store[KeyOf(f, wf)]
      BY <2>1 DEF redis_get
    <3> QED BY <1>2, <2>1, <3>1 DEF Take
  <2> QED BY <1>2, <2>1, <2>2 DEF StoreKept, TakenFrom
<1>3. CASE DataWay = "inline"
  <2>1. "payload" \in DOMAIN meta.fields /\ meta.fields.payload = DataOf(f)
    BY <1>1, <1>3 DEF Carries
  <2>2. Take(DataWay, Env(svc, wf), meta, checked) = DataOf(f)
    BY <1>3, <2>1 DEF Take
  <2> QED BY <1>3, <2>2 DEF TakenFrom
<1>4. CASE DataWay = "object"
  <2>1. PICK o : o = meta.fields.route
    OBVIOUS
  <2>2. /\ "route" \in DOMAIN meta.fields /\ heap[f].visible = TRUE
        /\ o = [svc |-> f, epoch |-> heap[f].epoch, gen |-> heap[f].gen, data |-> DataOf(f)]
    BY <1>1, <1>4, <2>1 DEF Carries
  <2>3. o.svc = f /\ o.epoch = heap[f].epoch /\ o.gen = heap[f].gen /\ o.data = DataOf(f)
    BY <2>2
  <2>4. pull(Env(svc, wf), o) /\ fetch(o) = DataOf(f)
    BY <2>2, <2>3 DEF pull, fetch, Env
  <2>5. Take(DataWay, Env(svc, wf), meta, checked) = DataOf(f)
    BY <1>4, <2>1, <2>2, <2>4 DEF Take
  <2> QED BY <1>4, <2>5 DEF TakenFrom
<1> QED BY <1>2, <1>3, <1>4, WayFacts

-----------------------------------------------------------------------------
(* The functions, one workflow at a time *)

(* The events a function is run with: of the services before it, and of    *)
(* all of them if it waits.                                                *)
MetasFit(svc, wf, metas) ==
    svc[1] # First =>
        /\ 1 \in DOMAIN metas
        /\ \A n \in DOMAIN metas : /\ metas[n].from \in ServicesOf(Before(svc[1]))
                                   /\ FieldsFit(metas[n].from, wf, metas[n].fields)
        /\ svc[1] \in App.wait =>
             \A f \in ServicesOf(Before(svc[1])) : \E n \in DOMAIN metas : metas[n].from = f

(* Its events are of different services. *)
Differ(metas) == \A m, n \in DOMAIN metas : metas[m].from = metas[n].from => m = n

(* r is what the function does with them if its pulls succeed. *)
Answers(svc, wf, metas, r) == r = Result(svc, wf, metas, TRUE)

(* A trainer reads its bundle. *)
BundleFits(svc, read) ==
    dep.app = "ml" /\ svc[1] = "trainer" => read[1] = << Share(svc) >>

(* The results of the parallel services come together. *)
GatherFits(svc, metas, read) ==
    /\ svc[1] \in App.wait /\ Before(svc[1]) = App.parallel /\ read # << >>
    /\ ~(dep.app = "wordcount" /\ dep.protocol = "ES")
    => /\ DOMAIN read = DOMAIN metas /\ dep.app # "micro"
       /\ \A n \in DOMAIN metas : read[n] = << Share(metas[n].from) >>

(* Items are numbered from 1, so that a share is never taken for a missing *)
(* value.                                                                  *)
LEMMA ShareFacts ==
    ASSUME NEW x, 0 \notin x
    PROVE  << x >> # Missing /\ << x >> # Garbage
BY DEF Missing, Garbage

(* Part of a list of shares *)
LEMMA PartFacts ==
    ASSUME NEW n \in Nat \ {0}, NEW S, Len(S) = n, \A i \in 1 .. n : 0 \notin S[i],
           NEW id \in 0 .. n - 1
    PROVE  Part(S, id) = << S[id + 1] >>
<1>1. S # << >>
  OBVIOUS
<1>2. S # << {0} >>
  <2>1. 0 \notin S[1]
    OBVIOUS
  <2> QED BY <2>1
<1>3. S \notin {Garbage, Missing}
  BY <1>1, <1>2 DEF Garbage, Missing
<1> QED BY <1>3 DEF Part

(* The length of a list given by its entries *)
LEMMA LenFacts ==
    ASSUME NEW n \in Nat, NEW T, NEW S \in [1 .. n -> T]
    PROVE  S \in Seq(T) /\ Len(S) = n
OBVIOUS

(* A handler that stores nothing *)
LEMMA ReturnsFacts ==
    ASSUME NEW read, NEW fields, NEW r, r = Returns(read, fields)
    PROVE  Fine(r) /\ r.read = read /\ r.fields = fields /\ PutsFit(r)
<1>1. r.ok = TRUE /\ r.read = read /\ r.fields = fields /\ DOMAIN r.puts = {}
  BY DEF Returns
<1> QED BY <1>1 DEF PutsFit, Fine

(* A handler whose reads do not raise *)
LEMMA ReadingFacts ==
    ASSUME NEW read, NEW result, \A n \in DOMAIN read : read[n] # Missing
    PROVE  Reading(read, result) = result
BY DEF Reading

(* The IDs of the parallel services *)
LEMMA IDFacts ==
    ASSUME dep \in Deployments, Proper
    PROVE  /\ dep.num \in Nat \ {0}
           /\ \A f \in ServicesOf(App.parallel) : ID(f) \in 0 .. dep.num - 1
<1>1. dep.num \in Nat \ {0} /\ dep.ids \in Seq(Nat)
  BY DeploymentsAssumption
<1>2. Range(dep.ids) = 0 .. dep.num - 1
  BY DEF Proper, IDsFit
<1>3. ASSUME NEW f \in ServicesOf(App.parallel) PROVE ID(f) \in 0 .. dep.num - 1
  <2>1. f[1] = App.parallel /\ f[2] \in DOMAIN dep.ids
    BY DEF ServicesOf
  <2>2. ID(f) = dep.ids[f[2]]
    BY <2>1 DEF ID
  <2> QED BY <1>2, <2>1, <2>2 DEF Range
<1> QED BY <1>1, <1>3

(* The parts of the text *)
LEMMA SplitFacts ==
    ASSUME NEW n \in Nat \ {0}
    PROVE  /\ Len(WC!split(n)) = n
           /\ \A i \in 1 .. n : 0 \notin WC!split(n)[i]
<1>1. PICK per : per = (Lines + n - 1) \div n
  OBVIOUS
<1>2. WC!split(n) = [i \in 1 .. n |-> {l \in 1 .. Lines : l > (i - 1) * per /\ l <= i * per}]
  BY <1>1 DEF WC!split
<1>3. WC!split(n) \in [1 .. n -> SUBSET (1 .. Lines)]
  BY <1>2
<1>4. Len(WC!split(n)) = n
  BY <1>3, LenFacts
<1>5. \A i \in 1 .. n : WC!split(n)[i] \subseteq 1 .. Lines
  BY <1>3
<1> QED BY <1>4, <1>5

(* wordcount uses the operators of Transfer. *)
LEMMA WordCountSame ==
    /\ \A a, b : WC!Way(a, b) = Way(a, b) /\ WC!Part(a, b) = Part(a, b)
                 /\ WC!Returns(a, b) = Returns(a, b) /\ WC!Reading(a, b) = Reading(a, b)
    /\ \A a, b, c, d : WC!Take(a, b, c, d) = Take(a, b, c, d)
    /\ \A a, b, c, d, e : WC!Send(a, b, c, d, e) = Send(a, b, c, d, e)
<1>1. \A a, b : WC!Way(a, b) = Way(a, b)
  BY DEF WC!Way, Way
<1>2. \A a, b : WC!Part(a, b) = Part(a, b)
  BY DEF WC!Part, Part, WC!Missing, Missing, WC!Garbage, Garbage
<1>3. \A a, b : WC!Returns(a, b) = Returns(a, b)
  BY DEF WC!Returns, Returns
<1>4. \A a, b : WC!Reading(a, b) = Reading(a, b)
  BY DEF WC!Reading, Reading, WC!Missing, Missing, WC!Raises, Raises, WC!Returns, Returns
<1>5. \A a, b, c, d : WC!Take(a, b, c, d) = Take(a, b, c, d)
  BY DEF WC!Take, Take, WC!redis_get, redis_get, WC!pull, pull, WC!fetch, fetch,
         WC!Missing, Missing, WC!Garbage, Garbage
<1>6. \A a, b, c, d, e : WC!Send(a, b, c, d, e) = Send(a, b, c, d, e)
  BY DEF WC!Send, Send, WC!Returns, Returns, WC!push, push, WC!Raises, Raises,
         WC!Dict, Dict
<1> QED BY <1>1, <1>2, <1>3, <1>4, <1>5, <1>6

(* The functions of wordcount do what the next ones expect. *)
LEMMA WordCountFits ==
    ASSUME dep \in Deployments, Proper, dep.app = "wordcount", StoreKept,
           NEW svc \in Services, NEW wf, NEW metas, MetasFit(svc, wf, metas),
           NEW r, Answers(svc, wf, metas, r)
    PROVE  ResultFits(svc, wf, r) /\ GatherFits(svc, metas, r.read)
<1>1. PICK env, way, S : env = Env(svc, wf) /\ way = DataWay /\ S = WC!split(dep.num)
  OBVIOUS
<1>2. r = WC!handler(svc[1], env, metas) /\ env.num = dep.num /\ env.id = ID(svc)
  BY <1>1 DEF Answers, Result, Handler, Env
<1>3. WC!Way(WC!splitter_dispatcher, env) = way
  <2>1. dep.protocol \in {"ES", "RPC", "RRPC", "DMERGE", "DMERGE_PUSH"}
    BY DEF Proper, ProtocolFits
  <2> QED BY <1>1, <2>1 DEF WC!Way, WC!splitter_dispatcher, Env, DataWay
<1>4. /\ dep.num \in Nat \ {0} /\ Len(S) = dep.num /\ \A i \in 1 .. dep.num : 0 \notin S[i]
      /\ \A f \in ServicesOf("mapper") : ID(f) \in 0 .. dep.num - 1
      /\ App = WC!App /\ First = "splitter" /\ Last = "reducer"
      /\ Before("mapper") = "splitter" /\ Before("reducer") = "mapper"
      /\ App.parallel = "mapper" /\ App.wait = {"reducer"}
  BY <1>1, IDFacts, SplitFacts, WordCountFacts DEF WC!App
<1>5. svc[1] \in {"splitter", "mapper", "reducer"} /\ svc \in ServicesOf(svc[1])
  BY FlowShape, WordCountFacts
<1>6. \A f : ~Scatters(f)
  BY DEF Scatters
<1>7. ASSUME NEW f \in ServicesOf("mapper")
      PROVE  /\ Hands(f) /\ DataOf(f) = << S[ID(f) + 1] >> /\ 0 \notin S[ID(f) + 1]
             /\ KeyOf(f, wf) = <<"/tmp/wc.txt", 0>> /\ Share(f) = S[ID(f) + 1]
             /\ Stored(KeyOf(f, wf)) = {<< S[i] >> : i \in 1 .. dep.num}
             /\ ID(f) + 1 \in 1 .. dep.num
  <2>1. f[1] = "mapper" /\ ID(f) + 1 \in 1 .. dep.num
    BY <1>4 DEF ServicesOf
  <2> QED BY <1>1, <1>4, <2>1 DEF Hands, DataOf, KeyOf, Share, Stored
<1>8. ASSUME NEW f \in ServicesOf("splitter")
      PROVE  /\ Hands(f) /\ DataOf(f) = S /\ KeyOf(f, wf) = <<"text.txt", 0>>
             /\ Stored(KeyOf(f, wf)) = {S} /\ TakenFrom(f, wf) = {S}
  <2>1. f[1] = "splitter"
    BY DEF ServicesOf
  <2> QED BY <1>1, <2>1 DEF Hands, DataOf, KeyOf, Stored, TakenFrom
<1>9. CASE svc[1] = "splitter"
  <2>1. r = Send(way, env, << >>, KeyOf(svc, wf), DataOf(svc))
    BY <1>1, <1>2, <1>3, <1>5, <1>8, <1>9, WordCountSame DEF WC!handler, WC!splitter
  <2>0. Sends(svc, wf, << >>, r)
    BY <1>1, <1>5, <1>6, <1>8, <1>9, <2>1 DEF Sends
  <2>2. /\ Fine(r) /\ r.read = << >> /\ PutsFit(r) /\ Made(svc, wf, r)
        /\ way = "store" =>
             "s3_obj_key" \in DOMAIN r.fields /\ r.fields.s3_obj_key = KeyOf(svc, wf)
    BY <1>1, <2>0, SendFacts
  <2>3. FieldsShape(svc, wf, r.fields)
    BY <1>1, <1>6, <2>2 DEF FieldsShape
  <2>4. \A n \in DOMAIN r.read : r.read[n] # Garbage
    <3>1. DOMAIN r.read = {}
      BY <2>2
    <3> QED BY <3>1
  <2> QED BY <1>4, <1>9, <2>2, <2>3, <2>4 DEF ResultFits, GatherFits
<1>10. CASE svc[1] = "mapper"
  <2>1. PICK f : f = metas[1].from
    OBVIOUS
  <2>2. f \in ServicesOf("splitter") /\ FieldsFit(f, wf, metas[1].fields)
    BY <1>4, <1>10, <2>1 DEF MetasFit
  <2>3. Take(way, env, metas[1], FALSE) = S
    <3>1. Sender(f, wf, metas[1])
      BY <1>6, <1>8, <2>2 DEF Sender
    <3>2. Take(way, env, metas[1], FALSE) \in TakenFrom(f, wf)
      BY <1>1, <3>1, TakeFacts
    <3>3. TakenFrom(f, wf) = {S}
      BY <1>8, <2>2
    <3> QED BY <3>2, <3>3
  <2>4. ID(svc) \in 0 .. dep.num - 1 /\ DataOf(svc) = << S[ID(svc) + 1] >>
    BY <1>4, <1>5, <1>7, <1>10
  <2>5. Part(S, ID(svc)) = DataOf(svc)
    BY <1>4, <2>4, PartFacts
  <2>6. PICK read : read = << DataOf(svc) >>
    OBVIOUS
  <2>7. DataOf(svc) # Missing /\ DataOf(svc) # Garbage
    BY <1>5, <1>7, <1>10, ShareFacts
  <2>8. \A n \in DOMAIN read : read[n] # Missing /\ read[n] # Garbage
    BY <2>6, <2>7
  <2>9. r = Reading(read, Send(way, env, read, <<"/tmp/wc.txt", 0>>, DataOf(svc)))
    BY <1>2, <1>3, <1>10, <2>3, <2>5, <2>6, WordCountSame DEF WC!handler, WC!mapper
  <2>10. r = Send(way, env, read, KeyOf(svc, wf), DataOf(svc))
    BY <1>5, <1>7, <1>10, <2>8, <2>9, ReadingFacts
  <2>11. /\ Fine(r) /\ r.read = read /\ PutsFit(r) /\ Made(svc, wf, r)
         /\ way = "store" =>
              "s3_obj_key" \in DOMAIN r.fields /\ r.fields.s3_obj_key = KeyOf(svc, wf)
    <3>1. Sends(svc, wf, read, r)
      BY <1>1, <1>5, <1>6, <1>7, <1>10, <2>10 DEF Sends
    <3> QED BY <1>1, <3>1, SendFacts
  <2>12. FieldsShape(svc, wf, r.fields)
    BY <1>1, <1>6, <2>11 DEF FieldsShape
  <2> QED BY <1>4, <1>10, <2>8, <2>11, <2>12 DEF ResultFits, GatherFits
<1>11. CASE svc[1] = "reducer"
  <2>1. PICK read : read = [n \in DOMAIN metas |-> Take(way, env, metas[n], FALSE)]
    OBVIOUS
  <2>2. ASSUME NEW n \in DOMAIN metas
        PROVE  /\ read[n] # Missing /\ read[n] # Garbage
               /\ dep.protocol # "ES" => read[n] = << Share(metas[n].from) >>
    <3>1. PICK f : f = metas[n].from
      OBVIOUS
    <3>2. f \in ServicesOf("mapper") /\ FieldsFit(f, wf, metas[n].fields)
      BY <1>4, <1>11, <3>1 DEF MetasFit
    <3>3. read[n] \in TakenFrom(f, wf)
      <4>1. Sender(f, wf, metas[n])
        BY <1>6, <1>7, <3>1, <3>2 DEF Sender
      <4> QED BY <1>1, <2>1, <4>1, TakeFacts
    <3>4. PICK i \in 1 .. dep.num : read[n] = << S[i] >>
      BY <1>7, <3>2, <3>3 DEF TakenFrom
    <3>5. dep.protocol # "ES" => DataWay # "store"
      BY DEF DataWay
    <3> QED BY <1>4, <1>7, <3>1, <3>2, <3>3, <3>4, <3>5, ShareFacts DEF TakenFrom
  <2>3. r = Reading(read, Returns(read, << >>))
    BY <1>2, <1>3, <1>11, <2>1, WordCountSame DEF WC!handler, WC!reducer
  <2>4. r = Returns(read, << >>)
    BY <2>1, <2>2, <2>3, ReadingFacts
  <2>5. Fine(r) /\ r.read = read /\ PutsFit(r)
    BY <2>4, ReturnsFacts
  <2> QED BY <1>4, <1>11, <2>1, <2>2, <2>5 DEF ResultFits, GatherFits
<1> QED BY <1>5, <1>9, <1>10, <1>11

(* The parts of the test data *)
LEMMA ArraySplitFacts ==
    ASSUME NEW n \in Nat \ {0}
    PROVE  /\ Len(DG!array_split(n)) = n
           /\ \A i \in 1 .. n : 0 \notin DG!array_split(n)[i]
           /\ n <= Rows => \A i \in 1 .. n : DG!array_split(n)[i] # {}
<1>1. PICK q, m : q = Rows \div n /\ m = Rows % n
  OBVIOUS
<1>2. q \in Nat /\ m \in Nat
  BY <1>1, SizesAssumption
<1>3. PICK start : start = [i \in 0 .. n |-> i * q + (IF i < m THEN i ELSE m)]
  OBVIOUS
<1>4. \A i \in 0 .. n : i * q \in Nat
  BY <1>2
<1>5. \A i \in 0 .. n : start[i] \in Nat
  BY <1>2, <1>3, <1>4
<1>6. \A i \in 1 .. n : i - 1 \in 0 .. n /\ i \in 0 .. n
  OBVIOUS
<1>7. PICK S : S = [i \in 1 .. n |-> start[i - 1] + 1 .. start[i]]
  OBVIOUS
<1>8. DG!array_split(n) = S
  BY <1>1, <1>3, <1>6, <1>7 DEF DG!array_split
<1>9. \A i \in 1 .. n : S[i] = start[i - 1] + 1 .. start[i]
  BY <1>7
<1>10. \A i \in 1 .. n : 0 \notin S[i] /\ S[i] \in SUBSET Nat
  BY <1>5, <1>6, <1>9
<1>11. S \in [1 .. n -> SUBSET Nat]
  BY <1>7, <1>10
<1>12. Len(S) = n
  BY <1>11, LenFacts
<1>13. ASSUME n <= Rows, NEW i \in 1 .. n PROVE S[i] # {}
  <2>1. q >= 1
    BY <1>1, <1>13, SizesAssumption
  <2>2. i * q = (i - 1) * q + q
    BY <1>2
  <2>3. start[i - 1] < start[i]
    <3>1. PICK a, c : a = (i - 1) * q /\ c = i * q
      OBVIOUS
    <3>2. a \in Nat /\ c = a + q /\ i - 1 \in 0 .. n /\ i \in 0 .. n
      BY <1>4, <1>6, <2>2, <3>1
    <3>3. /\ start[i - 1] = a + (IF i - 1 < m THEN i - 1 ELSE m)
          /\ start[i] = c + (IF i < m THEN i ELSE m)
      BY <1>3, <3>1, <3>2
    <3> QED BY <1>2, <2>1, <3>2, <3>3
  <2>4. start[i] \in start[i - 1] + 1 .. start[i]
    BY <1>5, <1>6, <2>3
  <2> QED BY <1>9, <2>4
<1> QED BY <1>8, <1>10, <1>12, <1>13

(* Digit recognition uses the operators of Transfer. *)
LEMMA DigitsSame ==
    /\ \A a, b : DG!Way(a, b) = Way(a, b) /\ DG!Part(a, b) = Part(a, b)
                 /\ DG!Returns(a, b) = Returns(a, b) /\ DG!Reading(a, b) = Reading(a, b)
    /\ \A a, b, c, d : DG!Take(a, b, c, d) = Take(a, b, c, d)
    /\ \A a, b, c, d, e : DG!Send(a, b, c, d, e) = Send(a, b, c, d, e)
    /\ \A a : DG!redis_get(a) = redis_get(a)
    /\ \A a, b : b # << {} >> => DG!Columns(a, b) = b
<1>1. \A a, b : DG!Way(a, b) = Way(a, b)
  BY DEF DG!Way, Way
<1>2. \A a, b : DG!Part(a, b) = Part(a, b)
  BY DEF DG!Part, Part, DG!Missing, Missing, DG!Garbage, Garbage
<1>3. \A a, b : DG!Returns(a, b) = Returns(a, b)
  BY DEF DG!Returns, Returns
<1>4. \A a, b : DG!Reading(a, b) = Reading(a, b)
  BY DEF DG!Reading, Reading, DG!Missing, Missing, DG!Raises, Raises, DG!Returns, Returns
<1>5. \A a, b, c, d : DG!Take(a, b, c, d) = Take(a, b, c, d)
  BY DEF DG!Take, Take, DG!redis_get, redis_get, DG!pull, pull, DG!fetch, fetch,
         DG!Missing, Missing, DG!Garbage, Garbage
<1>6. \A a, b, c, d, e : DG!Send(a, b, c, d, e) = Send(a, b, c, d, e)
  BY DEF DG!Send, Send, DG!Returns, Returns, DG!push, push, DG!Raises, Raises,
         DG!Dict, Dict
<1>7. \A a : DG!redis_get(a) = redis_get(a)
  BY DEF DG!redis_get, redis_get, DG!Missing, Missing
<1>8. \A a, b : b # << {} >> => DG!Columns(a, b) = b
  BY DEF DG!Columns
<1> QED BY <1>1, <1>2, <1>3, <1>4, <1>5, <1>6, <1>7, <1>8

(* The functions of digit recognition do what the next ones expect. *)
LEMMA DigitsFit ==
    ASSUME dep \in Deployments, Proper, dep.app = "digits", StoreKept,
           NEW svc \in Services, NEW wf, NEW metas, MetasFit(svc, wf, metas),
           NEW r, Answers(svc, wf, metas, r)
    PROVE  ResultFits(svc, wf, r) /\ GatherFits(svc, metas, r.read)
<1>1. PICK env, way, S : env = Env(svc, wf) /\ way = DataWay /\ S = DG!array_split(dep.num)
  OBVIOUS
<1>2. r = DG!handler(svc[1], env, metas) /\ env.num = dep.num /\ env.id = ID(svc)
  BY <1>1 DEF Answers, Result, Handler, Env
<1>3. DG!Way(DG!dispatcher, env) = way
  <2>1. dep.protocol \in {"ES", "RPC", "RRPC", "DMERGE", "DMERGE_PUSH"}
    BY DEF Proper, ProtocolFits
  <2> QED BY <1>1, <2>1 DEF DG!Way, DG!dispatcher, Env, DataWay
<1>4. /\ dep.num \in Nat \ {0} /\ Len(S) = dep.num /\ \A i \in 1 .. dep.num : 0 \notin S[i]
      /\ \A f \in ServicesOf("predict") : ID(f) \in 0 .. dep.num - 1
      /\ App = DG!App /\ First = "splitter" /\ Last = "combine"
      /\ Before("predict") = "splitter" /\ Before("combine") = "predict"
      /\ App.parallel = "predict" /\ App.wait = {"combine"}
  BY <1>1, IDFacts, ArraySplitFacts, DigitsFacts DEF DG!App
<1>5. svc[1] \in {"splitter", "predict", "combine"} /\ svc \in ServicesOf(svc[1])
  BY FlowShape, DigitsFacts
<1>6. ASSUME NEW f \in ServicesOf("predict")
      PROVE  /\ ~Scatters(f) /\ Hands(f) /\ DataOf(f) = << S[ID(f) + 1] >>
             /\ 0 \notin S[ID(f) + 1] /\ KeyOf(f, wf) = <<"y_pred", ID(f)>>
             /\ Share(f) = S[ID(f) + 1] /\ Stored(KeyOf(f, wf)) = {DataOf(f)}
             /\ Stored(<<"digit", ID(f)>>) = {DataOf(f)}
  <2>1. f[1] = "predict" /\ ID(f) + 1 \in 1 .. dep.num
    BY <1>4 DEF ServicesOf
  <2>2. /\ ~Scatters(f) /\ Hands(f) /\ Share(f) = S[ID(f) + 1]
        /\ KeyOf(f, wf) = <<"y_pred", ID(f)>>
    BY <1>1, <2>1 DEF Scatters, Hands, Share, KeyOf
  <2>3. DataOf(f) = << S[ID(f) + 1] >>
    BY <2>1, <2>2 DEF DataOf
  <2>4. /\ Stored(<<"y_pred", ID(f)>>) = {<< S[ID(f) + 1] >>}
        /\ Stored(<<"digit", ID(f)>>) = {<< S[ID(f) + 1] >>}
    BY <1>1 DEF Stored
  <2> QED BY <1>4, <2>1, <2>2, <2>3, <2>4
<1>7. ASSUME NEW f \in ServicesOf("splitter")
      PROVE  /\ Hands(f) /\ DataOf(f) = S /\ (Scatters(f) <=> way = "store")
             /\ Keys(f, wf) = IF way = "store" THEN {<<"digit", i>> : i \in 0 .. dep.num - 1}
                                               ELSE {KeyOf(f, wf)}
  <2>1. f[1] = "splitter"
    BY DEF ServicesOf
  <2> QED BY <1>1, <2>1 DEF Hands, DataOf, Scatters, Keys
<1>8. CASE svc[1] = "splitter" /\ way = "store"
  <2>1. PICK K, puts : /\ K = {<<"digit", i>> : i \in 0 .. dep.num - 1}
                       /\ puts = [k \in K |-> << S[k[2] + 1] >>]
    OBVIOUS
  <2>2. r = [Returns(<< >>, [s3_obj_key_data |-> dep.num]) EXCEPT !.puts = puts]
    BY <1>1, <1>2, <1>3, <1>8, <2>1, DigitsSame DEF DG!handler, DG!splitter
  <2>3. /\ Fine(r) /\ DOMAIN r.read = {} /\ r.puts = puts
        /\ r.fields.s3_obj_key_data = dep.num
    BY <2>2 DEF Returns, Fine
  <2>4. \A k \in K : Stored(k) = {<< S[k[2] + 1] >>}
    BY <1>1 DEF Stored
  <2>5. PutsFit(r)
    BY <2>1, <2>3, <2>4 DEF PutsFit
  <2>6. Scatters(svc) /\ Keys(svc, wf) = K
    BY <1>5, <1>7, <1>8, <2>1
  <2>7. Made(svc, wf, r)
    BY <1>1, <1>8, <2>1, <2>3, <2>6 DEF Made
  <2>8. FieldsShape(svc, wf, r.fields)
    BY <2>3, <2>6 DEF FieldsShape
  <2> QED BY <1>4, <1>8, <2>3, <2>5, <2>7, <2>8 DEF ResultFits, GatherFits
<1>9. CASE svc[1] = "splitter" /\ way # "store"
  <2>1. r = Send(way, env, << >>, <<"digit", 0>>, S)
    BY <1>1, <1>2, <1>3, <1>9, DigitsSame DEF DG!handler, DG!splitter
  <2>2. DataOf(svc) = S /\ ~Scatters(svc)
    BY <1>5, <1>7, <1>9
  <2>3. Fine(r) /\ r.read = << >> /\ PutsFit(r) /\ Made(svc, wf, r)
    <3>1. CASE way = "inline"
      <4>1. r = Returns(<< >>, [payload |-> S])
        BY <2>1, <3>1 DEF Send
      <4>2. Fine(r) /\ r.read = << >> /\ PutsFit(r) /\ r.fields = [payload |-> S]
        BY <4>1, ReturnsFacts
      <4> QED BY <1>1, <2>2, <3>1, <4>2 DEF Made
    <3>2. CASE way = "object"
      <4>1. r = [Returns(<< >>, [route |-> push(env, S)]) EXCEPT !.push = TRUE]
        BY <2>1, <3>2 DEF Send
      <4>2. /\ Fine(r) /\ r.read = << >> /\ DOMAIN r.puts = {} /\ r.push = TRUE
            /\ r.fields = [route |-> push(env, S)]
        BY <4>1 DEF Returns, Fine
      <4>3. push(env, S) = [svc |-> svc, epoch |-> heap[svc].epoch,
                            gen |-> heap[svc].gen + 1, data |-> S]
        BY <1>1 DEF push, Env
      <4> QED BY <1>1, <2>2, <3>2, <4>2, <4>3 DEF Made, PutsFit
    <3> QED BY <1>1, <1>9, <3>1, <3>2, WayFacts
  <2>4. FieldsShape(svc, wf, r.fields)
    BY <1>1, <1>9, <2>2 DEF FieldsShape
  <2>5. DOMAIN r.read = {}
    BY <2>3
  <2> QED BY <1>4, <1>9, <2>3, <2>4, <2>5 DEF ResultFits, GatherFits
<1>10. CASE svc[1] = "predict"
  <2>1. PICK f, mine : f = metas[1].from /\ mine = DataOf(svc)
    OBVIOUS
  <2>2. f \in ServicesOf("splitter") /\ FieldsFit(f, wf, metas[1].fields)
    BY <1>4, <1>10, <2>1 DEF MetasFit
  <2>3. /\ ID(svc) \in 0 .. dep.num - 1 /\ mine = << S[ID(svc) + 1] >>
        /\ mine # Missing /\ mine # Garbage /\ Stored(<<"digit", ID(svc)>>) = {mine}
    BY <1>4, <1>5, <1>6, <1>10, <2>1, ShareFacts
  <2>0. mine # << {} >>
    <3>1. ID(svc) + 1 \in 1 .. dep.num
      BY <1>4, <2>3
    <3>2. S[ID(svc) + 1] # {}
      BY <1>1, <1>4, <3>1, ArraySplitFacts DEF Proper, RowsFit
    <3> QED BY <2>3, <3>2
  <2>4. PICK read : read = << mine >>
    OBVIOUS
  <2>5. \A n \in DOMAIN read : read[n] # Missing /\ read[n] # Garbage
    BY <2>3, <2>4
  <2>6. r = Reading(read, Send(way, env, read, <<"y_pred", ID(svc)>>, mine))
    <3>1. CASE way = "store"
      <4>1. /\ metas[1].fields.s3_obj_key_data = dep.num
            /\ Keys(f, wf) \subseteq DOMAIN store
            /\ <<"digit", ID(svc)>> \in Keys(f, wf)
        BY <1>1, <1>7, <2>2, <2>3, <3>1 DEF FieldsFit, FieldsShape, Carries
      <4>2. redis_get(<<"digit", ID(svc)>>) = mine
        BY <2>3, <4>1 DEF redis_get, StoreKept
      <4>3. ID(svc) < dep.num
        BY <1>4, <2>3
      <4> QED BY <1>2, <1>3, <1>10, <2>4, <3>1, <4>1, <4>2, <4>3, DigitsSame
              DEF DG!handler, DG!predict
    <3>2. CASE way # "store"
      <4>1. Sender(f, wf, metas[1])
        BY <1>7, <2>2, <3>2 DEF Sender, KeyOf
      <4>2. Take(way, env, metas[1], TRUE) \in TakenFrom(f, wf)
        BY <1>1, <4>1, TakeFacts
      <4>3. TakenFrom(f, wf) = {S}
        BY <1>1, <1>7, <2>2, <3>2 DEF TakenFrom
      <4>4. Take(way, env, metas[1], TRUE) = S
        BY <4>2, <4>3
      <4>5. Part(S, ID(svc)) = mine
        BY <1>4, <2>3, PartFacts
      <4>6. DG!Columns(way, mine) = mine
        BY <2>0, DigitsSame
      <4> QED BY <1>2, <1>3, <1>10, <2>4, <3>2, <4>4, <4>5, <4>6, DigitsSame
              DEF DG!handler, DG!predict
    <3> QED BY <3>1, <3>2
  <2>7. Sends(svc, wf, read, r)
    <3>1. r = Send(way, env, read, KeyOf(svc, wf), DataOf(svc))
      BY <1>5, <1>6, <1>10, <2>1, <2>5, <2>6, ReadingFacts
    <3> QED BY <1>1, <1>5, <1>6, <1>10, <3>1 DEF Sends
  <2>8. /\ Fine(r) /\ r.read = read /\ PutsFit(r) /\ Made(svc, wf, r)
        /\ way = "store" =>
             "s3_obj_key" \in DOMAIN r.fields /\ r.fields.s3_obj_key = KeyOf(svc, wf)
    BY <1>1, <2>7, SendFacts
  <2>9. FieldsShape(svc, wf, r.fields)
    BY <1>1, <1>5, <1>6, <1>10, <2>8 DEF FieldsShape
  <2> QED BY <1>4, <1>10, <2>5, <2>8, <2>9 DEF ResultFits, GatherFits
<1>11. CASE svc[1] = "combine"
  <2>1. PICK read : read = [n \in DOMAIN metas |-> Take(way, env, metas[n], TRUE)]
    OBVIOUS
  <2>2. ASSUME NEW n \in DOMAIN metas
        PROVE  /\ read[n] # Missing /\ read[n] # Garbage
               /\ read[n] = << Share(metas[n].from) >>
    <3>1. PICK f : f = metas[n].from
      OBVIOUS
    <3>2. f \in ServicesOf("predict") /\ FieldsFit(f, wf, metas[n].fields)
      BY <1>4, <1>11, <3>1 DEF MetasFit
    <3>3. Sender(f, wf, metas[n])
      <4>1. Hands(f) /\ ~Scatters(f) /\ KeyOf(f, wf) = <<"y_pred", ID(f)>>
        BY <1>6, <3>2
      <4>2. KeyOf(f, wf)[1] # "lightGBM_model"
        BY <4>1
      <4> QED BY <3>2, <4>1, <4>2 DEF Sender
    <3>4. read[n] \in TakenFrom(f, wf)
      BY <1>1, <2>1, <3>3, TakeFacts
    <3>5. TakenFrom(f, wf) = {<< Share(f) >>} /\ 0 \notin Share(f)
      BY <1>6, <3>2 DEF TakenFrom
    <3> QED BY <3>1, <3>4, <3>5, ShareFacts
  <2>3. r = Reading(read, Returns(read, << >>))
    BY <1>2, <1>3, <1>11, <2>1, DigitsSame DEF DG!handler, DG!combine
  <2>4. r = Returns(read, << >>)
    BY <2>1, <2>2, <2>3, ReadingFacts
  <2>5. Fine(r) /\ r.read = read /\ PutsFit(r)
    BY <2>4, ReturnsFacts
  <2> QED BY <1>4, <1>11, <2>1, <2>2, <2>5 DEF ResultFits, GatherFits
<1> QED BY <1>5, <1>8, <1>9, <1>10, <1>11

(* The bundles of hyper-parameters *)
LEMMA BundleFacts ==
    ASSUME NEW n \in Nat \ {0}, ML!HyperParams % n = 0, NEW q, q = ML!HyperParams \div n
    PROVE  /\ q \in Nat \ {0} /\ q * n = ML!HyperParams
           /\ ML!post_handle(n) = [b \in 1 .. n |-> (b - 1) * q + 1 .. b * q]
<1>1. n \in {1, 2, 4, 8, 16}
  BY DEF ML!HyperParams
<1>2. /\ q \in 1 .. 16 /\ q * n = 16
      /\ \A c \in 1 .. 16 : c * n >= 16 /\ (c - 1) * n < 16 => c = q
      /\ q * n >= 16 /\ (q - 1) * n < 16 /\ 16 \div q = n
  BY <1>1 DEF ML!HyperParams
<1>3. PICK size : size = CHOOSE c \in 1 .. 16 : c * n >= 16 /\ (c - 1) * n < 16
  OBVIOUS
<1>4. size = q
  BY <1>2, <1>3
<1>5. ML!post_handle(n) = [b \in 1 .. 16 \div size |-> (b - 1) * size + 1 .. b * size]
  BY <1>3 DEF ML!post_handle, ML!HyperParams
<1>6. ML!post_handle(n) = [b \in 1 .. n |-> (b - 1) * q + 1 .. b * q]
  BY <1>2, <1>4, <1>5
<1>7. q \in Nat \ {0} /\ q * n = ML!HyperParams
  BY <1>2 DEF ML!HyperParams
<1> QED BY <1>6, <1>7

(* The bundles are shares. *)
LEMMA BundleShares ==
    ASSUME NEW n \in Nat \ {0}, ML!HyperParams % n = 0
    PROVE  /\ Len(ML!post_handle(n)) = n
           /\ \A i \in 1 .. n : 0 \notin ML!post_handle(n)[i]
<1>1. PICK q, S : q = ML!HyperParams \div n /\ S = ML!post_handle(n)
  OBVIOUS
<1>2. q \in Nat \ {0} /\ S = [b \in 1 .. n |-> (b - 1) * q + 1 .. b * q]
  BY <1>1, BundleFacts
<1>3. \A i \in 1 .. n : (i - 1) * q \in Nat /\ i * q \in Nat
  <2>1. \A i \in 1 .. n : i - 1 \in Nat /\ i \in Nat
    OBVIOUS
  <2> QED BY <1>2, <2>1
<1>4. \A i \in 1 .. n : S[i] = (i - 1) * q + 1 .. i * q
  BY <1>2
<1>5. ASSUME NEW i \in 1 .. n PROVE 0 \notin S[i] /\ S[i] \in SUBSET Nat
  <2>1. PICK a, c : a = (i - 1) * q /\ c = i * q
    OBVIOUS
  <2>2. a \in Nat /\ c \in Nat /\ S[i] = a + 1 .. c
    BY <1>3, <1>4, <2>1
  <2> QED BY <2>2
<1>6. S \in [1 .. n -> SUBSET Nat]
  BY <1>2, <1>5
<1>7. Len(S) = n
  BY <1>6, LenFacts
<1> QED BY <1>1, <1>5, <1>7

(* The ML pipeline uses the operators of Transfer. *)
LEMMA MLPipelineSame ==
    /\ \A a, b : ML!Way(a, b) = Way(a, b) /\ ML!Part(a, b) = Part(a, b)
                 /\ ML!Returns(a, b) = Returns(a, b) /\ ML!Reading(a, b) = Reading(a, b)
                 /\ ML!Update(a, b) = Update(a, b)
    /\ \A a, b, c, d : ML!Take(a, b, c, d) = Take(a, b, c, d)
    /\ \A a, b, c, d, e : ML!Send(a, b, c, d, e) = Send(a, b, c, d, e)
    /\ ML!Garbage = Garbage /\ ML!Raises = Raises
<1>1. \A a, b : ML!Way(a, b) = Way(a, b)
  BY DEF ML!Way, Way
<1>2. \A a, b : ML!Part(a, b) = Part(a, b)
  BY DEF ML!Part, Part, ML!Missing, Missing, ML!Garbage, Garbage
<1>3. \A a, b : ML!Returns(a, b) = Returns(a, b)
  BY DEF ML!Returns, Returns
<1>4. \A a, b : ML!Reading(a, b) = Reading(a, b)
  BY DEF ML!Reading, Reading, ML!Missing, Missing, ML!Raises, Raises, ML!Returns, Returns
<1>5. \A a, b, c, d : ML!Take(a, b, c, d) = Take(a, b, c, d)
  BY DEF ML!Take, Take, ML!redis_get, redis_get, ML!pull, pull, ML!fetch, fetch,
         ML!Missing, Missing, ML!Garbage, Garbage
<1>6. \A a, b, c, d, e : ML!Send(a, b, c, d, e) = Send(a, b, c, d, e)
  BY DEF ML!Send, Send, ML!Returns, Returns, ML!push, push, ML!Raises, Raises,
         ML!Dict, Dict
<1>7. \A a, b : ML!Update(a, b) = Update(a, b)
  BY DEF ML!Update, Update
<1>8. ML!Garbage = Garbage /\ ML!Raises = Raises
  BY DEF ML!Garbage, Garbage, ML!Raises, Raises, ML!Returns, Returns
<1> QED BY <1>1, <1>2, <1>3, <1>4, <1>5, <1>6, <1>7, <1>8

(* An event with one field more *)
More(sent, fields) == [sent EXCEPT !.fields = Update(@, fields)]

(* It still carries the data. *)
LEMMA MoreFacts ==
    ASSUME NEW svc, NEW wf, NEW sent, NEW r, NEW fields, Sends(svc, wf, << >>, sent),
           r = More(sent, fields),
           {"s3_obj_key", "payload", "route"} \cap DOMAIN fields = {}
    PROVE  /\ Fine(r) /\ r.read = << >> /\ PutsFit(r) /\ Made(svc, wf, r)
           /\ DataWay = "store" =>
                "s3_obj_key" \in DOMAIN r.fields /\ r.fields.s3_obj_key = KeyOf(svc, wf)
           /\ \A f \in DOMAIN fields : f \in DOMAIN r.fields /\ r.fields[f] = fields[f]
<1>1. /\ Fine(sent) /\ sent.read = << >> /\ PutsFit(sent) /\ Made(svc, wf, sent)
      /\ DataWay = "store" =>
           "s3_obj_key" \in DOMAIN sent.fields /\ sent.fields.s3_obj_key = KeyOf(svc, wf)
  BY SendFacts
<1>2. /\ r.ok = sent.ok /\ r.read = sent.read /\ r.puts = sent.puts /\ r.push = sent.push
      /\ r.fields = Update(sent.fields, fields)
  <2>1. CASE DataWay = "store"
    BY <2>1 DEF Sends, Send, Returns, More
  <2>2. CASE DataWay = "inline"
    BY <2>2 DEF Sends, Send, Returns, More
  <2>3. CASE DataWay = "object"
    BY <2>3 DEF Sends, Send, Returns, More
  <2> QED BY <2>1, <2>2, <2>3, WayFacts
<1>3. /\ \A f \in DOMAIN fields : f \in DOMAIN r.fields /\ r.fields[f] = fields[f]
      /\ \A f \in DOMAIN sent.fields \ DOMAIN fields :
           f \in DOMAIN r.fields /\ r.fields[f] = sent.fields[f]
  BY <1>2 DEF Update
<1>4. /\ "s3_obj_key" \in DOMAIN sent.fields =>
           "s3_obj_key" \in DOMAIN r.fields /\ r.fields.s3_obj_key = sent.fields.s3_obj_key
      /\ "payload" \in DOMAIN sent.fields =>
           "payload" \in DOMAIN r.fields /\ r.fields.payload = sent.fields.payload
      /\ "route" \in DOMAIN sent.fields =>
           "route" \in DOMAIN r.fields /\ r.fields.route = sent.fields.route
  BY <1>3
<1>5. Fine(r)
  BY <1>1, <1>2, Zenon DEF Fine
<1>6. PutsFit(r)
  BY <1>1, <1>2 DEF PutsFit
<1>7. Made(svc, wf, r)
  BY <1>1, <1>2, <1>4 DEF Made
<1> QED BY <1>1, <1>2, <1>3, <1>4, <1>5, <1>6, <1>7

(* The functions of the ML pipeline do what the next ones expect. *)
LEMMA MLPipelineFits ==
    ASSUME dep \in Deployments, Proper, dep.app = "ml", StoreKept,
           NEW svc \in Services, NEW wf, NEW metas, MetasFit(svc, wf, metas),
           NEW r, Answers(svc, wf, metas, r)
    PROVE  ResultFits(svc, wf, r) /\ GatherFits(svc, metas, r.read) /\ BundleFits(svc, r.read)
<1>1. PICK env, way, S : env = Env(svc, wf) /\ way = DataWay /\ S = ML!post_handle(dep.num)
  OBVIOUS
<1>2. r = ML!handler(svc[1], env, metas) /\ env.num = dep.num /\ env.id = ID(svc)
  BY <1>1 DEF Answers, Result, Handler, Env
<1>3. ML!Way(ML!pca_dispatcher, env) = way /\ ML!Way(ML!trainer_dispatcher, env) = way
  <2>1. dep.protocol \in {"ES", "RPC", "DMERGE", "DMERGE_PUSH"}
    BY DEF Proper, ProtocolFits
  <2> QED BY <1>1, <2>1 DEF ML!Way, ML!pca_dispatcher, ML!trainer_dispatcher, Env, DataWay
<1>4. /\ dep.num \in Nat \ {0} /\ Len(S) = dep.num /\ \A i \in 1 .. dep.num : 0 \notin S[i]
      /\ \A f \in ServicesOf("trainer") : ID(f) \in 0 .. dep.num - 1
      /\ App = ML!App /\ First = "source" /\ Last = "sink"
      /\ Before("pca") = "source" /\ Before("trainer") = "pca"
      /\ Before("combinemodels") = "trainer" /\ Before("sink") = "combinemodels"
      /\ App.parallel = "trainer" /\ App.wait = {"combinemodels"}
  <2>1. dep.num \in Nat \ {0} /\ ML!HyperParams % dep.num = 0
    BY IDFacts DEF Proper, BundlesFit
  <2> QED BY <1>1, <2>1, IDFacts, BundleShares, MLPipelineFacts DEF ML!App
<1>5. /\ svc[1] \in {"source", "pca", "trainer", "combinemodels", "sink"}
      /\ svc \in ServicesOf(svc[1])
  BY FlowShape, MLPipelineFacts
<1>6. \A f : ~Scatters(f) /\ (Hands(f) <=> f[1] = "pca") /\ DataOf(f) = << {1} >>
  BY DEF Scatters, Hands, DataOf
<1>7. /\ \A f : KeyOf(f, wf) = <<"ML_Pipeline/train_pca_transform_2.txt", 0>>
      /\ \A key : Stored(key) = {<< {1} >>}
      /\ \A f : TakenFrom(f, wf) = {<< {1} >>}
  BY <1>6 DEF KeyOf, Stored, TakenFrom
<1>8. ASSUME NEW f \in ServicesOf("trainer")
      PROVE  Share(f) = S[ID(f) + 1] /\ 0 \notin Share(f)
  <2>1. ID(f) + 1 \in 1 .. dep.num
    BY <1>4
  <2> QED BY <1>1, <1>4, <2>1 DEF Share
<1>9. CASE svc[1] = "source"
  <2>1. r = Returns(<< >>, [trainer_num |-> dep.num])
    BY <1>2, <1>9, MLPipelineSame DEF ML!handler, ML!source
  <2>2. /\ Fine(r) /\ r.read = << >> /\ PutsFit(r)
        /\ r.fields = [trainer_num |-> dep.num]
    BY <2>1, ReturnsFacts
  <2>3. DOMAIN r.read = {} /\ r.fields.trainer_num = dep.num
    BY <2>2
  <2>4. FieldsShape(svc, wf, r.fields)
    BY <1>6, <1>9, <2>3 DEF FieldsShape
  <2> QED BY <1>4, <1>6, <1>9, <2>2, <2>3, <2>4 DEF ResultFits, GatherFits, BundleFits
<1>10. CASE svc[1] = "pca"
  <2>1. PICK f, sent, more : /\ f = metas[1].from
                             /\ sent = Send(way, env, << >>, KeyOf(svc, wf), DataOf(svc))
                             /\ more = [indeces |-> S]
    OBVIOUS
  <2>2. f \in ServicesOf("source") /\ FieldsFit(f, wf, metas[1].fields)
    BY <1>4, <1>10, <2>1 DEF MetasFit
  <2>3. metas[1].fields.trainer_num = dep.num
    BY <2>2 DEF FieldsFit, FieldsShape, ServicesOf
  <2>4. Sends(svc, wf, << >>, sent)
    BY <1>1, <1>6, <1>7, <2>1 DEF Sends
  <2>5. sent.ok
    <3>1. Fine(sent)
      BY <2>4, SendFacts
    <3> QED BY <3>1 DEF Fine
  <2>6. r = More(sent, more)
    <3>1. r = IF sent.ok THEN [sent EXCEPT !.fields = Update(@, more)] ELSE Raises
      BY <1>1, <1>2, <1>3, <1>6, <1>7, <1>10, <2>1, <2>3, MLPipelineSame
         DEF ML!handler, ML!pca
    <3> QED BY <2>5, <3>1 DEF More
  <2>7. DOMAIN more = {"indeces"} /\ more.indeces = S
    BY <2>1
  <2>8. /\ Fine(r) /\ r.read = << >> /\ PutsFit(r) /\ Made(svc, wf, r)
        /\ way = "store" =>
             "s3_obj_key" \in DOMAIN r.fields /\ r.fields.s3_obj_key = KeyOf(svc, wf)
        /\ \A x \in DOMAIN more : x \in DOMAIN r.fields /\ r.fields[x] = more[x]
    BY <1>1, <2>4, <2>6, <2>7, MoreFacts
  <2>9. DOMAIN r.read = {} /\ r.fields.indeces = S
    BY <2>7, <2>8
  <2>10. FieldsShape(svc, wf, r.fields)
    BY <1>1, <1>6, <1>10, <2>8, <2>9 DEF FieldsShape
  <2> QED BY <1>4, <1>10, <2>8, <2>9, <2>10 DEF ResultFits, GatherFits, BundleFits
<1>11. CASE svc[1] = "trainer"
  <2>1. PICK f, mine, data : f = metas[1].from /\ mine = << Share(svc) >> /\ data = << {1} >>
    OBVIOUS
  <2>2. f \in ServicesOf("pca") /\ FieldsFit(f, wf, metas[1].fields)
    BY <1>4, <1>11, <2>1 DEF MetasFit
  <2>3. metas[1].fields.indeces = S
    BY <1>1, <2>2 DEF FieldsFit, FieldsShape, ServicesOf
  <2>4. Take(way, env, metas[1], FALSE) = data
    <3>1. f[1] = "pca" /\ KeyOf(f, wf)[1] # "lightGBM_model"
      BY <1>7, <2>2 DEF ServicesOf
    <3>2. Sender(f, wf, metas[1])
      BY <1>6, <2>2, <3>1 DEF Sender
    <3>3. Take(way, env, metas[1], FALSE) \in TakenFrom(f, wf)
      BY <1>1, <3>2, TakeFacts
    <3>4. TakenFrom(f, wf) = {data}
      BY <1>7, <2>1
    <3> QED BY <3>3, <3>4
  <2>5. Part(S, ID(svc)) = mine /\ mine[1] = Share(svc)
    <3>1. ID(svc) \in 0 .. dep.num - 1 /\ Share(svc) = S[ID(svc) + 1]
      BY <1>4, <1>5, <1>8, <1>11
    <3> QED BY <1>4, <2>1, <3>1, PartFacts
  <2>6. mine # Missing /\ mine # Garbage /\ data # Missing /\ data # Garbage
    <3>1. 0 \notin {1} /\ 0 \notin Share(svc)
      BY <1>5, <1>8, <1>11
    <3> QED BY <2>1, <3>1, ShareFacts
  <2>7. PICK read, puts : read = << mine, data >> /\ puts = ML!train_tree(ID(svc) + 1, Share(svc))
    OBVIOUS
  <2>8. r = Reading(read, [Returns(read, << >>) EXCEPT !.puts = puts])
    BY <1>2, <1>3, <1>11, <2>3, <2>4, <2>5, <2>6, <2>7, MLPipelineSame
       DEF ML!handler, ML!trainer
  <2>9. \A n \in DOMAIN read : read[n] # Missing
    BY <2>6, <2>7
  <2>10. r = [Returns(read, << >>) EXCEPT !.puts = puts]
    BY <2>8, <2>9, ReadingFacts
  <2>11. Fine(r) /\ r.read = read /\ r.puts = puts
    BY <2>10 DEF Fine, Returns
  <2>12. \A key \in DOMAIN puts : key[1] = "lightGBM_model"
    BY <2>7 DEF ML!train_tree, ML!Dict
  <2>13. PutsFit(r)
    BY <2>11, <2>12 DEF PutsFit
  <2>14. \A n \in DOMAIN r.read : r.read[n] # Garbage
    BY <2>6, <2>7, <2>11
  <2>15. FieldsShape(svc, wf, r.fields)
    BY <1>6, <1>11 DEF FieldsShape
  <2>16. r.read[1] = << Share(svc) >>
    BY <2>1, <2>7, <2>11
  <2> QED BY <1>4, <1>6, <1>11, <2>16, <2>11, <2>13, <2>14, <2>15 DEF ResultFits, GatherFits, BundleFits
<1>12. CASE svc[1] = "combinemodels"
  <2>1. r = Returns(<< >>, << >>)
    BY <1>2, <1>12, MLPipelineSame DEF ML!handler, ML!combinemodels
  <2>2. Fine(r) /\ r.read = << >> /\ PutsFit(r)
    BY <2>1, ReturnsFacts
  <2>3. DOMAIN r.read = {}
    BY <2>2
  <2>4. FieldsShape(svc, wf, r.fields)
    BY <1>6, <1>12 DEF FieldsShape
  <2> QED BY <1>4, <1>6, <1>12, <2>2, <2>3, <2>4 DEF ResultFits, GatherFits, BundleFits
<1>13. CASE svc[1] = "sink"
  <2>1. r = Returns(<< >>, << >>)
    BY <1>2, <1>13, MLPipelineSame DEF ML!handler, ML!sink
  <2>2. Fine(r) /\ r.read = << >> /\ PutsFit(r)
    BY <2>1, ReturnsFacts
  <2>3. DOMAIN r.read = {}
    BY <2>2
  <2> QED BY <1>4, <1>13, <2>2, <2>3 DEF ResultFits, GatherFits, BundleFits
<1> QED BY <1>5, <1>9, <1>10, <1>11, <1>12, <1>13

(* Finra uses the operators of Transfer. *)
LEMMA FinraSame ==
    /\ \A a, b : FI!Way(a, b) = Way(a, b) /\ FI!Returns(a, b) = Returns(a, b)
                 /\ FI!Reading(a, b) = Reading(a, b) /\ FI!Update(a, b) = Update(a, b)
    /\ \A a, b, c, d : FI!Take(a, b, c, d) = Take(a, b, c, d)
    /\ \A a, b, c, d, e : FI!Send(a, b, c, d, e) = Send(a, b, c, d, e)
    /\ FI!Raises = Raises
<1>1. \A a, b : FI!Way(a, b) = Way(a, b)
  BY DEF FI!Way, Way
<1>2. \A a, b : FI!Returns(a, b) = Returns(a, b)
  BY DEF FI!Returns, Returns
<1>3. \A a, b : FI!Reading(a, b) = Reading(a, b)
  BY DEF FI!Reading, Reading, FI!Missing, Missing, FI!Raises, Raises, FI!Returns, Returns
<1>4. \A a, b, c, d : FI!Take(a, b, c, d) = Take(a, b, c, d)
  BY DEF FI!Take, Take, FI!redis_get, redis_get, FI!pull, pull, FI!fetch, fetch,
         FI!Missing, Missing, FI!Garbage, Garbage
<1>5. \A a, b, c, d, e : FI!Send(a, b, c, d, e) = Send(a, b, c, d, e)
  BY DEF FI!Send, Send, FI!Returns, Returns, FI!push, push, FI!Raises, Raises,
         FI!Dict, Dict
<1>6. \A a, b : FI!Update(a, b) = Update(a, b)
  BY DEF FI!Update, Update
<1>7. FI!Raises = Raises
  BY DEF FI!Raises, Raises, FI!Returns, Returns
<1> QED BY <1>1, <1>2, <1>3, <1>4, <1>5, <1>6, <1>7

(* The functions of finra do what the next ones expect. *)
LEMMA FinraFits ==
    ASSUME dep \in Deployments, Proper, dep.app = "finra", StoreKept,
           NEW svc \in Services, NEW wf, NEW metas, MetasFit(svc, wf, metas),
           NEW r, Answers(svc, wf, metas, r)
    PROVE  ResultFits(svc, wf, r) /\ GatherFits(svc, metas, r.read)
<1>1. PICK env, way : env = Env(svc, wf) /\ way = DataWay
  OBVIOUS
<1>2. r = FI!handler(svc[1], env, metas) /\ env.id = ID(svc)
  BY <1>1 DEF Answers, Result, Handler, Env
<1>3. FI!Way(FI!public_data_dispatcher, env) = way /\ FI!Way(FI!handle_public, env) = way
  <2>1. dep.protocol \in {"ES", "RPC", "DMERGE", "DMERGE_PUSH"}
    BY DEF Proper, ProtocolFits
  <2> QED BY <1>1, <2>1 DEF FI!Way, FI!public_data_dispatcher, FI!handle_public, Env, DataWay
<1>4. /\ App = FI!App /\ First = "source" /\ Last = "sink"
      /\ Before("fetchData") = "source" /\ Before("runAuditRule") = "fetchData"
      /\ Before("sink") = "runAuditRule"
      /\ App.parallel = "fetchData" /\ App.wait = {"runAuditRule", "sink"}
  BY FinraFacts DEF FI!App
<1>5. /\ svc[1] \in {"source", "fetchData", "runAuditRule", "sink"}
      /\ svc \in ServicesOf(svc[1])
  BY FlowShape, FinraFacts
<1>6. /\ \A f \in ServicesOf("fetchData") : ID(f) \in {0, 1}
      /\ \E f \in ServicesOf("fetchData") : ID(f) = 0
      /\ \E f \in ServicesOf("fetchData") : ID(f) = 1
  <2>1. Len(dep.ids) = 2 /\ dep.num = 2 /\ Range(dep.ids) = 0 .. 1
    <3>1. Len(dep.ids) = IF dep.app = "finra" THEN 2 ELSE dep.num
      BY DeploymentsAssumption
    <3>2. Len(dep.ids) = 2 /\ dep.num = 2
      BY <3>1 DEF Proper, IDsFit
    <3> QED BY <3>2 DEF Proper, IDsFit
  <2>2. \A f \in ServicesOf("fetchData") : ID(f) \in 0 .. 1
    BY <1>4, <2>1, IDFacts
  <2>3. \A k \in DOMAIN dep.ids : /\ <<"fetchData", k>> \in ServicesOf("fetchData")
                                  /\ ID(<<"fetchData", k>>) = dep.ids[k]
    BY <1>4 DEF ServicesOf, ID
  <2>4. 0 \in Range(dep.ids) /\ 1 \in Range(dep.ids)
    BY <2>1
  <2>5. (\E k \in DOMAIN dep.ids : dep.ids[k] = 0) /\ (\E k \in DOMAIN dep.ids : dep.ids[k] = 1)
    BY <2>4 DEF Range
  <2>6. PICK j \in DOMAIN dep.ids : dep.ids[j] = 0
    BY <2>5
  <2>7. PICK k \in DOMAIN dep.ids : dep.ids[k] = 1
    BY <2>5
  <2>8. /\ \E f \in ServicesOf("fetchData") : ID(f) = 0
        /\ \E f \in ServicesOf("fetchData") : ID(f) = 1
    BY <2>3, <2>6, <2>7
  <2> QED BY <2>2, <2>8
<1>7. \A f : /\ ~Scatters(f) /\ (Hands(f) <=> f[1] = "fetchData" /\ ID(f) = 0)
             /\ DataOf(f) = << {1} >> /\ Share(f) = {ID(f) + 1}
  BY DEF Scatters, Hands, DataOf, Share
<1>8. /\ \A f : KeyOf(f, wf) = <<"whole_data", 0>>
      /\ \A key : Stored(key) = {<< {1} >>}
      /\ \A f : TakenFrom(f, wf) = {<< {1} >>}
  BY <1>7 DEF KeyOf, Stored, TakenFrom
<1>9. CASE svc[1] \in {"source", "sink"}
  <2>1. r = Returns(<< >>, << >>)
    BY <1>2, <1>9, FinraSame DEF FI!handler, FI!source, FI!sink
  <2>2. Fine(r) /\ r.read = << >> /\ PutsFit(r)
    BY <2>1, ReturnsFacts
  <2>3. DOMAIN r.read = {}
    BY <2>2
  <2>4. FieldsShape(svc, wf, r.fields)
    BY <1>7, <1>9 DEF FieldsShape
  <2> QED BY <1>4, <1>7, <1>9, <2>2, <2>3, <2>4 DEF ResultFits, GatherFits
<1>10. CASE svc[1] = "fetchData" /\ ID(svc) = 0
  <2>1. PICK sent, more : /\ sent = Send(way, env, << >>, KeyOf(svc, wf), DataOf(svc))
                          /\ more = [body |-> "marketData"]
    OBVIOUS
  <2>2. Sends(svc, wf, << >>, sent)
    BY <1>1, <1>7, <1>8, <2>1 DEF Sends
  <2>3. sent.ok
    <3>1. Fine(sent)
      BY <2>2, SendFacts
    <3> QED BY <3>1 DEF Fine
  <2>4. r = More(sent, more)
    <3>1. r = IF sent.ok THEN [sent EXCEPT !.fields = Update(@, more)] ELSE Raises
      <4>1. r = FI!fetch_market_data(env)
        BY <1>2, <1>10 DEF FI!handler, FI!fetchData
      <4>2. sent = FI!Send(FI!Way(FI!public_data_dispatcher, env), env, << >>,
                           <<"whole_data", 0>>, << {1} >>)
        BY <1>3, <1>7, <1>8, <2>1, FinraSame
      <4> QED BY <2>1, <4>1, <4>2, FinraSame DEF FI!fetch_market_data
    <3> QED BY <2>3, <3>1 DEF More
  <2>5. DOMAIN more = {"body"} /\ more.body = "marketData"
    BY <2>1
  <2>6. /\ Fine(r) /\ r.read = << >> /\ PutsFit(r) /\ Made(svc, wf, r)
        /\ way = "store" =>
             "s3_obj_key" \in DOMAIN r.fields /\ r.fields.s3_obj_key = KeyOf(svc, wf)
        /\ \A x \in DOMAIN more : x \in DOMAIN r.fields /\ r.fields[x] = more[x]
    <3>1. {"s3_obj_key", "payload", "route"} \cap DOMAIN more = {}
      BY <2>5
    <3> QED BY <1>1, <2>2, <2>4, <3>1, MoreFacts
  <2>7. DOMAIN r.read = {} /\ r.fields.body = "marketData"
    BY <2>5, <2>6
  <2>8. FieldsShape(svc, wf, r.fields)
    BY <1>1, <1>7, <1>10, <2>6, <2>7 DEF FieldsShape
  <2> QED BY <1>4, <1>10, <2>6, <2>7, <2>8 DEF ResultFits, GatherFits
<1>11. CASE svc[1] = "fetchData" /\ ID(svc) = 1
  <2>1. r = Returns(<< >>, [body |-> "valid"])
    BY <1>2, <1>11, FinraSame DEF FI!handler, FI!fetchData
  <2>2. Fine(r) /\ r.read = << >> /\ PutsFit(r) /\ r.fields = [body |-> "valid"]
    BY <2>1, ReturnsFacts
  <2>3. DOMAIN r.read = {} /\ r.fields.body = "valid"
    BY <2>2
  <2>4. FieldsShape(svc, wf, r.fields)
    BY <1>7, <1>11, <2>3 DEF FieldsShape
  <2> QED BY <1>4, <1>7, <1>11, <2>2, <2>3, <2>4 DEF ResultFits, GatherFits
<1>12. CASE svc[1] = "runAuditRule"
  <2>1. PICK read, bodies :
          /\ read = [n \in DOMAIN metas |->
                       IF metas[n].fields.body = "marketData"
                       THEN Take(way, env, metas[n], TRUE) ELSE << {2} >>]
          /\ bodies = {metas[n].fields.body : n \in DOMAIN metas}
    OBVIOUS
  <2>2. ASSUME NEW n \in DOMAIN metas
        PROVE  /\ metas[n].from \in ServicesOf("fetchData")
               /\ ID(metas[n].from) = 0 => /\ metas[n].fields.body = "marketData"
                                           /\ read[n] = << {1} >>
               /\ ID(metas[n].from) = 1 => /\ metas[n].fields.body = "valid"
                                           /\ read[n] = << {2} >>
    <3>1. PICK f : f = metas[n].from
      OBVIOUS
    <3>2. f \in ServicesOf("fetchData") /\ FieldsFit(f, wf, metas[n].fields)
      BY <1>4, <1>12, <3>1 DEF MetasFit
    <3>3. f[1] = "fetchData"
      BY <3>2 DEF ServicesOf
    <3>4. /\ ID(f) = 0 => metas[n].fields.body = "marketData"
          /\ ID(f) = 1 => metas[n].fields.body = "valid"
      BY <3>2, <3>3 DEF FieldsFit, FieldsShape
    <3>5. ASSUME ID(f) = 0 PROVE read[n] = << {1} >>
      <4>1. KeyOf(f, wf)[1] # "lightGBM_model"
        BY <1>8
      <4>2. Sender(f, wf, metas[n])
        BY <1>7, <3>2, <3>3, <3>5, <4>1 DEF Sender
      <4>3. Take(way, env, metas[n], TRUE) \in TakenFrom(f, wf)
        BY <1>1, <4>2, TakeFacts
      <4>4. Take(way, env, metas[n], TRUE) = << {1} >>
        BY <1>8, <4>3
      <4> QED BY <2>1, <3>4, <3>5, <4>4
    <3>6. ASSUME ID(f) = 1 PROVE read[n] = << {2} >>
      BY <2>1, <3>4, <3>6
    <3> QED BY <3>1, <3>2, <3>4, <3>5, <3>6
  <2>3. bodies = {"marketData", "valid"}
    <3>1. \A n \in DOMAIN metas : metas[n].fields.body \in {"marketData", "valid"}
      BY <1>6, <2>2
    <3>2. (\E n \in DOMAIN metas : ID(metas[n].from) = 0)
          /\ (\E n \in DOMAIN metas : ID(metas[n].from) = 1)
      <4>1. \A f \in ServicesOf("fetchData") : \E n \in DOMAIN metas : metas[n].from = f
        BY <1>4, <1>12 DEF MetasFit
      <4> QED BY <1>6, <4>1
    <3>3. "marketData" \in bodies /\ "valid" \in bodies
      BY <2>1, <2>2, <3>2
    <3> QED BY <2>1, <3>1, <3>3
  <2>4. ASSUME NEW n \in DOMAIN metas
        PROVE  /\ read[n] # Missing /\ read[n] # Garbage
               /\ read[n] = << Share(metas[n].from) >>
    <3>1. CASE ID(metas[n].from) = 0
      <4>1. read[n] = << {1} >> /\ Share(metas[n].from) = {1} /\ 0 \notin {1}
        BY <1>7, <2>2, <3>1
      <4> QED BY <4>1, ShareFacts
    <3>2. CASE ID(metas[n].from) = 1
      <4>1. read[n] = << {2} >> /\ Share(metas[n].from) = {2} /\ 0 \notin {2}
        BY <1>7, <2>2, <3>2
      <4> QED BY <4>1, ShareFacts
    <3> QED BY <1>6, <2>2, <3>1, <3>2
  <2>5. r = Reading(read, Returns(read, << >>))
    BY <1>2, <1>3, <1>12, <2>1, <2>3, FinraSame DEF FI!handler, FI!runAuditRule
  <2>6. r = Returns(read, << >>)
    BY <2>1, <2>4, <2>5, ReadingFacts
  <2>7. Fine(r) /\ r.read = read /\ PutsFit(r)
    BY <2>6, ReturnsFacts
  <2>8. FieldsShape(svc, wf, r.fields)
    BY <1>7, <1>12 DEF FieldsShape
  <2> QED BY <1>4, <1>7, <1>12, <2>1, <2>4, <2>7, <2>8 DEF ResultFits, GatherFits
<1> QED BY <1>5, <1>6, <1>9, <1>10, <1>11, <1>12

(* The micro-benchmark uses the operators of Transfer. *)
LEMMA MicroSame ==
    /\ \A a, b : MI!Way(a, b) = Way(a, b) /\ MI!Returns(a, b) = Returns(a, b)
                 /\ MI!Reading(a, b) = Reading(a, b)
    /\ \A a, b, c, d : MI!Take(a, b, c, d) = Take(a, b, c, d)
    /\ \A a, b, c, d, e : MI!Send(a, b, c, d, e) = Send(a, b, c, d, e)
<1>1. \A a, b : MI!Way(a, b) = Way(a, b)
  BY DEF MI!Way, Way
<1>2. \A a, b : MI!Returns(a, b) = Returns(a, b)
  BY DEF MI!Returns, Returns
<1>3. \A a, b : MI!Reading(a, b) = Reading(a, b)
  BY DEF MI!Reading, Reading, MI!Missing, Missing, MI!Raises, Raises, MI!Returns, Returns
<1>4. \A a, b, c, d : MI!Take(a, b, c, d) = Take(a, b, c, d)
  BY DEF MI!Take, Take, MI!redis_get, redis_get, MI!pull, pull, MI!fetch, fetch,
         MI!Missing, Missing, MI!Garbage, Garbage
<1>5. \A a, b, c, d, e : MI!Send(a, b, c, d, e) = Send(a, b, c, d, e)
  BY DEF MI!Send, Send, MI!Returns, Returns, MI!push, push, MI!Raises, Raises,
         MI!Dict, Dict
<1> QED BY <1>1, <1>2, <1>3, <1>4, <1>5

(* The functions of the micro-benchmark do what the next ones expect. *)
LEMMA MicroFits ==
    ASSUME dep \in Deployments, Proper, dep.app = "micro", StoreKept,
           NEW svc \in Services, NEW wf, NEW metas, MetasFit(svc, wf, metas),
           NEW r, Answers(svc, wf, metas, r)
    PROVE  ResultFits(svc, wf, r) /\ GatherFits(svc, metas, r.read)
<1>1. PICK env, way : env = Env(svc, wf) /\ way = DataWay
  OBVIOUS
<1>2. r = MI!handler(svc[1], env, metas) /\ env.wf = wf
  BY <1>1 DEF Answers, Result, Handler, Env
<1>3. MI!Way(MI!dispatcher, env) = way
  <2>1. dep.protocol \in {"ES", "RPC", "DMERGE", "DMERGE_PUSH"}
    BY DEF Proper, ProtocolFits
  <2> QED BY <1>1, <2>1 DEF MI!Way, MI!dispatcher, Env, DataWay
<1>4. /\ App = MI!App /\ First = "splitter" /\ Last = "sink"
      /\ Before("producer") = "splitter" /\ Before("consumer") = "producer"
      /\ App.parallel = "consumer" /\ App.wait = {"sink"}
  BY MicroFacts DEF MI!App
<1>5. svc[1] \in {"splitter", "producer", "consumer", "sink"}
  BY FlowShape, MicroFacts
<1>6. \A f : /\ ~Scatters(f) /\ (Hands(f) <=> f[1] = "producer") /\ DataOf(f) = << {1} >>
  BY DEF Scatters, Hands, DataOf
<1>7. /\ \A f : KeyOf(f, wf) = <<"Data", wf>>
      /\ \A key : Stored(key) = {<< {1} >>}
      /\ \A f : TakenFrom(f, wf) = {<< {1} >>}
  BY <1>6 DEF KeyOf, Stored, TakenFrom
<1>8. CASE svc[1] \in {"splitter", "sink"}
  <2>1. r = Returns(<< >>, << >>)
    BY <1>2, <1>8, MicroSame DEF MI!handler, MI!splitter, MI!sink
  <2>2. Fine(r) /\ r.read = << >> /\ PutsFit(r)
    BY <2>1, ReturnsFacts
  <2>3. DOMAIN r.read = {}
    BY <2>2
  <2>4. FieldsShape(svc, wf, r.fields)
    BY <1>6, <1>8 DEF FieldsShape
  <2> QED BY <1>6, <1>8, <2>2, <2>3, <2>4 DEF ResultFits, GatherFits
<1>9. CASE svc[1] = "producer"
  <2>1. r = Send(way, env, << >>, KeyOf(svc, wf), DataOf(svc))
    BY <1>2, <1>3, <1>6, <1>7, <1>9, MicroSame DEF MI!handler, MI!producer
  <2>2. Sends(svc, wf, << >>, r)
    BY <1>1, <1>6, <1>7, <2>1 DEF Sends
  <2>3. /\ Fine(r) /\ r.read = << >> /\ PutsFit(r) /\ Made(svc, wf, r)
        /\ way = "store" =>
             "s3_obj_key" \in DOMAIN r.fields /\ r.fields.s3_obj_key = KeyOf(svc, wf)
    BY <1>1, <2>2, SendFacts
  <2>4. DOMAIN r.read = {}
    BY <2>3
  <2>5. FieldsShape(svc, wf, r.fields)
    BY <1>1, <1>6, <1>9, <2>3 DEF FieldsShape
  <2> QED BY <1>4, <1>9, <2>3, <2>4, <2>5 DEF ResultFits, GatherFits
<1>10. CASE svc[1] = "consumer"
  <2>1. PICK f, read : f = metas[1].from /\ read = << << {1} >> >>
    OBVIOUS
  <2>2. f \in ServicesOf("producer") /\ FieldsFit(f, wf, metas[1].fields)
    BY <1>4, <1>10, <2>1 DEF MetasFit
  <2>3. Take(way, env, metas[1], TRUE) = << {1} >>
    <3>1. f[1] = "producer" /\ KeyOf(f, wf)[1] # "lightGBM_model"
      BY <1>7, <2>2 DEF ServicesOf
    <3>2. Sender(f, wf, metas[1])
      BY <1>6, <2>2, <3>1 DEF Sender
    <3>3. Take(way, env, metas[1], TRUE) \in TakenFrom(f, wf)
      BY <1>1, <3>2, TakeFacts
    <3> QED BY <1>7, <3>3
  <2>4. \A n \in DOMAIN read : read[n] # Missing /\ read[n] # Garbage
    <3>1. 0 \notin {1}
      OBVIOUS
    <3>2. << {1} >> # Missing /\ << {1} >> # Garbage
      BY <3>1, ShareFacts
    <3> QED BY <2>1, <3>2
  <2>5. r = Reading(read, Returns(read, << >>))
    BY <1>2, <1>3, <1>10, <2>1, <2>3, MicroSame DEF MI!handler, MI!consumer
  <2>6. r = Returns(read, << >>)
    BY <2>4, <2>5, ReadingFacts
  <2>7. Fine(r) /\ r.read = read /\ PutsFit(r)
    BY <2>6, ReturnsFacts
  <2>8. FieldsShape(svc, wf, r.fields)
    BY <1>6, <1>10 DEF FieldsShape
  <2> QED BY <1>4, <1>6, <1>10, <2>4, <2>7, <2>8 DEF ResultFits, GatherFits
<1> QED BY <1>5, <1>8, <1>9, <1>10

(* The throughput test uses the operators of Transfer. *)
LEMMA ThroughputSame ==
    /\ \A a, b : TH!Way(a, b) = Way(a, b) /\ TH!Returns(a, b) = Returns(a, b)
    /\ \A a, b, c, d, e : TH!Send(a, b, c, d, e) = Send(a, b, c, d, e)
<1>1. \A a, b : TH!Way(a, b) = Way(a, b)
  BY DEF TH!Way, Way
<1>2. \A a, b : TH!Returns(a, b) = Returns(a, b)
  BY DEF TH!Returns, Returns
<1>3. \A a, b, c, d, e : TH!Send(a, b, c, d, e) = Send(a, b, c, d, e)
  BY DEF TH!Send, Send, TH!Returns, Returns, TH!push, push, TH!Raises, Raises,
         TH!Dict, Dict
<1> QED BY <1>1, <1>2, <1>3

(* The functions of the throughput test do what the next ones expect. *)
LEMMA ThroughputFits ==
    ASSUME dep \in Deployments, Proper, dep.app = "thpt",
           NEW svc \in Services, NEW wf, NEW metas, MetasFit(svc, wf, metas),
           NEW r, Answers(svc, wf, metas, r)
    PROVE  ResultFits(svc, wf, r) /\ GatherFits(svc, metas, r.read)
<1>1. PICK env, way : env = Env(svc, wf) /\ way = DataWay
  OBVIOUS
<1>2. r = TH!handler(svc[1], env, metas)
  BY <1>1 DEF Answers, Result, Handler, Env
<1>3. TH!Way(TH!producer_dispatcher, env) = way
  <2>1. dep.protocol \in {"ES", "RPC", "DMERGE", "DMERGE_PUSH", "MITOSIS", "ESRDMA"}
    BY DEF Proper, ProtocolFits
  <2> QED BY <1>1, <2>1 DEF TH!Way, TH!producer_dispatcher, Env, DataWay
<1>4. /\ App = TH!App /\ First = "splitter" /\ Last = "consumer"
      /\ Before("consumer") = "producer" /\ App.wait = {}
  BY ThroughputFacts DEF TH!App
<1>5. svc[1] \in {"splitter", "producer", "consumer"}
  BY FlowShape, ThroughputFacts
<1>6. \A f : ~Scatters(f) /\ ~Hands(f)
  BY DEF Scatters, Hands
<1>7. GatherFits(svc, metas, r.read)
  BY <1>4 DEF GatherFits
<1>8. CASE svc[1] = "splitter"
  <2>1. r = Returns(<< >>, << >>)
    BY <1>2, <1>8, ThroughputSame DEF TH!handler, TH!splitter
  <2>2. Fine(r) /\ r.read = << >> /\ PutsFit(r)
    BY <2>1, ReturnsFacts
  <2>3. DOMAIN r.read = {}
    BY <2>2
  <2>4. FieldsShape(svc, wf, r.fields)
    BY <1>6, <1>8 DEF FieldsShape
  <2> QED BY <1>6, <1>7, <2>2, <2>3, <2>4 DEF ResultFits
<1>9. CASE svc[1] = "producer"
  <2>1. PICK key, data : key = <<"obj.txt", 0>> /\ data = << {1} >>
    OBVIOUS
  <2>2. r = Send(way, env, << >>, key, data)
    BY <1>2, <1>3, <1>9, <2>1, ThroughputSame DEF TH!handler, TH!producer
  <2>3. /\ Fine(r) /\ DOMAIN r.read = {} /\ (DOMAIN r.puts = {} \/ r.puts = Dict(key, data))
        /\ way = "store"  => "s3_obj_key" \in DOMAIN r.fields
        /\ way = "inline" => "payload" \in DOMAIN r.fields
        /\ way = "object" => "route" \in DOMAIN r.fields
    <3>1. CASE way = "store"
      BY <2>2, <3>1 DEF Send, Returns, Fine
    <3>2. CASE way = "inline"
      BY <2>2, <3>2 DEF Send, Returns, Fine
    <3>3. CASE way = "object"
      BY <2>2, <3>3 DEF Send, Returns, Fine
    <3> QED BY <1>1, <3>1, <3>2, <3>3, WayFacts
  <2>4. Stored(key) = {data}
    BY <2>1 DEF Stored
  <2>5. PutsFit(r)
    BY <2>3, <2>4 DEF PutsFit, Dict
  <2>6. FieldsShape(svc, wf, r.fields)
    BY <1>1, <1>6, <1>9, <2>3 DEF FieldsShape
  <2> QED BY <1>6, <1>7, <2>3, <2>5, <2>6 DEF ResultFits
<1>10. CASE svc[1] = "consumer"
  <2>1. PICK f : f = metas[1].from
    OBVIOUS
  <2>2. f \in ServicesOf("producer") /\ FieldsFit(f, wf, metas[1].fields)
    BY <1>4, <1>10, <2>1 DEF MetasFit
  <2>3. f[1] = "producer"
    BY <2>2 DEF ServicesOf
  <2>4. /\ way = "store"  => "s3_obj_key" \in DOMAIN metas[1].fields
        /\ way = "inline" => "payload" \in DOMAIN metas[1].fields
        /\ way = "object" => "route" \in DOMAIN metas[1].fields
    BY <1>1, <2>2, <2>3 DEF FieldsFit, FieldsShape
  <2>5. way \in {"store", "inline", "object"}
    BY <1>1, WayFacts
  <2>6. r = Returns(<< >>, << >>)
    BY <1>2, <1>3, <1>10, <2>4, <2>5, ThroughputSame DEF TH!handler, TH!consumer
  <2>7. Fine(r) /\ r.read = << >> /\ PutsFit(r)
    BY <2>6, ReturnsFacts
  <2>8. DOMAIN r.read = {}
    BY <2>7
  <2> QED BY <1>4, <1>7, <1>10, <2>7, <2>8 DEF ResultFits
<1> QED BY <1>5, <1>8, <1>9, <1>10

(* In every workflow a function that finds the data in its events returns  *)
(* an event in which the next one finds them.                              *)
LEMMA HandlerFits ==
    ASSUME dep \in Deployments, Proper, StoreKept,
           NEW svc \in Services, NEW wf, NEW metas, MetasFit(svc, wf, metas),
           NEW r, Answers(svc, wf, metas, r)
    PROVE  ResultFits(svc, wf, r) /\ GatherFits(svc, metas, r.read) /\ BundleFits(svc, r.read)
<1>1. dep.app \in {"wordcount", "finra", "ml", "digits", "micro", "thpt"}
  BY DeploymentsAssumption
<1>2. ResultFits(svc, wf, r) /\ GatherFits(svc, metas, r.read)
  BY <1>1, WordCountFits, FinraFits, MLPipelineFits, DigitsFit, MicroFits, ThroughputFits
<1>3. BundleFits(svc, r.read)
  <2>1. CASE dep.app = "ml"
    BY <2>1, MLPipelineFits
  <2>2. CASE dep.app # "ml"
    BY <2>2 DEF BundleFits
  <2> QED BY <2>1, <2>2
<1> QED BY <1>2, <1>3

-----------------------------------------------------------------------------
(* Objects last: of one chain of workflows only one is under way *)

(* A function that ran: so did all functions of the stage before. *)
LEMMA DidBefore ==
    ASSUME RunsKept, NEW svc, NEW w, Did(svc, w), svc[1] # First
    PROVE  \A f \in ServicesOf(Before(svc[1])) : Did(f, w)
<1>1. PICK r \in ran : r.svc = svc /\ r.wf = w
  BY DEF Did
<1>2. RunKept(r)
  BY DEF RunsKept
<1> QED BY <1>1, <1>2 DEF RunKept

(* Stage s has run for w, completely. *)
AllDid(s, w) == \A f \in ServicesOf(s) : Did(f, w)

(* So have the stages before it. *)
LEMMA AllBefore ==
    ASSUME dep \in Deployments, RunsKept, NEW s, NEW w, AllDid(s, w), s # First
    PROVE  AllDid(Before(s), w)
<1>1. \E f \in ServicesOf(s) : TRUE
  <2>1. Len(dep.ids) >= 1 /\ dep.ids \in Seq(Nat)
    <3>1. Len(dep.ids) = IF dep.app = "finra" THEN 2 ELSE dep.num
      BY DeploymentsAssumption
    <3>2. dep.num \in Nat \ {0} /\ dep.ids \in Seq(Nat)
      BY DeploymentsAssumption
    <3> QED BY <3>1, <3>2
  <2>2. 1 \in DOMAIN dep.ids
    BY <2>1
  <2>3. <<s, 1>> \in ServicesOf(s)
    BY <2>2 DEF ServicesOf
  <2> QED BY <2>3
<1>2. PICK f \in ServicesOf(s) : TRUE
  BY <1>1
<1>3. Did(f, w) /\ f[1] = s
  BY DEF AllDid, ServicesOf
<1> QED BY <1>3, DidBefore DEF AllDid

(* When the last function has run for a workflow, all have. *)
LEMMA AllRan ==
    ASSUME dep \in Deployments, App.wait # {}, RunsKept, NEW w, Did(<<Last, 1>>, w)
    PROVE  \A svc \in Services : Did(svc, w)
<1>1. AllDid(Last, w)
  <2>1. ServicesOf(Last) = {<<Last, 1>>}
    BY ShapeFacts DEF ServicesOf
  <2> QED BY <2>1 DEF AllDid
<1>2. \A s : AllDid(s, w) /\ s # First => AllDid(Before(s), w)
  BY AllBefore
<1>3. \A s \in Stages : AllDid(s, w)
  <2>1. CASE dep.app = "wordcount"
    BY <1>1, <1>2, <2>1, WordCountFacts
  <2>2. CASE dep.app = "finra"
    BY <1>1, <1>2, <2>2, FinraFacts
  <2>3. CASE dep.app = "ml"
    BY <1>1, <1>2, <2>3, MLPipelineFacts
  <2>4. CASE dep.app = "digits"
    BY <1>1, <1>2, <2>4, DigitsFacts
  <2>5. CASE dep.app = "micro"
    BY <1>1, <1>2, <2>5, MicroFacts
  <2> QED BY <2>1, <2>2, <2>3, <2>4, <2>5, AppCases
<1> QED BY <1>3, FlowShape DEF AllDid

(* Without duplicates nothing is left of a workflow that has ended. *)
LEMMA NothingStale ==
    ASSUME LoadInv, App.wait # {}, dep.dups = 0, NEW w \in ended
    PROVE  /\ \A e \in inflight : e.wf # w
           /\ \A s \in App.wait, p \in Processes : Waiting(s, p, w) = << >>
<1>1. /\ dep \in Deployments /\ BarrierInv /\ EndedKept /\ RunsKept /\ dups = 0
      /\ ended \subseteq 1 .. started
  BY DEF LoadInv, TypeInv, BarrierInv, CountsTyped, ServicesTyped
<1>2. \A svc \in Services : Did(svc, w)
  BY <1>1, AllRan DEF EndedKept
<1>3. ASSUME NEW e \in inflight, e.wf = w PROVE FALSE
  <2>1. EventKept(e)
    BY <1>1 DEF BarrierInv, EventsKept
  <2>2. e.svc \in Services /\ e.svc[1] # First /\ e.svc[1] \in App.broker
    BY <1>2, <1>3, <2>1 DEF EventKept
  <2>3. PICK f : f = e.svc
    OBVIOUS
  <2>4. BrokerRuns(f, w) /\ Did(f, w)
    BY <1>1, <1>2, <2>2, <2>3 DEF BarrierInv, BrokerKept
  <2>5. /\ IsFiniteSet({r \in ran : r.svc = f /\ r.wf = w})
        /\ Runs(f, w) \in Nat /\ Runs(f, w) <= 0
    BY <1>1, <1>3, <2>3, <2>4, RunsType DEF BrokerRuns
  <2>6. {r \in ran : r.svc = f /\ r.wf = w} = {}
    BY <2>5, FS_EmptySet DEF Runs
  <2> QED BY <2>4, <2>6 DEF Did
<1>4. ASSUME NEW s \in App.wait, NEW p \in Processes PROVE Waiting(s, p, w) = << >>
  <2>1. EntryKept(s, p, w)
    BY <1>1 DEF BarrierInv, WaitingKept
  <2>2. <<s, 1>> \in Services
    BY <1>1, ShapeFacts DEF Services, ServicesOf
  <2> QED BY <1>2, <2>1, <2>2 DEF EntryKept
<1> QED BY <1>3, <1>4

(* An event of f for workflow w has not been dealt with. *)
Pending(f, w) ==
    \/ \E g \in inflight : g.from = f /\ g.wf = w
    \/ \E s \in App.wait, p \in Processes : \E n \in 1 .. Len(Waiting(s, p, w)) :
         Waiting(s, p, w)[n].from = f

(* Its function has run; and it is of a workflow under way, if there are   *)
(* no duplicates.                                                          *)
LEMMA PendingFacts ==
    ASSUME LoadInv, App.wait # {}, NEW f, NEW w \in 1 .. started, Pending(f, w)
    PROVE  /\ Did(f, w) /\ f[1] # Last /\ (dep.dups = 0 => w \notin ended)
<1>1. dep \in Deployments /\ BarrierInv
  BY DEF LoadInv, TypeInv
<1>2. \A s \in Stages \ {First} : \A g \in ServicesOf(Before(s)) : g[1] # Last
  BY <1>1, ShapeFacts DEF ServicesOf
<1>3. ASSUME dep.dups = 0, w \in ended PROVE FALSE
  <2>1. /\ \A e \in inflight : e.wf # w
        /\ \A s \in App.wait, p \in Processes : Waiting(s, p, w) = << >>
    BY <1>3, NothingStale
  <2>2. Len(<< >>) = 0
    OBVIOUS
  <2>3. \A s \in App.wait, p \in Processes : 1 .. Len(Waiting(s, p, w)) = {}
    BY <2>1, <2>2
  <2> QED BY <2>1, <2>3 DEF Pending
<1>4. CASE \E g \in inflight : g.from = f /\ g.wf = w
  <2>1. PICK g \in inflight : g.from = f /\ g.wf = w
    BY <1>4
  <2>2. EventKept(g)
    BY <1>1 DEF BarrierInv, EventsKept
  <2>3. g.svc[1] \in Stages \ {First} /\ f \in ServicesOf(Before(g.svc[1])) /\ Did(f, w)
    BY <1>1, <2>1, <2>2, FlowShape DEF EventKept
  <2> QED BY <1>2, <1>3, <2>3
<1>5. CASE \E s \in App.wait, p \in Processes : \E n \in 1 .. Len(Waiting(s, p, w)) :
             Waiting(s, p, w)[n].from = f
  <2>1. PICK s \in App.wait, p \in Processes : \E n \in 1 .. Len(Waiting(s, p, w)) :
          Waiting(s, p, w)[n].from = f
    BY <1>5
  <2>2. EntryKept(s, p, w)
    BY <1>1 DEF BarrierInv, WaitingKept
  <2>3. f \in ServicesOf(Before(s)) /\ Did(f, w)
    BY <2>1, <2>2 DEF EntryKept
  <2>4. s \in Stages \ {First}
    BY <1>1, ShapeFacts
  <2> QED BY <1>2, <1>3, <2>3, <2>4
<1> QED BY <1>4, <1>5 DEF Pending

(* One chain of workflows: two that are under way are the same, and a ping *)
(* comes after all have ended.                                             *)
LEMMA OneChain ==
    ASSUME LoadInv, dep.pings = 1, dep.dups = 0
    PROVE  /\ \A w, v \in 1 .. started : w \in ended \/ v \in ended \/ w = v
           /\ pings # {} => \A w \in 1 .. started : w \in ended
<1>1. PICK c, p, q : Slots(c, p, q)
  BY DEF LoadInv, SlotsExist
<1>2. Chains = 1
  BY DEF LoadInv, TypeInv, CountsTyped, Chains
<1>3. /\ c \in [1 .. started -> (1 .. 1) \X (0 .. dep.loop)] /\ p \in [pings -> 1 .. 1]
      /\ dep.loop \in Nat
  BY <1>1, <1>2, DeploymentsAssumption DEF Slots, SlotType, LoadInv, TypeInv
<1>4. /\ \A w \in 1 .. started : c[w][1] = 1 /\ c[w][2] \in Int
      /\ \A x \in pings : p[x] = 1
  BY <1>3
<1>5. ASSUME NEW w \in 1 .. started, NEW v \in 1 .. started, w # v
      PROVE  w \in ended \/ v \in ended
  <2>1. c[w][2] # c[v][2] /\ (c[w][2] < c[v][2] => v \in ended)
        /\ (c[v][2] < c[w][2] => w \in ended)
    BY <1>1, <1>4, <1>5 DEF Slots, SlotFree
  <2> QED BY <1>4, <2>1
<1>6. ASSUME NEW x \in pings, NEW w \in 1 .. started PROVE w \in ended
  BY <1>1, <1>4 DEF Slots, SlotNext
<1> QED BY <1>5, <1>6

(* A function that runs has no event that is still needed. *)
LEMMA Alone ==
    ASSUME LoadInv, App.wait # {}, dep.pings = 1, dep.dups = 0
    PROVE  /\ \A e \in inflight, w \in 1 .. started : ~Pending(e.svc, w)
           /\ pings # {} => \A f, w : w \in 1 .. started => ~Pending(f, w)
<1>1. dep \in Deployments /\ BarrierInv
  BY DEF LoadInv, TypeInv
<1>2. ASSUME NEW e \in inflight, NEW w \in 1 .. started, Pending(e.svc, w) PROVE FALSE
  <2>1. EventKept(e)
    BY <1>1 DEF BarrierInv, EventsKept
  <2>2. Did(e.svc, w) /\ e.svc[1] # Last /\ w \notin ended
    BY <1>2, PendingFacts
  <2>3. e.wf \in 1 .. started /\ e.svc[1] # First /\ ~Did(e.svc, e.wf)
    BY <1>1, <2>1, <2>2, ShapeFacts DEF EventKept
  <2>4. e.wf \notin ended
    BY NothingStale
  <2>5. e.wf = w
    BY <2>2, <2>3, <2>4, OneChain
  <2> QED BY <2>2, <2>3, <2>5
<1>3. ASSUME pings # {}, NEW f, NEW w \in 1 .. started, Pending(f, w) PROVE FALSE
  BY <1>3, PendingFacts, OneChain
<1> QED BY <1>2, <1>3

(* Where objects are handed over, there is one chain. *)
LEMMA ObjectFacts ==
    ASSUME dep \in Deployments, Proper, DataWay = "object", App.wait # {}
    PROVE  dep.pings = 1 /\ dep.dups = 0 /\ dep.resident = TRUE
<1>1. dep.app \in {"wordcount", "finra", "ml", "digits", "micro"}
  BY AppCases
<1>2. dep.protocol \in {"ES", "RPC", "RRPC", "DMERGE", "DMERGE_PUSH"}
  BY <1>1 DEF Proper, ProtocolFits
<1>3. dep.protocol \in {"DMERGE", "DMERGE_PUSH"}
  BY <1>2 DEF DataWay
<1>4. dep.pings = 1 /\ dep.dups = 0 /\ dep.resident
  BY <1>3, Zenon DEF Proper, ObjectsLast
<1>5. dep.resident \in BOOLEAN
  BY DeploymentsAssumption
<1> QED BY <1>4, <1>5

-----------------------------------------------------------------------------
(* What was handed over stays there until it is read *)

(* Nothing is deleted from the store, and no object that is still needed   *)
(* is replaced.                                                            *)
DataStays ==
    /\ dep' = dep /\ DOMAIN store \subseteq DOMAIN store'
    /\ App.wait # {} /\ DataWay = "object" =>
         \A f \in Services, v \in 1 .. started : Pending(f, v) => heap'[f] = heap[f]

(* The functions of the throughput test hand nothing over. *)
LEMMA HandsFacts ==
    ASSUME dep \in Deployments, App.wait = {}
    PROVE  \A f : ~Hands(f)
BY SyncFacts DEF Hands

(* Then the data of a function can still be had. *)
LEMMA StaysFacts ==
    ASSUME dep \in Deployments, DataStays, NEW f \in Services, NEW v \in 1 .. started,
           App.wait # {} => Pending(f, v), NEW fields, FieldsFit(f, v, fields)
    PROVE  FieldsFit(f, v, fields)'
<1>1. DataWay = "object" /\ Hands(f) => heap'[f] = heap[f]
  BY HandsFacts DEF DataStays
<1> QED BY <1>1, FieldsKept DEF DataStays

(* So can what an event carries. *)
LEMMA EventStays ==
    ASSUME LoadInv, DataStays, NEW g \in inflight, EventFits(g)
    PROVE  EventFits(g)'
<1>1. dep \in Deployments /\ EventTyped(g) /\ dep' = dep
  BY DEF LoadInv, TypeInv, EventsTyped, DataStays
<1>2. PICK f, v, fields : f = g.from /\ v = g.wf /\ fields = g.fields
  OBVIOUS
<1>3. f \in Services /\ v \in 1 .. started /\ FieldsFit(f, v, fields)
  BY <1>1, <1>2 DEF EventTyped, EventFits
<1>4. Pending(f, v)
  BY <1>2 DEF Pending
<1>5. FieldsFit(f, v, fields)'
  BY <1>1, <1>3, <1>4, StaysFacts
<1>6. First' = First /\ \A s : Before(s)' = Before(s) /\ ServicesOf(s)' = ServicesOf(s)
  BY <1>1, ShapeKept
<1> QED BY <1>2, <1>5, <1>6 DEF EventFits

(* So can what an event carries that waits. *)
LEMMA EntryStays ==
    ASSUME LoadInv, DataStays, WaitingFits,
           NEW s \in App.wait, NEW p \in Processes, NEW w \in 1 .. started,
           NEW q, q = Waiting(s, p, w), NEW n \in 1 .. Len(q)
    PROVE  FieldsFit(q[n].from, w, q[n].fields)'
<1>1. dep \in Deployments /\ BarrierInv
  BY DEF LoadInv, TypeInv
<1>2. PICK f, fields : f = q[n].from /\ fields = q[n].fields
  OBVIOUS
<1>3. FieldsFit(f, w, fields)
  BY <1>2 DEF WaitingFits, EntryFits
<1>4. f \in Services
  <2>1. EntryKept(s, p, w)
    BY <1>1 DEF BarrierInv, WaitingKept
  <2>2. f \in ServicesOf(Before(s))
    BY <1>2, <2>1 DEF EntryKept
  <2>3. s \in Stages \ {First}
    BY <1>1, ShapeFacts
  <2> QED BY <1>1, <2>2, <2>3, FlowShape
<1>5. Pending(f, w)
  BY <1>2 DEF Pending
<1>6. FieldsFit(f, w, fields)'
  BY <1>1, <1>3, <1>4, <1>5, StaysFacts
<1> QED BY <1>2, <1>6

(* Entries may be removed meanwhile. *)
LEMMA WaitingStays ==
    ASSUME LoadInv, DataStays, WaitingFits, InfoShrinks
    PROVE  WaitingFits'
<1>1. App' = App /\ Processes' = Processes
  BY ShapeKept DEF DataStays
<1>2. ASSUME NEW s \in App.wait, NEW p \in Processes, NEW w PROVE EntryFits(s, p, w)'
  <2>1. NumbersKept
    BY <1>2 DEF LoadInv, BarrierInv
  <2>2. PICK q : q = Waiting(s, p, w)'
    OBVIOUS
  <2>3. q = << >> \/ (w \in 1 .. started /\ q = Waiting(s, p, w))
    BY <2>1, <2>2, WaitingShrinks
  <2>4. ASSUME NEW n \in 1 .. Len(q) PROVE FieldsFit(q[n].from, w, q[n].fields)'
    <3>1. q # << >>
      BY <2>4, EmptyFacts
    <3>2. w \in 1 .. started /\ q = Waiting(s, p, w)
      BY <2>3, <3>1
    <3> QED BY <3>2, EntryStays
  <2> QED BY <2>2, <2>4 DEF EntryFits
<1> QED BY <1>1, <1>2 DEF WaitingFits

(* What a run has read stays as it is. *)
LEMMA ReadsStay ==
    ASSUME dep' = dep, NEW x, ReadFits(x)
    PROVE  ReadFits(x)'
<1>1. App' = App /\ \A s : Before(s)' = Before(s)
  BY ShapeKept
<1>2. \A f : Share(f)' = Share(f)
  BY DataStatic
<1> QED BY <1>1, <1>2 DEF ReadFits

(* A step in which no function runs *)
LEMMA QuietData ==
    ASSUME LoadInv, DataInv, dep' = dep, store' = store, heap' = heap, ran' = ran,
           failed' = failed, \A g \in inflight' : g.type = "reply" \/ g \in inflight,
           Proper => WaitingFits'
    PROVE  DataInv'
<1>1. Proper' <=> Proper
  BY DataStatic
<1> SUFFICES ASSUME Proper PROVE DataKept'
  BY <1>1 DEF DataInv
<1>2. DataStays /\ DataKept
  BY DEF DataStays, DataInv
<1>3. StoreKept'
  BY <1>2, DataStatic DEF DataKept, StoreKept
<1>4. EventsFit'
  BY <1>2, EventStays DEF DataKept, EventsFit, Requests
<1>5. ReadsFit'
  BY <1>2, ReadsStay DEF DataKept, ReadsFit
<1> QED BY <1>2, <1>3, <1>4, <1>5 DEF DataKept

-----------------------------------------------------------------------------
(* A function that runs *)

(* What it does to the store and to the heaps *)
LEMMA EffectFacts ==
    ASSUME HeapTyped, NEW svc \in Services, NEW wf, NEW loop, NEW metas, NEW r, NEW rest,
           Completes(svc, wf, loop, metas, r, rest)
    PROVE  /\ DOMAIN store' = DOMAIN store \cup DOMAIN r.puts
           /\ \A key \in DOMAIN store' :
                store'[key] = IF key \in DOMAIN r.puts THEN r.puts[key] ELSE store[key]
           /\ \A f \in Services : f # svc => heap'[f] = heap[f]
           /\ r.push = TRUE /\ dep.resident = TRUE =>
                heap'[svc].epoch = heap[svc].epoch /\ heap'[svc].gen = heap[svc].gen + 1
                /\ heap'[svc].visible = TRUE
<1>1. store' = Update(store, r.puts)
  BY DEF Completes
<1>2. DOMAIN heap = Services /\ heap[svc] \in [epoch : Nat, gen : Nat, visible : BOOLEAN]
  BY DEF HeapTyped
<1>3. \/ heap' = heap
      \/ \E visible \in BOOLEAN : heap' = [heap EXCEPT ![svc] = Pushed(svc, visible)]
  BY DEF Completes
<1>4. r.push = TRUE /\ dep.resident = TRUE => heap' = [heap EXCEPT ![svc] = Pushed(svc, TRUE)]
  BY DEF Completes
<1>5. \A f \in Services : f # svc => heap'[f] = heap[f]
  BY <1>2, <1>3
<1>6. ASSUME r.push = TRUE /\ dep.resident = TRUE
      PROVE  heap'[svc].epoch = heap[svc].epoch /\ heap'[svc].gen = heap[svc].gen + 1
             /\ heap'[svc].visible = TRUE
  <2>1. heap'[svc] = Pushed(svc, TRUE)
    BY <1>2, <1>4, <1>6
  <2>2. PICK h : h = heap[svc]
    OBVIOUS
  <2>3. Pushed(svc, TRUE) = [h EXCEPT !.gen = h.gen + 1, !.visible = TRUE]
    BY <2>2 DEF Pushed
  <2>4. h \in [epoch : Nat, gen : Nat, visible : BOOLEAN]
    BY <1>2, <2>2
  <2>5. /\ [h EXCEPT !.gen = h.gen + 1, !.visible = TRUE].epoch = h.epoch
        /\ [h EXCEPT !.gen = h.gen + 1, !.visible = TRUE].gen = h.gen + 1
        /\ [h EXCEPT !.gen = h.gen + 1, !.visible = TRUE].visible = TRUE
    BY <2>4, Zenon
  <2> QED BY <2>1, <2>2, <2>3, <2>5
<1> QED BY <1>1, <1>5, <1>6 DEF Update

(* Its event carries the data it hands over. *)
LEMMA MadeFits ==
    ASSUME dep \in Deployments, Proper, dep' = dep, HeapTyped,
           NEW svc \in Services, NEW wf, NEW loop, NEW metas, NEW r, NEW rest,
           Completes(svc, wf, loop, metas, r, rest),
           FieldsShape(svc, wf, r.fields), Hands(svc) => Made(svc, wf, r)
    PROVE  FieldsFit(svc, wf, r.fields)'
<1>1. PICK fields : fields = r.fields
  OBVIOUS
<1>2. /\ DataWay' = DataWay /\ (Hands(svc)' <=> Hands(svc)) /\ DataOf(svc)' = DataOf(svc)
      /\ Keys(svc, wf)' = Keys(svc, wf)
      /\ FieldsShape(svc, wf, fields)' <=> FieldsShape(svc, wf, fields)
  BY DataStatic
<1>3. ASSUME Hands(svc) PROVE Carries(svc, wf, fields)'
  <2>1. Made(svc, wf, r)
    BY <1>3
  <2>2. DOMAIN r.puts \subseteq DOMAIN store'
    BY EffectFacts
  <2>3. DataWay = "store" => Keys(svc, wf)' \subseteq DOMAIN store'
    BY <1>2, <2>1, <2>2 DEF Made
  <2>4. DataWay = "inline" => "payload" \in DOMAIN fields /\ fields.payload = DataOf(svc)'
    BY <1>1, <1>2, <2>1 DEF Made
  <2>5. ASSUME DataWay = "object"
        PROVE  /\ "route" \in DOMAIN fields
               /\ fields.route = [svc |-> svc, epoch |-> heap'[svc].epoch,
                                  gen |-> heap'[svc].gen, data |-> DataOf(svc)']
               /\ heap'[svc].visible = TRUE
    <3>1. dep.resident = TRUE
      BY <1>3, <2>5, HandsFacts, ObjectFacts
    <3>2. r.push = TRUE
      BY <2>1, <2>5 DEF Made
    <3>3. /\ heap'[svc].epoch = heap[svc].epoch /\ heap'[svc].gen = heap[svc].gen + 1
          /\ heap'[svc].visible = TRUE
      BY <3>1, <3>2, EffectFacts
    <3> QED BY <1>1, <1>2, <2>1, <2>5, <3>3 DEF Made
  <2> QED BY <1>2, <2>3, <2>4, <2>5 DEF Carries
<1>4. FieldsFit(svc, wf, fields)'
  BY <1>1, <1>2, <1>3 DEF FieldsFit
<1> QED BY <1>1, <1>4

(* It goes to the functions of the next stage. *)
LEMMA SentEvents ==
    ASSUME dep \in Deployments, NEW svc \in Services, NEW wf, NEW loop, NEW fields,
           NEW g \in Sent(svc, wf, loop, fields)
    PROVE  /\ svc[1] # Last /\ g.from = svc /\ g.wf = wf /\ g.fields = fields
           /\ g.svc[1] # First /\ svc \in ServicesOf(Before(g.svc[1]))
<1>1. PICK to \in ServicesOf(After(svc[1])) :
        /\ svc[1] # Last
        /\ g = [type |-> svc[1], svc |-> to, from |-> svc, wf |-> wf, loop |-> loop,
                fields |-> fields]
  BY DEF Sent
<1>2. /\ g.svc = to /\ g.from = svc /\ g.wf = wf /\ g.fields = fields
      /\ g.svc[1] = After(svc[1]) /\ svc[1] \in Stages /\ svc \in ServicesOf(svc[1])
  BY <1>1, FlowShape DEF ServicesOf
<1>3. After(svc[1]) # First /\ Before(After(svc[1])) = svc[1]
  <2>1. CASE App.wait = {}
    BY <1>1, <1>2, <2>1, SyncFacts, ThroughputFacts
  <2>2. CASE App.wait # {}
    BY <1>1, <1>2, <2>2, ShapeFacts
  <2> QED BY <2>1, <2>2
<1> QED BY <1>1, <1>2, <1>3

(* A function that finds its data leaves the next one to find its own.     *)
LEMMA CompletesData ==
    ASSUME LoadInv, Proper, DataKept, dep' = dep, InfoShrinks,
           NEW svc \in Services, NEW wf, NEW loop, NEW metas, NEW r, NEW rest,
           Completes(svc, wf, loop, metas, r, rest), rest \subseteq inflight,
           ResultFits(svc, wf, r), GatherFits(svc, metas, r.read), BundleFits(svc, r.read),
           svc[1] \in App.wait => Differ(metas),
           App.wait # {} /\ DataWay = "object" => \A v \in 1 .. started : ~Pending(svc, v)
    PROVE  DataKept'
<1>1. dep \in Deployments /\ HeapTyped
  BY DEF LoadInv, TypeInv
<1>2. /\ DOMAIN store' = DOMAIN store \cup DOMAIN r.puts
      /\ \A key \in DOMAIN store' :
           store'[key] = IF key \in DOMAIN r.puts THEN r.puts[key] ELSE store[key]
      /\ \A f \in Services : f # svc => heap'[f] = heap[f]
  BY <1>1, EffectFacts
<1>3. DataStays
  BY <1>2 DEF DataStays
<1>4. failed' = {}
  BY DEF Completes, DataKept
<1>5. StoreKept'
  <2>1. PutsFit(r) /\ StoreKept /\ \A key : Stored(key)' = Stored(key)
    BY DataStatic DEF ResultFits, DataKept
  <2> QED BY <1>2, <2>1 DEF StoreKept, PutsFit
<1>6. WaitingFits'
  BY <1>3, WaitingStays DEF DataKept
<1>7. First' = First /\ \A s : Before(s)' = Before(s) /\ ServicesOf(s)' = ServicesOf(s)
  BY ShapeKept
<1>8. ASSUME NEW g \in Requests' PROVE EventFits(g)'
  <2>1. g \in rest \cup (Reply(svc, wf) \cup Sent(svc, wf, loop, r.fields)) /\ g.type # "reply"
    BY <1>8 DEF Completes, Requests
  <2>2. CASE g \in rest
    <3>1. g \in inflight /\ EventFits(g)
      BY <2>1, <2>2 DEF DataKept, EventsFit, Requests
    <3> QED BY <1>3, <3>1, EventStays
  <2>3. CASE g \in Reply(svc, wf)
    BY <2>1, <2>3 DEF Reply
  <2>4. CASE g \in Sent(svc, wf, loop, r.fields)
    <3>1. PICK fields : fields = r.fields
      OBVIOUS
    <3>2. /\ svc[1] # Last /\ g.from = svc /\ g.wf = wf /\ g.fields = fields
          /\ g.svc[1] # First /\ svc \in ServicesOf(Before(g.svc[1]))
      BY <1>1, <2>4, <3>1, SentEvents
    <3>3. FieldsShape(svc, wf, r.fields) /\ (Hands(svc) => Made(svc, wf, r))
      BY <3>2 DEF ResultFits
    <3>4. FieldsFit(svc, wf, fields)'
      <4>1. FieldsFit(svc, wf, r.fields)'
        BY <1>1, <3>3, MadeFits
      <4> QED BY <3>1, <4>1
    <3> QED BY <1>7, <3>2, <3>4 DEF EventFits
  <2> QED BY <2>1, <2>2, <2>3, <2>4
<1>9. EventsFit'
  BY <1>8 DEF EventsFit
<1>10. ReadsFit'
  <2>1. PICK x : x = RunOf(svc, wf, metas, r)
    OBVIOUS
  <2>2. ran' = ran \cup {x}
    BY <2>1 DEF Completes, RunOf
  <2>3. /\ x.svc = svc /\ x.read = r.read /\ x.from = [n \in DOMAIN metas |-> metas[n].from]
    BY <2>1 DEF RunOf
  <2>4. Garbage \notin Range(x.read)
    BY <2>3 DEF ResultFits, Range
  <2>5. ReadFits(x)
    BY <2>3, <2>4 DEF ReadFits, GatherFits, BundleFits, Differ
  <2> QED BY <2>2, <2>5, ReadsStay DEF DataKept, ReadsFit
<1> QED BY <1>4, <1>5, <1>6, <1>9, <1>10 DEF DataKept

-----------------------------------------------------------------------------
(* The steps, where the workflow is set up properly *)

(* A handler that raised nothing and read no garbage has returned, and the *)
(* next function will find its data.                                       *)
LEMMA RunData ==
    ASSUME LoadInv, Proper, DataKept, dep' = dep, InfoShrinks,
           NEW svc \in Services, NEW wf, NEW loop, NEW metas, NEW r, NEW rest,
           MetasFit(svc, wf, metas), Answers(svc, wf, metas, r), rest \subseteq inflight,
           svc[1] \in App.wait => Differ(metas),
           \/ Completes(svc, wf, loop, metas, r, rest)
           \/ Fails(svc, wf, r, rest)
           \/ Dies(svc, wf, r, rest),
           App.wait # {} /\ DataWay = "object" => \A v \in 1 .. started : ~Pending(svc, v)
    PROVE  DataKept'
<1>1. dep \in Deployments /\ StoreKept
  BY DEF LoadInv, TypeInv, DataKept
<1>2. ResultFits(svc, wf, r) /\ GatherFits(svc, metas, r.read) /\ BundleFits(svc, r.read)
  BY <1>1, HandlerFits
<1>3. r.ok = TRUE /\ Garbage \notin Range(r.read)
  BY <1>2 DEF ResultFits, Fine, Range
<1>4. ~Fails(svc, wf, r, rest) /\ ~Dies(svc, wf, r, rest)
  BY <1>3 DEF Fails, Dies
<1>5. Completes(svc, wf, loop, metas, r, rest)
  BY <1>4
<1> QED BY <1>2, <1>5, CompletesData

(* Without faults every pull succeeds. *)
LEMMA PullsFacts ==
    ASSUME LoadInv, Proper, NEW svc, NEW wf, NEW metas
    PROVE  Pulls(svc, wf, metas) = {TRUE}
<1>1. faults = 0
  BY DEF LoadInv, TypeInv, CountsTyped, Proper
<1>2. ~(faults > 0)
  BY <1>1
<1> QED BY <1>2 DEF Pulls

(* No service runs whose object is still needed. *)
LEMMA AloneFacts ==
    ASSUME LoadInv, Proper, App.wait # {}, DataWay = "object"
    PROVE  /\ \A e \in inflight, w \in 1 .. started : ~Pending(e.svc, w)
           /\ pings # {} => \A f, w : w \in 1 .. started => ~Pending(f, w)
<1>1. dep.pings = 1 /\ dep.dups = 0
  BY ObjectFacts DEF LoadInv, TypeInv
<1> QED BY <1>1, Alone

(* The first function *)
LEMMA StartData ==
    ASSUME LoadInv, Proper, DataKept, NEW x \in pings, Start(x)
    PROVE  DataKept'
<1>1. PICK svc, wf, metas, r :
        svc = <<First, 1>> /\ wf = started + 1 /\ metas = << >> /\ Answers(svc, wf, metas, r)
  BY DEF Answers
<1>2. /\ dep' = dep /\ info' = info
      /\ \/ Completes(svc, wf, x.loop, metas, r, inflight)
         \/ Fails(svc, wf, r, inflight)
  BY <1>1 DEF Start, Answers
<1>3. svc \in Services /\ svc[1] = First /\ First \notin App.wait
  BY <1>1, FlowShape, ShapeFacts DEF LoadInv, TypeInv
<1>4. MetasFit(svc, wf, metas)
  BY <1>3 DEF MetasFit
<1>5. InfoShrinks
  <2>1. CASE App.wait = {}
    BY <2>1 DEF InfoShrinks
  <2>2. CASE App.wait # {}
    BY <1>2, <2>2, InfoSame DEF LoadInv, BarrierInv
  <2> QED BY <2>1, <2>2
<1>6. App.wait # {} /\ DataWay = "object" => \A v \in 1 .. started : ~Pending(svc, v)
  BY AloneFacts
<1> QED BY <1>1, <1>2, <1>3, <1>4, <1>5, <1>6, RunData

(* A function that does not wait *)
LEMMA HandleData ==
    ASSUME LoadInv, Proper, DataKept, NEW e \in Requests, Handle(e)
    PROVE  DataKept'
<1>1. PICK svc, wf, loop, metas : svc = e.svc /\ wf = e.wf /\ loop = e.loop /\ metas = <<e>>
  OBVIOUS
<1>2. Pulls(svc, wf, metas) = {TRUE}
  BY PullsFacts
<1>3. PICK again, r : /\ Answers(svc, wf, metas, r)
                      /\ \/ Completes(svc, wf, loop, metas, r, Left(e, again))
                         \/ Fails(svc, wf, r, Left(e, again))
                         \/ Dies(svc, wf, r, Left(e, again))
  BY <1>1, <1>2 DEF Handle, Answers
<1>4. /\ dep' = dep /\ info' = info /\ svc[1] \notin App.wait /\ e \in inflight
      /\ EventTyped(e) /\ EventFits(e)
  BY <1>1 DEF Handle, Requests, LoadInv, TypeInv, EventsTyped, DataKept, EventsFit
<1>5. svc \in Services
  BY <1>1, <1>4 DEF EventTyped
<1>6. Left(e, again) \subseteq inflight
  BY DEF Left
<1>7. MetasFit(svc, wf, metas)
  <2>1. DOMAIN metas = {1} /\ metas[1] = e
    BY <1>1
  <2> QED BY <1>1, <1>4, <2>1 DEF MetasFit, EventFits
<1>8. InfoShrinks
  <2>1. CASE App.wait = {}
    BY <2>1 DEF InfoShrinks
  <2>2. CASE App.wait # {}
    BY <1>4, <2>2, InfoSame DEF LoadInv, BarrierInv
  <2> QED BY <2>1, <2>2
<1>9. App.wait # {} /\ DataWay = "object" => \A v \in 1 .. started : ~Pending(svc, v)
  BY <1>1, <1>4, AloneFacts
<1> QED BY <1>3, <1>4, <1>5, <1>6, <1>7, <1>8, <1>9, RunData

(* The events that open a barrier bring the data of all services before. *)
LEMMA BarrierData ==
    ASSUME LoadInv, DataKept, NEW e \in Requests, NEW p \in Processes, e.svc[1] \in App.wait,
           Enough(e, p), NEW metas, metas = Events(e, p)
    PROVE  MetasFit(e.svc, e.wf, metas) /\ Differ(metas)
<1>1. PICK s, w, q : s = e.svc[1] /\ w = e.wf /\ q = Waiting(s, p, w)
  OBVIOUS
<1>2. /\ dep \in Deployments /\ BarrierInv /\ e \in inflight /\ s \in App.wait
      /\ EventFits(e)
  BY <1>1 DEF LoadInv, TypeInv, Requests, DataKept, EventsFit
<1>3. w \in 1 .. started /\ EntryKept(s, p, w)
  BY <1>1, <1>2 DEF BarrierInv, EventsKept, EventKept, WaitingKept
<1>4. /\ Len(q) \in Nat /\ DOMAIN metas = 1 .. Len(q) + 1 /\ metas[Len(q) + 1] = e
      /\ \A n \in 1 .. Len(q) : metas[n] = q[n]
  <2>1. q \in Seq(Range(q)) /\ metas = Append(q, e)
    BY <1>1, <1>3 DEF EntryKept, Events
  <2> QED BY <2>1, AppendFacts
<1>5. 1 \in DOMAIN metas /\ \A n \in DOMAIN metas : n \in 1 .. Len(q) \/ n = Len(q) + 1
  BY <1>4
<1>6. ASSUME NEW n \in DOMAIN metas
      PROVE  metas[n].from \in ServicesOf(Before(s)) /\ FieldsFit(metas[n].from, w, metas[n].fields)
  <2>1. CASE n \in 1 .. Len(q)
    <3>1. EntryFits(s, p, w)
      BY <1>2, <1>3 DEF DataKept, WaitingFits
    <3>2. q[n].from \in ServicesOf(Before(s)) /\ FieldsFit(q[n].from, w, q[n].fields)
      BY <1>1, <1>3, <2>1, <3>1 DEF EntryKept, EntryFits
    <3> QED BY <1>4, <2>1, <3>2
  <2>2. CASE n = Len(q) + 1
    BY <1>1, <1>2, <1>4, <2>2 DEF EventFits
  <2> QED BY <1>5, <2>1, <2>2
<1>7. PICK from : from = [n \in DOMAIN metas |-> metas[n].from]
  OBVIOUS
<1>8. /\ Range(from) = ServicesOf(Before(s))
      /\ \A m, n \in DOMAIN metas : from[m] = from[n] => m = n
  <2>1. Opens(e, p, s, metas, from)
    BY <1>1, <1>2, <1>7 DEF Opens
  <2> QED BY <1>2, <2>1, FullBarrier
<1>9. \A f \in ServicesOf(Before(s)) : \E n \in DOMAIN metas : metas[n].from = f
  BY <1>7, <1>8 DEF Range
<1>10. Differ(metas)
  BY <1>7, <1>8 DEF Differ
<1> QED BY <1>1, <1>5, <1>6, <1>9, <1>10 DEF MetasFit

(* A function that waited *)
LEMMA JoinData ==
    ASSUME LoadInv, Proper, DataKept, NEW e \in Requests, NEW p \in Processes, Join(e, p)
    PROVE  DataKept'
<1>1. PICK svc, wf, loop, metas :
        svc = e.svc /\ wf = e.wf /\ loop = e.loop /\ metas = Events(e, p)
  OBVIOUS
<1>2. Pulls(svc, wf, metas) = {TRUE}
  BY PullsFacts
<1>3. PICK again, r : /\ Answers(svc, wf, metas, r)
                      /\ \/ Completes(svc, wf, loop, metas, r, Left(e, again))
                         \/ Fails(svc, wf, r, Left(e, again))
                         \/ Dies(svc, wf, r, Left(e, again))
                      /\ \/ info' = [info EXCEPT ![svc[1]][p] = Restrict(@, DOMAIN @ \ {wf})]
                         \/ info' = [info EXCEPT ![svc[1]][p] = << >>]
  BY <1>1, <1>2 DEF Join, Answers
<1>4. /\ dep' = dep /\ svc[1] \in App.wait /\ Enough(e, p) /\ e \in inflight
      /\ EventTyped(e)
  BY <1>1 DEF Join, Requests, LoadInv, TypeInv, EventsTyped
<1>5. svc \in Services
  BY <1>1, <1>4 DEF EventTyped
<1>6. Left(e, again) \subseteq inflight
  BY DEF Left
<1>7. MetasFit(svc, wf, metas) /\ Differ(metas)
  BY <1>1, <1>4, BarrierData
<1>8. InfoShrinks
  <2>1. InfoDomain
    BY <1>4 DEF LoadInv, BarrierInv
  <2> QED BY <1>3, <1>4, <2>1, JoinInfo
<1>9. App.wait # {} /\ DataWay = "object" => \A v \in 1 .. started : ~Pending(svc, v)
  BY <1>1, <1>4, AloneFacts
<1> QED BY <1>3, <1>4, <1>5, <1>6, <1>7, <1>8, <1>9, RunData

(* An event that waits *)
LEMMA WaitData ==
    ASSUME LoadInv, DataInv, NEW e \in Requests, NEW p \in Processes, Wait(e, p)
    PROVE  DataInv'
<1>1. /\ dep' = dep /\ store' = store /\ heap' = heap /\ ran' = ran /\ failed' = failed
      /\ started' = started /\ e \in inflight /\ e.svc[1] \in App.wait
      /\ inflight' \subseteq inflight
  BY DEF Wait, history, Requests, Left
<1>2. ASSUME Proper PROVE WaitingFits'
  <2>1. DataStays /\ DataKept
    BY <1>1, <1>2 DEF DataStays, DataInv
  <2>2. PICK s, v, q, d : /\ s = e.svc[1] /\ v = e.wf /\ q = Waiting(s, p, v)
                          /\ d = Put(info[s][p], v, Append(q, e))
    OBVIOUS
  <2>3. info' = [info EXCEPT ![s][p] = d]
    BY <2>2 DEF Wait, Events
  <2>4. InfoDomain /\ BarrierInv /\ s \in App.wait
    BY <1>1, <2>2 DEF LoadInv, BarrierInv
  <2>5. /\ info'[s][p] = d
        /\ \A t \in App.wait, o \in Processes : t # s \/ o # p => info'[t][o] = info[t][o]
    BY <2>3, <2>4 DEF InfoDomain
  <2>6. Waiting(s, p, v)' = Append(q, e)
    BY <2>2, <2>5 DEF Waiting, Put
  <2>7. ASSUME NEW t \in App.wait, NEW o \in Processes, NEW w, ~(t = s /\ o = p /\ w = v)
        PROVE  Waiting(t, o, w)' = Waiting(t, o, w)
    <3>1. CASE t = s /\ o = p
      <4>1. w \in DOMAIN d <=> w \in DOMAIN info[t][o]
        BY <2>2, <2>7, <3>1 DEF Put
      <4>2. w \in DOMAIN info[t][o] => d[w] = info[t][o][w]
        BY <2>2, <2>7, <3>1 DEF Put
      <4> QED BY <2>5, <3>1, <4>1, <4>2 DEF Waiting
    <3>2. CASE t # s \/ o # p
      BY <2>5, <3>2 DEF Waiting
    <3> QED BY <3>1, <3>2
  <2>8. v \in 1 .. started /\ EntryKept(s, p, v)
    BY <1>1, <2>2, <2>4 DEF BarrierInv, EventsKept, EventKept, WaitingKept
  <2>9. /\ Len(q) \in Nat /\ Len(Append(q, e)) = Len(q) + 1
        /\ Append(q, e)[Len(q) + 1] = e /\ \A n \in 1 .. Len(q) : Append(q, e)[n] = q[n]
    <3>1. q \in Seq(Range(q))
      BY <2>2, <2>8 DEF EntryKept
    <3> QED BY <3>1, AppendFacts
  <2>10. ASSUME NEW t \in App.wait, NEW o \in Processes, NEW w \in 1 .. started,
                NEW z, z = Waiting(t, o, w)', NEW n \in 1 .. Len(z)
         PROVE  FieldsFit(z[n].from, w, z[n].fields)'
    <3>1. CASE t = s /\ o = p /\ w = v
      <4>1. z = Append(q, e)
        BY <2>6, <2>10, <3>1
      <4>2. n \in 1 .. Len(q) \/ n = Len(q) + 1
        BY <2>9, <4>1
      <4>3. CASE n \in 1 .. Len(q)
        <5>1. FieldsFit(q[n].from, v, q[n].fields)'
          BY <2>1, <2>2, <2>4, <2>8, <4>3, EntryStays DEF DataKept
        <5> QED BY <2>9, <3>1, <4>1, <4>3, <5>1
      <4>4. CASE n = Len(q) + 1
        <5>1. EventFits(e)'
          BY <1>1, <2>1, EventStays DEF DataKept, EventsFit
        <5> QED BY <2>2, <2>9, <3>1, <4>1, <4>4, <5>1 DEF EventFits
      <4> QED BY <4>2, <4>3, <4>4
    <3>2. CASE ~(t = s /\ o = p /\ w = v)
      <4>1. z = Waiting(t, o, w)
        BY <2>7, <2>10, <3>2
      <4> QED BY <2>1, <2>10, <4>1, EntryStays DEF DataKept
    <3> QED BY <3>1, <3>2
  <2>11. App' = App /\ Processes' = Processes
    BY <1>1, ShapeKept
  <2>12. ASSUME NEW t \in App.wait, NEW o \in Processes, NEW w \in 1 .. started
         PROVE  EntryFits(t, o, w)'
    <3>1. PICK z : z = Waiting(t, o, w)'
      OBVIOUS
    <3>2. \A n \in 1 .. Len(z) : FieldsFit(z[n].from, w, z[n].fields)'
      BY <2>10, <3>1
    <3> QED BY <3>1, <3>2 DEF EntryFits
  <2> QED BY <1>1, <2>11, <2>12 DEF WaitingFits
<1> QED BY <1>1, <1>2, QuietData

(* Answers of the throughput test, and a step in which nothing happens *)
LEMMA IdleData ==
    ASSUME LoadInv, DataInv, (\E e \in inflight : Return(e)) \/ UNCHANGED vars
    PROVE  DataInv'
<1>1. /\ dep' = dep /\ store' = store /\ heap' = heap /\ ran' = ran /\ failed' = failed
      /\ info' = info /\ \A g \in inflight' : g.type = "reply" \/ g \in inflight
  BY DEF Return, Reply, vars, history
<1>2. InfoShrinks
  <2>1. CASE App.wait = {}
    BY <2>1 DEF InfoShrinks
  <2>2. CASE App.wait # {}
    BY <1>1, <2>2, InfoSame DEF LoadInv, BarrierInv
  <2> QED BY <2>1, <2>2
<1>3. Proper => WaitingFits'
  BY <1>1, <1>2, WaitingStays DEF DataStays, DataInv, DataKept
<1> QED BY <1>1, <1>3, QuietData

(* At the start nothing has been handed over. *)
LEMMA DataInit ==
    ASSUME Init
    PROVE  DataInv
<1>1. /\ failed = {} /\ ran = {} /\ inflight = {} /\ started = 0
      /\ store = << >>
  BY DEF Init
<1>2. DOMAIN store = {} /\ 1 .. started = {}
  BY <1>1
<1> QED BY <1>1, <1>2
        DEF DataInv, DataKept, StoreKept, EventsFit, Requests, WaitingFits, ReadsFit

(* Every step keeps what was handed over. *)
LEMMA DataNext ==
    ASSUME LoadInv, DataInv, [Next]_vars
    PROVE  DataInv'
<1>1. ASSUME dep' = dep, Proper => DataKept' PROVE DataInv'
  BY <1>1, DataStatic DEF DataInv
<1>2. ASSUME NEW x \in pings, Start(x) PROVE DataInv'
  <2>1. dep' = dep
    BY <1>2 DEF Start
  <2> QED BY <1>1, <1>2, <2>1, StartData DEF DataInv
<1>3. ASSUME NEW e \in Requests, Handle(e) PROVE DataInv'
  <2>1. dep' = dep
    BY <1>3 DEF Handle
  <2> QED BY <1>1, <1>3, <2>1, HandleData DEF DataInv
<1>4. ASSUME NEW e \in Requests, NEW p \in Processes, Join(e, p) PROVE DataInv'
  <2>1. dep' = dep
    BY <1>4 DEF Join
  <2> QED BY <1>1, <1>4, <2>1, JoinData DEF DataInv
<1>5. ASSUME NEW e \in Requests, NEW p \in Processes, Wait(e, p) PROVE DataInv'
  BY <1>5, WaitData
<1>6. ASSUME (\E e \in inflight : Return(e)) \/ UNCHANGED vars PROVE DataInv'
  BY <1>6, IdleData
<1>7. ASSUME \/ \E e \in inflight : Lose(e)
             \/ \E svc \in Services, p \in Processes : Crash(svc, p)
      PROVE  DataInv'
  <2>1. dep' = dep /\ faults > 0
    BY <1>7 DEF Lose, Crash
  <2>2. ~Proper
    BY <2>1 DEF LoadInv, TypeInv, CountsTyped, Proper
  <2> QED BY <1>1, <2>1, <2>2
<1> QED BY <1>2, <1>3, <1>4, <1>5, <1>6, <1>7 DEF Next, Deliver

(* Where the workflow is set up properly, every function finds in its      *)
(* events what the function before has put there: no handler of            *)
(* functions.py raises, whatever the protocol, and no process dies.        *)
THEOREM HandlersCorrect == Spec => []HandlersFit
<1>1. Init => LoadInv /\ DataInv
  BY LoadInit, DataInit
<1>2. LoadInv /\ DataInv /\ [Next]_vars => (LoadInv /\ DataInv)'
  BY LoadNext, DataNext
<1>3. DataInv => HandlersFit
  BY DEF DataInv, DataKept, HandlersFit
<1> QED BY <1>1, <1>2, <1>3, PTL DEF Spec

(* Nor does any function read an object that its owner has replaced since, *)
(* although nobody tells push when the object of the workflow before has   *)
(* been read.                                                              *)
THEOREM FreshCorrect == Spec => []FreshData
<1>1. Init => LoadInv /\ DataInv
  BY LoadInit, DataInit
<1>2. LoadInv /\ DataInv /\ [Next]_vars => (LoadInv /\ DataInv)'
  BY LoadNext, DataNext
<1>3. DataInv => FreshData
  BY DEF DataInv, DataKept, FreshData, ReadsFit, ReadFits
<1> QED BY <1>1, <1>2, <1>3, PTL DEF Spec

-----------------------------------------------------------------------------
(* How the work is divided *)

(* The n parts S cover T, each item once. *)
Divides(S, n, T) ==
    /\ \A i \in 1 .. n : S[i] \subseteq T
    /\ \A l \in T : \E i \in 1 .. n : l \in S[i]
    /\ \A i, j \in 1 .. n : i # j => S[i] \cap S[j] = {}

(* Multiplication and division *)
LEMMA TimesFacts ==
    ASSUME NEW a \in Int, NEW b \in Int, NEW p \in Nat
    PROVE  /\ a * p \in Int /\ (a <= b => a * p <= b * p)
           /\ (a - 1) * p = a * p - p /\ (a * p < b * p => a < b)
OBVIOUS

(* x lies between two multiples of p. *)
LEMMA DivFacts ==
    ASSUME NEW x \in Nat, NEW p \in Nat \ {0}, NEW d, d = x \div p
    PROVE  d \in Nat /\ d * p <= x /\ x < d * p + p
OBVIOUS

(* Slices of p items each *)
Slices(S, n, p, total) ==
    /\ n \in Nat /\ p \in Nat \ {0} /\ total \in Nat /\ total <= n * p
    /\ \A i \in 1 .. n : \A l : l \in S[i] <=>
         l \in 1 .. total /\ l > (i - 1) * p /\ l <= i * p

(* They cover all items. *)
LEMMA SlicesDivide ==
    ASSUME NEW S, NEW n, NEW p, NEW total, Slices(S, n, p, total)
    PROVE  Divides(S, n, 1 .. total)
<1>1. n \in Nat /\ p \in Nat \ {0} /\ total \in Nat /\ total <= n * p /\ n * p \in Nat
  BY DEF Slices
<1>2. \A i \in 1 .. n : S[i] \subseteq 1 .. total
  BY DEF Slices
<1>3. ASSUME NEW l \in 1 .. total PROVE \E i \in 1 .. n : l \in S[i]
  <2>1. PICK d, i : d = (l - 1) \div p /\ i = d + 1
    OBVIOUS
  <2>2. d \in Nat /\ d * p <= l - 1 /\ l - 1 < d * p + p /\ d * p \in Int
    <3>1. PICK x : x = l - 1
      OBVIOUS
    <3>2. x \in Nat /\ d = x \div p
      BY <1>1, <2>1, <3>1
    <3>3. d \in Nat /\ d * p <= x /\ x < d * p + p
      BY <1>1, <3>2, DivFacts
    <3>4. d * p \in Int
      BY <1>1, <3>3, TimesFacts
    <3> QED BY <3>1, <3>3, <3>4
  <2>3. i \in Int /\ i * p \in Int /\ (i - 1) * p = d * p /\ d * p = i * p - p
    BY <1>1, <2>1, <2>2, TimesFacts
  <2>4. d < n
    <3>1. d * p < n * p
      BY <1>1, <1>3, <2>2
    <3> QED BY <1>1, <2>2, <3>1, TimesFacts
  <2>5. i \in 1 .. n /\ l > (i - 1) * p /\ l <= i * p
    BY <1>1, <2>1, <2>2, <2>3, <2>4
  <2> QED BY <1>3, <2>5 DEF Slices
<1>4. ASSUME NEW i \in 1 .. n, NEW j \in 1 .. n, i < j, NEW l, l \in S[i], l \in S[j]
      PROVE  FALSE
  <2>1. l \in Nat /\ l <= i * p /\ l > (j - 1) * p
    BY <1>4 DEF Slices
  <2>2. i \in Int /\ j - 1 \in Int /\ i <= j - 1
    BY <1>1, <1>4
  <2>3. i * p \in Int /\ (j - 1) * p \in Int /\ i * p <= (j - 1) * p
    BY <1>1, <2>2, TimesFacts
  <2> QED BY <2>1, <2>3
<1>5. \A i, j \in 1 .. n : i # j => S[i] \cap S[j] = {}
  <2>1. \A i, j \in 1 .. n : i # j => i < j \/ j < i
    BY <1>1
  <2> QED BY <1>4, <2>1
<1> QED BY <1>2, <1>3, <1>5 DEF Divides

(* The splitter of wordcount: slices of ceil(total / num) lines *)
LEMMA SplitDivides ==
    ASSUME NEW n \in Nat \ {0}
    PROVE  Divides(WC!split(n), n, WC!Items(n))
<1>1. PICK p, S : p = (Lines + n - 1) \div n /\ S = WC!split(n)
  OBVIOUS
<1>2. S = [i \in 1 .. n |-> {l \in 1 .. Lines : l > (i - 1) * p /\ l <= i * p}]
  BY <1>1 DEF WC!split
<1>3. p \in Nat \ {0} /\ Lines \in Nat /\ Lines <= n * p
  BY <1>1, SizesAssumption
<1>4. Slices(S, n, p, Lines)
  BY <1>2, <1>3 DEF Slices
<1>5. Divides(S, n, 1 .. Lines)
  BY <1>4, SlicesDivide
<1> QED BY <1>1, <1>5 DEF WC!Items

(* The bundles of the ML pipeline, if they come out even *)
LEMMA BundlesDivide ==
    ASSUME NEW n \in Nat \ {0}, ML!HyperParams % n = 0
    PROVE  Divides(ML!post_handle(n), n, ML!Items(n))
<1>1. PICK q, S : q = ML!HyperParams \div n /\ S = ML!post_handle(n)
  OBVIOUS
<1>2. /\ q \in Nat \ {0} /\ q * n = 16
      /\ S = [b \in 1 .. n |-> (b - 1) * q + 1 .. b * q]
  <2>1. /\ q \in Nat \ {0} /\ q * n = ML!HyperParams
        /\ S = [b \in 1 .. n |-> (b - 1) * q + 1 .. b * q]
    BY <1>1, BundleFacts
  <2> QED BY <2>1 DEF ML!HyperParams
<1>3. n \in {1, 2, 4, 8, 16}
  BY DEF ML!HyperParams
<1>4. q \in {1, 2, 4, 8, 16} /\ 16 <= n * q
  BY <1>1, <1>3 DEF ML!HyperParams
<1>5. ASSUME NEW i \in 1 .. n, NEW l
      PROVE  l \in S[i] <=> l \in 1 .. 16 /\ l > (i - 1) * q /\ l <= i * q
  <2>1. PICK a, c : a = (i - 1) * q /\ c = i * q
    OBVIOUS
  <2>2. a \in Nat /\ c \in Nat /\ c <= 16
    <3>1. CASE q = 1
      BY <1>2, <2>1, <3>1
    <3>2. CASE q = 2
      BY <1>2, <2>1, <3>2
    <3>3. CASE q = 4
      BY <1>2, <2>1, <3>3
    <3>4. CASE q = 8
      BY <1>2, <2>1, <3>4
    <3>5. CASE q = 16
      BY <1>2, <2>1, <3>5
    <3> QED BY <1>4, <3>1, <3>2, <3>3, <3>4, <3>5
  <2>3. S[i] = a + 1 .. c
    BY <1>2, <2>1
  <2>4. ASSUME l \in S[i] PROVE l \in 1 .. 16 /\ l > a /\ l <= c
    <3>1. l \in a + 1 .. c
      BY <2>3, <2>4
    <3>2. l \in Int /\ a + 1 <= l /\ l <= c
      BY <2>2, <3>1
    <3> QED BY <2>2, <3>2
  <2>5. ASSUME l \in 1 .. 16, l > a, l <= c PROVE l \in S[i]
    BY <2>2, <2>3, <2>5
  <2> QED BY <2>1, <2>4, <2>5
<1>6. Slices(S, n, q, 16)
  BY <1>2, <1>4, <1>5 DEF Slices
<1>7. Divides(S, n, 1 .. 16)
  BY <1>6, SlicesDivide
<1> QED BY <1>1, <1>7 DEF ML!Items, ML!HyperParams

(* numpy.array_split: the first m parts have q + 1 items, the others q. *)
Bound(i, q, m) == i * q + (IF i < m THEN i ELSE m)

(* Where a part ends, the next one begins. *)
LEMMA BoundFacts ==
    ASSUME NEW i \in Nat, NEW q \in Nat, NEW m \in Nat
    PROVE  /\ Bound(i, q, m) \in Nat
           /\ i <= m => Bound(i, q, m) = i * (q + 1)
           /\ i >= m => Bound(i, q, m) = i * q + m
           /\ \A j \in Nat : i <= j => Bound(i, q, m) <= Bound(j, q, m)
<1>1. i * q \in Nat /\ i * (q + 1) = i * q + i
  OBVIOUS
<1>2. ASSUME NEW j \in Nat, i <= j PROVE Bound(i, q, m) <= Bound(j, q, m)
  <2>1. i * q <= j * q /\ i * q \in Int /\ j * q \in Int
    BY <1>2, TimesFacts
  <2> QED BY <1>2, <2>1 DEF Bound
<1>3. Bound(i, q, m) \in Nat
  BY <1>1 DEF Bound
<1>4. i <= m => Bound(i, q, m) = i * (q + 1)
  BY <1>1 DEF Bound
<1>5. i >= m => Bound(i, q, m) = i * q + m
  BY <1>1 DEF Bound
<1> QED BY <1>2, <1>3, <1>4, <1>5

(* Every item lies in a part. *)
LEMMA BoundCovers ==
    ASSUME NEW n \in Nat, NEW q \in Nat, NEW m \in Nat, m < n,
           NEW total \in Nat, n * q + m = total, NEW l \in 1 .. total
    PROVE  \E i \in 1 .. n : Bound(i - 1, q, m) < l /\ l <= Bound(i, q, m)
<1>1. l \in Nat /\ l - 1 \in Nat /\ m * (q + 1) \in Nat /\ n * q \in Nat
  OBVIOUS
<1>2. CASE l <= m * (q + 1)
  <2>1. PICK p, d : p = q + 1 /\ d = (l - 1) \div p
    OBVIOUS
  <2>2. p \in Nat \ {0} /\ d \in Nat /\ d * p <= l - 1 /\ l - 1 < d * p + p
    <3>1. PICK x : x = l - 1
      OBVIOUS
    <3>2. x \in Nat /\ p \in Nat \ {0} /\ d = x \div p
      BY <1>1, <2>1, <3>1
    <3>3. d \in Nat /\ d * p <= x /\ x < d * p + p
      BY <3>2, DivFacts
    <3> QED BY <3>1, <3>2, <3>3
  <2>3. d * p \in Int /\ d * p < m * p /\ d < m
    <3>1. d * p \in Int /\ d * p < m * p
      BY <1>1, <1>2, <2>1, <2>2, TimesFacts
    <3> QED BY <2>2, <3>1, TimesFacts
  <2>4. (d + 1) * p = d * p + p
    BY <2>2
  <2>5. Bound(d, q, m) = d * p /\ Bound(d + 1, q, m) = d * p + p
    <3>1. PICK e : e = d + 1
      OBVIOUS
    <3>2. d \in Nat /\ e \in Nat /\ d <= m /\ e <= m
      BY <2>2, <2>3, <3>1
    <3>3. Bound(d, q, m) = d * (q + 1) /\ Bound(e, q, m) = e * (q + 1)
      BY <3>2, BoundFacts
    <3> QED BY <2>1, <2>4, <3>1, <3>3
  <2>6. d + 1 \in 1 .. n /\ (d + 1) - 1 = d
    BY <2>2, <2>3
  <2>7. Bound(d, q, m) < l /\ l <= Bound(d + 1, q, m)
    BY <1>1, <2>2, <2>3, <2>5
  <2> QED BY <2>6, <2>7
<1>3. CASE l > m * (q + 1)
  <2>1. m * (q + 1) = m * q + m /\ m * q \in Nat
    OBVIOUS
  <2>2. q # 0
    BY <1>1, <1>3, <2>1
  <2>3. PICK d : d = (l - 1 - m) \div q
    OBVIOUS
  <2>4. l - 1 - m \in Nat
    BY <1>1, <1>3, <2>1
  <2>5. d \in Nat /\ d * q <= l - 1 - m /\ l - 1 - m < d * q + q
    BY <2>2, <2>3, <2>4, DivFacts
  <2>6. d * q \in Int /\ d < n
    <3>1. d * q \in Int /\ d * q < n * q
      BY <1>1, <2>5, TimesFacts
    <3> QED BY <2>5, <3>1, TimesFacts
  <2>7. (d + 1) * q = d * q + q
    BY <2>5
  <2>8. m <= d
    <3>1. m * q < (d + 1) * q
      BY <1>1, <1>3, <2>1, <2>5, <2>6, <2>7
    <3>2. m < d + 1
      BY <2>5, <3>1, TimesFacts
    <3> QED BY <2>5, <3>2
  <2>9. Bound(d, q, m) = d * q + m /\ Bound(d + 1, q, m) = d * q + q + m
    BY <2>5, <2>7, <2>8, BoundFacts
  <2>10. d + 1 \in 1 .. n /\ (d + 1) - 1 = d
    BY <2>5, <2>6
  <2>11. Bound(d, q, m) < l /\ l <= Bound(d + 1, q, m)
    BY <1>1, <2>5, <2>6, <2>9
  <2> QED BY <2>10, <2>11
<1> QED BY <1>1, <1>2, <1>3

(* The splitter of the digits *)
LEMMA RowsDivide ==
    ASSUME NEW n \in Nat \ {0}
    PROVE  Divides(DG!array_split(n), n, DG!Items(n))
<1>1. PICK q, m, S : q = Rows \div n /\ m = Rows % n /\ S = DG!array_split(n)
  OBVIOUS
<1>2. q \in Nat /\ m \in Nat /\ m < n /\ n * q + m = Rows /\ Rows \in Nat
  BY <1>1, SizesAssumption
<1>3. \A i \in 1 .. n : S[i] = Bound(i - 1, q, m) + 1 .. Bound(i, q, m)
  BY <1>1 DEF DG!array_split, Bound
<1>4. Bound(n, q, m) = Rows
  BY <1>2, BoundFacts
<1>5. ASSUME NEW i \in 1 .. n
      PROVE  /\ Bound(i - 1, q, m) \in Nat /\ Bound(i, q, m) \in Nat
             /\ Bound(i, q, m) <= Rows
  <2>1. i - 1 \in Nat /\ i \in Nat /\ i <= n
    OBVIOUS
  <2>2. Bound(i - 1, q, m) \in Nat
    BY <1>2, <2>1, BoundFacts
  <2>3. Bound(i, q, m) \in Nat /\ Bound(i, q, m) <= Bound(n, q, m)
    BY <1>2, <2>1, BoundFacts
  <2> QED BY <1>4, <2>2, <2>3
<1>6. ASSUME NEW i \in 1 .. n, NEW l
      PROVE  l \in S[i] <=> l \in 1 .. Rows /\ Bound(i - 1, q, m) < l /\ l <= Bound(i, q, m)
  <2>1. PICK a, c : a = Bound(i - 1, q, m) /\ c = Bound(i, q, m)
    OBVIOUS
  <2>2. a \in Nat /\ c \in Nat /\ c <= Rows /\ S[i] = a + 1 .. c
    BY <1>3, <1>5, <2>1
  <2>3. ASSUME l \in S[i] PROVE l \in 1 .. Rows /\ a < l /\ l <= c
    <3>1. l \in a + 1 .. c
      BY <2>2, <2>3
    <3>2. l \in Int /\ a + 1 <= l /\ l <= c
      BY <2>2, <3>1
    <3> QED BY <1>2, <2>2, <3>2
  <2>4. ASSUME l \in 1 .. Rows, a < l, l <= c PROVE l \in S[i]
    BY <1>2, <2>2, <2>4
  <2> QED BY <2>1, <2>3, <2>4
<1>7. \A i \in 1 .. n : S[i] \subseteq 1 .. Rows
  BY <1>6
<1>8. ASSUME NEW l \in 1 .. Rows PROVE \E i \in 1 .. n : l \in S[i]
  <2>1. PICK i \in 1 .. n : Bound(i - 1, q, m) < l /\ l <= Bound(i, q, m)
    BY <1>2, BoundCovers
  <2> QED BY <1>6, <2>1
<1>9. ASSUME NEW i \in 1 .. n, NEW j \in 1 .. n, i < j, NEW l, l \in S[i], l \in S[j]
      PROVE  FALSE
  <2>1. l \in 1 .. Rows /\ l <= Bound(i, q, m) /\ Bound(j - 1, q, m) < l
    BY <1>6, <1>9
  <2>2. i \in Nat /\ j - 1 \in Nat /\ i <= j - 1
    BY <1>9
  <2>3. Bound(i, q, m) <= Bound(j - 1, q, m)
    BY <1>2, <2>2, BoundFacts
  <2> QED BY <1>5, <2>1, <2>3
<1>10. \A i, j \in 1 .. n : i # j => S[i] \cap S[j] = {}
  <2>1. \A i, j \in 1 .. n : i # j => i < j \/ j < i
    OBVIOUS
  <2> QED BY <1>9, <2>1
<1>11. Divides(S, n, 1 .. Rows)
  BY <1>7, <1>8, <1>10 DEF Divides
<1> QED BY <1>1, <1>11 DEF DG!Items

(* The IDs of the parallel services number the parts. *)
LEMMA IDsNumber ==
    ASSUME dep \in Deployments, Proper
    PROVE  /\ \A f \in ServicesOf(App.parallel) : ID(f) + 1 \in 1 .. dep.num
           /\ \A i \in 1 .. dep.num : \E f \in ServicesOf(App.parallel) : ID(f) + 1 = i
           /\ \A f, g \in ServicesOf(App.parallel) : ID(f) = ID(g) => f = g
<1>1. PICK n, ids : n = dep.num /\ ids = dep.ids
  OBVIOUS
<1>2. /\ n \in Nat \ {0} /\ ids \in Seq(Nat) /\ Len(ids) = n /\ Range(ids) = 0 .. n - 1
  BY <1>1, DeploymentsAssumption DEF Proper, IDsFit
<1>3. DOMAIN ids = 1 .. n /\ ids \in [1 .. n -> 0 .. n - 1]
      /\ \A i \in 0 .. n - 1 : \E k \in 1 .. n : ids[k] = i
  <2>1. DOMAIN ids = 1 .. n
    BY <1>2
  <2>2. \A k \in 1 .. n : ids[k] \in Range(ids)
    BY <2>1 DEF Range
  <2>3. \A i \in Range(ids) : \E k \in 1 .. n : ids[k] = i
    BY <2>1 DEF Range
  <2>4. ids \in [1 .. n -> Nat] /\ \A k \in 1 .. n : ids[k] \in 0 .. n - 1
    BY <1>2, <2>2
  <2> QED BY <1>2, <2>1, <2>3, <2>4
<1>4. \A j, k \in 1 .. n : ids[j] = ids[k] => j = k
  <2>1. ids \in Surjection(1 .. n, 0 .. n - 1)
    BY <1>3 DEF Surjection
  <2>2. /\ IsFiniteSet(1 .. n) /\ Cardinality(1 .. n) = n
        /\ IsFiniteSet(0 .. n - 1) /\ Cardinality(0 .. n - 1) = n
    <3>1. n - 1 \in Nat /\ (n - 1) + 1 = n
      BY <1>2
    <3> QED BY <1>2, <3>1, IntervalFacts
  <2>3. ids \in Injection(1 .. n, 0 .. n - 1)
    BY <2>1, <2>2, FS_Surjection
  <2> QED BY <2>3 DEF Injection, IsInjective
<1>5. ServicesOf(App.parallel) = {App.parallel} \X (1 .. n)
  BY <1>1, <1>3 DEF ServicesOf
<1>6. \A k \in 1 .. n : <<App.parallel, k>> \in ServicesOf(App.parallel)
                        /\ ID(<<App.parallel, k>>) = ids[k]
  BY <1>1, <1>5 DEF ID
<1>7. \A f \in ServicesOf(App.parallel) :
        \E k \in 1 .. n : f = <<App.parallel, k>> /\ ID(f) = ids[k]
  BY <1>5, <1>6
<1>8. \A f \in ServicesOf(App.parallel) : ID(f) + 1 \in 1 .. n
  <2> SUFFICES ASSUME NEW f \in ServicesOf(App.parallel) PROVE ID(f) + 1 \in 1 .. n
    OBVIOUS
  <2>1. ID(f) \in 0 .. n - 1
    BY <1>3, <1>7
  <2> QED BY <1>2, <2>1
<1>9. ASSUME NEW i \in 1 .. n PROVE \E f \in ServicesOf(App.parallel) : ID(f) + 1 = i
  <2>1. PICK k \in 1 .. n : ids[k] = i - 1
    BY <1>2, <1>3
  <2>2. ID(<<App.parallel, k>>) + 1 = i
    BY <1>6, <2>1
  <2> QED BY <1>6, <2>2
<1>10. \A f, g \in ServicesOf(App.parallel) : ID(f) = ID(g) => f = g
  BY <1>4, <1>7
<1> QED BY <1>1, <1>8, <1>9, <1>10

(* The shares of the parallel services divide the work. *)
LEMMA SharesDivide ==
    ASSUME dep \in Deployments, Proper, dep.app \in {"wordcount", "finra", "ml", "digits"}
    PROVE  \E S : /\ Divides(S, dep.num, Items)
                  /\ \A f \in ServicesOf(App.parallel) : Share(f) = S[ID(f) + 1]
<1>1. dep.num \in Nat \ {0} /\ dep.num = Len(dep.ids)
  BY DeploymentsAssumption DEF Proper, IDsFit
<1>2. CASE dep.app = "wordcount"
  <2>1. PICK S : S = WC!split(dep.num)
    OBVIOUS
  <2>2. Divides(S, dep.num, Items)
    BY <1>1, <1>2, <2>1, SplitDivides DEF Items
  <2>3. \A f : Share(f) = S[ID(f) + 1]
    BY <1>2, <2>1 DEF Share
  <2> QED BY <2>2, <2>3
<1>3. CASE dep.app = "digits"
  <2>1. PICK S : S = DG!array_split(dep.num)
    OBVIOUS
  <2>2. Divides(S, dep.num, Items)
    BY <1>1, <1>3, <2>1, RowsDivide DEF Items
  <2>3. \A f : Share(f) = S[ID(f) + 1]
    BY <1>3, <2>1 DEF Share
  <2> QED BY <2>2, <2>3
<1>4. CASE dep.app = "ml"
  <2>1. PICK S : S = ML!post_handle(dep.num)
    OBVIOUS
  <2>2. Divides(S, dep.num, Items)
    BY <1>1, <1>4, <2>1, BundlesDivide DEF Items, Proper, BundlesFit
  <2>3. \A f : Share(f) = S[ID(f) + 1]
    BY <1>4, <2>1 DEF Share
  <2> QED BY <2>2, <2>3
<1>5. CASE dep.app = "finra"
  <2>1. PICK S : S = [i \in 1 .. 2 |-> {i}]
    OBVIOUS
  <2>2. dep.num = 2 /\ Items = {1, 2}
    BY <1>1, <1>5, DeploymentsAssumption DEF Items, FI!Items
  <2>3. Divides(S, dep.num, Items)
    BY <2>1, <2>2 DEF Divides
  <2>4. \A f \in ServicesOf(App.parallel) : Share(f) = S[ID(f) + 1]
    BY <1>5, <2>1, <2>2, IDsNumber DEF Share
  <2> QED BY <2>3, <2>4
<1> QED BY <1>2, <1>3, <1>4, <1>5

(* A run that has read the share of each parallel service has read every   *)
(* item once.                                                              *)
LEMMA GatheredOnce ==
    ASSUME dep \in Deployments, Proper, BarrierComplete,
           ~(dep.app = "wordcount" /\ dep.protocol = "ES"), NEW r \in Gathered, ReadFits(r)
    PROVE  /\ UNION {r.read[n][1] : n \in DOMAIN r.read} = Items
           /\ \A m, n \in DOMAIN r.read : m # n => r.read[m][1] \cap r.read[n][1] = {}
<1>1. /\ r \in ran /\ r.svc[1] \in App.wait /\ Before(r.svc[1]) = App.parallel
      /\ r.read # << >>
  BY DEF Gathered
<1>2. PICK D, from, P : /\ D = DOMAIN r.read /\ from = r.from
                        /\ P = ServicesOf(App.parallel)
  OBVIOUS
<1>3. /\ D = DOMAIN from /\ dep.app # "micro"
      /\ \A n \in D : r.read[n] = << Share(from[n]) >>
      /\ \A m, n \in D : from[m] = from[n] => m = n
  BY <1>1, <1>2 DEF ReadFits
<1>4. Range(from) = P
  BY <1>1, <1>2 DEF BarrierComplete
<1>5. dep.app \in {"wordcount", "finra", "ml", "digits"}
  BY <1>1, <1>3, AppCases
<1>6. PICK S : /\ Divides(S, dep.num, Items)
               /\ \A f \in P : Share(f) = S[ID(f) + 1]
  BY <1>2, <1>5, SharesDivide
<1>7. PICK num : num = dep.num
  OBVIOUS
<1>8. PICK k : k = [n \in D |-> ID(from[n]) + 1]
  OBVIOUS
<1>9. \A n \in D : from[n] \in P
  BY <1>3, <1>4 DEF Range
<1>10. ASSUME NEW n \in D PROVE k[n] \in 1 .. num /\ r.read[n][1] = S[k[n]]
  <2>1. from[n] \in P /\ r.read[n] = << Share(from[n]) >> /\ k[n] = ID(from[n]) + 1
    BY <1>3, <1>8, <1>9
  <2>2. k[n] \in 1 .. num
    BY <1>2, <1>7, <2>1, IDsNumber
  <2> QED BY <1>6, <2>1, <2>2
<1>11. ASSUME NEW m \in D, NEW n \in D, k[m] = k[n] PROVE m = n
  <2>1. ID(from[m]) + 1 = ID(from[n]) + 1 /\ from[m] \in P /\ from[n] \in P
    BY <1>8, <1>9, <1>11
  <2>2. ID(from[m]) + 1 \in 1 .. num /\ ID(from[n]) + 1 \in 1 .. num
    BY <1>2, <1>7, <2>1, IDsNumber
  <2>3. ID(from[m]) \in Nat /\ ID(from[n]) \in Nat
    BY <1>2, <2>1, IDFacts
  <2>4. ID(from[m]) = ID(from[n])
    BY <2>1, <2>3
  <2>5. from[m] = from[n]
    BY <1>2, <2>1, <2>4, IDsNumber
  <2> QED BY <1>3, <2>5
<1>12. ASSUME NEW i \in 1 .. num PROVE \E n \in D : k[n] = i
  <2>1. PICK f \in P : ID(f) + 1 = i
    BY <1>2, <1>7, IDsNumber
  <2>2. PICK n \in D : from[n] = f
    BY <1>3, <1>4 DEF Range
  <2> QED BY <1>8, <2>1, <2>2
<1>13. \A l \in Items : \E n \in D : l \in r.read[n][1]
  BY <1>6, <1>7, <1>10, <1>12 DEF Divides
<1>14. \A n \in D : r.read[n][1] \subseteq Items
  BY <1>6, <1>7, <1>10 DEF Divides
<1>15. \A m, n \in D : m # n => r.read[m][1] \cap r.read[n][1] = {}
  BY <1>6, <1>7, <1>10, <1>11 DEF Divides
<1>16. UNION {r.read[n][1] : n \in D} = Items
  BY <1>13, <1>14
<1> QED BY <1>2, <1>15, <1>16

(* The results that come together in a reducer, in combine or in the audit *)
(* rule cover each line or row exactly once, for every number of workers   *)
(* and every numbering of them by ID, and whatever the order of their      *)
(* events.                                                                 *)
THEOREM WorkCorrect == Spec => []WorkOnce
<1>1. Init => LoadInv /\ DataInv
  BY LoadInit, DataInit
<1>2. LoadInv /\ DataInv /\ [Next]_vars => (LoadInv /\ DataInv)'
  BY LoadNext, DataNext
<1>3. LoadInv /\ DataInv => WorkOnce
  <2> SUFFICES ASSUME LoadInv, DataInv, Proper,
                      ~(dep.app = "wordcount" /\ dep.protocol = "ES"), NEW r \in Gathered
               PROVE  /\ UNION {r.read[n][1] : n \in DOMAIN r.read} = Items
                      /\ \A m, n \in DOMAIN r.read :
                            m # n => r.read[m][1] \cap r.read[n][1] = {}
    BY DEF WorkOnce, EachOnce
  <2>1. r \in ran /\ App.wait # {}
    BY DEF Gathered
  <2>2. dep \in Deployments /\ BarrierComplete
    BY <2>1 DEF LoadInv, TypeInv, BarrierInv
  <2>3. ReadFits(r)
    BY <2>1 DEF DataInv, DataKept, ReadsFit
  <2> QED BY <2>2, <2>3, GatheredOnce
<1> QED BY <1>1, <1>2, <1>3, PTL DEF Spec

-----------------------------------------------------------------------------
(* What the trainers have done when combinemodels runs *)

(* A function that no broker feeds runs once for a workflow. *)
RunsOnce ==
    App.wait # {} =>
        \A t, u \in ran : t.svc[1] \notin App.broker /\ t.svc = u.svc /\ t.wf = u.wf => t = u

(* A step adds at most one run, of a function that has not run yet. *)
LEMMA OnceStep ==
    ASSUME dep' = dep, RunsOnce, NEW svc, NEW wf, svc[1] \notin App.broker => ~Did(svc, wf),
           \/ ran' = ran
           \/ \E x : x.svc = svc /\ x.wf = wf /\ ran' = ran \cup {x}
    PROVE  RunsOnce'
<1>1. App' = App
  BY ShapeKept
<1>2. CASE ran' = ran
  BY <1>1, <1>2 DEF RunsOnce
<1>3. CASE \E x : x.svc = svc /\ x.wf = wf /\ ran' = ran \cup {x}
  <2>1. PICK x : x.svc = svc /\ x.wf = wf /\ ran' = ran \cup {x}
    BY <1>3
  <2>2. svc[1] \notin App.broker => \A t \in ran : ~(t.svc = svc /\ t.wf = wf)
    BY DEF Did
  <2> QED BY <1>1, <2>1, <2>2 DEF RunsOnce
<1> QED BY <1>2, <1>3

(* A handler that ends adds at most its own run. *)
LEMMA OneRun ==
    ASSUME NEW svc, NEW wf, NEW loop, NEW metas, NEW r, NEW rest,
           \/ Completes(svc, wf, loop, metas, r, rest)
           \/ Fails(svc, wf, r, rest)
           \/ Dies(svc, wf, r, rest)
    PROVE  \/ ran' = ran
           \/ \E x : x.svc = svc /\ x.wf = wf /\ ran' = ran \cup {x}
<1>1. CASE Completes(svc, wf, loop, metas, r, rest)
  <2>1. PICK x : x = RunOf(svc, wf, metas, r)
    OBVIOUS
  <2>2. x.svc = svc /\ x.wf = wf
    BY <2>1 DEF RunOf
  <2>3. ran' = ran \cup {x}
    BY <1>1, <2>1 DEF Completes, RunOf
  <2> QED BY <2>2, <2>3
<1>2. CASE Fails(svc, wf, r, rest) \/ Dies(svc, wf, r, rest)
  BY <1>2 DEF Fails, Dies
<1> QED BY <1>1, <1>2

(* Every step keeps it: an event is on its way only to a function that has *)
(* not run yet.                                                            *)
LEMMA OnceNext ==
    ASSUME LoadInv, RunsOnce, [Next]_vars
    PROVE  RunsOnce'
<1>1. CASE UNCHANGED vars
  BY <1>1, ShapeKept DEF vars, history, RunsOnce
<1>2. ASSUME dep' = dep, App.wait = {} PROVE RunsOnce'
  BY <1>2, ShapeKept DEF RunsOnce
<1>3. ASSUME dep' = dep, ran' = ran PROVE RunsOnce'
  BY <1>3, ShapeKept DEF RunsOnce
<1>4. ASSUME NEW y \in pings, Start(y) PROVE RunsOnce'
  <2>1. PICK svc, wf, metas : svc = <<First, 1>> /\ wf = started + 1 /\ metas = << >>
    OBVIOUS
  <2>2. PICK r : \/ Completes(svc, wf, y.loop, metas, r, inflight)
                 \/ Fails(svc, wf, r, inflight)
    BY <1>4, <2>1 DEF Start
  <2>3. dep' = dep
    BY <1>4 DEF Start
  <2>4. CASE App.wait # {}
    <3>1. RunsKept /\ started \in Nat
      BY <2>4 DEF LoadInv, BarrierInv, NumbersKept
    <3>2. ~Did(svc, wf)
      BY <2>1, <3>1 DEF RunsKept, RunKept, Did
    <3>3. \/ ran' = ran
          \/ \E x : x.svc = svc /\ x.wf = wf /\ ran' = ran \cup {x}
      BY <2>2, OneRun
    <3> QED BY <2>3, <3>2, <3>3, OnceStep
  <2> QED BY <1>2, <2>3, <2>4
<1>5. ASSUME NEW e \in inflight, dep' = dep,
             \/ ran' = ran
             \/ \E x : x.svc = e.svc /\ x.wf = e.wf /\ ran' = ran \cup {x}
      PROVE  RunsOnce'
  <2>1. CASE App.wait # {}
    <3>1. EventKept(e)
      BY <2>1 DEF LoadInv, BarrierInv, EventsKept
    <3>2. e.svc[1] \notin App.broker => ~Did(e.svc, e.wf)
      BY <3>1 DEF EventKept
    <3> QED BY <1>5, <3>2, OnceStep
  <2> QED BY <1>2, <1>5, <2>1
<1>6. ASSUME NEW e \in Requests, Handle(e) PROVE RunsOnce'
  <2>1. PICK metas : metas = <<e>>
    OBVIOUS
  <2>2. PICK again, r : \/ Completes(e.svc, e.wf, e.loop, metas, r, Left(e, again))
                        \/ Fails(e.svc, e.wf, r, Left(e, again))
                        \/ Dies(e.svc, e.wf, r, Left(e, again))
    BY <1>6, <2>1 DEF Handle
  <2>3. \/ ran' = ran
        \/ \E x : x.svc = e.svc /\ x.wf = e.wf /\ ran' = ran \cup {x}
    BY <2>2, OneRun
  <2>4. e \in inflight /\ dep' = dep
    BY <1>6 DEF Requests, Handle
  <2> QED BY <1>5, <2>3, <2>4
<1>7. ASSUME NEW e \in Requests, NEW p \in Processes, Join(e, p) PROVE RunsOnce'
  <2>1. PICK metas : metas = Events(e, p)
    OBVIOUS
  <2>2. PICK again, r : \/ Completes(e.svc, e.wf, e.loop, metas, r, Left(e, again))
                        \/ Fails(e.svc, e.wf, r, Left(e, again))
                        \/ Dies(e.svc, e.wf, r, Left(e, again))
    BY <1>7, <2>1 DEF Join
  <2>3. \/ ran' = ran
        \/ \E x : x.svc = e.svc /\ x.wf = e.wf /\ ran' = ran \cup {x}
    BY <2>2, OneRun
  <2>4. e \in inflight /\ dep' = dep
    BY <1>7 DEF Requests, Join
  <2> QED BY <1>5, <2>3, <2>4
<1>8. ASSUME \/ \E e \in Requests, p \in Processes : Wait(e, p)
             \/ \E e \in inflight : Return(e)
             \/ \E e \in inflight : Lose(e)
             \/ \E svc \in Services, p \in Processes : Crash(svc, p)
      PROVE  RunsOnce'
  <2>1. dep' = dep /\ ran' = ran
    BY <1>8 DEF Wait, Return, Lose, Crash, history
  <2> QED BY <1>3, <2>1
<1> QED BY <1>1, <1>4, <1>6, <1>7, <1>8 DEF Next, Deliver

(* When combinemodels runs, there is exactly one run of each trainer, and  *)
(* it has read the bundle of that trainer.                                 *)
LEMMA TrainersRan ==
    ASSUME LoadInv, DataInv, RunsOnce, Proper, dep.app = "ml",
           NEW r \in ran, r.svc[1] = "combinemodels"
    PROVE  /\ \A t \in ParallelRuns(r.wf) : /\ t.svc \in ServicesOf(App.parallel)
                                            /\ t.read[1] = << Share(t.svc) >>
           /\ \A f \in ServicesOf(App.parallel) : \E t \in ParallelRuns(r.wf) : t.svc = f
           /\ \A t, u \in ParallelRuns(r.wf) : t.svc = u.svc => t = u
<1>1. /\ App = ML!App /\ First = "source" /\ Before("combinemodels") = "trainer"
      /\ App.parallel = "trainer" /\ App.broker = {"source", "sink"} /\ App.wait # {}
  BY MLPipelineFacts DEF ML!App, LoadInv, TypeInv
<1>2. dep \in Deployments /\ RunsKept /\ ReadsFit
  BY <1>1 DEF LoadInv, TypeInv, BarrierInv, DataInv, DataKept
<1>3. ASSUME NEW t \in ParallelRuns(r.wf)
      PROVE  t.svc \in ServicesOf(App.parallel) /\ t.read[1] = << Share(t.svc) >>
  <2>1. t \in ran /\ t.svc[1] = "trainer"
    BY <1>1 DEF ParallelRuns
  <2>2. t.svc \in Services /\ ReadFits(t)
    BY <1>2, <2>1 DEF RunsKept, RunKept, ReadsFit
  <2>3. t.svc \in ServicesOf(t.svc[1])
    BY <1>2, <2>2, FlowShape
  <2> QED BY <1>1, <2>1, <2>2, <2>3 DEF ReadFits
<1>4. ASSUME NEW f \in ServicesOf(App.parallel)
      PROVE  \E t \in ParallelRuns(r.wf) : t.svc = f
  <2>1. RunKept(r)
    BY <1>2 DEF RunsKept
  <2>2. Did(f, r.wf)
    BY <1>1, <2>1 DEF RunKept
  <2>3. f[1] = App.parallel
    BY DEF ServicesOf
  <2> QED BY <2>2, <2>3 DEF Did, ParallelRuns
<1>5. ASSUME NEW t \in ParallelRuns(r.wf), NEW u \in ParallelRuns(r.wf), t.svc = u.svc
      PROVE  t = u
  <2>1. t \in ran /\ u \in ran /\ t.wf = u.wf /\ t.svc[1] = "trainer"
    BY <1>1 DEF ParallelRuns
  <2>2. t.svc[1] \notin App.broker
    BY <1>1, <2>1
  <2> QED BY <1>1, <1>5, <2>1, <2>2 DEF RunsOnce
<1> QED BY <1>3, <1>4, <1>5

(* Together they have trained every hyper-parameter once. *)
LEMMA TrainedAll ==
    ASSUME LoadInv, DataInv, RunsOnce, Proper, dep.app = "ml",
           NEW r \in ran, r.svc[1] = "combinemodels"
    PROVE  /\ UNION {t.read[1][1] : t \in ParallelRuns(r.wf)} = Items
           /\ \A t, u \in ParallelRuns(r.wf) : t # u => t.read[1][1] \cap u.read[1][1] = {}
<1>1. PICK T, P, num : T = ParallelRuns(r.wf) /\ P = ServicesOf(App.parallel) /\ num = dep.num
  OBVIOUS
<1>2. /\ \A t \in T : t.svc \in P /\ t.read[1] = << Share(t.svc) >>
      /\ \A f \in P : \E t \in T : t.svc = f
      /\ \A t, u \in T : t.svc = u.svc => t = u
  BY <1>1, TrainersRan
<1>3. dep \in Deployments
  BY DEF LoadInv, TypeInv
<1>4. PICK S : Divides(S, num, Items) /\ \A f \in P : Share(f) = S[ID(f) + 1]
  BY <1>1, <1>3, SharesDivide
<1>5. /\ \A f \in P : ID(f) + 1 \in 1 .. num /\ ID(f) \in Nat
      /\ \A i \in 1 .. num : \E f \in P : ID(f) + 1 = i
      /\ \A f, g \in P : ID(f) = ID(g) => f = g
  <2>1. \A f \in P : ID(f) \in 0 .. num - 1 /\ num \in Nat
    BY <1>1, <1>3, IDFacts
  <2>2. \A f \in P : ID(f) \in Nat
    BY <2>1
  <2> QED BY <1>1, <1>3, <2>2, IDsNumber
<1>6. PICK k : k = [t \in T |-> ID(t.svc) + 1]
  OBVIOUS
<1>7. \A t \in T : k[t] \in 1 .. num /\ t.read[1][1] = S[k[t]]
  BY <1>2, <1>4, <1>5, <1>6
<1>8. ASSUME NEW t \in T, NEW u \in T, k[t] = k[u] PROVE t = u
  <2>1. ID(t.svc) + 1 = ID(u.svc) + 1 /\ ID(t.svc) \in Nat /\ ID(u.svc) \in Nat
    BY <1>2, <1>5, <1>6, <1>8
  <2>2. ID(t.svc) = ID(u.svc)
    BY <2>1
  <2> QED BY <1>2, <1>5, <2>2
<1>9. \A i \in 1 .. num : \E t \in T : k[t] = i
  BY <1>2, <1>5, <1>6
<1>10. \A l \in Items : \E t \in T : l \in t.read[1][1]
  BY <1>4, <1>7, <1>9 DEF Divides
<1>11. \A t \in T : t.read[1][1] \subseteq Items
  BY <1>4, <1>7 DEF Divides
<1>12. \A t, u \in T : t # u => t.read[1][1] \cap u.read[1][1] = {}
  BY <1>4, <1>7, <1>8 DEF Divides
<1>13. UNION {t.read[1][1] : t \in T} = Items
  BY <1>10, <1>11
<1> QED BY <1>1, <1>12, <1>13

(* When combinemodels runs, each of the hyper-parameters has been trained  *)
(* by exactly one run of a trainer, for every number of trainers that      *)
(* divides them and every numbering of the trainers by ID.                 *)
THEOREM TrainedCorrect == Spec => []BundlesTrained
<1>1. Init => LoadInv /\ DataInv /\ RunsOnce
  BY LoadInit, DataInit DEF Init, RunsOnce
<1>2. LoadInv /\ DataInv /\ RunsOnce /\ [Next]_vars => (LoadInv /\ DataInv /\ RunsOnce)'
  BY LoadNext, DataNext, OnceNext
<1>3. LoadInv /\ DataInv /\ RunsOnce => BundlesTrained
  BY TrainedAll DEF BundlesTrained
<1> QED BY <1>1, <1>2, <1>3, PTL DEF Spec
=============================================================================
