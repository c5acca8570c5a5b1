------------------------------ MODULE Workflow ------------------------------
(***************************************************************************)
(* The serverless workflows of exp/: a ping starts a workflow, whose       *)
(* functions run in services of their own.  The answer of a function is an *)
(* event that Knative takes to the services of the next stage (app.py).  A *)
(* stage that waits keeps the events of a workflow in upstream_info until  *)
(* UPSTREAM_NUM of them are there.  The last function of a workflow sends  *)
(* the next ping, until the loop count of the first one has run down.      *)
(*                                                                         *)
(* Events are delivered in any order.  The channels deliver an event at    *)
(* most once; the broker may deliver one twice.  A handler runs to its end *)
(* without interruption, as a process has one thread and handle_ce awaits  *)
(* nothing.  Processes may crash and be started again, events may be lost, *)
(* pulls may fail: `faults' bounds how often.                              *)
(***************************************************************************)
EXTENDS Transfer, FiniteSets, Functions

CONSTANTS
    Deployments,   \* what the service files and the first pings choose
    Lines, Rows    \* the data sets of wordcount and digital-minist

ASSUME SizesAssumption == Lines \in Nat \ {0} /\ Rows \in Nat \ {0}

(* app, protocol: the workflow and util.PROTOCOL                           *)
(* num:      number of workers the configuration asks for (mapperNum, ...) *)
(* ids:      ids[n] is the ID of the n-th service of the parallel stage    *)
(* procs:    processes of a stage that waits                               *)
(* pings, loop: pings from outside, and the loop count they carry          *)
(* resident: do all objects lie in pages that the first push described?    *)
(* faults, dups: bounds on the faults and on the events delivered twice    *)
ASSUME DeploymentsAssumption ==
    \A d \in Deployments :
        /\ d.app \in {"wordcount", "finra", "ml", "digits", "micro", "thpt"}
        /\ d.num \in Nat \ {0} /\ d.ids \in Seq(Nat) /\ d.procs \in Nat \ {0}
        /\ d.pings \in Nat /\ d.loop \in Nat /\ d.resident \in BOOLEAN
        /\ d.faults \in Nat /\ d.dups \in Nat
        (* app.py:74, UPSTREAM_NUM is the number of workers; finra: of fetchers *)
        /\ Len(d.ids) = IF d.app = "finra" THEN 2 ELSE d.num
        (* thpt: one service per stage, no loop count; a post that hangs is not modelled *)
        /\ d.app = "thpt" => d.num = 1 /\ d.loop = 0 /\ d.faults = 0

VARIABLES
    dep,       \* the deployment that runs; it never changes
    pings,     \* pings in flight, each with its loop count and its sender:
               \* <<0, n>> outside, <<wf, n>> the n-th run of wf's last function
    started,   \* number of workflows; wf_id of the last one
    inflight,  \* events in flight
    info,      \* info[s][p]: upstream_info of process p of stage s, wf_id -> events
    blocked,   \* services whose process waits for the answer to a post
    ran,       \* history: the runs of handlers that returned
    failed,    \* history: <<stage, wf>>, a handler raised or its process died
    ended,     \* history: workflows whose last function ran (thpt: whose
               \* first function got its answer)
    faults,    \* faults that may still happen
    dups       \* events that may still be delivered twice

history == <<ran, failed, ended>>
vars == <<dep, pings, started, inflight, store, heap, info, blocked, history,
          faults, dups>>

WC == INSTANCE WordCount
FI == INSTANCE Finra
ML == INSTANCE MLPipeline
DG == INSTANCE Digits
MI == INSTANCE Micro
TH == INSTANCE Throughput

App == CASE dep.app = "wordcount" -> WC!App
         [] dep.app = "finra"     -> FI!App
         [] dep.app = "ml"        -> ML!App
         [] dep.app = "digits"    -> DG!App
         [] dep.app = "micro"     -> MI!App
         [] dep.app = "thpt"      -> TH!App

Handler(stage, env, metas) ==
    CASE dep.app = "wordcount" -> WC!handler(stage, env, metas)
      [] dep.app = "finra"     -> FI!handler(stage, env, metas)
      [] dep.app = "ml"        -> ML!handler(stage, env, metas)
      [] dep.app = "digits"    -> DG!handler(stage, env, metas)
      [] dep.app = "micro"     -> MI!handler(stage, env, metas)
      [] dep.app = "thpt"      -> TH!handler(stage, env, metas)

(* UPSTREAM_NUM of a stage that waits *)
UpstreamNum(stage) ==
    CASE dep.app = "wordcount" -> WC!upstream_num(stage, dep.num)
      [] dep.app = "finra"     -> FI!upstream_num(stage, dep.num)
      [] dep.app = "ml"        -> ML!upstream_num(stage, dep.num)
      [] dep.app = "digits"    -> DG!upstream_num(stage, dep.num)
      [] dep.app = "micro"     -> MI!upstream_num(stage, dep.num)

(* The work a workflow divides among its parallel services. *)
Items ==
    CASE dep.app = "wordcount" -> WC!Items(dep.num)
      [] dep.app = "finra"     -> FI!Items(dep.num)
      [] dep.app = "ml"        -> ML!Items(dep.num)
      [] dep.app = "digits"    -> DG!Items(dep.num)

-----------------------------------------------------------------------------
MaxWf == (dep.pings + dep.dups) * (dep.loop + 1)

Stages    == Range(App.flow)
First     == App.flow[1]
Last      == App.flow[Len(App.flow)]
After(s)  == App.flow[1 + CHOOSE k \in DOMAIN App.flow : App.flow[k] = s]
Before(s) == App.flow[(CHOOSE k \in DOMAIN App.flow : App.flow[k] = s) - 1]

ServicesOf(s) == {s} \X (IF s = App.parallel THEN DOMAIN dep.ids ELSE {1})
Services == UNION {ServicesOf(s) : s \in Stages}
Processes == 1 .. dep.procs

ID(svc) == IF svc[1] = App.parallel THEN dep.ids[svc[2]] ELSE 0

TypeOK ==
    /\ dep \in Deployments
    /\ \A x \in pings : x.loop \in 0 .. dep.loop /\ x.by \in Nat \X Nat
    /\ started \in 0 .. MaxWf
    /\ \A e \in inflight :
          /\ e.type \in Stages \cup {"reply"}
          /\ e.svc \in Services /\ e.from \in Services
          /\ e.wf \in 1 .. started /\ e.loop \in 0 .. dep.loop
    /\ heap \in [Services -> [epoch : Nat, gen : Nat, visible : BOOLEAN]]
    /\ \A s \in App.wait, p \in Processes : \A wf \in DOMAIN info[s][p] :
          \A n \in DOMAIN info[s][p][wf] : info[s][p][wf][n].wf = wf
    /\ blocked \subseteq Services
    /\ ended \subseteq 1 .. started
    /\ faults \in 0 .. dep.faults /\ dups \in 0 .. dep.dups

Init ==
    /\ dep \in Deployments
    /\ pings = {[loop |-> dep.loop, by |-> <<0, n>>] : n \in 1 .. dep.pings}
    /\ started = 0
    /\ inflight = {}
    /\ store = << >>
    /\ heap = [s \in Services |-> FreshHeap(0)]
    /\ info = [s \in App.wait |-> [p \in Processes |-> << >>]]
    /\ blocked = {}
    /\ ran = {} /\ failed = {} /\ ended = {}
    /\ faults = dep.faults /\ dups = dep.dups

-----------------------------------------------------------------------------
(* faas_entry *)

(* What the handler of service svc does with the events metas. *)
Result(svc, wf, metas, pulled) ==
    Handler(svc[1], [protocol |-> dep.protocol, svc |-> svc, id |-> ID(svc),
                     num |-> dep.num, wf |-> wf, pulled |-> pulled], metas)

(* Does a pull of this run succeed?  Only asked where it matters. *)
Pulls(svc, wf, metas) ==
    {TRUE} \cup IF faults > 0 /\ Result(svc, wf, metas, FALSE) # Result(svc, wf, metas, TRUE)
                THEN {FALSE} ELSE {}

Charged(pulled) == faults' = IF pulled THEN faults ELSE faults - 1

(* The broker may deliver an event to stage s again. *)
Again(s) == {FALSE} \cup IF dups > 0 /\ s \in App.broker THEN {TRUE} ELSE {}

Delivered(again) == dups' = IF again THEN dups - 1 ELSE dups

Left(e, again) == IF again THEN inflight ELSE inflight \ {e}

(* The answer of svc, sent to every service of the next stage. *)
Sent(svc, wf, loop, fields) ==
    IF svc[1] = Last THEN {}
    ELSE {[type |-> svc[1], svc |-> to, from |-> svc, wf |-> wf, loop |-> loop,
           fields |-> fields] : to \in ServicesOf(After(svc[1]))}

(* thpt: the answer to the post of the stage before. *)
Reply(svc, wf) ==
    IF ~App.sync \/ svc[1] = First THEN {}
    ELSE {[type |-> "reply", svc |-> to, from |-> svc, wf |-> wf, loop |-> 0,
           fields |-> << >>] : to \in ServicesOf(Before(svc[1]))}

(* How often service svc has run for workflow wf. *)
Runs(svc, wf) == Cardinality({r \in ran : r.svc = svc /\ r.wf = wf})

(* The handler returns. *)
Completes(svc, wf, loop, metas, r, rest) ==
    /\ r.ok
    /\ store' = Update(store, r.puts)
    /\ IF r.push
       THEN \E visible \in IF heap[svc].gen = 0 \/ dep.resident THEN {TRUE} ELSE BOOLEAN :
              heap' = [heap EXCEPT ![svc] = Pushed(svc, visible)]
       ELSE UNCHANGED heap
    /\ inflight' = rest \cup IF svc[1] = Last THEN Reply(svc, wf)
                                              ELSE Sent(svc, wf, loop, r.fields)
    /\ blocked' = IF App.sync /\ svc[1] # Last THEN blocked \cup {svc} ELSE blocked
    /\ ran' = ran \cup {[svc |-> svc, wf |-> wf, read |-> r.read,
                         from |-> [n \in DOMAIN metas |-> metas[n].from],
                         run |-> Runs(svc, wf) + 1]}
    /\ ended' = IF svc[1] = Last /\ ~App.sync THEN ended \cup {wf} ELSE ended
    /\ UNCHANGED failed

(* It raises: the event is answered with an error and dropped. *)
Fails(svc, wf, r, rest) ==
    /\ ~r.ok \/ Garbage \in Range(r.read)
    /\ inflight' = rest \cup Reply(svc, wf)
    /\ failed' = failed \cup {<<svc[1], wf>>}
    /\ UNCHANGED <<store, heap, blocked, ran, ended>>

(* What it read was no object: the process dies and starts again.  With it *)
(* go global_obj, its registered heap and upstream_info.                   *)
Restarted(svc) == heap' = [heap EXCEPT ![svc] = FreshHeap(@.epoch + 1)]

Dies(svc, wf, r, rest) ==
    /\ Garbage \in Range(r.read)
    /\ Restarted(svc)
    /\ inflight' = rest
    /\ failed' = failed \cup {<<svc[1], wf>>}
    /\ UNCHANGED <<store, blocked, ran, ended>>

(* A ping: the first function makes a new wf_id. *)
Start(x) ==
    LET svc == <<First, 1>>
        r   == Result(svc, started + 1, << >>, TRUE)
    IN
    /\ svc \notin blocked
    /\ \E again \in Again(First) :
         /\ Delivered(again)
         /\ pings' = IF again THEN pings ELSE pings \ {x}
    /\ started' = started + 1
    /\ \/ Completes(svc, started + 1, x.loop, << >>, r, inflight)
       \/ Fails(svc, started + 1, r, inflight)
    /\ UNCHANGED <<dep, info, faults>>

(* Mutant: the loop count is not counted down. *)
NextPingsSame(e) ==
    IF e.loop > 0
    THEN pings \cup {[loop |-> e.loop, by |-> <<e.wf, Runs(e.svc, e.wf) + 1>>]}
    ELSE pings

(* send_request of the last function *)
NextPings(e) ==
    IF e.loop > 0
    THEN pings \cup {[loop |-> e.loop - 1, by |-> <<e.wf, Runs(e.svc, e.wf) + 1>>]}
    ELSE pings

(* An event for a stage that does not wait. *)
Handle(e) ==
    LET svc == e.svc IN
    /\ svc[1] \notin App.wait
    /\ svc \notin blocked
    /\ \E again \in Again(svc[1]), pulled \in Pulls(svc, e.wf, <<e>>) :
         LET r == Result(svc, e.wf, <<e>>, pulled) IN
         /\ Delivered(again) /\ Charged(pulled)
         /\ \/ /\ Completes(svc, e.wf, e.loop, <<e>>, r, Left(e, again))
               /\ pings' = IF svc[1] = Last THEN NextPings(e) ELSE pings
            \/ Fails(svc, e.wf, r, Left(e, again)) /\ UNCHANGED pings
            \/ Dies(svc, e.wf, r, Left(e, again)) /\ UNCHANGED pings
    /\ UNCHANGED <<dep, started, info>>

-----------------------------------------------------------------------------
(* handle_ce and handle_reduce of a stage that waits, in its process p *)

(* dict[key] = value *)
Put(dict, key, value) ==
    [k \in DOMAIN dict \cup {key} |-> IF k = key THEN value ELSE dict[k]]

(* The events of a workflow that wait in process p of stage s *)
Waiting(s, p, wf) == IF wf \in DOMAIN info[s][p] THEN info[s][p][wf] ELSE << >>

(* The events of e's workflow, e included. *)
Events(e, p) == Append(Waiting(e.svc[1], p, e.wf), e)

(* Mutant: one event too few. *)
EnoughEarly(e, p) == Len(Events(e, p)) + 1 >= UpstreamNum(e.svc[1])

(* Mutant: > instead of >=. *)
EnoughMore(e, p) == Len(Events(e, p)) > UpstreamNum(e.svc[1])

Enough(e, p) == Len(Events(e, p)) >= UpstreamNum(e.svc[1])

Wait(e, p) ==
    /\ e.svc[1] \in App.wait
    /\ ~Enough(e, p)
    /\ info' = [info EXCEPT ![e.svc[1]][p] = Put(@, e.wf, Events(e, p))]
    /\ \E again \in Again(e.svc[1]) :
         Delivered(again) /\ inflight' = Left(e, again)
    /\ UNCHANGED <<dep, pings, started, store, heap, blocked, history, faults>>

(* The entry of upstream_info is removed before the handler runs. *)
Join(e, p) ==
    LET svc   == e.svc
        metas == Events(e, p)
    IN
    /\ svc[1] \in App.wait
    /\ Enough(e, p)
    /\ \E again \in Again(svc[1]), pulled \in Pulls(svc, e.wf, metas) :
         LET r == Result(svc, e.wf, metas, pulled) IN
         /\ Delivered(again) /\ Charged(pulled)
         /\ \/ /\ Completes(svc, e.wf, e.loop, metas, r, Left(e, again))
               /\ info' = [info EXCEPT ![svc[1]][p] = Restrict(@, DOMAIN @ \ {e.wf})]
               /\ pings' = IF svc[1] = Last THEN NextPings(e) ELSE pings
            \/ /\ Fails(svc, e.wf, r, Left(e, again))
               /\ info' = [info EXCEPT ![svc[1]][p] = Restrict(@, DOMAIN @ \ {e.wf})]
               /\ UNCHANGED pings
            \/ /\ Dies(svc, e.wf, r, Left(e, again))
               /\ info' = [info EXCEPT ![svc[1]][p] = << >>]
               /\ UNCHANGED pings
    /\ UNCHANGED <<dep, started>>

(* thpt: the post of service e.svc returns, so that it answers itself. *)
Return(e) ==
    /\ e.type = "reply"
    /\ blocked' = blocked \ {e.svc}
    /\ inflight' = (inflight \ {e}) \cup Reply(e.svc, e.wf)
    /\ ended' = IF e.svc[1] = First THEN ended \cup {e.wf} ELSE ended
    /\ UNCHANGED <<dep, pings, started, store, heap, info, ran, failed, faults, dups>>

-----------------------------------------------------------------------------
(* Faults *)

Lose(e) ==
    /\ faults > 0
    /\ faults' = faults - 1
    /\ inflight' = inflight \ {e}
    /\ UNCHANGED <<dep, pings, started, store, heap, info, blocked, history, dups>>

(* A process is killed between two events and started again. *)
Crash(svc, p) ==
    /\ faults > 0
    /\ faults' = faults - 1
    /\ Restarted(svc)
    /\ info' = IF svc[1] \in App.wait
               THEN [info EXCEPT ![svc[1]][p] = << >>] ELSE info
    /\ UNCHANGED <<dep, pings, started, inflight, store, blocked, history, dups>>

-----------------------------------------------------------------------------
Requests == {e \in inflight : e.type # "reply"}

Deliver ==
    \/ \E x \in pings : Start(x)
    \/ \E e \in Requests : Handle(e)
    \/ \E e \in Requests, p \in Processes : Wait(e, p) \/ Join(e, p)
    \/ \E e \in inflight : Return(e)

Next ==
    \/ Deliver
    \/ \E e \in inflight : Lose(e)
    \/ \E svc \in Services, p \in Processes : Crash(svc, p)

Spec == Init /\ [][Next]_vars

(* Knative delivers every event. *)
FairSpec == Spec /\ WF_vars(Deliver)

-----------------------------------------------------------------------------
(* Properties *)

(* The IDs of the parallel services are those the functions expect. *)
IDsFit == /\ dep.num = Len(dep.ids)
          /\ Range(dep.ids) = 0 .. dep.num - 1

(* Protocols every function of the workflow can be run with: finra and     *)
(* ml-pipeline list RRPC in their tables, but their functions do not fit   *)
(* each other there.                                                       *)
ProtocolFits ==
    dep.protocol \in
      CASE dep.app \in {"wordcount", "digits"}   -> {"ES", "RPC", "RRPC", "DMERGE", "DMERGE_PUSH"}
        [] dep.app \in {"finra", "ml", "micro"}  -> {"ES", "RPC", "DMERGE", "DMERGE_PUSH"}
        [] dep.app = "thpt" -> {"ES", "RPC", "DMERGE", "DMERGE_PUSH", "MITOSIS", "ESRDMA"}

(* The bundles of ml-pipeline come out even. *)
BundlesFit == dep.app = "ml" => ML!HyperParams % dep.num = 0

(* An object is read before its owner replaces it: one chain of workflows, *)
(* each started by the last function of the one before.                    *)
ObjectsLast ==
    dep.protocol \in {"DMERGE", "DMERGE_PUSH"} =>
        dep.pings = 1 /\ dep.dups = 0 /\ dep.resident

(* Every predictor of digital-minist has a row. *)
RowsFit == dep.app = "digits" => dep.num <= Rows

Proper ==
    /\ IDsFit /\ ProtocolFits /\ BundlesFit /\ RowsFit /\ ObjectsLast
    /\ dep.faults = 0

(* app.py:73, "Its target is to waiting all upstream-parallel workers to   *)
(* finish": a stage that waits runs at most once per workflow, with        *)
(* exactly one event of every service before it, however the events of     *)
(* several workflows are mixed and whatever fails.  An event the broker    *)
(* delivers twice can only repeat a stage that the broker feeds.           *)
BarrierComplete ==
    \A r \in ran : r.svc[1] \in App.wait =>
        /\ Range(r.from) = ServicesOf(Before(r.svc[1]))
        /\ Len(r.from) = Cardinality(Range(r.from))
        /\ r.run <= IF r.svc[1] \in App.broker THEN 1 + dep.dups - dups ELSE 1

(* The runs in which the results of the parallel stage come together, in a *)
(* stage that reads them: combinemodels of ml-pipeline does not.           *)
Gathered ==
    {r \in ran : /\ r.svc[1] \in App.wait /\ Before(r.svc[1]) = App.parallel
                 /\ r.read # << >>}

(* full-flow.py:41 and 43, "word_counts.append(mapper(lines))" and         *)
(* "word_count = reducer(word_counts)": the results that come together in  *)
(* a workflow cover each line or row exactly once.                         *)
EachOnce ==
    \A r \in Gathered :
        /\ UNION {r.read[n][1] : n \in DOMAIN r.read} = Items
        /\ \A m, n \in DOMAIN r.read :
              m # n => r.read[m][1] \cap r.read[n][1] = {}

(* The same for wordcount, digital-minist and finra with every protocol,   *)
(* under the conditions above.                                             *)
(* It does not hold of the ES variant of wordcount, whose mappers share    *)
(* one key of redis.                                                       *)
WorkOnce ==
    Proper /\ ~(dep.app = "wordcount" /\ dep.protocol = "ES") => EachOnce

(* The runs of the parallel stage for workflow wf *)
ParallelRuns(wf) == {t \in ran : t.svc[1] = App.parallel /\ t.wf = wf}

(* combinemodels goes on without looking at what was trained: that all of  *)
(* it was is up to the bundles of post_handle, the IDs of the trainers and *)
(* the barrier.  When it runs, each of the 16 hyper-parameters has been    *)
(* trained by exactly one run of a trainer.                                *)
BundlesTrained ==
    Proper /\ dep.app = "ml" =>
        \A r \in ran : r.svc[1] = "combinemodels" =>
            /\ UNION {t.read[1][1] : t \in ParallelRuns(r.wf)} = Items
            /\ \A t, u \in ParallelRuns(r.wf) :
                  t # u => t.read[1][1] \cap u.read[1][1] = {}

(* No function reads memory its owner has reused since, although every     *)
(* workflow replaces the objects of the one before and nobody tells the    *)
(* owner when an object has been read.                                     *)
FreshData ==
    Proper => \A r \in ran : Garbage \notin Range(r.read)

(* Every function finds in its events what the function before has put     *)
(* there, whatever the protocol: no handler raises and no process dies.    *)
HandlersFit == Proper => failed = {}

(* The workflows are a closed loop: however the functions fail and crash,  *)
(* there are never more workflows under way than pings were sent from      *)
(* outside, plus one for each event the broker delivered twice.            *)
LoadBounded ==
    started - Cardinality(ended) + Cardinality(pings)
        <= dep.pings + (dep.dups - dups)

(* Every ping leads to a workflow that ends, and a loop count runs down to *)
(* its last workflow.  A stage that waits must run in one process only.    *)
AllEnd ==
    <>(Proper /\ dep.procs = 1 /\ dep.dups = 0 => ended = 1 .. MaxWf)
=============================================================================
