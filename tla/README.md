# A TLA+ model of dmerge

dmerge lets a serverless function read the heap of another function on another
machine instead of receiving a serialised copy. A Linux kernel module registers
heaps, maps remote heaps and reads their pages with one-sided RDMA; Knative
workflows in Python use it next to two conventional ways to move data. This
directory models the kernel module and the workflows in TLA+, checks small instances
with TLC and proves the core properties for every instance with TLAPS.

Paths below are relative to the repository; `dmerge/src` is the kernel crate.

## 1. Inventory of the system

### Components

| component | source | state it keeps | operations |
|---|---|---|---|
| system call handler, one per open file | `core_syscall_handler.rs` | `private_heap_hint`, `public_heaps` | open, close (Drop), ioctl 0 register, 1 pull, 3 connect, 4 get gid, 5 register at a remote machine, mmap, page fault |
| heap registry | `shadow_heap/mod.rs`, `id_generator.rs` | `registered_heap`, the serialised descriptor buffers, `cur_id` | register, query, unregister, alloc id |
| heap snapshot | `shadow_heap/heap.rs`, `shadow_heap/vma.rs` | VMA descriptors and page tables of one heap | scan VMAs, walk page tables |
| heap descriptor at the consumer | `descriptors/heap.rs` | `RemotePageTable`, VMAs | deserialize, apply_to (lazy or eager), read a page, read a batch |
| RPC service | `rpc_service.rs` | `RPC_HANDLER_READY_NUM`, one thread per `rpc_threads_num` | Query, RemoteRegister, Nil, Echo |
| descriptor fetch | `network/mod.rs` | none of its own: sessions and DC QPs per CPU | one RDMA read |
| start and stop | `startup.rs`, `dmerge-kms/heap/src/lib.rs` | the module's globals | insmod, rmmod |
| workflows | `exp/wordcount`, `exp/finra`, `exp/ml-pipeline`, `exp/digital-minist`, `exp/micro`, `exp/thpt` | `upstream_info`, `global_obj`, redis | one handler per stage, the reduce barrier, the loop of pings |
| sample training workflow | `samples/knative/python/ml-pipeline` | files and S3 objects of the models, child processes | splitter, trainer (runs of child processes), reducer |
| other samples, log analysis, bootstrap, evaluation driver | `samples`, `exp/*.py`, `ae_scripts` | logs | drivers of the above |

The RDMA stack (`mitosis`, `KRdmaKit`) and the allocator (`jemalloc`) are git
submodules whose source is not part of the repository.

### How they interact

A producer registers its heap (ioctl 0): the snapshot is taken, serialised into a
pool buffer and put into the registry under a fresh hint. The hint, the machine
and the address of an object travel to the consumer in a CloudEvent. The consumer
connects (ioctl 3) and pulls (ioctl 1): its kernel thread takes the lock of its
CPU, asks an RPC thread of the producer's machine for the buffer's address, reads
the buffer over RDMA, maps the VMAs and releases the lock. Later page faults read
single pages from the producer's physical memory. ioctl 5 sends the request the
other way: an RPC thread of the remote machine fetches the caller's descriptor.

### What is hard here

* Calls, RPC threads and page faults run in parallel; only the per-CPU locks
  exclude anything, and the registry has no lock.
* Datagrams get lost and overtake each other; a caller gives up after 10 s and the
  next call of the same CPU may receive the late reply, which carries no request
  number.
* Buffers and page frames are read by address after their owner may have freed or
  reused them.
* Error exits release locks by hand, some leave state behind, and several failures
  panic with a lock held.
* Workflow events arrive in any order, may be lost, and through the broker may arrive
  twice; the barrier's state dies with its process; a handler that raises after the
  barrier opened loses its workflow.
* Objects in shared memory are replaced by the next workflow, and nobody tells the
  owner when they have been read. Sender and receiver pick the way of transfer from
  two separate tables.
* RPC threads run while the module is still being set up and torn down.
* The child processes of a sample trainer share file and object names with those of the
  next run and of other workflows, and nobody looks at how they ended.

`PROJECT.json` lists each of these hazards at its line with the properties that
cover it.

## 2. Modules

| module | models | run through |
|---|---|---|
| `RemoteMap` | system calls, registry, RPC handlers, descriptor fetch, sessions, locks, network | `MCRemoteMap` |
| `HeapRegistry` | what the module promises to processes: the abstract specification | |
| `RemoteMapRefinement` | the mapping under which `RemoteMap` implements it | `MCRemoteMap` |
| `RemoteMapProofs` | theorems about `RemoteMap`: types, locks, registry, hints | tlapm |
| `RemoteMapRefinementProofs` | theorems about what pulls and ioctl 5 deliver, and that `RemoteMap` implements `HeapRegistry` | tlapm |
| `HeapSnapshot` | VMA scan, page table walk, decoding | itself |
| `HeapSnapshotProofs` | theorems about the scan, the walk and the decoded table | tlapm |
| `HeapPaging` | mapping, page faults, the producer's writes | `MCHeapPaging` |
| `HeapPagingProofs` | theorems about pages seen and SIGSEGV | tlapm |
| `EagerFetch` | the eager batches | itself |
| `EagerFetchProofs` | theorems about the batches | tlapm |
| `Transfer` | `util.py`: redis, events, shared objects | `MCWorkflow` |
| `WordCount`, `Finra`, `MLPipeline`, `Digits`, `Micro`, `Throughput` | the functions of one workflow each (`functions.py`, `handler_dispatch`, `service.yaml`) | `MCWorkflow` |
| `Workflow` | `app.py`, the barrier, events, pings, faults; composes the seven above | `MCWorkflow` |
| `WorkflowProofs` | theorems about types, barrier, load, data and work of the workflows | tlapm |
| `TrainingSample` | the sample `ml-pipeline`: bundles, training processes, models | `MCTrainingSample` |
| `TrainingSampleProofs` | theorems about its runs, reports and models | tlapm |
| `Lifecycle` | insmod, rmmod, RPC threads, users | itself |
| `LifecycleProofs` | theorems about loading and unloading | tlapm |

Operators with the comment "Mutant" are deliberately wrong versions of the
definition that follows them. They are not used by any specification; putting one in the
definition's place must make TLC report the property named in `PROJECT.json`.

### RemoteMap

A *handler* is an open file with at most one system call in flight, a *worker* an
RPC thread. `pc[t]` and `call[t]` are the position and the locals of a thread:

    idle -> lock -> call -> wait -> fetch -> read -> idle     pull
    idle -> lock -> call -> wait -> free -> idle              ioctl 5
    idle -> lock -> fetch -> read -> idle                     serving ioctl 5

Every early return of `syscall_rmap`, `syscall_register_remote_heap` and
`handle_remote_register_fetch_apply` is a disjunct; `panicked` is where `unwrap()`
without a session and `unimplemented!()` after a DC timeout end. `reg` is
`registered_heap`, `buf` the contents of the pool buffers (by the hint whose
descriptor was written last), `sessions` what ioctl 3 has connected, `net` the set
of datagrams in flight. `timedOut`, `leaked` and `granted` are history variables.
A reply is delivered to whatever call the caller of that CPU has in flight, because
nothing on the wire says which request it answers. A reply that is too short for
the expected structure is not decoded; a longer one is read by its first word.

### HeapSnapshot

Addresses in pages. `vmas` is any list of disjoint VMAs in address order, `base`
any page, `present` any set of mapped pages. The scan takes one VMA per step, the walk
one page (`at` is its place in the VMA) and the decoder one entry of a VMA's table. The
offset is cast to `u32`, here modulo `OffsetRange`.

### HeapPaging

Producers write pages, give frames back and reuse them; the descriptor holds the
frames of the moment of registration. Consumer threads pull (`Apply`, then `Push`)
and fault (`Touch`, then one step per pulled heap). Two fault handlers, or a fault
handler and a pull, interleave at every step; a push while a fault loop runs may
move the vector, which gives arbitrary bytes. `held` and `dropped` are history.

### EagerFetch

One VMA, batches of `Batch` addresses (12 in the code). `batch_read_remote_pages` looks
at one address per step (`i`): it skips one without a translation or posts a read, the
last one signaled. Reads finish in order, also while later ones are still being posted.
Every posted read has a frame of its own; completions that nobody polled stay.

### HeapRegistry and RemoteMapRefinement

`HeapRegistry` knows hints, processes and machines only. A hint is fresh, then live,
then gone. A process publishes its heap (`Publish`), hands it to another machine under
a hint of its own (`Lend`, `TakeBack`), maps a hint (`Map`) and leaves (`Leave`). `Map`
gives the heap that was asked for while it is live; once it is gone the bytes may be
anything, and a machine in `late` may get the answer to an older question. No action
takes a published heap away from its owner.

`RemoteMapRefinement` reads `status` off `reg` and `curId`, `late` off `timedOut` (and
`MayMigrate`); `hint` is `private`, `mapped` is `public`. Locks, messages, sessions and
buffers are hidden, so that most steps of `RemoteMap` stutter.

### Transfer

The three ways `util.PROTOCOL` chooses from. `store` is redis. `heap[s]` is what other
processes can see of the process of service `s`: `epoch` counts its restarts (hints of
an earlier one are unregistered), `gen` the objects it has put into `global_obj`,
`visible` whether the present one lies in the pages of the first registration, as
`call_register` takes no second snapshot. `fetch` of anything but the present object
yields `Garbage`. Data are sequences of sets of work items: a text is the set of its
lines, so a share that is lost, doubled or mixed up is visible. How many lines the text and
rows the test data have are the constants `Lines` and `Rows`.

A handler is an operator that returns what it read, what it stored, whether it pushed,
and the fields of its event, or that it raised. `Send` and `Take` are the pairs
`*_es`/`*_rpc`/`*_dmerge` of the functions; the tables of each function are kept, since
they differ. `Take` says whether the code asserts that the pull returned 0.

### The six workflows

Each module has the stages in their order, which one is parallel, which wait (the
second member of `handler_dispatch`), which get their events from the broker (the
triggers of `service.yaml`), `UPSTREAM_NUM`, and one operator per function under its own
name.

### Workflow

`Start` is a ping, `Handle` an event for a stage that does not wait, `Wait` and `Join`
are `handle_reduce` with its two outcomes, `Return` is the end of a blocking post of the
throughput test. A handler that runs may complete (`Completes`), raise (`Fails`) or,
when it dereferences garbage, take its process with it (`Dies`). `Lose`, `Crash` and
pulls that fail use up `faults`; the broker's second deliveries use up `dups`. The
barrier's entry is removed before the handler runs, as in the code. `dep` is the
deployment: workflow, protocol, number and IDs of the parallel services, processes of a
waiting stage, pings and loop count. It is chosen initially and never changes.
`info[s][p]` is `upstream_info` of one process, a dict from `wf_id` to the events that wait.
A ping in flight is a record of its loop count and its sender (a number for the pings from
outside, the run of the last function otherwise), so that two equal pings stay two.
`handle_ce` awaits nothing, so a handler is one step. `ran`, `failed` and `ended` are
history.

### TrainingSample

A *job* is the work of one trainer for one workflow; Flask answers requests in threads,
so several jobs of a trainer overlap. `child[j][h, t]` is the state of child process `t`
of the run for hyper-parameter `h`: it trains, saves the model to a file, uploads the
file and records its accuracy, each a step of its own, or fails. Files and objects are
named after the bundle and the child only. The reducer reports the best accuracies; which
these are is left open.

### Lifecycle

`pc` is the position of insmod or rmmod. Failing steps are modelled: `init_mitosis`
returns `None` (ignored by `Module::init`), the RPC service or caller pool panics,
an RPC thread dies in its setup, `SysCallsService::new()?` returns an error (then
`Drop` never runs; `gone`). RPC requests may arrive whenever a thread polls. A handler
panics (`Panics`) when a service it needs is missing, and the one that serves
RemoteRegister also with all of them: it has no session with the caller, or its DC QP
times out, as `RemoteMap` shows. The thread is dead then. rmmod stops and joins the
threads; whether `kthread_stop` returns for a dead one is left open (`JoinDead` may happen
or not).

## 3. Runs

| run | question | result |
|---|---|---|
| `remotemap_mixed` | what a pull maps, what ioctl 5 returns, who owns a hint; does the protocol implement `HeapRegistry`? | holds, 212 000 states |
| `remotemap_returns` | lock discipline under contention; every call returns | holds, 82 000 states |
| `remotemap_session` | does every fetch have a session? | violated |
| `remotemap_qp` | is the DC QP that of the locked CPU? | violated |
| `snapshot_scan` | is the scan exact, is the decoded table the producer's, also below `heap_base`? | holds, 73 000 states |
| `paging_lazy` | does the consumer see its own heap's pages; is SIGSEGV justified? | holds, 1.1 million states |
| `eager_batch` | may one completion stand for a batch? | holds, 92 000 states |
| `eager_wait` | are all reads waited for? | violated |
| `workflows` | barrier, shares, bundles, stale objects, fitting handlers, load, termination in 33 deployments | holds, 60 000 states |
| `wordcount_es` | is each line counted once with the ES protocol? | violated |
| `training_runs` | are the children of a run done before the next, are reported models stored, is each hyper-parameter trained once? | holds, 402 000 states |
| `lifecycle_load` | services present when used, nothing left after rmmod, no hang unless an RPC thread died | holds, 869 states |

### Bounds

* `remotemap_mixed`: two machines, one CPU each, a producer and two consumers that
  share a CPU, two hints per machine, two buffers, two network calls. Two calls are
  what a late reply needs, two hints what a stale hint needs; the producer may
  register again after closing. The consumers are interchangeable (symmetry). A process
  names only the other machine (`Peers`), a bound that keeps the run short.
* `remotemap_returns`: a handler and an RPC thread on each machine, both giving, so
  that each RPC thread can wait for the lock of the other call. A process may name any
  machine, its own included, which is how a call comes to wait for its own lock.
* `remotemap_qp`: two CPUs, and the scheduler may move a thread.
* `snapshot_scan`: 5 pages, 3 VMAs, offsets modulo 3: gaps, adjacent VMAs, a base
  below, inside and above a VMA, and VMAs both smaller and larger than the offset range.
* `paging_lazy`: two heaps that overlap in one page, two frames per producer, two
  writes, two pulls, two threads: reuse of a frame and the wrong heap's answer both
  fit.
* `eager_*`: four pages, batches of two.
* `workflows`: two to four parallel services; two chains of workflows at the same time,
  which is what mixing the events of two workflows needs; one chain of up to three
  workflows where objects are shared, so that an object is replaced twice; three pings
  at the throughput test. `Broken` holds the configurations that do not fit, `Faulty` up
  to two faults (one crash and one lost event, or two of a kind) or one event delivered
  twice. `Lines` is 7 and `Rows` 5: neither is a multiple of 2 or 3, and `Broken` has six
  predictors for the five rows. The 16 hyper-parameters are those of the code.
* `wordcount_es`: two mappers, one workflow.
* `training_runs`: 4 hyper-parameters for 16, 2 children for 6, the best 2 for the best
  10; one trainer with two overlapping workflows, two and three trainers with one (three
  do not divide four); one child that fails.
* `lifecycle_load`: two RPC threads (as configured in `Module::init`), two users,
  two loads.

Deadlock checking is off everywhere: every model stops when its bounds are used up.

### Fairness

* `remotemap_returns`: a thread in the kernel keeps running (weak), the kernel's
  mutex hands the lock to every waiter (strong), and the timer of `block_on` fires,
  which is a step of the waiting thread. No process has to make a call and no
  datagram has to arrive.
* `workflows`: weak fairness of delivery: as long as pings, events or answers are in
  flight, Knative delivers one, and a handler that was called ends. Every delivery uses
  something up, so no stronger fairness is needed. Faults are never forced.
* `training_runs`: weak fairness of the next step: pings come, events are delivered,
  training and uploads end. Every step uses something up; failures are never forced to
  happen but may be what happens.
* `lifecycle_load`: insmod, rmmod and RPC threads, once started, keep running. RPC
  threads ask `should_stop` before each poll, so requests cannot hold up rmmod. The
  join of a dead thread is not fair: it need never happen.

### Violated properties

1. `remotemap_session`: an RPC thread that serves RemoteRegister from a machine its
   own machine never connected to hits `get_ss(..).unwrap()` with the lock held.
   Pulls cannot (`PullHasSession`), because `sync_call` fails first.
2. `remotemap_qp`: `remote_descriptor_fetch` asks for the current CPU again after the
   lock was taken.
3. `eager_wait`: if the last address of a batch has no translation, nothing is waited
   for.
4. `wordcount_es`: all mappers write redis key `/tmp/wc.txt`.

A property that holds against a comment: `NotFiltered` in `snapshot_scan`. The comment
above `generate` (`shadow_heap/vma.rs:75`) says that entries outside the heap range are
filtered out. Nothing filters: a VMA that begins below `heap_base` is registered whole.

Seen while modelling, without a run of its own:

* `exp/ml-pipeline/service.yaml` gives service `trainer-5` the ID 3, so that two trainers
  train bundle 3 and none bundle 5.
* The 16 hyper-parameters of `exp/ml-pipeline` are the same triple, and `return_dict` is
  keyed by the triple: a trainer reports one entry however many it has trained.
  `combinemodels` reads none of it, only the profiles and the meta data of the last event.
* With DMERGE and more predictors than rows, the share of a predictor of `digital-minist`
  is an empty array of one dimension, which it indexes with two: it raises.
* `finra` and `ml-pipeline` list RRPC in their tables, but their functions do not fit each
  other there.
* `IdFactory::create` (`id_generator.rs`) makes a mutex without the `init()` that
  `start_instance` calls on the other locks; the models take it to exclude.
* In `descriptors/heap.rs` `addr_buf` is never cleared, so only the first 12 pages of a
  VMA are fetched early; the page fault handler serves the others.
* The sample `ml-pipeline` is pinged every minute, and training takes longer: the
  workflows overlap and upload each other's models, which are named alike.
* `ae_scripts/bootstrap.py:393` stops when `runned > num`, after `num + 1` commands, while
  the help of `-n` says "num-passes to run".
* The default of its option `-f` is the string `run.toml`, which the loop over
  `args.config` takes letter by letter.

### Conditions in the properties

The properties that hold name the conditions they need, and each condition stands
for something the code does not exclude:

* `PullExact`: no timeout on the machine (late replies), the heap still registered
  (freed buffers), no migration.
* `GiveExact`: no timeout. The word itself is the constant 1048 of
  `handle_remote_register_fetch_apply`, whose two TODOs stand for applying the heap:
  no machine registers a heap under it.
* `OwnPage`: no other pulled heap covers the address, the producer kept the page, no
  push during a fault.
* `TableExact`, `NotFiltered`: no VMA larger than the offset type.
* `RpcReadyWhenLoaded`: only while the module is loaded. Before and after, RPC threads
  may use missing services.
* `LoadEnds`: unless an RPC thread died, in its setup or in a handler.
* `KeepsPromise`: as `PullExact`; the abstract `Map` has the same three cases.
* `WorkOnce`, `BundlesTrained`, `FreshData`, `HandlersFit` hold of *proper* deployments: the IDs are
  0 .. n - 1 (`IDsFit`), every function of the workflow knows the protocol
  (`ProtocolFits`), 16 is a multiple of the number of trainers (`BundlesFit`), every
  predictor has a row (`RowsFit`), shared objects are used in a single chain of
  workflows, whose next ping comes after the last function, and stay within the pages of
  the first registration (`ObjectsLast`), and nothing fails. The deployments in
  `Broken` show what happens otherwise. `WorkOnce` is about wordcount, digital-minist and finra, whose last stage gathers the shares;
  `BundlesTrained` about ml-pipeline, whose last stage does not.
* `BarrierComplete` and `LoadBounded` have no such condition: they hold of the broken
  and faulty deployments too. `LoadBounded` counts second deliveries.
* `TrainedOnce`: no child fails and the number of trainers divides the number of
  hyper-parameters. `LastModelKept`: also one workflow at a time.
* `AllEnd`: proper, one process per waiting stage (several would split the events of a
  workflow between their `upstream_info`), no event delivered twice.

## 4. Proofs

All theorems hold for arbitrary constants that satisfy the named `ASSUME` of the
module. These say no more than that bounds are naturals, that handlers and workers are
disjoint and every thread has a machine, that buffer addresses and frames are not 0 and
markers such as `Nobody` are fresh, that the set of RPC threads is finite,
that texts and tables are not empty, and that a deployment has as many parallel services as
`UPSTREAM_NUM` says (`exp/wordcount/app.py:74`, "By setting the env variable `UPSTREAM_NUM` to
your parallel worker number"). The throughput test has one service per stage and no loop count,
as its service file and pings do, and no faults, because a post that hangs is not modelled. No
bound on the number of threads, machines, CPUs, VMAs, pages, frames, workers, workflows or
children, and none on the size of the data, is used.

| module | theorem | states |
|---|---|---|
| `RemoteMapProofs` | `TypeCorrect` | `Spec => []TypeOK` |
| | `LockCorrect` | `Spec => []LockDiscipline` |
| | `RegistryCorrect` | `Spec => []RegistryOwned` |
| | `HintsFresh` | `Spec => HintNeverReused` |
| `RemoteMapRefinementProofs` | `SessionCorrect` | `Spec => []PullHasSession` |
| | `PullCorrect` | `Spec => []PullExact` |
| | `GiveCorrect` | `Spec => []GiveExact` |
| | `RefinementCorrect` | `Spec => KeepsPromise` |
| `HeapSnapshotProofs` | `SnapTypeCorrect` | `Spec => []TypeOK` |
| | `ScanCorrect` | `Spec => []ScanExact` |
| | `TableCorrect` | `Spec => []TableExact` |
| | `FilterMissing` | `Spec => []NotFiltered` |
| `HeapPagingProofs` | `PagingTypeCorrect` | `Spec => []TypeOK` |
| | `OwnPageCorrect` | `Spec => []OwnPage` |
| | `SegvCorrect` | `Spec => []SegvJustified` |
| `EagerFetchProofs` | `EagerTypeCorrect` | `Spec => []TypeOK` |
| | `NoPartialPageCorrect` | `Spec => []NoPartialPage` |
| | `BatchFetchedCorrect` | `Spec => []BatchFetched` |
| `LifecycleProofs` | `LifeTypeCorrect` | `Spec => []TypeOK` |
| | `SyscallsCorrect` | `Spec => []SyscallsReady` |
| | `RpcCorrect` | `Spec => []RpcReadyWhenLoaded` |
| | `UnloadCorrect` | `Spec => []NothingLeft` |
| `TrainingSampleProofs` | `TrainTypeCorrect` | `Spec => []TypeOK` |
| | `JoinCorrect` | `Spec => []NoLateChild` |
| | `ReportCorrect` | `Spec => []ReportStored` |
| | `TrainedOnceCorrect` | `Spec => []TrainedOnce` |
| | `LastModelCorrect` | `Spec => []LastModelKept` |
| `WorkflowProofs` | `BarrierCorrect` | `Spec => []BarrierComplete` |
| | `TypeCorrect` | `Spec => []TypeOK` |
| | `LoadCorrect` | `Spec => []LoadBounded` |
| | `HandlersCorrect` | `Spec => []HandlersFit` |
| | `FreshCorrect` | `Spec => []FreshData` |
| | `WorkCorrect` | `Spec => []WorkOnce` |
| | `TrainedCorrect` | `Spec => []BundlesTrained` |

*Types of `RemoteMap`.* `TypeOK` alone is not inductive: a reply's address becomes a
local and the local a message. `TypeInv` adds which locals are set at which `pc`
(`ThreadShape`) and which fields a message type has (`MessageShape`).

*Locks.* Every step is of one of four kinds with respect to the locks: it touches no
lock and stays on its side of the critical section, takes a free lock, releases its
own, or concerns no thread (`StepKinds`). `LockDisciplineStep` shows that each kind
preserves the invariant.

*Registry.* `RegistryOwned` needs that hints above `cur_id` are unused
(`RegistryFresh`): nobody owns, registers or has leaked one. Steps leave the registry
alone, add the next hint with its new owner, or free a hint with its owner; one lemma
for each. `HintsFresh` follows: a step that registers uses `cur_id + 1`.

*What a pull maps.* No datagram says which call it belongs to, so the proof has to show
that there is never a choice. `Channel(m, c)` says that, as long as no call of that CPU
has timed out, at most one request, one reply or one RPC thread at work exists for its
caller, and only while that caller waits for it. This follows from the lock discipline:
the next call on the CPU starts when the previous one has let go of the lock, and it lets
go after it took its reply or timed out. `DeliveryInv` adds what the data are: a
registered buffer holds the descriptor of its own hint (`BuffersTrue`), a reply names a
buffer that its hint had or a hint that is gone by now (`RepliesTrue`), a pull has the
answer to its own question (`PullsTrue`), a QP is that of the locked CPU unless threads
migrate (`OwnQP`), and so on to the mapped heaps and given words (`MappedTrue`,
`GivesTrue`). `PullExact` and `GiveExact` are read off it.

*Refinement.* Under `RemoteMapRefinement` an `Open` or `Close` is the abstract `Leave` or a
stutter, `Register` is `Publish`, `GiveStart` is `Lend`, `GiveDone` is `TakeBack`, `PullDone`
is `Map`, `Timeout` is `GiveUp`; every other action leaves `status`, `hint`, `mapped` and
`late` as they are (`Keeps`). The abstract `Map` asks for the heap itself exactly when
`PullExact` promises it, so the step of `PullDone` rests on `DeliveryInv`.

*Scan.* `ScanInv` describes the loop in the middle: `heap_start` is the base or the
end of a VMA already passed, everything from the base to it is mapped, and every
passed VMA that is not collected lies entirely below the base or above `heap_start`.

*Table.* `FlatKept`: the entries of a VMA are those of the present pages walked so far and
no others. `TableKept`: where the VMAs fit the offsets, the table holds for every decoded
entry its frame and nothing else; VMAs are disjoint, so that two entries never meet.

*Paging.* `PagingInv`: no two pages of a producer share a frame, and a frame holds bytes
that its page has held (`FramesKept`); a page that the table of a registered heap translates
still has that frame unless the producer dropped it (`TableKept`); only registered heaps are
pulled and mapped, and a page is brought in only where a heap is mapped (`PullsKept`); the
heaps that a fault in progress has passed do not translate its page (`FaultsKept`).

*Eager fetch.* `EagerInv`: batches and frames are numbered so that no frame is used twice
(`FramesKept`), and while nothing has gone wrong the QP is empty between batches and the
signaled read is the last one posted (`BatchInOrder`). As reads finish in order, its
completion comes after all bytes of the batch.

*Lifecycle.* `LifeInv`: which services exist at each place of insmod and rmmod
(`ServicesKept`), which RPC threads may still run (`ThreadsKept`), that a device exists
only between its creation and removal (`DeviceKept`), and that the count of ready threads
leaves out those still in their setup (`CountBounded`), so that the wait for
`RPC_HANDLER_READY_NUM` really waits for all.

*Training sample.* `TrainInv`: which runs a trainer has behind it (`RunsKept`), that the
children started are exactly those of the runs so far (`ChildrenKept`), what has been recorded
(`ResultsKept`), and that with one workflow the files and objects of the present run are the
run's own (`ModelsKept`). `TrainedOnce` needs the arithmetic of the bundles as well: if the
number of trainers divides that of the hyper-parameters, the bundles are disjoint and cover all.

*Barrier.* `handle_reduce` only counts: an event that came twice, or one that another process
keeps, would open the barrier with a worker missing. `BarrierInv` says why none does.

* A function runs after all functions of the stage before (`RunsKept`). An event in flight
  comes from a function that has run and goes to one that has not, except where the broker
  delivers (`EventsKept`); there is one event per sender, receiver and workflow (`EventsOnce`).
* In all processes of a stage together at most one event of each worker waits, none that is
  also in flight, and none once the stage has run (`EntryKept`).
* A stage behind the broker has run at most once more than duplicates were used, and once less
  while an event for it is still to come (`BrokerKept`).

When the barrier opens (`FullBarrier`), the entry has at least as many events as there are
workers, all from different ones: by the pigeonhole principle it holds one of each, so that no
other process and no channel has another, and the stage cannot run again. Every step is of
three kinds: it only drops events (`ShrinkStep`), stores one (`WaitStep`) or runs a function
(`RunStep`). What the proof needs to know of the workflows is small (`ShapeFacts`): only a
stage that waits comes after the parallel one, and the broker feeds only the first and the
last stage. It holds of the five workflows with a barrier; the throughput test has none.

*Load.* Workflows and pings are counted without a sum. `Slots` assigns to every workflow, every
ping in flight and every event that the last stage gets once more a *chain*:
one for each ping from outside and one for each event delivered twice. The workflows of a chain
have different loop counts, all but the one with the lowest have ended, and a ping of a chain has
a lower count than any of them. So at most one workflow or ping of each chain is under way, and
`LoadBounded` is the count of an injection; a chain has no more workflows than loop counts, which
bounds `started` in `TypeOK`. `LoadInv` puts this together with the types and `BarrierInv`. A step
keeps the chains, starts a workflow in the chain of its ping, or replaces an ended workflow by
the ping of its last function (`LoadNext`).

*Data.* `DataInv` says, for a proper deployment, what can be found where. Every event in flight
and every event that waits has the fields its sender gives it (`FieldsShape`), and the data can
be had through it (`Carries`): the key is in redis, the payload is in the event, or the route
names the *present* object of its sender. Redis holds under each key only what the functions
put there (`StoreKept`), and nothing was read but data (`ReadsFit`). `HandlerFits` shows for each
function of the six workflows that on such events it does not raise, reads its share and makes
an event of the same kind; sender and receiver choose from two tables, and the lemma is where
these are compared for every protocol.

The difficult case is shared objects: a new object of a sender invalidates all routes to the
old one. With one ping and no second deliveries there is one chain, so that one workflow
is under way at a time (`OneChain`) and nothing is left of those before (`NothingStale`). If an
event of a function is in flight or waits, the function has run for the workflow under way
(`PendingFacts`) and does not run again for it, and the next ping comes after all workflows have
ended. So a function that runs has no object that is still to be read (`Alone`). No
process restarts, as no handler fails, and no pull fails without faults.

*Work.* `WorkOnce` follows from `ReadsFit`, by which a stage that waits has read the share of each
sender, and from `BarrierComplete`, by which the senders are all workers, once each. That the
IDs are 0 .. n - 1 means only that each of these is some worker's; since there are n workers no
two have the same (`IDsNumber`). The rest is arithmetic: the lines of wordcount (`SplitDivides`)
and the rows of `array_split` with its longer first parts (`RowsDivide`) are disjoint and
complete, for wordcount also with more workers than lines. Wordcount with ES is excluded: its
mappers share a key (`wordcount_es`).

*Bundles.* The last function of ml-pipeline reads nothing that would show what was trained, so
`BundlesTrained` is about the runs themselves. `RunsKept` gives a run of every trainer before
`combinemodels`, and `RunsOnce` says that no trainer runs twice for a workflow, as no event of
the parallel stage comes twice. By `ReadsFit` each has read the bundle of its ID, and where 16 is
a multiple of the trainers the bundles are disjoint and complete (`BundlesDivide`).

Each inductive invariant was checked with TLC on the instance of its run before it was proved.

Every invariant, the action property and the refinement that the runs check are proved. Only
model-checked is liveness (`CallReturns`, `LoadEnds`, `AllEnd`, `TrainersEnd`), which is out of
the prover's reach.

## 5. Assumptions about code that is not in the repository

* `sync_call` reports an error if it has no session with the peer.
* `deserialize` returns `None` for a message shorter than the structure; a reply of
  length 0 therefore ends the call with an error.
* A thread that panics in the kernel does not run again and keeps its lock.
* The kernel excludes changes of mappings while it handles a page fault of the same
  process, and keeps the page that was brought in first.
* A DC QP finishes reads in the order of the posts.
* The pool never hands out a buffer that a bundle still holds; a freed buffer keeps
  its bytes until it is used again, or is overwritten.
* `kthread_stop` may return or hang for a thread that died in a handler.
* LightGBM's prediction of an empty part under ES and RPC is empty.
* `open` on the device keeps the module loaded; `end_instance` stops and joins the RPC
  threads one by one.
* The in-memory channels of Knative deliver an event at most once and in any order, the
  broker at least once. A handler that raises is answered with an error and its event is
  not sent again, as the service files configure no retries.
* A process that is started again has an empty `upstream_info` and registers anew; the
  kernel module has unregistered its heap when the file was closed.

## 6. Not modelled

* `handle_nil`, `handle_echo`, ioctl 4, read, write and seek: no state.
* The `process` feature of the crate.
* The inside of the registry's `HashMap` under unsynchronised access.
* Two threads of a process in the same system call on one open file: an open file makes
  one call at a time in `RemoteMap`, and one pull at a time in `HeapPaging`. Two threads in
  ioctl 0 could both find no hint, register twice and lose one of them, and two pulls push
  into one vector. `private_heap_hint` and `public_heaps` have no lock.
* The size of descriptors compared with pool buffers, the DC target pool: defined in
  the submodules.
* Profiling fields in the events, numerical work, log analysis, plots, the load generator.
* Timeouts of a blocking post in the throughput test, where a fault would hang the chain.
* The Rust sample and its bump allocator: its handlers only make the system calls of
  `RemoteMap`.
* The bootstrap script and the evaluation driver (`exp/auto_tester.py`): sequential
  programs whose course is decided by Kubernetes and by the commands they run on other
  machines.
* The download of the training data in the sample `ml-pipeline`, to a file that all jobs of
  a trainer share, and its failures. The child processes of a run start in one step.
* The other samples: programs that run their stages one after another on local files. The
  chatbot's trainer starts child processes that write files of their own and waits for all.
* The micro-benchmark functions under `exp/test`, which its `app.py` never calls.

## 7. Plan

Done: `RemoteMap`, its abstract specification and its proofs, `HeapSnapshot` and its
proof, `HeapPaging`, `EagerFetch`, `Lifecycle`, the six workflows, `TrainingSample`.

Proved: every safety property of the kernel module, of the workflows and of the training
sample, and the refinement (section 4).

Left: the parts named in section 6. The most useful would be the `HashMap` of the registry under
unsynchronised access and the size of descriptors, once the source of the submodules is at hand.
