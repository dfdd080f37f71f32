# Verification of flux-coral2

TLA+ models, TLC runs and TLAPS proofs for flux-coral2, the part of Flux that
serves HPE Cray EX machines: near-node storage ("rabbits", managed by DWS in
Kubernetes) and the Slingshot interconnect. Paths below are relative to the
repository root, line numbers are those of the modelled commit.

## 1. Inventory

| Component | Source | State it keeps | Operations |
|---|---|---|---|
| dws-jobtap | `src/job-manager/plugins/dws-jobtap.c` | aux items of a job: prolog and epilog active, Workflow created, exception seen, epilog timer | depend, run, cleanup callbacks; finish and exception events; `dws.resource-update`, `prolog-remove`, `epilog-remove` requests; responses |
| coral2_dws | `src/modules/coral2_dws.py`, `flux_k8s/workflow.py` | cache of `WorkflowInfo` (toredown, deleted, epilog_removed, timers), `WORKFLOWS_IN_TC` | `dws.create/setup/post_run/teardown/abort`, the Workflow watch callback, timers |
| Cleanup thread | `flux_k8s/cleanup.py` | coroutines in an event loop | Teardown patch, deletion, finalizer |
| Watch | `flux_k8s/watch.py` | resource version | ordered snapshots, start over after 410 |
| VNI pool | `src/job-manager/plugins/vnipool.c` | universe, free set with a round-robin position, reservations | reserve, release, configure |
| cray-slingshot jobtap | `src/job-manager/plugins/cray-slingshot.c` | pool and two settings | job.state.run, job.state.cleanup, conf.update |
| flux-slingshot | `src/cmd/flux-slingshot.c`, `etc/slingshot-cxi-*.sh` | CXI services on the NICs | prolog, epilog, housekeeping, clean |
| cray-slingshot shell plugin | `src/shell/plugins/cray-slingshot.c`, `libutil/eventlog.c` | environment of the tasks | find the job's services, or inherit those of the enclosing job |
| dws-environment shell plugin | `src/shell/plugins/dws_environment.c` | environment of the tasks | wait for the Workflow's variables |
| cray-pmi-bootstrap | `src/job-manager/plugins/cray-pmi-bootstrap.c` | stack of free ports, two per job | take two, put back |
| cray-pals shell plugin | `src/shell/plugins/cray_pals.c` | environment of the tasks, apinfo file | wait for the ports, write the file, edit a task's path |
| libapinfo | `src/common/libapinfo/` | header and sections of one file | setters, check, write, getters, in two versions |
| Rabbit manager | `flux_k8s/storage.py` | rabbits per job, properties and status in Fluxion, drained nodes | mark allocated, free, up, down; start; watch |
| SystemStatus | `flux_k8s/systemstatus.py` | online and drained nodes | patches of one resource |
| DirectiveBreakdown | `flux_k8s/directivebreakdown.py` | none | allocation sets, jobspec edits |
| commands, scripts, `fsd`, `errprintf`, `monotime` | | files and strings | no concurrency |
| libccan, libtap | | | vendored |

How they meet. A rabbit job passes through dws-jobtap's callbacks in the job
manager; the plugin talks to the coral2_dws service by RPC and the service
answers by its own RPCs (`job-manager.dws.*`) and by job exceptions. The
service creates one Workflow object per job, sets its `desiredState` and learns
from a watch what DWS made of it; Teardown patches and deletions run in a
second thread. A Slingshot job gets VNIs from the jobtap plugin through its
eventlog; prolog, shell, epilog and housekeeping on every node read the
eventlog and make, find and destroy CXI services, while the jobtap plugin gives
the VNIs back on its own. Cray PMI jobs get ports in the same way. The service
also follows the Storage resources of the rabbits, tells Fluxion which nodes
rabbit jobs must not get, and tells Kubernetes which nodes are unusable.

What is hard: two subscriptions that run a callback twice per event; an
exception that races the start request, the lookup of R and the responses;
snapshots that are older than a patch still waiting in the other thread; a
watch that starts over; calls that fail half-way through a handler; a service
that dies; VNIs that are free again before their services are gone; a pool
that is reconfigured under running jobs; shells that read one eventlog at
different times; instances nested in jobs, whose brokers hand on an
environment; two views of the same nodes, in Fluxion and in Kubernetes, kept by
a service that may die and forget. Every such place is listed, with its
line and the properties that watch it, under `hazards` in `PROJECT.json`.

What makes the parts correct: tasks run only while their storage is mounted;
an epilog ends successfully only when the storage is torn down; one prolog and
one epilog per job, each finished once; every job ends and leaves no Workflow
behind; running jobs never share a VNI; VNIs are not lost; a job's CXI services
exist while it runs and are gone, or the node drained, afterwards; ports of
running jobs are their own and come back; all tasks of a job, at every depth,
see one reservation and the devices of their own node; a file that libPALS reads
is what the shell meant; rabbit jobs stay off nodes that cannot reach their
rabbit.

## 2. Modules

| Module | Models |
|---|---|
| `DwsEnv` | the messages, the Workflow object, the watch, DWS's controller, the fault budget |
| `DwsJobtap` | dws-jobtap and the job manager's side of one job |
| `Coral2Dws` | the service, its cleanup thread, crash and restart |
| `RabbitJob` | the composition, fairness and the properties |
| `RabbitJobProofs` | inductive invariant and theorems about types, prologs and epilogs |
| `RabbitStorageProofs` | inductive invariant and theorems about the storage |
| `VniPool` | operators on the pool |
| `SlingshotJobtap` | the jobtap plugin and a job's life as far as it matters, a specification of its own |
| `SlingshotProofs` | inductive invariants and theorems about `SlingshotJobtap` and `Slingshot` |
| `Slingshot` | adds prolog, shell, epilog, housekeeping and clean on the NICs |
| `Allocator`, `AllocatorProofs` | what a pool promises, and that it keeps clients apart |
| `Eventlog`, `EventlogProofs` | `eventlog_wait_for`, shared by the shell plugins, and what it returns for any log |
| `PmiPorts` | cray-pmi-bootstrap and a job's life as far as it matters, a specification of its own |
| `CrayPals` | adds the eventlog and the shells with cray-pals |
| `PmiProofs` | theorems about `PmiPorts` and `CrayPals` |
| `ShellEnv`, `ShellEnvProofs` | the cray-slingshot and dws-environment shell plugins in nested instances; theorems |
| `ApinfoEnv`, `Apinfo1`, `Apinfo5`, `Apinfo` | libapinfo and what cray-pals writes and edits |
| `Storage`, `SystemStatus`, `DirectiveBreakdown` | operators of `storage.py`, `systemstatus.py` and `directivebreakdown.py` |
| `RabbitNodes`, `RabbitNodesProofs` | the three together: rabbits, nodes, brokers, several rabbit jobs, the service's restarts; theorems |
| `MC*` | instances for TLC |

### Rabbit jobs

`job` holds the aux items of dws-jobtap (`created`, `prolog`, `epilogActive`,
...) and what the job manager knows (state, pending start request, perilog
count). The body of a callback is an operator from a record to a record, so that
one event can run it once per subscription, as `depend_cb` and `run_cb` both
subscribe. `toSvc` and `toJm` are the ordered message streams between the
broker's two modules. `wf` is the Workflow, `events` the snapshots that the
watch has still to deliver. `svc` is the service: the flags of its
`WorkflowInfo` object, the timers, and the coroutines in the cleanup loop
(`doTeardown`, `doDelete`). A handler that raises keeps what it did before and
turns `ok` to FALSE, which `message_callback_wrapper` or
`workflow_state_change_cb` then deals with.

The job manager has one count of prologs and epilogs for all plugins. `perilogs`
is that count, `others` what other plugins have open (`OtherPerilogStart`,
`OtherPerilogFinish`), and `taken` is history: an epilog that was not open has
been finished while the count was not zero. `svc.tc` is the job's entry in
`WORKFLOWS_IN_TC`, `svc.revived` history: the entry in the cache is one that
`kill_workflows_in_tc` put back. That timer has three outcomes: an exception; a
tolerated failure, after which DWS is told to go on; and an error of that call,
which nothing catches, so that the service stops (`ServiceStops`).

Choices that stand for something larger: an API fault makes any one Kubernetes
or KVS call of a handler fail ("early" before the first effect, "late" after);
a state timer (`StateTimeout`) either tolerates the failed nodes or raises;
DWS has finalizers of its own, so `metadata.finalizers` exists; a job exception
is asynchronous and never fails locally; `move_to_teardown` with a Workflow
at hand swallows its errors, as the code does. `StrictWebhook` says whether
DWS refuses a `desiredState` that skips or goes back, `EpilogTimeout` whether
the last resort is configured, `Timers` which timers are.

### Slingshot

`vp` is `struct vnipool`; round-robin allocation is stated by what
`idset_alloc` returns (`Follows`), an array of n by n such steps
(`Allocations`). `job[j].log` is the eventlog reduced to the entries that
`eventlog_wait_for` reads. `idle` is a history variable for `RoundRobin`.
`svc[d]` is the list of user services of a NIC; the field `job` of a service is
history, the code sees `uid` and `vnis` only. `node[j]` is the progress of the
job's scripts; its field `failed` is history, the NICs where the last attempt to
destroy met an error other than EBUSY. `clash` is history: a VNI has been
reserved before the services that use it were destroyed. Each command of
flux-slingshot waits 30 seconds at most for the reservation (`LookupTimesOut`).
No script runs `flux slingshot clean`; `CarefulAdmin` says that
whoever does runs it on nodes that are not in use, where
`doc/guide/slingshot.rst:516` puts it, and otherwise it comes at any time. Every job uses every NIC, which is the case where jobs can
disturb each other, and the processes on different nodes visit NICs in any order.
A restart of the instance reloads the plugin with a full pool; the models assume
that flux-core calls `job.state.run` only for jobs that enter RUN, since the
callback would otherwise reserve other VNIs than those in the eventlog.
On the error path of `vnipool_alloc_array` the array's reference is dropped
twice; the models take the outcome in which the pool is as before.

### Pools as allocators

`Allocator` is the abstract specification of a pool: clients take what is free
and give it back, resources may get lost, the pool may be reconfigured without
what is held, or be made anew, and then it knows of no holder. `PmiPorts`
implements it with `held` as the aux items of the jobs in RUN, `SlingshotJobtap`
with `held` as the reservations (`PortsAreAllocated`, `VnisAreAllocated`). What
the specification does not promise, that clients from before a renewal are
respected, is what neither plugin does.

### Ports and shells

`range` is `struct port_range`: `available` is the filled part of the array,
since a slot behind `fill` is written before it is read again. A job id stands
for one job after another. `stale` is history: which ports were told before a
reload. In `CrayPals` one job is followed down to its shells, each of which
reads the eventlog when it gets there; of the others only their use of the pool
shows (`Unwatched`). The variables that are set together are one
(`PALS_APID`); `PMI_CONTROL_PORT` and `PMI_SHARED_SECRET` are kept apart because
the code does not treat them alike.

In `ShellEnv` the environment is the four `SLINGSHOT_*` variables and the
Workflow's. A ready job may become the instance of the next job: its tasks are
the brokers, and `broker.getenv` answers with what they were started with, or
with an error of older or restricted brokers. The services on the NICs are what
some prolog left (`Slingshot` has the details); an id names its node, so that
one from another node shows. `inst.on` and `inst.whole` are history.

### libapinfo

Sizes of structures are those of the LP64 ABI. A file maps the offset of each
element to the element; `fwrite` appends. Host names are their first 63 bytes
and the rest, since that is where `snprintf` cuts. Calls that need memory may
fail, `set_taskmap` also between its two halves, and a client may go on after
any error. A path is a sequence of entries, some of them empty;
`argz_create_sep` drops the empty ones but keeps one at the end, which means the
current directory.

### Nodes and rabbits

`sched` is what Fluxion and the resource module know; the RPCs of the manager
are streams that nobody waits for and that arrive in order, so they take effect
with the handler. `history` has all versions of the Storage resources and
`version` is how far the watch has come. A conf stands for the options that
decide which manager runs, whether lost links drain nodes, and in which queues.
`status` is the systemstatus resource, `groups` and `journal` what its manager has
still to read. `ghost` records the losses that the code does not repair, and
`alone` whether a job shared a rabbit with another, which the stated race of
`mark_rabbits_allocated` allows. `forgotten` says of a job that a crash lost the
entry with its rabbits: `mark_rabbits_free` then iterates over the encoded
`nodelist` (`storage.py:229`) by character, none of which is the name of a host,
and frees nothing. After a crash, a Workflow that is torn down
and not yet deleted is listed and processed again.

## 3. Runs

Each run is a `.cfg` of the same name. `Budgets` is a set of mixes, each of which
bounds every kind of fault; the faults of a behaviour stay within one of them and
happen anywhere. Mixes keep kinds apart that would only multiply each other. Every property has a mutant in
`PROJECT.json` that breaks it.

| Run | Bounds | Shows |
|---|---|---|
| `rabbit_faults` | three of 1 exception from outside, 1 failing call, 1 watch restart and 1 crash of the service; or a prolog or epilog of another plugin with an exception or a failing call; epilog timeout, postrun and teardown_after timers | types, `StorageWhileRunning`, `CleanEpilogMeansTornDown`, `PerilogsBalanced`, `OneEpilogPerJob`, `OnlyTeardownAfterToredown` |
| `rabbit_live` | 2 exceptions, or 1 and a TransientCondition, with a watch restart; or 1 exception and another plugin's prolog or epilog; all timers; fair | `JobEnds`, `NoOrphan`, `PrologReleased`, no deadlock |
| `rabbit_last_resort` | crash, failing call, Error; or TransientCondition, Error, deletion from outside; epilog timeout; fair | `JobEnds` whatever happens, as `doc/guide/dws.rst:606` promises, `FinalizerUntilTeardown`, `CacheForgotten` |
| `slingshot_pool` | 3 jobs, 2 pools and 2 invalid configurations, 2 reconfigurations with 2 of a restart, an exception, a warning and a failing event, or 1 with all of them | `UniqueVnis`, `NoVniLost`, `RoundRobin`, `VnisAreAllocated`, types |
| `slingshot_nodes` | 2 jobs of one user, 2 NICs, 1 or 2 VNIs, a job without VNIs; two faults of: a NIC that fails in the prolog, a failing destruction, a timeout; or a failing destruction and a clean; or a warning | `ServicesWhileRunning`, `OwnServiceIds`, `LingeringServiceDrains` |
| `slingshot_live` | 2 jobs, 1 NIC, 2 VNIs, two faults of: exception, restart, failing destruction, timeout, clean; or a reconfiguration; services busy for ever; fair | `CleanedOrDrained` |
| `slingshot_regrown` | 3 jobs, a pool that is shrunk and set back | that `UniqueVnis` fails |
| `slingshot_reuse` | 2 jobs, 1 NIC, 1 or 2 VNIs, no fault | that `NoReuseBeforeDestruction` fails |
| `pmi_ports` | 2 job ids used again and again, 5 ports, 2 configurations that are refused, 1 failing call, 1 reload, 1 warning or failing shell, every option; fair | `UniquePorts`, `PortsComeBack`, `PortsAreAllocated`, `SamePorts`, `OwnBootstrap`, `InitEnds`, types |
| `shell_env` | 2 nodes with 2 and 1 NICs, no, an empty or a reservation of two, every outcome of the prologs, 2 nested instances, 1 failing getenv or look at the devices | `LocalServices`, `VnisAgree`, `SameReservation`, `RabbitTasks` |
| `pals_files` | both versions and one that does not exist, up to 3 hosts, all task maps of up to 3 tasks on 3 nodes and two of 4, any number of calls; paths with the directory and empty entries in every place | `FileDecodes`, `DescribesJob`, `NoFluxPmi` |
| `rabbit_nodes` | 2 rabbits with 2 nodes each, 6 combinations of options; 3 changes of rabbits or links with an undrain and a crash, or 2 jobs with a crash, or 2 broker changes with an undrain, and a failing patch or a crash | `AvoidsTrouble`, `AllocMarks`, `StatusExact`, `BreakdownsFit` |

Why the bounds are enough. Each rabbit job has its own Workflow, epilog and
messages, and the service treats jobs alike, so one job shows every order of
its own events; up to three faults of different kinds are more than the pairs
that the handlers can meet between two messages. For VNIs, three jobs are a holder, one
that ends and one that takes what was released; two reconfigurations are the
least that can shrink and grow; a pool of three and requests of up to two
reach exhaustion and wrap-around. In `slingshot_nodes` one or two VNIs serve two
jobs, so that a VNI comes round to the second job: after the first one's services
are gone, or before. The second case is a clash (`slingshot_reuse`), after which
the properties claim nothing; `clash` stays, so the constraint `NoClash` of the
run drops only states in which they hold trivially. Jobs of
the ports, two jobs and five ports reach the odd last port, an empty pool and
every order of return; the pool loses at most what `PortsComeBack` says, so no
longer history can matter to it. Two nested instances are the least in which an
environment is inherited that was itself inherited. For files, three nodes are
the least with one between two others, and the state of an object does not
depend on more than the last successful call of each setter. Two rabbits are
the least where a job can have nodes of both, and where the watch can start from
the version of the older one; the budgets go with the properties they can
disturb, the options with the first of them. Jobs of
one user, and NICs, are not told apart by any operator, so the runs with
invariants use symmetry.

Deadlock is checked in `rabbit_live`, in `slingshot_nodes`, `slingshot_live` and `slingshot_reuse`, and in
`pmi_ports`, `shell_env` and `pals_files`. In the
other rabbit runs a fault may leave a job or a Workflow behind for good, which
the liveness runs are about, and the jobs of the plugin alone just end.

Fairness. Weak fairness of every handler of the service and the plugin (both
are event loops that run what is ready), of the job manager, the execution
system and DWS's controller (they make progress, tasks end), of systemd's
restart of the service. Nothing is assumed of faults or of the service's own
timers, which are off by default. For the loop of `cmd_epilog` the end has
strong fairness: the loop is bounded by `--retry-busy`, so it cannot take
another round for ever. In `CrayPals` the execution system starts all shells and
posts the start event, and a shell that can go on does; whether a job ends is
left open.

## 4. Findings

Two runs are expected to fail; the quotations are in `PROJECT.json`.
`slingshot_regrown` states what the repository says of the VNI pool, and TLC
shows that shrinking `vni-pool` and setting it back frees a VNI that a job holds.
`slingshot_reuse` states what `doc/guide/slingshot.rst:135` says of VNIs whose
services are not destroyed; the plugin releases them when the job enters CLEANUP
(`cray-slingshot.c:295`), in parallel with the epilog, and in a narrow pool the
next job gets them at once. Lines 471-474 of the same document rely on a wide
pool to make that unlikely.

Met while modelling, and not stated as runs of their own:

* The finalizer goes with the Teardown patch (`cleanup.py:146`), before DWS
  begins working on it, while `coral2_dws.py:744` and `doc/guide/dws.rst:304`
  say "as soon as" Teardown begins. `FinalizerUntilTeardown` states what holds.
* Nothing in the jobtap plugin reads the reservations of jobs that run when it
  is loaded (`cray-slingshot.c:314`), although `doc/guide/slingshot.rst:476` says
  the pool is recovered "as the job eventlogs are replayed". `UniqueVnis`
  therefore speaks of the jobs that got VNIs since the plugin was loaded.
* After `NoReuseBeforeDestruction` has failed a script may find the services of
  another job of the same user (`flux-slingshot.c:282`), and the shell those of
  any other job (`cray-slingshot.c:175` of the shell plugin). The properties of
  the nodes claim nothing from there on.
* `flux slingshot clean` compares services with the pool and not with jobs: on a
  node that is in use it removes the services of running jobs unless they are busy.
* The job manager's count of prologs and epilogs is shared by all plugins. The
  second run of `exception_cb` (`dws-jobtap.c:644`), and a `dws.epilog-remove`
  that comes late, finish an epilog that is not open any more. If another
  plugin has one open at that moment its count goes, and the job is freed while
  that epilog, or even the dws-epilog, is not over. `PerilogsBalanced` and
  `OneEpilogPerJob` say that this is the only way for the count to be wrong.
* `kill_workflows_in_tc` looks up a job that met a TransientCondition in PreRun
  with `WorkflowInfo.get` (`coral2_dws.py:906`). If the Workflow was deleted in the
  meantime this makes a new entry, for good, after "we can forget about it"
  (`coral2_dws.py:696`). `CacheForgotten` names this as its exception.
* The patch of `notify_of_node_failure` (`workflow.py:171`) may raise in that same
  timer, for instance when the Workflow is gone; only ValueError is caught, so
  the reactor of the service ends.
* An exception during the lookup of R starts a teardown, then `dws.setup` moves
  the Workflow to Setup, because `setup_cb` (`coral2_dws.py:375`) does not look at
  `toredown`; the comment at line 761 describes the same mishap in the watch.
* The only `dws.epilog-remove` can come while the job is still in RUN and is
  dropped (`dws-jobtap.c:888`), after a failing call in the watch callback;
  without `epilog-timeout` the job then stays in CLEANUP.
* A failing call, or a watch that starts over and so never brings the DELETED
  event, can leave the entry of a job in the cache (`WorkflowInfo`) for good.
  `CacheForgotten` claims nothing after either.
* A crash between the exception and the Teardown patch loses the teardown
  (`workflow.py:104`), the request in the queue or the coroutine in the loop.
* Only EBUSY counts as a failure to destroy a service (`flux-slingshot.c:287`);
  `doc/guide/slingshot.rst:145` says that failure drains the node.
  `LingeringServiceDrains` says that other errors are the only exception.
* A service that cannot be allocated is fatal (`flux-slingshot.c:392`), where
  `doc/guide/slingshot.rst:279` says the request is scaled back.
* `cray_pals.c:63` asks for ports that do not overlap on a node. Ports go back
  in CLEANUP while the tasks of a killed job may still run, and a reload of
  cray-pmi-bootstrap forgets those of running jobs.
* `PMI_SHARED_SECRET` of the submitter survives where no ports are set, since
  `set_environment` unsets `PMI_CONTROL_PORT` only (`cray_pals.c:357`).
* `cray-pals.timeout` is documented (`doc/man1/flux-shell-cray-pals.rst:56`) and
  refused as an unknown option (`cray_pals.c:515`).
* With an empty reservation `SLINGSHOT_SVC_IDS` is a list of -1.
* A job without directives in an instance started by a rabbit job keeps the
  Workflow's variables of that job: dws-environment unsets nothing.
* `apinfo_check` passes an object whose `set_taskmap` failed half-way, with the
  command of the former task map. Host names of more than 63 bytes are cut.
* `lustre` is that of the last breakdown (`coral2_dws.py:372`); with a node-local
  file system after a Lustre one `setup_timeout_cb` does not kill the job as its
  docstring says.
* An undrained node is patched to Enabled although its broker is offline
  (`systemstatus.py:70`); a late undrain event is taken for that of a second
  failed unmount; a restart forgets the drained nodes; a lost patch is not
  repeated. `StatusExact` names these as its exceptions.
* After a restart the rabbits of jobs that were marked before are never freed:
  `mark_rabbits_free` iterates over an encoded host list by character
  (`storage.py:229`; `coral2_dws.py:333` wraps such a list in `Hostlist`). Its
  docstring (line 219) says that it reverses `mark_rabbits_allocated`. `AllocMarks`
  names such jobs as its exception.
* An `LD_LIBRARY_PATH` that ended in an empty entry after Flux's directory, such
  as `x:pmi:`, still ends in one, which is the current directory.
* With a webhook that accepts any desired state, the late `dws.setup` can also
  make an epilog end cleanly before the storage is torn down; the runs assume the
  webhook that DWS has.

## 5. Proofs

`RabbitJobProofs` proves, for every fault budget, timer configuration and kind
of webhook, that `RabbitJob`'s `Spec` keeps

* `TypeOK` (theorem `TypeCorrect`),
* `PerilogsBalanced` (`Balanced`): the job manager's count is never more than what
  this plugin and all others started and did not finish, and exactly that unless
  an epilog that was not open was finished at another plugin's expense,
* `OneEpilogPerJob` (`EpilogOnce`).

They use the named assumptions `BudgetsAssumption` and
`EpilogTimeoutAssumption` only. The invariant is
`Inv == TypeOK /\ Good(job) /\ (job.prolog = "unset" => UnderWay(...))`.
`Good` says how state, prolog, epilog, start request and count go together.
It is not inductive alone: a `dws.prolog-remove` for a job that has no prolog
yet would be counted wrongly, so nothing that leads to one may exist before
`run_cb`. `UnderWay` bounds the messages, the Workflow's desired state, the
snapshots and the service accordingly. One lemma per handler is parametrised
by the sets of messages and states allowed, and used twice: with all of them
for type correctness, with the early ones for the third conjunct.

`RabbitStorageProofs` goes on from there and proves, for every budget of faults
and every configuration of timers,

* `FinalizerUntilTeardown` (`FinalizerStays`),
* `CleanEpilogMeansTornDown` (`CleanEpilog`),
* `StorageWhileRunning` (`MountedWhileRunning`),
* `OnlyTeardownAfterToredown` (`ToredownIsFinal`), the one action property,
* that a job asks only for `dws.create` and `dws.setup` until it starts its
  epilog, and that nothing else waits for the service before the `dws.post_run`
  of a job that ran (`RequestsInOrder`),

and

* `CacheForgotten` (`EntriesForgotten`).

The first three and the last have the hypothesis `StrictWebhook`, that DWS refuses a
`desiredState` that skips a state or goes back. The webhook is not part of the
repository, and the last observation of section 4 shows that the hypothesis
cannot be dropped. The fourth and the fifth need no hypothesis. None of the
first three is inductive, and they share one strengthening, `StorageInv`. Its first
part says that `dws.create` is sent once and before everything else (`First`,
`Unborn`), so that a Workflow that is gone never comes back. The second (`Safe`)
ties what is under way to the Workflow itself: a successful epilog or a
`dws.epilog-remove` implies storage that is torn down or gone, a pending
deletion implies a Workflow of which Teardown was asked, and a job whose
prolog is released has its file systems mounted or is about to be told of an
exception. The third (`SnapshotOK`) says the same of every snapshot in the
watch's queue: it may be old, but it does not claim a teardown that did not
happen. Each handler is shown to keep `Fine`, which relates the state before it
to the state after, at each of the points where a call in it may fail.

`CacheForgotten` is about an order: nothing that the service still has to
do may put the entry back once the DELETED event has been handled, but for
`kill_workflows_in_tc`. The property itself stops at the first failing call or
restart of the watch, since an observation of section 4 says that these leave an
entry behind; crashes, cancellations, deletions from outside, TransientCondition
and Error are unlimited. The invariant `CacheInv` has the order of the requests, that the newest snapshot in the
queue is the Workflow itself (`Latest`), and two parts of its own. `Before => Ahead`:
while a job has still to send its `dws.post_run`, or the service to handle it
after a run, no teardown is under way, the snapshots are in the order of the
states and none is ahead of the Workflow (`Chain`). `Cached`: as long as the
service has an entry, the Workflow exists or its DELETED event is to come.

`SlingshotProofs` proves, for every set of jobs, VNIs, requests and
configurations, that `SlingshotJobtap`'s `PluginSpec` keeps

* `PluginTypeOK` (`PluginTypeCorrect`),
* `NoVniLost` (`VnisKept`), whatever is reconfigured or restarted,
* `UniqueVnis` (`VnisUnique`), if the administrator is careful
  (`CarefulAdmin`): `slingshot_regrown` shows that this cannot be dropped.

They use the named assumptions `VniAssumption` and `ConfigAssumption`. Every
step is first shown to have one of five effects on pool and jobs (`Effect`: a
job begins, ends, gets an entry in its log, the pool is reconfigured or made
anew); the invariants are proved from the effects alone. `NoneLeft` (a job
that is not running has no entry in the pool) and `AllHeld` (what is configured
and not free is in an entry) give `NoVniLost`. `Exclusive` gives `UniqueVnis`:
a running job with an entry was told exactly the VNIs in it, and entries are
disjoint from each other and from the free set. That a reconfiguration keeps
the free set disjoint from the entries is where `CarefulAdmin` is used.

`VnisImplementAllocator` shows under the same assumption that every step of the
plugin is a step of `Allocator`: the effects map to `Take`, `Release`,
`Configure` and `Renew`.

For the nodes, `Slingshot`'s `Spec` is shown to keep, in every behaviour,

* `ServicesWhileRunning` (`ServicesStay`), if the administrator is careful with
  `flux slingshot clean` (`CarefulAdmin`),
* `OwnServiceIds` (`ServiceIdsAreOwn`),
* `LingeringServiceDrains` (`LingeringIsNoticed`).

The properties themselves end at the first clash (`clash`). Until then VNIs may come
round any number of times and anything may fail; so what
`doc/guide/slingshot.rst:135` asks of the pool is all that the scripts need from
it, for any number of jobs, users and NICs and any interleaving. The invariant `NodeInv` says that the first
entry of an eventlog that decides has all VNIs that the job was ever told
(`LogOK`); that a service has the owner and the VNIs of its job (`ServiceOK`);
that jobs whose services or scripts are there were told different VNIs, so that
a command that compares nothing but VNIs and user finds the services of its own
job (`OwnMatch`); and, per job, how the progress of its scripts goes with the
NICs that have a service of it (`ScriptOK`): those that the prolog has visited
and could open, one service on each, and in housekeeping none outside of what is
still to be visited or was busy. Other jobs are told different VNIs when a job
enters RUN without a clash, the one place where `~clash` is used.

`RoundRobin` (`VnisGoRound`) is proved from an order: `Before(w, v, last)` says
that w comes before v when one counts from the round-robin position on and
round again. The invariant `RoundInv` says that all that has been free since v
was taken comes before v. Every step is first shown to have one of four effects
on that order (`Turns`): it takes nothing and does not move the position; a job
takes what comes first (`FirstInOrder`, by induction over the loop of
`idset_alloc()`); the pool was exhausted; or it is a new pool.

`NoReuseBeforeDestruction` depends on how wide the pool is, as `slingshot_reuse`
shows; `MarginNoReuse` says what it takes. It has no assumption about constants and
holds through exhaustion, reconfigurations and restarts, with VNIs that are used
again and again; its hypothesis `[]Margin` says that, while a job waits to run, at
least as many VNIs as it may ask for have been free ever since a free VNI of a
job whose services may be there was taken. A pool that is as wide as the jobs that
may come and go while one is cleaned up gives this margin; nothing in the code
enforces it.

`PmiProofs` proves, for every set of jobs, configuration, minimal size and budget,

* `PortTypeOK` (`PortTypeCorrect`), in particular that no port leaves 16 bits,
* `UniquePorts`, of the plugin (`PortsUnique`) and of the composition with the
  shells (`RunningJobsHaveOwnPorts`),
* `PortsComeBack` (`PortsReturn`),
* `PortsAreAllocated` (`PortsImplementAllocator`),
* `TypeOK`, `SamePorts` and `OwnBootstrap` of `CrayPals` (`PalsTypeCorrect`,
  `ShellsAgree`, `TasksHaveOwnBootstrap`).

They use `ConfigsAreIntegers`, `MinSizePositive` and `PortBudgetCounts`, and for
the shells `WatchedAreJobs` and `ShellFaultsCount`.
`UniquePorts` is not inductive: what is put back must not be in the stack, nor
twice in it. The invariant `PortInv` adds `PortTypeOK`, that the free part of the
array holds no port twice, that no port told to a running job is free or told to
another, and `JobInv`: a job has no ports before RUN, and what cleanup_cb finds
in the job's aux item are the ports of its event, unless a reload took the item
away. `get_port` and `set_port` are covered by a lemma each.
`PortsComeBack` counts: `CountInv` compares the size of the array with its fill
and two ports for every holder. The difference grows by two per failing call;
it grows by one more only when an odd last port is taken and not given back, and
from then on the fill is even, so that it cannot happen again.
For the shells, `ShellInv` says that the environment of every task is a function
(`TaskEnv`) of the job's options, its event and its number of shells, whenever
the shell read the eventlog; that the event is the first entry at which a reader
stops (`Finds` of `EventlogProofs`) is what makes the time of reading immaterial.
`AllocatorProofs` shows that `Allocator` itself is exclusive
(`AllocatorExclusive`).

`ShellEnvProofs` proves `LocalServices`, `VnisAgree`, `SameReservation` and
`RabbitTasks` (`ServicesAreLocal`, `NodesAgreeOnVnis`, `ReservationIsInherited`,
`RabbitTasksHaveEnvironment`) for all nodes, NICs, reservations and any depth of
nesting, from `NicsAreSequences` and `FaultsCount`. The properties speak of
the shells that are ready; the invariant `EnvInv` adds what the brokers of the
innermost instance answer to `getenv` (`InstInv`) and what shells on their way
have (`ShellOK`), and that the reservation is what a reader of the job's
eventlog finds (`JobInv`).

`RabbitNodesProofs` proves, for any rabbits, nodes and jobs and any number of
faults,

* `AvoidsTrouble` (`JobsAvoidTrouble`): `StorageInv` says of every rabbit that its
  last version is still to come or that Fluxion and the resource module reflect
  it (`InStep`, `Reflected`); a restarted watch may replay older versions after
  newer ones were listed, but then the newer ones come again,
* `AllocMarks` (`MarksAreExact`): `MarksInv` says that what the manager knows are
  the rabbits of jobs that have their nodes, that every mark belongs to a job
  that the manager knows or a crash made it forget (`Owns`) and, of a job that was
  alone on its rabbits, that the marks are set,
* `StatusExact` (`StatusIsExact`): `StatusInv` says that the resource is what the
  manager believes (`Recorded`), and that what it has yet to read makes up
  for what it does not know (`Pending`),
* `BreakdownsFit` (`AllocationsSuffice`), which needs of the state only that a
  placed job has nodes (`Placed`). The rest is about `build_allocation_sets`:
  that the sums of the library's `SumFunction` do not depend on the order
  (`SumSteps`), that the nodes of a job are those at its rabbits
  (`NodesOfRabbits`), that what is dealt out in turns adds up to `count`
  (`CountsAreEven`) and that rounding up covers the capacity after a division by
  `count` or by the number of nodes over their gcd (`AllocationsFit`).

They use `RabbitsAreListed`, `OneRabbitPerNode` and `CasesAreBounded`, the last one
also `HostlistsAreFinite` and `BreakdownsAreSets`. The loop of
`init_rabbits` over the listed rabbits is a recursive function; that it reflects
all of them is proved by induction on the position, as is what `destroy_all`
leaves in `SlingshotProofs`. The induction comes down to the least number of a set
(`LeastNatural` and `UpTo` of `EventlogProofs`), since the library's induction
theorems take an operator that the provers cannot instantiate.

Only model-checked:

* liveness (fairness is out of the prover's reach);
* `FileDecodes`, `DescribesJob` and `NoFluxPmi` of `Apinfo`, which are about what
  recursive definitions compute for a list of nodes or a path.

## 6. Not modelled

Logging, formatting and the contents of jobspecs, directives and KVS records.
`build_allocation_sets` rounds quotients of floats, which is exact below 2^53
bytes and modelled by integers.
`apply_breakdowns` rewrites a jobspec, which is data without a state.
`flux-dws2jgf`, `flux-rabbitmapping`, `flux-getrabbit`, `flux slingshot list`
and `jobinfo` only read; the frobnicator, the CLI plugin and the modprobe
scripts handle arguments; `fsd`, `errprintf` and `monotime` parse and format;
libccan and libtap are vendored. `kill_workflows_in_tc` for several jobs at once
(its early return delays the others by a round) needs a clock to say anything.
Rabbits that are disabled by `abort_cb` appear as changes of their Storage
resource, whoever makes them.

## 7. Plan

1. Done: the modules of section 2, the refinement of the two pools, the proofs of
   section 5.
2. An abstract specification of a rabbit job (storage requested, ready, in use,
   released) that `RabbitJob` implements; its safety is what
   `RabbitStorageProofs` has, its step simulation would follow from `Fine`.
