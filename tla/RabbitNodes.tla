---------------------------- MODULE RabbitNodes ----------------------------
(***************************************************************************)
(* The nodes and rabbits of a system as the scheduler and Kubernetes see   *)
(* them, kept up to date by the coral2_dws service (storage.py and         *)
(* systemstatus.py) while rabbits, links, brokers and the service itself   *)
(* come and go and rabbit jobs are placed.                                 *)
(***************************************************************************)
EXTENDS Storage, SystemStatus, DirectiveBreakdown

LOCAL INSTANCE SequencesExt

CONSTANTS
  Jobs,
  Breakdowns, \* the allocation sets that directives break down to
  MinAlloc,   \* _MIN_ALLOCATION_SIZE
  Cases       \* [conf, budget]: options, and how often what may happen

Faults == {"storage", "broker", "undrain", "patch", "crash", "timeout", "place"}

ASSUME HostlistsAreFinite == \A r \in Rabbits : IsFiniteSet(HostsOf[r])

ASSUME BreakdownsAreSets ==
  /\ Breakdowns \subseteq [strategy : Strategies, count : Nat, capacity : Nat]
  /\ MinAlloc \in Nat

ASSUME CasesAreBounded == Cases \subseteq [conf : Confs, budget : [Faults -> Nat]]

VARIABLES
  conf,       \* the service's options
  history,    \* every version of every Storage resource, oldest first
  sched,      \* Fluxion's and the resource module's state
  online,     \* the nodes whose broker is online
  status,     \* the systemstatus resource
  up,         \* the service runs
  version,    \* the resourceVersion its Storage watch has reached
  known,      \* _jobids_to_rabbits, {} for none
  mgr,        \* the SystemStatusManager
  groups,     \* updates of broker.online that it has not read
  journal,    \* undrained nodes of the resource journal that it has not read
  job,        \* job[j]: [stage, nodes, alone, forgotten]
  ghost,      \* what became of the systemstatus resource, see StatusExact
  budget

vars == <<conf, history, sched, online, status, up, version, known, mgr, groups,
          journal, job, ghost, budget>>

storageVars == <<history, version>>
statusVars == <<online, status, mgr, groups, journal, ghost>>
jobVars == <<known, job>>

Spend(what) == budget[what] > 0 /\ budget' = [budget EXCEPT ![what] = @ - 1]

Current(r) == SelectLastInSeq(history, LAMBDA o : o.name = r)
Object(r) == history[Current(r)]
AllObjects == [r \in Rabbits |-> Object(r)]

(* alone remembers whether the job never shared a rabbit with another one,  *)
(* forgotten whether the service died after it had marked its rabbits.      *)
Idle == [stage |-> "none", nodes |-> {}, alone |-> TRUE, forgotten |-> FALSE]

(* A service that has just been started on a healthy system. *)
Init ==
  /\ \E c \in Cases : conf = c.conf /\ budget = c.budget
  /\ history = [i \in DOMAIN RabbitSeq |->
                  [name |-> RabbitSeq[i], status |-> "Ready", offline |-> {}]]
  /\ sched = [bad |-> {}, alloc |-> {}, down |-> {}, drained |-> {}]
  /\ online = Nodes
  /\ status = [n \in Nodes |-> "Enabled"]
  /\ up = TRUE
  /\ version = Len(history)
  /\ known = [j \in Jobs |-> {}]
  /\ mgr = [last_online |-> Nodes, drained |-> {}]
  /\ groups = <<>>
  /\ journal = <<>>
  /\ job = [j \in Jobs |-> Idle]
  /\ ghost = [undrained |-> {}, patched |-> TRUE, update |-> TRUE, enabled |-> TRUE]

---------------------------------------------------------------------------
(* Storage resources *)

(* The NNF software changes a resource: its status, or one node's link. *)
StorageChange(r, o) ==
  /\ Spend("storage")
  /\ o.name = r
  /\ \/ o.status # Object(r).status /\ o.offline = Object(r).offline
     \/ /\ o.status = Object(r).status
        /\ \E n \in HostsOf[r] : o.offline \in {Object(r).offline \cup {n},
                                               Object(r).offline \ {n}}
        /\ o # Object(r)
  /\ history' = Append(history, o)
  /\ UNCHANGED <<conf, sched, up, version, statusVars, jobVars>>

(* The watch delivers the next version. *)
RabbitStateChange ==
  /\ up /\ version < Len(history)
  /\ sched' = rabbit_state_change_cb(sched, conf, history[version + 1])
  /\ version' = version + 1
  /\ UNCHANGED <<conf, history, up, statusVars, jobVars, budget>>

(* Nodes that do not mount in time are marked until the next version. *)
prerun_timeout_cb(n) ==
  /\ up /\ Spend("timeout")
  /\ \E j \in Jobs : job[j].stage = "setup" /\ n \in job[j].nodes
  /\ sched' = set_property(sched, conf, {n})
  /\ UNCHANGED <<conf, up, storageVars, statusVars, jobVars>>

---------------------------------------------------------------------------
(* systemstatus *)

(* A patch of the resource, or an ApiException that is only logged. *)
Patch(m, newly_online, newly_offline, ok, failed) ==
  /\ mgr' = m
  /\ \/ /\ status' = _patch_resource(status, m, newly_online, newly_offline)
        /\ ghost' = [ok EXCEPT !.patched = TRUE]
        /\ UNCHANGED budget
     \/ /\ Spend("patch")
        /\ ghost' = [failed EXCEPT !.patched = FALSE]
        /\ UNCHANGED status

BrokerChange(n) ==
  /\ Spend("broker")
  /\ online' = IF n \in online THEN online \ {n} ELSE online \cup {n}
  /\ groups' = IF up THEN Append(groups, online') ELSE groups
  /\ UNCHANGED <<conf, sched, up, storageVars, jobVars, status, mgr, journal, ghost>>

_update_offline ==
  LET members == Head(groups)
  IN  /\ up /\ groups # <<>>
      /\ groups' = Tail(groups)
      /\ Patch([mgr EXCEPT !.last_online = members],
               members \ mgr.last_online, Nodes \ members,
               [ghost EXCEPT !.undrained = {}, !.update = TRUE],
               [ghost EXCEPT !.update = FALSE, !.enabled = FALSE])
      /\ UNCHANGED <<conf, sched, up, storageVars, jobVars, online, journal>>

(* postrun_timeout_cb() and abort_cb() drain the nodes that still mount a   *)
(* file system of the job, and disable them.                                *)
disable_until_undrained(n) ==
  /\ up
  /\ \E j \in Jobs : job[j].stage = "setup" /\ n \in job[j].nodes
  /\ sched' = [sched EXCEPT !.drained = @ \cup {n}]
  /\ Patch([mgr EXCEPT !.drained = @ \cup {n}], {}, {}, ghost, ghost)
  /\ UNCHANGED <<conf, up, storageVars, jobVars, online, groups, journal>>

(* An administrator undrains a node whose link is there. *)
Undrain(n) ==
  /\ n \in sched.drained
  /\ n \notin Object(HOSTNAMES_TO_RABBITS[n]).offline
  /\ \A i \in version + 1 .. Len(history) : n \notin history[i].offline
  /\ Spend("undrain")
  /\ sched' = [sched EXCEPT !.drained = @ \ {n}]
  /\ journal' = IF up THEN Append(journal, n) ELSE journal
  /\ UNCHANGED <<conf, up, storageVars, jobVars, online, status, mgr, groups, ghost>>

_journal_callback ==
  LET n == Head(journal)
      m == [mgr EXCEPT !.drained = @ \ {n}]
  IN  /\ up /\ journal # <<>>
      /\ journal' = Tail(journal)
      /\ IF n \in mgr.drained
         THEN Patch(m, {n}, {}, [ghost EXCEPT !.undrained = @ \cup {n}],
                    [ghost EXCEPT !.enabled = FALSE])
         ELSE UNCHANGED <<status, mgr, ghost, budget>>
      /\ UNCHANGED <<conf, sched, up, storageVars, jobVars, online, groups>>

---------------------------------------------------------------------------
(* Rabbit jobs *)

Live(k) == job[k].stage \notin {"none", "gone"}
HasNodes(k) == job[k].stage \in {"placed", "setup", "ending", "torn"}
Busy == UNION {job[k].nodes : k \in {i \in Jobs : HasNodes(i)}}
SharesRabbit(k, nodes) == Live(k) /\ RabbitsOf(job[k].nodes) \cap RabbitsOf(nodes) # {}

(* Fluxion places a job on free nodes that its constraint allows. *)
Place(j, nodes) ==
  /\ job[j].stage = "none" /\ Spend("place")
  /\ nodes \subseteq Eligible(sched, conf) \ Busy
  /\ job' = [k \in Jobs |->
               IF k = j THEN [stage |-> "placed", nodes |-> nodes,
                              alone |-> \A i \in Jobs : ~SharesRabbit(i, nodes),
                              forgotten |-> FALSE]
               ELSE [job[k] EXCEPT !.alone = @ /\ ~SharesRabbit(k, nodes)]]
  /\ UNCHANGED <<conf, sched, up, storageVars, statusVars, known>>

(* nodes_per_nnf, and the allocations setup_cb() asks the job's rabbits for. *)
NodesPerNnf(j) ==
  [r \in RabbitsOf(job[j].nodes) |-> Cardinality(job[j].nodes \cap HostsOf[r])]

Servers(j, set) ==
  build_allocation_sets(set, NodesPerNnf(j), Cardinality(job[j].nodes), MinAlloc)

Becomes(j, stage) == job' = [job EXCEPT ![j].stage = stage]

setup_cb(j) ==
  /\ up /\ job[j].stage = "placed"
  /\ Becomes(j, "setup")
  /\ known' = [known EXCEPT ![j] = IF conf.fluxion THEN {} ELSE RabbitsOf(job[j].nodes)]
  /\ sched' = mark_rabbits_allocated(sched, conf, RabbitsOf(job[j].nodes))
  /\ UNCHANGED <<conf, up, storageVars, statusVars, budget>>

(* The dws.setup request of a service that is down is an exception. *)
SetupFails(j) ==
  /\ ~up /\ job[j].stage = "placed"
  /\ Becomes(j, "ending")
  /\ UNCHANGED <<conf, sched, up, storageVars, statusVars, known, budget>>

(* DWS completes Teardown. *)
TeardownCompletes(j) ==
  /\ job[j].stage \in {"setup", "ending"}
  /\ Becomes(j, "torn")
  /\ UNCHANGED <<conf, sched, up, storageVars, statusVars, known, budget>>

(* The watch callback ends the epilog, frees the rabbits and asks for the   *)
(* deletion of the Workflow.                                                *)
WorkflowTornDown(j) ==
  /\ up /\ job[j].stage \in {"torn", "listed"}
  /\ Becomes(j, "deleting")
  /\ sched' = mark_rabbits_free(sched, conf, known[j])
  /\ known' = [known EXCEPT ![j] = {}]
  /\ UNCHANGED <<conf, up, storageVars, statusVars, budget>>

WorkflowDeleted(j) ==
  /\ job[j].stage = "deleting"
  /\ Becomes(j, "gone")
  /\ UNCHANGED <<conf, sched, up, storageVars, statusVars, known, budget>>

---------------------------------------------------------------------------
(* The service dies and forgets which rabbits its jobs have; a Workflow     *)
(* whose deletion was only asked for is seen again by the next one.         *)
Crash ==
  /\ up /\ Spend("crash")
  /\ up' = FALSE
  /\ known' = [j \in Jobs |-> {}]
  /\ mgr' = NoManager
  /\ groups' = <<>> /\ journal' = <<>>
  /\ ghost' = [ghost EXCEPT !.update = FALSE, !.enabled = TRUE]
  /\ job' = [j \in Jobs |->
               [job[j] EXCEPT !.stage = IF @ = "deleting" THEN "listed" ELSE @,
                              !.forgotten = @ \/ known[j] # {}]]
  /\ UNCHANGED <<conf, sched, storageVars, online, status>>

(* The watch goes on from the version of the rabbit that was listed last,   *)
(* and the first answer on broker.online has all members.                   *)
Start ==
  /\ ~up
  /\ up' = TRUE
  /\ sched' = init_rabbits(sched, conf, AllObjects)
  /\ version' = Current(RabbitSeq[Len(RabbitSeq)])
  /\ groups' = <<online>>
  /\ UNCHANGED <<conf, history, online, status, mgr, journal, ghost, jobVars, budget>>

Next ==
  \/ \E r \in Rabbits, o \in Objects : StorageChange(r, o)
  \/ RabbitStateChange
  \/ \E n \in Nodes : prerun_timeout_cb(n)
  \/ \E n \in Nodes : BrokerChange(n)
  \/ _update_offline
  \/ \E n \in Nodes : disable_until_undrained(n)
  \/ \E n \in Nodes : Undrain(n)
  \/ _journal_callback
  \/ \E j \in Jobs, nodes \in SUBSET Nodes : nodes # {} /\ Place(j, nodes)
  \/ \E j \in Jobs : setup_cb(j) \/ SetupFails(j) \/ TeardownCompletes(j)
                     \/ WorkflowTornDown(j) \/ WorkflowDeleted(j)
  \/ Crash
  \/ Start

Spec == Init /\ [][Next]_vars

---------------------------------------------------------------------------
(* A lost link is acted on: by draining, unless the node is not in the      *)
(* queues to drain in, or else by a property if soft_drain is on.           *)
LinksMatter(n) ==
  IF conf.drain THEN conf.queue => n \in DrainQueue ELSE conf.soft

(* Once the watch has caught up, and however often the service died, no     *)
(* rabbit job is placed where its rabbit is not Ready or the link to it is  *)
(* lost: what rabbit_state_change_cb() marks, drains or takes down is just  *)
(* what the constraint of handle_proposal_state() leaves out, under every   *)
(* combination of options.                                                  *)
AvoidsTrouble ==
  (up /\ version = Len(history)) =>
    \A n \in Eligible(sched, conf) :
      LET o == Object(HOSTNAMES_TO_RABBITS[n])
      IN  o.status = "Ready" /\ (LinksMatter(n) => n \notin o.offline)

(* However jobs that race for a rabbit come and go, an alloc_rabbit mark is *)
(* that of a job which has a node there still, or of one that a service has *)
(* forgotten when it died: those marks nobody takes away.  A job that never *)
(* shared a rabbit with another one, as the race in mark_rabbits_allocated()*)
(* allows, has its whole chassis marked until its Workflow is torn down,    *)
(* also by a service that has been restarted.                               *)
AllocMarks ==
  /\ \A n \in sched.alloc : \E j \in Jobs :
       /\ HasNodes(j) \/ job[j].forgotten
       /\ HOSTNAMES_TO_RABBITS[n] \in RabbitsOf(job[j].nodes)
  /\ \A j \in Jobs : (~conf.fluxion /\ job[j].stage = "setup" /\ job[j].alone) =>
       Chassis(conf, RabbitsOf(job[j].nodes)) \subseteq sched.alloc

(* When the manager has read everything, the systemstatus resource says     *)
(* Disabled of a node that failed to unmount, although its broker may have  *)
(* come online since, and of one whose broker is offline; else Enabled; and *)
(* failed nodes are remembered only while they are drained.  Exceptions     *)
(* are what the code does not repair: an undrain event enables an offline   *)
(* node, a lost update is not repeated, nor is a lost enabling until the    *)
(* service is restarted.                                                    *)
StatusExact ==
  (up /\ groups = <<>> /\ journal = <<>> /\ ghost.patched) =>
    /\ mgr.drained \subseteq sched.drained
    /\ \A n \in Nodes :
         /\ n \in mgr.drained => status[n] = "Disabled"
         /\ (n \notin online \cup ghost.undrained /\ ghost.update) => status[n] = "Disabled"
         /\ (n \in online \ mgr.drained /\ ghost.enabled) => status[n] = "Enabled"

(* The number of allocations a directive insists on, 0 if on none. *)
Wanted(set) ==
  CASE set.strategy = "AllocatePerCompute" -> 0
    [] set.strategy = "AllocateSingleServer" -> 1
    [] set.strategy = "AllocateAcrossServers" -> set.count

(* Wherever a job was placed, setup_cb() asks only its own rabbits, with no *)
(* allocation below the minimum, for what each directive needs: its         *)
(* capacity on every node, or in sum; and if the directive says in how many *)
(* pieces, in exactly as many, of which no rabbit has two more than another *)
(* and none has fewer than one with fewer of the job's nodes.               *)
BreakdownsFit ==
  \A j \in Jobs, set \in Breakdowns : job[j].stage = "setup" =>
    LET servers == Servers(j, set)
        nodes   == NodesPerNnf(j)
        own     == DOMAIN nodes
        pieces  == [r \in own |->
                      IF r \in DOMAIN servers.storage THEN servers.storage[r] ELSE 0]
    IN  /\ DOMAIN servers.storage \subseteq own /\ servers.size >= MinAlloc
        /\ IF set.strategy = "AllocatePerCompute"
           THEN servers.size >= set.capacity /\ pieces = nodes
           ELSE servers.size * SumFunction(pieces) >= set.capacity
        /\ Wanted(set) > 0 =>
             /\ SumFunction(pieces) = Wanted(set)
             /\ \A r, s \in own : /\ pieces[r] <= pieces[s] + 1
                                  /\ nodes[r] > nodes[s] => pieces[r] >= pieces[s]
=============================================================================
