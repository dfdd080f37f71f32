------------------------------ MODULE ShellEnv ------------------------------
(***************************************************************************)
(* How the cray-slingshot and dws-environment shell plugins set the        *)
(* environment of a job's tasks on each node, at any depth of nested       *)
(* instances: the tasks of one job are the brokers of the next instance,   *)
(* and a job is submitted with a copy of some environment.                 *)
(***************************************************************************)
EXTENDS Integers, FiniteSets, Eventlog

CONSTANTS
  Nodes,        \* the nodes of the system job
  Nics,         \* Nics[n]: the CXI devices of node n, in order
  Reservations, \* what the system instance may reserve: sequences of VNIs
  Classes,      \* sets of traffic classes a CXI service may permit
  MaxDepth,     \* how deep instances are nested
  Faults        \* how many broker.getenv requests and looks at CXI devices fail

ASSUME NicsAreSequences == \A n \in Nodes : Nics[n] = <<>> \/ Len(Nics[n]) > 0
ASSUME FaultsCount == Faults \in Nat /\ MaxDepth \in Nat

VARIABLES
  svc,          \* svc[n]: of each device, the service of the reservation, or none
  vnis,         \* the reservation of the system job, <<>> if no plugin makes one
  inst,         \* the instance: see below
  job,          \* the job in it: its nodes, options, submitted environment, eventlog
  shell,        \* shell[n]: stage and environment
  faults

vars == <<svc, vnis, inst, job, shell, faults>>

Unset == <<>>

(* The SLINGSHOT_* variables, and the ones of a Workflow. *)
Clean == [VNIS |-> Unset, DEVICES |-> Unset, SVC_IDS |-> Unset, TCS |-> Unset,
          dws |-> Unset]
Foreign == [VNIS |-> <<0>>, DEVICES |-> <<"other">>, SVC_IDS |-> <<<<"other", 1>>>>,
            TCS |-> <<{}>>, dws |-> <<"foreign">>]

NoService == <<>>
DefaultClasses == {"dedicated", "low_latency", "bulk_data", "best_effort"}

(* The service a prolog has made on device number i of node n. *)
ServiceId(n, i) == <<n, i>>

---------------------------------------------------------------------------
(* The plugins in one shell *)

(* -o cray-slingshot: <<>> if it cannot be parsed. *)
cray_slingshot_parse_args(o) ==
  CASE o = "off"     -> <<[off |-> TRUE]>>
    [] o = "default" -> <<[off |-> FALSE]>>
    [] OTHER         -> <<>>

(* A plugin that is on starts with a clean environment. *)
UnsetSlingshot(env) ==
  [env EXCEPT !.VNIS = Unset, !.DEVICES = Unset, !.SVC_IDS = Unset, !.TCS = Unset]

(* An empty list leaves its variable unset. *)
setenv_json_array(list) == IF list = <<>> THEN Unset ELSE list

(* mutant: the broker of rank 0 is asked *)
LocalBroker_First(n) == inst.env[CHOOSE m \in DOMAIN inst.env : TRUE]

(* shell_init_cb() sends broker.getenv to FLUX_NODEID_ANY: the local one. *)
LocalBroker(n) == inst.env[n]

(* The three results of the two methods: an environment in a singleton, or  *)
(* one of these.                                                            *)
Nonfatal == <<>>
Fatal == <<"fatal", "error">>

(* mutant: no error of broker.getenv is fatal *)
GetenvFails_Tolerated(result) == Nonfatal

(* EPERM and ENOSYS only mean that there is nothing to inherit. *)
GetenvFails(result) == IF result \in {"EPERM", "ENOSYS"} THEN Nonfatal ELSE Fatal

(* The local broker's variables pass through if it has VNIs. *)
cray_slingshot_inherit(n, env, result) ==
  LET b == LocalBroker(n)
  IN  IF result # "ok" THEN GetenvFails(result)
      ELSE IF b.VNIS = Unset THEN Nonfatal
      ELSE <<[b EXCEPT !.dws = env.dws]>>

(* tcmask_from_desc(), for the classes a service permits: CXI_TC_ETH and    *)
(* others have no bit.                                                      *)
tcmask_from_desc(classes) == classes \cap DefaultClasses

(* append_cxi_service_match(): the id of the service with these VNIs and    *)
(* the classes it leaves in the mask.                                       *)
append_cxi_service_match(n, i, reserved) ==
  IF reserved = <<>> \/ svc[n][i] = <<>>
  THEN [id |-> NoService, mask |-> DefaultClasses]
  ELSE [id |-> ServiceId(n, i), mask |-> tcmask_from_desc(svc[n][i][1])]

(* add_devices() and the variables set from its result. *)
ReservedEnv(n, env, reserved) ==
  LET match == [i \in DOMAIN Nics[n] |-> append_cxi_service_match(n, i, reserved)]
  IN  [VNIS    |-> setenv_json_array(reserved),
       DEVICES |-> setenv_json_array(Nics[n]),
       SVC_IDS |-> setenv_json_array([i \in DOMAIN Nics[n] |-> match[i].id]),
       TCS     |-> <<{c \in DefaultClasses : \A i \in DOMAIN match : c \in match[i].mask}>>,
       dws     |-> env.dws]

cray_slingshot_reserved(n, env) ==
  LET context == eventlog_wait_for(job.log, "cray-slingshot")
  IN  IF context = <<>> THEN Nonfatal ELSE <<ReservedEnv(n, env, context[1])>>

(* shell_post_init_cb(): inherit, else the reservation, else nothing. *)
shell_post_init_cb(n, env, result) ==
  LET inherited == cray_slingshot_inherit(n, env, result)
      reserved  == cray_slingshot_reserved(n, env)
  IN  IF inherited # Nonfatal THEN inherited
      ELSE IF reserved # Nonfatal THEN reserved ELSE <<env>>

(* mutant: a Workflow without an environment is no error *)
dws_read_future_Optional(env) ==
  LET context == eventlog_wait_for(job.log, "dws_environment")
  IN  IF context = <<>> THEN <<env>> ELSE <<[env EXCEPT !.dws = context]>>

(* read_future() and set_environment() of dws_environment.c: a job with     *)
(* #DW directives needs the event.                                          *)
dws_read_future(env) ==
  LET context == eventlog_wait_for(job.log, "dws_environment")
  IN  IF context = <<>> THEN Fatal ELSE <<[env EXCEPT !.dws = context]>>

dws_environment_init(env) == IF job.dw THEN dws_read_future(env) ELSE <<env>>

---------------------------------------------------------------------------
(* inst.getenv is what broker.getenv answers in this instance, inst.env the *)
(* environment of each broker; inst.on and inst.whole remember whether all  *)
(* jobs around it had the plugin on, and whether nothing kept it from       *)
(* inheriting.                                                              *)
NoJob == [nodes |-> {}, opt |-> "default", dw |-> FALSE, env |-> Clean, log |-> <<>>]

(* What the prologs may have made on the nodes: some service on a device,   *)
(* or none where that failed, and none at all for an empty reservation.     *)
Prologs ==
  LET On(n) == [DOMAIN Nics[n] -> {<<>>} \cup {<<c>> : c \in Classes}]
  IN  {f \in [Nodes -> UNION {On(n) : n \in Nodes}] :
         \A n \in Nodes :
           f[n] \in IF vnis \in {<<>>, <<<<>>>>}
                    THEN {[i \in DOMAIN Nics[n] |-> <<>>]} ELSE On(n)}

Init ==
  /\ vnis \in {<<>>} \cup {<<r>> : r \in Reservations}
  /\ svc \in Prologs
  /\ \E answer \in {"ok", "EPERM"} :
       inst = [depth |-> 0, getenv |-> answer, env |-> [n \in Nodes |-> Clean],
               on |-> TRUE, whole |-> TRUE]
  /\ job = NoJob
  /\ shell = <<>>
  /\ faults = Faults

(* The jobtap plugins of the system instance post their events before the   *)
(* job's shells are started; a nested instance has none.  With the option   *)
(* off the reservation is empty.                                            *)
EventsBeforeStart(opt, dws) ==
  IF inst.depth > 0 THEN <<>>
  ELSE (IF vnis = <<>> THEN <<>>
        ELSE <<EventWith("cray-slingshot", IF opt = "off" THEN <<>> ELSE vnis[1])>>)
       \o (IF dws THEN <<EventWith("dws_environment", "workflow")>> ELSE <<>>)

(* A job is submitted with the environment of a node of the instance or of  *)
(* somewhere else.  It may have met a non-fatal exception by the time it    *)
(* runs, and a job with #DW directives may be without the dws plugins.      *)
Submit ==
  /\ job = NoJob
  /\ \E nodes \in (SUBSET DOMAIN inst.env) \ {{}}, opt \in {"default", "off", "invalid"},
        dw, dws, warned \in BOOLEAN,
        env \in {inst.env[n] : n \in DOMAIN inst.env} \cup {Foreign} :
       /\ inst.depth = 0 => nodes = Nodes
       /\ inst.depth > 0 => ~dw
       /\ dws => dw
       /\ job' = [nodes |-> nodes, opt |-> opt, dw |-> dw, env |-> env,
                  log |-> (IF warned THEN <<EventException(1)>> ELSE <<>>)
                          \o EventsBeforeStart(opt, dws)]
       /\ shell' = [n \in nodes |-> [stage |-> "none", env |-> env]]
  /\ UNCHANGED <<svc, vnis, inst, faults>>

Stage(n) == shell[n].stage
Running == job # NoJob

Entered(name) == \E i \in DOMAIN job.log : job.log[i].name = name
Died == \E i \in DOMAIN job.log : job.log[i] = EventException(0)

Become(n, stage, env) ==
  shell' = [shell EXCEPT ![n] = [stage |-> stage, env |-> env]]

(* flux_plugin_init() of the plugins, then dws_environment_init(). *)
ShellInit(n) ==
  LET opt == cray_slingshot_parse_args(job.opt)
      env == IF opt # <<>> /\ ~opt[1].off THEN UnsetSlingshot(job.env) ELSE job.env
      dws == dws_environment_init(env)
  IN  /\ Running /\ Stage(n) = "none"
      /\ opt # <<>> /\ job.dw => ~Waits(job.log, "dws_environment")
      /\ IF opt = <<>> \/ dws = Fatal THEN Become(n, "failed", job.env)
                                      ELSE Become(n, "init", dws[1])
      /\ UNCHANGED <<svc, vnis, inst, job, faults>>

(* After the barrier of all shells. *)
PostInit(n) ==
  /\ Running /\ Stage(n) = "init"
  /\ \A m \in job.nodes : Stage(m) # "none"
  /\ \E result \in {inst.getenv, "ETIMEDOUT"} :
       LET env == shell[n].env
           res == IF job.opt = "off" THEN <<env>> ELSE shell_post_init_cb(n, env, result)
       IN  /\ IF result = inst.getenv THEN UNCHANGED faults
              ELSE faults > 0 /\ faults' = faults - 1
           /\ job.opt # "off" /\ cray_slingshot_inherit(n, env, result) = Nonfatal
                => ~Waits(job.log, "cray-slingshot")
           /\ IF res = Fatal THEN Become(n, "failed", env) ELSE Become(n, "ready", res[1])
  /\ UNCHANGED <<svc, vnis, inst, job>>

(* libcxi cannot list or open the devices of the node, or its services.     *)
AddDevicesFails(n) ==
  /\ Running /\ Stage(n) = "init" /\ job.opt # "off"
  /\ \A m \in job.nodes : Stage(m) # "none"
  /\ cray_slingshot_inherit(n, shell[n].env, inst.getenv) = Nonfatal
  /\ ~Waits(job.log, "cray-slingshot")
  /\ cray_slingshot_reserved(n, shell[n].env) # Nonfatal
  /\ faults > 0 /\ faults' = faults - 1
  /\ Become(n, "failed", shell[n].env)
  /\ UNCHANGED <<svc, vnis, inst, job>>

StartEvent ==
  /\ Running /\ ~Entered("start")
  /\ job' = [job EXCEPT !.log = Append(job.log, EventStart)]
  /\ UNCHANGED <<svc, vnis, inst, shell, faults>>

FatalException ==
  /\ Running /\ ~Died
  /\ job' = [job EXCEPT !.log = Append(job.log, EventException(0))]
  /\ UNCHANGED <<svc, vnis, inst, shell, faults>>

(* A job that ran is over, or it was one that failed. *)
JobEnds ==
  /\ Running
  /\ Died \/ \A n \in job.nodes : Stage(n) = "ready"
  /\ job' = NoJob /\ shell' = <<>>
  /\ UNCHANGED <<svc, vnis, inst, faults>>

(* Its tasks are brokers, which keep the environment they start with.  One  *)
(* version of Flux answers broker.getenv, an older one does not.            *)
NestedInstance ==
  /\ Running /\ ~Died /\ Entered("start") /\ inst.depth < MaxDepth
  /\ \A n \in job.nodes : Stage(n) = "ready"
  /\ \E answer \in {"ok", "ENOSYS"} :
       inst' = [depth |-> inst.depth + 1, getenv |-> answer,
                env |-> [n \in job.nodes |-> shell[n].env],
                on |-> inst.on /\ job.opt = "default",
                whole |-> inst.whole /\ job.opt = "default" /\ answer = "ok"]
  /\ job' = NoJob /\ shell' = <<>>
  /\ UNCHANGED <<svc, vnis, faults>>

Next ==
  \/ Submit \/ StartEvent \/ FatalException \/ JobEnds \/ NestedInstance
  \/ \E n \in job.nodes : ShellInit(n) \/ PostInit(n) \/ AddDevicesFails(n)

Spec == Init /\ [][Next]_vars

---------------------------------------------------------------------------
(* A shell that has set the environment of its tasks, in a job and in an    *)
(* instance where the plugin was never turned off.                          *)
Ready(n) == Stage(n) = "ready" /\ inst.on /\ job.opt = "default"

(* Devices, services and classes are those of the task's own node, whoever  *)
(* submitted the job and from wherever, at any depth: SLINGSHOT_SVC_IDS     *)
(* names services of this node and of the enclosing system job, and every   *)
(* class in SLINGSHOT_TCS is one that all of them permit.                   *)
LocalServices ==
  \A n \in job.nodes : Ready(n) =>
    LET env == shell[n].env
    IN  /\ env.DEVICES \in {Unset, Nics[n]}
        /\ \A i \in DOMAIN env.SVC_IDS :
             /\ env.SVC_IDS[i] \in {NoService, ServiceId(n, i)}
             /\ env.SVC_IDS[i] # NoService => env.TCS[1] \subseteq svc[n][i][1]

(* The tasks of a job have the same VNIs on every node: a shell that cannot *)
(* find out which it has does not start its tasks.                          *)
VnisAgree ==
  \A n, m \in job.nodes : Ready(n) /\ Ready(m) => shell[n].env.VNIS = shell[m].env.VNIS

(* At every depth the tasks have the reservation of the system job, unless  *)
(* a broker on the way could not answer broker.getenv; nobody has others.   *)
SameReservation ==
  \A n \in job.nodes : Ready(n) =>
    LET own == IF vnis = <<>> THEN Unset ELSE vnis[1]
    IN  /\ shell[n].env.VNIS \in {Unset, own}
        /\ inst.whole => shell[n].env.VNIS = own

(* The tasks of a job with #DW directives only run with the environment of  *)
(* its Workflow.                                                            *)
RabbitTasks ==
  \A n \in job.nodes :
    Stage(n) = "ready" /\ job.dw => shell[n].env.dws = <<"workflow">>
=============================================================================
