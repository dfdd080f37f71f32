------------------------------ MODULE CrayPals ------------------------------
(***************************************************************************)
(* Jobs whose shells load the cray-pals plugin, composed with the          *)
(* cray-pmi-bootstrap plugin that writes to their eventlogs: every shell   *)
(* reads the log on its own and sets the environment of its tasks.         *)
(***************************************************************************)
EXTENDS PmiPorts, Eventlog

CONSTANTS
  Watched,      \* the jobs whose shells are modelled; the others just run
  Options,      \* [pmi, bootstrap]: what users may ask for with -o
  ShellFaults   \* how many non-fatal exceptions and failing shells there are

ASSUME WatchedAreJobs == Watched \subseteq Jobs

ASSUME ShellFaultsCount == ShellFaults \in Nat

VARIABLES
  opt,          \* opt[j]: the shell options of the job, <<>> until they matter
  log,          \* log[j]: its eventlog, entries the shells do not look at left out
  shell,        \* shell[j][r]: the shell of rank r and the tasks' environment
  shellBudget

shellVars == <<opt, log, shell, shellBudget>>
vars == <<range, jobState, aux, event, stale, portBudget,
          opt, log, shell, shellBudget>>

Bootstrap == "cray-pmi-bootstrap"

(* Values of the variables; ports are <<>> when PMI_CONTROL_PORT is unset.  *)
Foreign == "foreign"
ForeignPorts == <<1, 2>>
UserPorts == <<3, 4>>
ShellEnv == [ports : PortPairs \cup {ForeignPorts, UserPorts},
             secret : {"unset", Foreign, "own"}, apid : {"unset", Foreign, "own"}]

(* The submitter's own environment: of a job, or of an instance that Slurm  *)
(* or Flux started as a parallel program.                                   *)
Submitted == [ports |-> ForeignPorts, secret |-> Foreign, apid |-> Foreign]

NoShell == [stage |-> "none", env |-> Submitted]
Stages == {"none", "up", "ready", "failed"}

---------------------------------------------------------------------------
(* The plugin in one shell *)

(* -opmi is a list; the plugin is on when cray-pals is in it. *)
member_of_csv(list, name) == \E i \in DOMAIN list : list[i] = name

(* mutant: a plugin that is off leaves the environment alone *)
unset_pals_env_Nothing(env) == env

(* Whatever libPALS might pick up goes. *)
unset_pals_env(env) == [ports |-> <<>>, secret |-> "unset", apid |-> "unset"]

(* -ocray-pals.pmi-bootstrap: struct pmi_bootstrap_info, <<>> on an error. *)
cray_pals_parse_args(o) ==
  CASE o.bootstrap = "default" -> <<[disabled |-> FALSE, ports |-> <<>>]>>
    [] o.bootstrap = "off"     -> <<[disabled |-> TRUE,  ports |-> <<>>]>>
    [] o.bootstrap = "ports"   -> <<[disabled |-> FALSE, ports |-> UserPorts]>>
    [] OTHER                   -> <<>>

(* mutant: only one shell asks for the ports *)
get_pmi_bootstrap_Rank0(pmi, r, size) ==
  size > 1 /\ ~pmi.disabled /\ pmi.ports = <<>> /\ r = 0

(* libpals_init() has to look for the ports in the eventlog. *)
get_pmi_bootstrap(pmi, r, size) ==
  size > 1 /\ ~pmi.disabled /\ pmi.ports = <<>>

(* read_future(): the ports of the event, or none if it will not come. *)
read_future(j) ==
  LET context == eventlog_wait_for(log[j], Bootstrap)
  IN  IF context = <<>> THEN <<>> ELSE context[1]

(* mutant: PMI_CONTROL_PORT is only overwritten *)
set_environment_NoUnset(env, ports) ==
  IF ports = <<>> THEN [env EXCEPT !.apid = "own"]
  ELSE [ports |-> ports, secret |-> "own", apid |-> "own"]

(* PMI_CONTROL_PORT never survives, PMI_SHARED_SECRET is only overwritten. *)
set_environment(env, ports) ==
  IF ports = <<>> THEN [env EXCEPT !.apid = "own", !.ports = <<>>]
  ELSE [ports |-> ports, secret |-> "own", apid |-> "own"]

---------------------------------------------------------------------------
ShellInit ==
  /\ opt = [j \in Watched |-> <<>>]
  /\ log = [j \in Watched |-> <<>>]
  /\ shell = [j \in Watched |-> <<>>]
  /\ shellBudget = ShellFaults

ShellFault == shellBudget > 0 /\ shellBudget' = shellBudget - 1

Ranks(j) == DOMAIN shell[j]

(* The scheduler allocates; run_cb is called before the execution system is *)
(* asked to start shells, so its event is first in the log.                 *)
Allocate(j) ==
  \E hosts \in 1 .. 2 :
    /\ run_cb(j, hosts)
    /\ log' = IF event'[j] = <<>> THEN log
              ELSE [log EXCEPT ![j] = Append(log[j], EventWith(Bootstrap, event'[j]))]
    /\ shell' = [shell EXCEPT ![j] = [r \in 0 .. hosts - 1 |-> NoShell]]
    /\ opt' \in {[opt EXCEPT ![j] = o] : o \in Options}
    /\ UNCHANGED shellBudget

(* An exception of another severity: the job goes on. *)
NonfatalException(j) ==
  /\ jobState[j] \in {"SCHED", "RUN"}
  /\ ShellFault
  /\ log' = [log EXCEPT ![j] = Append(log[j], EventException(1))]
  /\ UNCHANGED <<portVars, opt, shell>>

(* The execution system starts a shell.  A plugin that is off or whose      *)
(* options do not parse says so in flux_plugin_init().                      *)
LaunchShell(j, r) ==
  LET pmi   == cray_pals_parse_args(opt[j])
      stage == IF ~member_of_csv(opt[j].pmi, "cray-pals") THEN "ready"
               ELSE IF pmi = <<>> THEN "failed" ELSE "up"
      env   == IF stage = "ready" THEN unset_pals_env(Submitted) ELSE Submitted
  IN  /\ jobState[j] = "RUN"
      /\ shell[j][r].stage = "none"
      /\ shell' = [shell EXCEPT ![j][r] = [stage |-> stage, env |-> env]]
      /\ UNCHANGED <<portVars, opt, log, shellBudget>>

(* It posts the start event when all shells are there. *)
StartEvent(j) ==
  /\ jobState[j] = "RUN"
  /\ \A r \in Ranks(j) : shell[j][r].stage # "none"
  /\ ~Contains(log[j], EventStart)
  /\ log' = [log EXCEPT ![j] = Append(log[j], EventStart)]
  /\ UNCHANGED <<portVars, opt, shell, shellBudget>>

(* libpals_init() in one shell, also of a job that is being killed: it may  *)
(* wait for the log, then create_apinfo() fails or not.                     *)
libpals_init(j, r) ==
  LET pmi   == cray_pals_parse_args(opt[j])[1]
      reads == get_pmi_bootstrap(pmi, r, Cardinality(Ranks(j)))
      Done(stage, env) ==
        shell' = [shell EXCEPT ![j][r] = [stage |-> stage, env |-> env]]
  IN  /\ shell[j][r].stage = "up"
      /\ reads => ~Waits(log[j], Bootstrap)
      /\ \/ /\ Done("ready", set_environment(
                      shell[j][r].env, IF reads THEN read_future(j) ELSE pmi.ports))
            /\ UNCHANGED shellBudget
         \/ Done("failed", shell[j][r].env) /\ ShellFault
      /\ UNCHANGED <<portVars, opt, log>>

(* The last task has ended. *)
Finish(j) ==
  /\ jobState[j] = "RUN" /\ Contains(log[j], EventStart)
  /\ \A r \in Ranks(j) : shell[j][r].stage = "ready"
  /\ EnterCleanup(j)
  /\ UNCHANGED shellVars

(* A cancellation at any time, or the exception for a shell that failed. *)
FatalException(j) ==
  /\ EnterCleanup(j)
  /\ log' = [log EXCEPT ![j] = Append(log[j], EventException(0))]
  /\ UNCHANGED <<opt, shell, shellBudget>>

(* All shells have been killed or have ended. *)
Ended(j) ==
  /\ Inactive(j)
  /\ opt' = [opt EXCEPT ![j] = <<>>]
  /\ log' = [log EXCEPT ![j] = <<>>]
  /\ shell' = [shell EXCEPT ![j] = <<>>]
  /\ UNCHANGED shellBudget

Init == PortInit /\ ShellInit

(* What the shells of a job that is not watched do shows in its end only. *)
Unwatched(j) ==
  /\ \/ Submit(j)
     \/ \E hosts \in 1 .. 2 : run_cb(j, hosts)
     \/ EnterCleanup(j)
     \/ Inactive(j)
  /\ UNCHANGED shellVars

Next ==
  \/ \E j \in Jobs \ Watched : Unwatched(j)
  \/ \E j \in Watched : Submit(j) /\ UNCHANGED shellVars
  \/ \E j \in Watched : Allocate(j)
  \/ \E j \in Watched : NonfatalException(j)
  \/ \E j \in Watched : StartEvent(j)
  \/ \E j \in Watched : Finish(j)
  \/ \E j \in Watched : FatalException(j)
  \/ \E j \in Watched : Ended(j)
  \/ \E j \in Watched : \E r \in Ranks(j) : LaunchShell(j, r)
  \/ \E j \in Watched : \E r \in Ranks(j) : libpals_init(j, r)
  \/ Reload /\ UNCHANGED shellVars

Spec == Init /\ [][Next]_vars

(* Shells are started and run, the start event is posted. *)
FairSpec ==
  /\ Spec
  /\ \A j \in Watched :
       /\ WF_vars(\E r \in Ranks(j) : LaunchShell(j, r))
       /\ WF_vars(\E r \in Ranks(j) : libpals_init(j, r))
       /\ WF_vars(StartEvent(j))

---------------------------------------------------------------------------
(* Every variable keeps its type. *)
TypeOK ==
  /\ PortTypeOK
  /\ opt \in [Watched -> Options \cup {<<>>}]
  /\ \A j \in Watched, r \in 0 .. 1 :
       r \in Ranks(j) => shell[j][r] \in [stage : Stages, env : ShellEnv]

(* cray_pals.c 61-64: all shells of a job give their tasks the same list of *)
(* ports, and it is the one in the eventlog if there is one and the user    *)
(* did not decide otherwise.                                                *)
SamePorts ==
  \A j \in Watched : \A r, q \in Ranks(j) :
    shell[j][r].stage = "ready" /\ shell[j][q].stage = "ready" =>
      /\ shell[j][r].env.ports = shell[j][q].env.ports
      /\ opt[j].bootstrap = "default" /\ shell[j][r].env.apid = "own" =>
           shell[j][r].env.ports = event[j]

(* Tasks never see the PMI_CONTROL_PORT or PALS_APID of the environment the *)
(* job was submitted from, whether the plugin is on or off.                 *)
OwnBootstrap ==
  \A j \in Watched : \A r \in Ranks(j) :
    shell[j][r].stage = "ready" =>
      /\ shell[j][r].env.ports # ForeignPorts
      /\ shell[j][r].env.apid # Foreign

Initializing(j) == \E r \in Ranks(j) : shell[j][r].stage = "up"

(* get_pmi_bootstrap() "is guaranteed to terminate": the shells of a job get *)
(* past their init, whether the jobtap plugin is there or not.               *)
InitEnds == \A j \in Watched : Initializing(j) ~> ~Initializing(j)
=============================================================================
