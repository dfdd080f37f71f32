------------------------------- MODULE DwsEnv -------------------------------
(***************************************************************************)
(* What lies between the dws-jobtap plugin and the coral2_dws service, for *)
(* one rabbit job: the two message streams of the Flux broker, the job's   *)
(* Workflow object in Kubernetes with the DWS controller that works on it, *)
(* the watch stream of that object, and the faults that have happened.     *)
(***************************************************************************)
EXTENDS Naturals, Sequences

CONSTANTS
  Budgets,        \* the mixes of faults a behaviour may contain
  StrictWebhook   \* TRUE: the DWS webhook refuses to move a Workflow backwards

VARIABLES
  toSvc,    \* requests under way from the plugin to the service, in order
  toJm,     \* requests and failure responses under way to the job manager
  svcUp,    \* the coral2_dws process is running and has registered "dws"
  wf,       \* the Workflow object as the API server has it
  events,   \* watch events (snapshots) the service has not handled yet
  faults    \* how many faults of each kind have happened

envVars == <<toSvc, toJm, svcUp, wf, events, faults>>

(***************************************************************************)
(* Faults and outside interventions.  "cancel": a user or another part of  *)
(* Flux raises a severity 0 exception; "api": a call to Kubernetes or the  *)
(* KVS fails; "crash": the service process dies; "relist": the watch gets  *)
(* 410 and starts over; "delete": somebody deletes the Workflow; "tc" and  *)
(* "error": DWS reports TransientCondition or Error; "perilog": another    *)
(* plugin starts a prolog or an epilog for the job.                        *)
(***************************************************************************)
FaultKinds == {"cancel", "api", "crash", "relist", "delete", "tc", "error",
               "perilog"}

ASSUME BudgetsAssumption == Budgets \subseteq [FaultKinds -> Nat]
ASSUME WebhookAssumption == StrictWebhook \in BOOLEAN

(* One more fault, if some mix has room for it. *)
Spend(kind) ==
  /\ faults' = [faults EXCEPT ![kind] = @ + 1]
  /\ \E mix \in Budgets : \A k \in FaultKinds : faults'[k] <= mix[k]

---------------------------------------------------------------------------
(* Messages *)

(* dws.create, dws.setup, dws.post_run (with its run_started argument),    *)
(* dws.teardown and dws.abort.                                             *)
SvcMsgs == {"create", "setup", "post_run_0", "post_run_1", "teardown", "abort"}

(* dws.resource-update without and with "errmsg", dws.prolog-remove,       *)
(* dws.epilog-remove, job_raise of severity 0, and the failure responses   *)
(* the plugin has a callback for.                                          *)
JmMsgs == {"resource-update", "resource-update-err", "prolog-remove",
           "epilog-remove", "raise", "create-fail", "setup-fail",
           "post_run-fail"}

(* The response callback that a failed request reaches; the futures of     *)
(* dws.teardown and dws.abort are destroyed at once.                       *)
FailureOf(msg) ==
  CASE msg = "create" -> <<"create-fail">>
    [] msg = "setup" -> <<"setup-fail">>
    [] msg \in {"post_run_0", "post_run_1"} -> <<"post_run-fail">>
    [] OTHER -> <<>>

---------------------------------------------------------------------------
(* The Workflow object *)

(* enum WorkflowState *)
WorkflowStates ==
  {"Proposal", "Setup", "DataIn", "PreRun", "PostRun", "DataOut", "Teardown"}

(* The order the DWS controller walks the states in. *)
NextState ==
  [s \in WorkflowStates |->
     CASE s = "Proposal" -> "Setup"
       [] s = "Setup" -> "DataIn"
       [] s = "DataIn" -> "PreRun"
       [] s = "PreRun" -> "PostRun"
       [] s = "PostRun" -> "DataOut"
       [] OTHER -> "Teardown"]

(* status.status *)
StatusValues == {"ok", "TransientCondition", "Error"}

(* exists: the API server has the object; desired: spec.desiredState;      *)
(* state, ready, status: status.state ("none" before DWS sets it),         *)
(* status.ready, status.status; finalizer: Flux's own finalizer is on it;  *)
(* deleting: deletionTimestamp is set.                                     *)
Workflows ==
  [exists : BOOLEAN, desired : WorkflowStates \cup {"none"},
   state : WorkflowStates \cup {"none"}, ready : BOOLEAN,
   status : StatusValues, finalizer : BOOLEAN, deleting : BOOLEAN]

NoWorkflow ==
  [exists |-> FALSE, desired |-> "none", state |-> "none", ready |-> FALSE,
   status |-> "ok", finalizer |-> FALSE, deleting |-> FALSE]

(* state_active() and state_complete(), on an object or a snapshot of it. *)
state_active(w, s) == w.desired = s /\ w.state = s
state_complete(w, s) == state_active(w, s) /\ w.ready

TornDown(w) == ~w.exists \/ state_complete(w, "Teardown")

(* Does the API server accept a patch of spec.desiredState?                *)
PatchAccepted(w, s) ==
  /\ w.exists
  /\ \/ s \in {w.desired, "Teardown"}
     \/ ~StrictWebhook
     \/ state_complete(w, w.desired) /\ w.desired # "Teardown"
        /\ s = NextState[w.desired]

(* A snapshot goes to the watch only if the write changed the object.      *)
Notify(queue, w) == IF svcUp /\ w # wf THEN Append(queue, w) ELSE queue

(* mutant: nothing is listed *)
Listing_Nothing(w) == <<>>

(* Watch.watch() from resourceVersion 0: one event per object that exists. *)
Listing(w) == IF w.exists THEN <<w>> ELSE <<>>

---------------------------------------------------------------------------
EnvInit ==
  /\ toSvc = <<>>
  /\ toJm = <<>>
  /\ svcUp = TRUE
  /\ wf = NoWorkflow
  /\ events = <<>>
  /\ faults = [kind \in FaultKinds |-> 0]

EnvTypeOK ==
  /\ toSvc \in Seq(SvcMsgs)
  /\ toJm \in Seq(JmMsgs)
  /\ svcUp \in BOOLEAN
  /\ wf \in Workflows
  /\ events \in Seq(Workflows)
  /\ faults \in [FaultKinds -> Nat]

---------------------------------------------------------------------------
(* The DWS controller and the API server (external) *)

Update(w) ==
  /\ wf' = w
  /\ events' = Notify(events, w)
  /\ UNCHANGED <<toSvc, toJm, svcUp>>

(* The controller begins to work on the desired state. *)
ControllerStart ==
  /\ wf.exists /\ wf.state # wf.desired
  /\ Update([wf EXCEPT !.state = wf.desired, !.ready = FALSE, !.status = "ok"])
  /\ UNCHANGED faults

(* The controller completes the desired state; a TransientCondition clears. *)
ControllerComplete ==
  /\ wf.exists /\ wf.state = wf.desired /\ ~wf.ready /\ wf.status # "Error"
  /\ Update([wf EXCEPT !.ready = TRUE, !.status = "ok"])
  /\ UNCHANGED faults

ControllerTransientCondition ==
  /\ wf.exists /\ wf.state = wf.desired /\ ~wf.ready /\ wf.status = "ok"
  /\ Spend("tc")
  /\ Update([wf EXCEPT !.status = "TransientCondition"])

ControllerError ==
  /\ wf.exists /\ wf.state = wf.desired /\ ~wf.ready /\ wf.status # "Error"
  /\ Spend("error")
  /\ Update([wf EXCEPT !.status = "Error"])

(* Somebody other than the service asks for the object to be deleted. *)
OutsideDelete ==
  /\ wf.exists /\ ~wf.deleting
  /\ Spend("delete")
  /\ Update([wf EXCEPT !.deleting = TRUE])

(* The API server drops an object under deletion once no finalizer holds it. *)
ApiServerRemove ==
  /\ wf.exists /\ wf.deleting /\ ~wf.finalizer
  /\ Update(NoWorkflow)
  /\ UNCHANGED faults

(* Watch.watch(): 410, the pending events are lost and the watch restarts. *)
WatchRestart ==
  /\ svcUp
  /\ Spend("relist")
  /\ events' = Listing(wf)
  /\ UNCHANGED <<toSvc, toJm, svcUp, wf>>

EnvNext ==
  \/ ControllerStart
  \/ ControllerComplete
  \/ ControllerTransientCondition
  \/ ControllerError
  \/ OutsideDelete
  \/ ApiServerRemove
  \/ WatchRestart
=============================================================================
