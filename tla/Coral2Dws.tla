------------------------------ MODULE Coral2Dws ------------------------------
(***************************************************************************)
(* The coral2_dws service (src/modules/coral2_dws.py with                  *)
(* src/python/flux_k8s/{workflow,cleanup,watch}.py), as far as it concerns *)
(* one job.  The body of a handler is an operator from a record            *)
(*   [svc, wf, toJm, ok]                                                   *)
(* to such a record; ok turns FALSE when the handler raises, and whatever  *)
(* it did before stays done.                                               *)
(***************************************************************************)
EXTENDS DwsEnv

CONSTANT Timers   \* the configured timers: subset of TimerKinds

TimerKinds == {"setup", "prerun", "postrun", "teardown_after"}

ASSUME TimersAssumption == Timers \subseteq TimerKinds

VARIABLE svc

svcVars == <<svc>>

(* known: the job is in the cache of WorkflowInfo objects; toredown,       *)
(* deleted, epilogRemoved: the flags of the object.  stateTimer: the       *)
(* armed state_timer.  teardownAfter: _teardown_after_timer is armed.      *)
(* tc: the job is in WORKFLOWS_IN_TC, met in PreRun or elsewhere.          *)
(* doTeardown, doDelete: a coroutine teardown_workflow_coro or             *)
(* delete_workflow_coro is in the cleanup loop.  revived: history, the     *)
(* cache entry is one that kill_workflows_in_tc put back.                  *)
Services ==
  [known : BOOLEAN, toredown : BOOLEAN, deleted : BOOLEAN,
   epilogRemoved : BOOLEAN,
   stateTimer : {"none", "setup", "prerun", "postrun"},
   teardownAfter : BOOLEAN, tc : {"none", "prerun", "other"},
   doTeardown : BOOLEAN, doDelete : BOOLEAN, revived : BOOLEAN]

FreshService ==
  [known |-> FALSE, toredown |-> FALSE, deleted |-> FALSE,
   epilogRemoved |-> FALSE, stateTimer |-> "none", teardownAfter |-> FALSE,
   tc |-> "none", doTeardown |-> FALSE, doDelete |-> FALSE, revived |-> FALSE]

SvcInit == svc = FreshService

SvcTypeOK == svc \in Services

---------------------------------------------------------------------------
(* WorkflowInfo *)

(* WorkflowInfo.get(): setdefault of a fresh object, all of whose flags    *)
(* are FALSE, as they are in svc while the job is not known.               *)
Get(s) == [s EXCEPT !.svc.known = TRUE]

(* mutant: the entry stays in the cache *)
Forget_Kept(s) == s

(* WorkflowInfo.remove(); the timers live on. *)
Forget(s) ==
  [s EXCEPT !.svc.known = FALSE, !.svc.toredown = FALSE,
            !.svc.deleted = FALSE, !.svc.epilogRemoved = FALSE,
            !.svc.revived = FALSE]

Tell(s, msg) == [s EXCEPT !.toJm = Append(@, msg)]

StopTimer(s) == [s EXCEPT !.svc.stateTimer = "none"]

ArmTimer(s, kind) ==
  IF kind \in Timers /\ s.ok THEN [s EXCEPT !.svc.stateTimer = kind] ELSE s

(* The Workflow is handed to the cleanup thread. *)
move_to_teardown(s) ==
  [StopTimer(s) EXCEPT !.svc.doTeardown = TRUE, !.svc.toredown = TRUE]

(* How the calls a handler makes turn out: all succeed; one fails with no  *)
(* effect; one fails although Kubernetes took the write (or the handler    *)
(* raises right after it); or the user's input is refused.                 *)
Outcomes == {"ok", "fault", "late", "invalid"}

move_desiredstate(s, state, outcome) ==
  IF outcome = "fault" \/ ~PatchAccepted(s.wf, state)
  THEN [StopTimer(s) EXCEPT !.ok = FALSE]
  ELSE [StopTimer(s) EXCEPT !.wf.desired = state, !.ok = (outcome # "late")]

(* mutant: the 404 branch taken for any error *)
check_existence_and_move_to_teardown_AnyError(s, outcome) ==
  IF s.wf.exists /\ outcome = "ok" THEN move_to_teardown(s)
  ELSE Tell(Forget(s), "epilog-remove")

check_existence_and_move_to_teardown(s, outcome) ==
  IF outcome # "ok" THEN [s EXCEPT !.ok = FALSE]
  ELSE IF s.wf.exists THEN move_to_teardown(s)
  ELSE IF s.svc.known THEN Tell(Forget(s), "epilog-remove")
  ELSE [s EXCEPT !.ok = FALSE]

---------------------------------------------------------------------------
(* RPC handlers *)

(* mutant: no finalizer on the new object *)
NewWorkflow_NoFinalizer ==
  [NoWorkflow EXCEPT !.exists = TRUE, !.desired = "Proposal"]

NewWorkflow ==
  [NoWorkflow EXCEPT !.exists = TRUE, !.desired = "Proposal",
                     !.finalizer = TRUE]

(* "fault", "invalid": the directives or the call are refused, nothing is  *)
(* created.  "late": the object is created and the handler raises, as it   *)
(* does for a negative dw_failure_tolerance.                               *)
create_cb(s, outcome) ==
  CASE outcome = "ok" ->
         [s EXCEPT !.wf = NewWorkflow,
                   !.svc = [@ EXCEPT !.known = TRUE, !.toredown = FALSE,
                                     !.deleted = FALSE,
                                     !.epilogRemoved = FALSE]]
    [] outcome = "late" -> [s EXCEPT !.wf = NewWorkflow, !.ok = FALSE]
    [] OTHER -> [s EXCEPT !.ok = FALSE]

(* No look at toredown here. *)
setup_cb(s, outcome) ==
  IF outcome = "fault" \/ ~s.wf.exists THEN [s EXCEPT !.ok = FALSE]
  ELSE ArmTimer(move_desiredstate(Get(s), "Setup", outcome), "setup")

(* mutant: the other timer is kept as the state_timer *)
post_run_cb_OneTimer(s, run_started, outcome) ==
  IF s.svc.toredown THEN s
  ELSE IF ~run_started
       THEN check_existence_and_move_to_teardown(Get(s), outcome)
  ELSE ArmTimer(move_desiredstate(Get(s), "PostRun", outcome), "teardown_after")

post_run_cb(s, run_started, outcome) ==
  IF s.svc.toredown THEN s
  ELSE IF ~run_started
       THEN check_existence_and_move_to_teardown(Get(s), outcome)
  ELSE LET t == move_desiredstate(Get(s), "PostRun", outcome)
       IN  ArmTimer([t EXCEPT !.svc.teardownAfter =
                                @ \/ (t.ok /\ "teardown_after" \in Timers)],
                    "postrun")

teardown_cb(s, outcome) ==
  IF s.svc.toredown THEN s
  ELSE check_existence_and_move_to_teardown(Get(s), outcome)

(* Then nodes are drained and rabbits disabled, which has no effect on the *)
(* Workflow.                                                               *)
abort_cb(s, outcome) ==
  LET t == [Get(s) EXCEPT !.svc.epilogRemoved = TRUE]
  IN  IF s.svc.toredown THEN t
      ELSE check_existence_and_move_to_teardown(t, outcome)

Rpc(s, msg, outcome) ==
  CASE msg = "create" -> create_cb(s, outcome)
    [] msg = "setup" -> setup_cb(s, outcome)
    [] msg = "post_run_0" -> post_run_cb(s, FALSE, outcome)
    [] msg = "post_run_1" -> post_run_cb(s, TRUE, outcome)
    [] msg = "teardown" -> teardown_cb(s, outcome)
    [] OTHER -> abort_cb(s, outcome)

---------------------------------------------------------------------------
(* The watch callback *)

Raise(s) == Tell(s, "raise")

(* job_raise on Error; entry in WORKFLOWS_IN_TC as long as DWS reports a   *)
(* TransientCondition.                                                     *)
Condition(w) ==
  CASE w.status # "TransientCondition" -> "none"
    [] w.state = "PreRun" -> "prerun"
    [] OTHER -> "other"

handle_workflow_errors(s, w) ==
  IF w.status = "Error" THEN Raise(s) ELSE [s EXCEPT !.svc.tc = Condition(w)]

(* "invalid": the directives ask for too much, apply_breakdowns raises     *)
(* ValueError.                                                             *)
handle_proposal_state(s, outcome) ==
  CASE outcome = "ok" -> Tell(s, "resource-update")
    [] outcome = "invalid" -> Tell(s, "resource-update-err")
    [] OTHER -> [s EXCEPT !.ok = FALSE]

remove_finalizer(s, w, outcome) ==
  IF ~w.finalizer THEN s
  ELSE IF outcome = "fault" \/ ~s.wf.exists THEN [s EXCEPT !.ok = FALSE]
  ELSE [s EXCEPT !.wf.finalizer = FALSE]

(* mutant: the plugin is not told *)
TeardownComplete_Untold(s, outcome) ==
  [s EXCEPT !.svc.doDelete = TRUE, !.svc.deleted = TRUE]

(* mutant: the deletion is not submitted *)
TeardownComplete_Undeleted(s, outcome) ==
  [Tell(s, "epilog-remove") EXCEPT !.svc.deleted = TRUE]

(* The epilog is released first; freeing the rabbits may still raise. *)
TeardownComplete(s, outcome) ==
  LET t == IF s.svc.epilogRemoved THEN s ELSE Tell(s, "epilog-remove")
  IN  IF outcome # "ok" THEN [t EXCEPT !.ok = FALSE]
      ELSE [t EXCEPT !.svc.doDelete = TRUE, !.svc.deleted = TRUE]

(* The branches of _workflow_state_change_cb_inner on a snapshot w. *)
StateChange(s, w, outcome) ==
  CASE state_complete(w, "Teardown") -> TeardownComplete(s, outcome)
    [] state_active(w, "Teardown") /\ ~w.ready -> remove_finalizer(s, w, outcome)
    [] state_complete(w, "Proposal") -> handle_proposal_state(s, outcome)
    [] state_complete(w, "Setup") -> move_desiredstate(s, "DataIn", outcome)
    [] state_complete(w, "DataIn") ->
         ArmTimer(move_desiredstate(s, "PreRun", outcome), "prerun")
    [] state_complete(w, "PreRun") ->
         IF outcome # "ok" THEN [s EXCEPT !.ok = FALSE]
         ELSE StopTimer(Tell(s, "prolog-remove"))
    [] state_complete(w, "PostRun") -> move_desiredstate(s, "DataOut", outcome)
    [] state_complete(w, "DataOut") -> move_to_teardown(s)
    [] OTHER -> s

(* mutant: without the early return on winfo.toredown *)
Ignored_NotToredown(s, w) ==
  \/ w.state = "none"
  \/ s.svc.deleted

(* The early returns, then the branches, then the error status. *)
Ignored(s, w) ==
  \/ w.state = "none"
  \/ s.svc.deleted
  \/ s.svc.toredown /\ ~state_active(w, "Teardown")

workflow_state_change_cb_inner(s, w, outcome) ==
  IF Ignored(s, w) THEN s
  ELSE LET t == StateChange(s, w, outcome)
       IN  IF t.ok THEN handle_workflow_errors(t, w) ELSE t

(* mutant: the job is not told of the teardown *)
workflow_state_change_cb_Silent(s, w, outcome) ==
  IF ~w.exists THEN Forget(s)
  ELSE LET t == workflow_state_change_cb_inner(Get(s), w, outcome)
       IN  IF t.ok THEN t ELSE move_to_teardown(t)

workflow_state_change_cb(s, w, outcome) ==
  IF ~w.exists THEN Forget(s)
  ELSE LET t == workflow_state_change_cb_inner(Get(s), w, outcome)
       IN  IF t.ok THEN t ELSE Raise(move_to_teardown(t))

(* Which outcomes can the handling of a message or a snapshot meet, and    *)
(* which of them are faults?  A create may be refused at any time.         *)
RpcOutcomes(msg) ==
  CASE msg = "create" -> Outcomes
    [] msg \in {"setup", "post_run_1"} -> {"ok", "fault", "late"}
    [] OTHER -> {"ok", "fault"}

WatchOutcomes(s, w) ==
  IF ~w.exists \/ Ignored(s, w) THEN {"ok"}
  ELSE IF state_complete(w, w.desired)
  THEN CASE w.desired = "Proposal" -> {"ok", "fault", "invalid"}
         [] w.desired \in {"Setup", "DataIn", "PostRun"} -> {"ok", "fault", "late"}
         [] w.desired = "DataOut" -> {"ok"}
         [] OTHER -> {"ok", "fault"}
  ELSE IF state_active(w, "Teardown") /\ w.finalizer THEN {"ok", "fault"}
  ELSE {"ok"}

---------------------------------------------------------------------------
(* Actions *)

Now == [svc |-> svc, wf |-> wf, toJm |-> toJm, ok |-> TRUE]

Put(s, queue) ==
  /\ svc' = s.svc
  /\ wf' = s.wf
  /\ toJm' = s.toJm
  /\ events' = Notify(queue, s.wf)
  /\ UNCHANGED svcUp

Charge(isFault) == IF isFault THEN Spend("api") ELSE UNCHANGED faults

(* The next RPC; message_callback_wrapper turns an exception into a        *)
(* failure response.                                                       *)
HandleRpc ==
  /\ svcUp /\ toSvc # <<>>
  /\ \E outcome \in RpcOutcomes(Head(toSvc)) :
       LET msg == Head(toSvc)
           s   == Rpc(Now, msg, outcome)
       IN  /\ Charge(outcome # "ok" /\ msg # "create")
           /\ Put(IF s.ok THEN s ELSE [s EXCEPT !.toJm = @ \o FailureOf(msg)],
                  events)
  /\ toSvc' = Tail(toSvc)

(* The next watch event. *)
HandleWatchEvent ==
  /\ svcUp /\ events # <<>>
  /\ \E outcome \in WatchOutcomes(Now, Head(events)) :
       /\ Charge(outcome \in {"fault", "late"})
       /\ Put(workflow_state_change_cb(Now, Head(events), outcome), Tail(events))
  /\ UNCHANGED toSvc

(* setup_timeout_cb and prerun_timeout_cb: the job fails, or the missing   *)
(* nodes are within dw_failure_tolerance and DWS is told to go on.         *)
StateTimeout ==
  /\ svcUp /\ svc.stateTimer \in {"setup", "prerun"}
  /\ \/ Put(Raise(StopTimer(Now)), events)
     \/ Put(StopTimer(Now), events)
  /\ UNCHANGED <<toSvc, faults>>

(* An error of the check is logged only and the exception is raised anyway; *)
(* when the nodes cannot be drained ("late"), the wrapper raises another.   *)
postrun_timeout_cb ==
  /\ svcUp /\ svc.stateTimer = "postrun"
  /\ \E outcome \in {"ok", "fault", "late"} :
       LET check == IF outcome = "fault" THEN "fault" ELSE "ok"
           s == Raise([check_existence_and_move_to_teardown(StopTimer(Now), check)
                         EXCEPT !.ok = TRUE])
       IN  /\ Charge(outcome # "ok")
           /\ Put(IF outcome = "late" THEN Raise(s) ELSE s, events)
  /\ UNCHANGED toSvc

(* Fires even if the Workflow was torn down or deleted in the meantime; it *)
(* raises an exception of severity 1, which the plugin ignores.            *)
teardown_after_timer_cb ==
  /\ svcUp /\ svc.teardownAfter
  /\ \E outcome \in {"ok", "fault"} :
       /\ Charge(outcome = "fault")
       /\ Put([check_existence_and_move_to_teardown(
                 [Now EXCEPT !.svc.teardownAfter = FALSE], outcome)
                 EXCEPT !.ok = TRUE], events)
  /\ UNCHANGED toSvc

(* The process ends: cache, timers and the cleanup loop go, and so do the  *)
(* requests it had not answered.                                           *)
ServiceStops ==
  /\ svcUp' = FALSE
  /\ svc' = FreshService
  /\ toSvc' = <<>>
  /\ events' = <<>>
  /\ UNCHANGED <<toJm, wf>>

(* The job leaves WORKFLOWS_IN_TC.  In PreRun its failed mounts are looked *)
(* up through WorkflowInfo.get(), which makes an entry if there is none.   *)
Overdue(s) ==
  LET g == IF s.svc.tc = "prerun" THEN Get(s) ELSE s
  IN  [g EXCEPT !.svc.tc = "none",
                !.svc.revived = @ \/ (g.svc.known /\ ~s.svc.known)]

(* tc_timeout has passed: an exception.  Or the failed mounts are within   *)
(* the dw_failure_tolerance of an entry that is not new (a new one has     *)
(* none) and DWS is told to go on; nothing catches the error when that     *)
(* patch fails, as it does for a Workflow that is gone, and the reactor of *)
(* the service stops.                                                      *)
kill_workflows_in_tc ==
  /\ svcUp /\ svc.tc # "none"
  /\ \/ /\ Put(Raise(Overdue(Now)), events)
        /\ UNCHANGED <<toSvc, faults>>
     \/ /\ svc.tc = "prerun" /\ svc.known /\ wf.exists
        /\ Put(Overdue(Now), events)
        /\ UNCHANGED <<toSvc, faults>>
     \/ /\ svc.tc = "prerun" /\ svc.known
        /\ Charge(wf.exists)
        /\ ServiceStops

(* teardown_workflow_coro: one patch of desiredState and the finalizers,   *)
(* retried until it succeeds or the object is gone.                        *)
teardown_workflow_coro ==
  /\ svcUp /\ svc.doTeardown
  /\ LET s == [Now EXCEPT !.svc.doTeardown = FALSE]
     IN  Put(IF wf.exists
             THEN [s EXCEPT !.wf.desired = "Teardown", !.wf.finalizer = FALSE]
             ELSE s, events)
  /\ UNCHANGED <<toSvc, faults>>

(* delete_workflow_coro: removes the finalizer and deletes, with retries. *)
delete_workflow_coro ==
  /\ svcUp /\ svc.doDelete
  /\ LET s == [Now EXCEPT !.svc.doDelete = FALSE]
     IN  Put(IF wf.exists
             THEN [s EXCEPT !.wf.finalizer = FALSE, !.wf.deleting = TRUE]
             ELSE s, events)
  /\ UNCHANGED <<toSvc, faults>>

(* The process dies at any other time. *)
Crash ==
  /\ svcUp
  /\ Spend("crash")
  /\ ServiceStops

(* main(): an empty cache, and a watch from resourceVersion 0. *)
Restart ==
  /\ ~svcUp
  /\ svcUp' = TRUE
  /\ events' = Listing(wf)
  /\ UNCHANGED <<svc, toSvc, toJm, wf, faults>>

SvcNext ==
  \/ HandleRpc
  \/ HandleWatchEvent
  \/ StateTimeout
  \/ postrun_timeout_cb
  \/ teardown_after_timer_cb
  \/ kill_workflows_in_tc
  \/ teardown_workflow_coro
  \/ delete_workflow_coro
  \/ Crash
  \/ Restart
=============================================================================
