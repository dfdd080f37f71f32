------------------------------ MODULE RabbitJob ------------------------------
(***************************************************************************)
(* The life of one rabbit job: the dws-jobtap plugin and the coral2_dws    *)
(* service, joined by the broker's messages and by the Workflow object.    *)
(***************************************************************************)
EXTENDS DwsJobtap, Coral2Dws

vars == <<toSvc, toJm, svcUp, wf, events, faults, job, svc>>

Init == EnvInit /\ JobInit /\ SvcInit

(* The job is inactive, its Workflow is gone, and nothing is under way. *)
Finished ==
  /\ job.state = "INACTIVE" /\ ~wf.exists /\ svcUp
  /\ toSvc = <<>> /\ toJm = <<>> /\ events = <<>>
  /\ UNCHANGED vars

Next ==
  \/ JobNext /\ UNCHANGED svc
  \/ SvcNext /\ UNCHANGED job
  \/ EnvNext /\ UNCHANGED <<job, svc>>
  \/ Finished

Spec == Init /\ [][Next]_vars

---------------------------------------------------------------------------
(* Fairness: handlers run when they can, the scheduler, the execution       *)
(* system and the DWS controller make progress, tasks end, the epilog timer *)
(* fires and a dead service is restarted.  Faults and the service's own     *)
(* timers are owed nothing.                                                 *)
Fairness ==
  /\ WF_vars(depend_cb /\ UNCHANGED svc)
  /\ WF_vars(run_cb /\ UNCHANGED svc)
  /\ WF_vars(fetch_R_callback /\ UNCHANGED svc)
  /\ WF_vars(HandleJmMessage /\ UNCHANGED svc)
  /\ WF_vars(epilog_timeout_cb /\ UNCHANGED svc)
  /\ WF_vars(OtherPerilogFinish /\ UNCHANGED svc)
  /\ WF_vars(StartRequest /\ UNCHANGED svc)
  /\ WF_vars((StartEvent \/ StartAbandoned) /\ UNCHANGED svc)
  /\ WF_vars(FinishEvent /\ UNCHANGED svc)
  /\ WF_vars(CleanEvent /\ UNCHANGED svc)
  /\ WF_vars(HandleRpc /\ UNCHANGED job)
  /\ WF_vars(HandleWatchEvent /\ UNCHANGED job)
  /\ WF_vars(teardown_workflow_coro /\ UNCHANGED job)
  /\ WF_vars(delete_workflow_coro /\ UNCHANGED job)
  /\ WF_vars(Restart /\ UNCHANGED job)
  /\ WF_vars(ControllerStart /\ UNCHANGED <<job, svc>>)
  /\ WF_vars(ControllerComplete /\ UNCHANGED <<job, svc>>)
  /\ WF_vars(ApiServerRemove /\ UNCHANGED <<job, svc>>)

FairSpec == Spec /\ Fairness

---------------------------------------------------------------------------
(* Invariants *)

(* Every variable keeps its type. *)
TypeOK == EnvTypeOK /\ JobTypeOK /\ SvcTypeOK

(* Tasks run on mounted file systems: from the start request of a job that  *)
(* has met no exception until its end, its Workflow has completed PreRun    *)
(* and is left alone, or a fatal exception is on its way to the job manager. *)
(* (run_cb's prolog, prolog-remove, and every path to Teardown.)            *)
StorageWhileRunning ==
  job.state = "RUN" /\ job.exec \in {"pending", "running"} =>
    \/ state_complete(wf, "PreRun")
    \/ \E i \in DOMAIN toJm : toJm[i] = "raise"

(* An epilog that ended with success really means that the storage is torn  *)
(* down: the Workflow completed Teardown, is gone, or was never created.    *)
(* (epilog_remove_msg_cb and the three senders of dws.epilog-remove.)       *)
CleanEpilogMeansTornDown == job.epilogStatus = "ok" => TornDown(wf)

(* The prologs and epilogs that are not finished: the plugin's and others'. *)
Unfinished ==
  (IF job.prolog = "active" THEN 1 ELSE 0)
  + (IF job.epilogStatus = "open" THEN 1 ELSE 0) + job.others

(* The job manager's count of prologs and epilogs, which all plugins share, *)
(* is what the plugin and the others started and did not finish, although   *)
(* exception_cb and finish_cb run once per subscription and several parties *)
(* finish the same epilog.  The one way out is a finish of an epilog that   *)
(* is not open (exception_cb's second run, a late or early dws.epilog-      *)
(* remove) while another plugin holds the job: that takes the other's       *)
(* count, so the count is never too high, and is too low only after that.   *)
PerilogsBalanced ==
  /\ job.perilogs <= Unfinished
  /\ ~job.taken => job.perilogs = Unfinished

(* No job becomes inactive without its one epilog, whatever ended it: an    *)
(* exception before, while or after its start request is pending, or its    *)
(* last task (cleanup_cb and finish_cb share this duty).  The epilog is     *)
(* over by then, unless the job manager's count was lowered too often.      *)
OneEpilogPerJob ==
  /\ job.epilogStarts <= 1
  /\ job.state = "INACTIVE" => job.epilogActive
  /\ job.state = "INACTIVE" /\ ~job.taken => job.epilogStatus \in {"ok", "failed"}

(* Flux's finalizer stays on the Workflow until Teardown has been asked     *)
(* for, so that nobody can make it disappear under a job before that.       *)
FinalizerUntilTeardown ==
  wf.exists /\ ~wf.finalizer => wf.desired = "Teardown"

(* Once the job and the Workflow are gone and nothing is under way, the     *)
(* service has forgotten both (WorkflowInfo.remove on every path), as long  *)
(* as no call failed and no watch event was lost.  What is left otherwise   *)
(* is an entry that kill_workflows_in_tc put back after the DELETED event.  *)
CacheForgotten ==
  /\ job.state = "INACTIVE" /\ ~wf.exists /\ toSvc = <<>> /\ events = <<>>
  /\ ~job.fetchR
  /\ faults["api"] = 0 /\ faults["relist"] = 0
  => ~svc.known \/ svc.revived

---------------------------------------------------------------------------
(* Action properties *)

(* After the service has set toredown, no watch event, timer or coroutine   *)
(* moves the Workflow anywhere but to Teardown, even while the Teardown     *)
(* patch still waits in the cleanup thread (the early return on toredown).  *)
OnlyTeardownAfterToredown ==
  [][svc.toredown /\ toSvc' = toSvc =>
       wf'.desired \in {wf.desired, "Teardown", "none"}]_vars

---------------------------------------------------------------------------
(* Liveness *)

(* A job in CLEANUP becomes inactive: its dws-epilog is always released. *)
JobEnds == job.state = "CLEANUP" ~> job.state = "INACTIVE"

(* The Workflow of an inactive job is deleted. *)
NoOrphan == job.state = "INACTIVE" ~> ~wf.exists

(* A job that got its resources starts or fails: the prolog is released. *)
PrologReleased == job.state = "RUN" ~> job.exec = "running" \/ job.state = "CLEANUP"
=============================================================================
