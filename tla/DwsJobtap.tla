------------------------------ MODULE DwsJobtap ------------------------------
(***************************************************************************)
(* The dws-jobtap job-manager plugin (src/job-manager/plugins/             *)
(* dws-jobtap.c) and, as far as the plugin sees it, the job manager that   *)
(* calls it.  A plugin callback is an operator from a record               *)
(*   [job, toSvc, toJm]                                                    *)
(* to such a record, so that the callbacks one job event triggers compose  *)
(* in the order in which the job manager calls them.                       *)
(***************************************************************************)
EXTENDS DwsEnv

CONSTANT EpilogTimeout   \* epilog-timeout is configured (> 0)

ASSUME EpilogTimeoutAssumption == EpilogTimeout \in BOOLEAN

VARIABLE job

jobVars == <<job>>

JobStates == {"NEW", "DEPEND", "SCHED", "RUN", "CLEANUP", "INACTIVE"}

(* state: the job state.  exec: no start request, request pending, start   *)
(* event posted, finish event posted.  subs: subscriptions to job events.  *)
(* prolog: the aux dws_prolog_active (unset, 1 or 0).  epilogActive: the   *)
(* aux dws_epilog_active.  fetchR: the lookup of R is pending.  timer: the *)
(* epilog timer runs.  perilogs: the job manager's one count of unfinished *)
(* prologs and epilogs, the plugin's and all others'.  prologFinishes,     *)
(* epilogStarts, epilogStatus: what the job's eventlog says (epilogStatus: *)
(* the first finish of an open epilog).  others: the prologs and epilogs   *)
(* of other plugins that are not finished.  taken: history, a finish of an *)
(* epilog that is not open has lowered the count.                          *)
Jobs ==
  [state : JobStates, exec : {"idle", "pending", "running", "done"},
   subs : {0, 1, 2}, prolog : {"unset", "active", "finished"},
   epilogActive : BOOLEAN, fetchR : BOOLEAN, timer : BOOLEAN,
   perilogs : Nat, prologFinishes : Nat, epilogStarts : Nat,
   epilogStatus : {"none", "open", "ok", "failed"},
   others : Nat, taken : BOOLEAN]

JobInit ==
  job = [state |-> "NEW", exec |-> "idle", subs |-> 0, prolog |-> "unset",
         epilogActive |-> FALSE, fetchR |-> FALSE, timer |-> FALSE,
         perilogs |-> 0, prologFinishes |-> 0, epilogStarts |-> 0,
         epilogStatus |-> "none", others |-> 0, taken |-> FALSE]

JobTypeOK == job \in Jobs

Active(j) == j.state \in {"DEPEND", "SCHED", "RUN", "CLEANUP"}
StartPosted(j) == j.exec \in {"running", "done"}

---------------------------------------------------------------------------
(* Callbacks *)

(* A request to a service that is not registered fails with ENOSYS. *)
Send(s, msg) ==
  IF svcUp THEN [s EXCEPT !.toSvc = Append(@, msg)]
           ELSE [s EXCEPT !.toJm = @ \o FailureOf(msg)]

(* The job manager on the end of any prolog or epilog. *)
OneLess(n) == IF n > 0 THEN n - 1 ELSE 0

(* flux_jobtap_prolog_finish() *)
PostPrologFinish(s) ==
  LET j == s.job
  IN  [s EXCEPT !.job =
         [j EXCEPT !.perilogs = OneLess(j.perilogs),
                   !.prologFinishes = j.prologFinishes + 1]]

(* ... and *prolog_active = 0 *)
FinishProlog(s) == [PostPrologFinish(s) EXCEPT !.job.prolog = "finished"]

(* flux_jobtap_epilog_finish() *)
FinishEpilog(s, status) ==
  LET j == s.job
  IN  [s EXCEPT !.job =
         [j EXCEPT !.perilogs = OneLess(j.perilogs),
                   !.taken = j.taken \/ (j.epilogStatus # "open" /\ j.perilogs > 0),
                   !.epilogStatus = IF j.epilogStatus = "open" THEN status
                                    ELSE j.epilogStatus]]

start_dws_epilog_for_job(s, run_started) ==
  LET j == s.job
      t == [s EXCEPT !.job =
              [j EXCEPT !.epilogActive = TRUE,
                        !.perilogs = j.perilogs + 1,
                        !.epilogStarts = j.epilogStarts + 1,
                        !.epilogStatus = "open",
                        !.timer = EpilogTimeout]]
  IN  Send(t, IF run_started THEN "post_run_1" ELSE "post_run_0")

(* mutant: a start request counts as a start event *)
cleanup_cb_Pending(s) ==
  IF s.job.exec # "idle" THEN s ELSE start_dws_epilog_for_job(s, FALSE)

cleanup_cb(s) ==
  IF StartPosted(s.job) THEN s ELSE start_dws_epilog_for_job(s, FALSE)

finish_cb(s) ==
  IF s.job.epilogActive THEN s ELSE start_dws_epilog_for_job(s, TRUE)

exception_cb(s, type) ==
  IF s.job.prolog = "active" THEN FinishProlog(s)
  ELSE IF ~s.job.epilogActive THEN s
  ELSE IF type = "dws-epilog-timeout"
       THEN FinishEpilog(Send(s, "abort"), "failed")
       ELSE Send(s, "teardown")

(* A severity 0 exception: every subscription gets exception_cb, then the  *)
(* job manager moves the job to CLEANUP, which runs cleanup_cb.            *)
PostException(s, type) ==
  LET once == IF s.job.subs >= 1 THEN exception_cb(s, type) ELSE s
      both == IF s.job.subs = 2 THEN exception_cb(once, type) ELSE once
  IN  CASE s.job.state = "CLEANUP" -> both
        [] s.job.state \in {"DEPEND", "SCHED", "RUN"} ->
             cleanup_cb([both EXCEPT !.job.state = "CLEANUP"])
        [] OTHER -> s

(* finish_cb once per subscription, then RUN -> CLEANUP and cleanup_cb. *)
PostFinish(s) ==
  LET done == [s EXCEPT !.job.exec = "done"]
      once == finish_cb(done)
      both == IF s.job.subs = 2 THEN finish_cb(once) ELSE once
  IN  IF s.job.state = "RUN"
      THEN cleanup_cb([both EXCEPT !.job.state = "CLEANUP"])
      ELSE both

dws_prolog_finish(s, success) ==
  IF s.job.prolog # "active" THEN s
  ELSE IF success THEN FinishProlog(s) ELSE PostException(s, "dws-setup")

dws_epilog_finish(s, success) ==
  IF success THEN FinishEpilog(s, "ok")
             ELSE FinishEpilog(PostException(s, "dws-epilog"), "failed")

---------------------------------------------------------------------------
(* Handlers of the messages to the job manager *)

resource_update_msg_cb(s) ==
  IF s.job.state = "DEPEND" THEN [s EXCEPT !.job.state = "SCHED"] ELSE s

(* posted: the dws_environment event could be posted.  Without the aux,    *)
(* the handler acts as if the prolog were active.                          *)
prolog_remove_msg_cb(s, posted) ==
  IF s.job.state = "INACTIVE" THEN s
  ELSE IF s.job.prolog # "unset" THEN dws_prolog_finish(s, posted)
  ELSE IF posted THEN PostPrologFinish(s)
  ELSE PostException(s, "dws-setup")

epilog_remove_msg_cb(s) ==
  IF s.job.state = "CLEANUP" THEN dws_epilog_finish(s, TRUE) ELSE s

setup_rpc_cb(s) ==
  IF s.job.state = "INACTIVE" THEN s ELSE dws_prolog_finish(s, FALSE)

post_run_rpc_callback(s) ==
  IF s.job.state = "INACTIVE" THEN s ELSE dws_epilog_finish(s, FALSE)

Dispatch(s, msg) ==
  CASE msg = "resource-update" -> resource_update_msg_cb(s)
    [] msg = "resource-update-err" -> PostException(s, "dws")
    [] msg = "prolog-remove" -> prolog_remove_msg_cb(s, TRUE)
    [] msg = "epilog-remove" -> epilog_remove_msg_cb(s)
    [] msg = "raise" -> PostException(s, "exception")
    [] msg = "create-fail" -> PostException(s, "dws-create")
    [] msg = "setup-fail" -> setup_rpc_cb(s)
    [] msg = "post_run-fail" -> post_run_rpc_callback(s)
    [] OTHER -> s

---------------------------------------------------------------------------
(* Actions *)

Current == [job |-> job, toSvc |-> toSvc, toJm |-> toJm]

Become(s) ==
  /\ job' = s.job
  /\ toSvc' = s.toSvc
  /\ toJm' = s.toJm
  /\ UNCHANGED <<svcUp, wf, events>>

(* The job reaches DEPEND: dependency added, subscribed, dws.create sent. *)
depend_cb ==
  /\ job.state = "NEW"
  /\ Become(Send([Current EXCEPT !.job.state = "DEPEND", !.job.subs = 1],
                 "create"))
  /\ UNCHANGED faults

(* The scheduler allocates resources: the second subscription, the prolog, *)
(* and the lookup of R.                                                    *)
run_cb ==
  /\ job.state = "SCHED"
  /\ Become([Current EXCEPT !.job =
               [job EXCEPT !.state = "RUN", !.subs = 2, !.prolog = "active",
                           !.perilogs = job.perilogs + 1, !.fetchR = TRUE]])
  /\ UNCHANGED faults

(* R arrived: dws.setup is sent, whatever happened to the job meanwhile.   *)
(* Or the lookup failed.                                                   *)
fetch_R_callback ==
  /\ job.fetchR
  /\ LET s == [Current EXCEPT !.job.fetchR = FALSE]
     IN  \/ Become(Send(s, "setup")) /\ UNCHANGED faults
         \/ /\ job.state # "INACTIVE"
            /\ Spend("api")
            /\ Become(dws_prolog_finish(s, FALSE))

(* The next request or failure response is handled in the job manager.     *)
(* Posting dws_environment can fail.                                       *)
HandleJmMessage ==
  /\ toJm # <<>>
  /\ LET s == [Current EXCEPT !.toJm = Tail(@)]
     IN  \/ Become(Dispatch(s, Head(toJm))) /\ UNCHANGED faults
         \/ /\ Head(toJm) = "prolog-remove"
            /\ Spend("api")
            /\ Become(prolog_remove_msg_cb(s, FALSE))

(* mutant: the state of a job that is still running is expected *)
epilog_timeout_cb_InRun ==
  /\ job.timer
  /\ LET s == [Current EXCEPT !.job.timer = FALSE]
     IN  Become(IF job.state = "RUN"
                THEN PostException(s, "dws-epilog-timeout") ELSE s)
  /\ UNCHANGED faults

epilog_timeout_cb ==
  /\ job.timer
  /\ LET s == [Current EXCEPT !.job.timer = FALSE]
     IN  Become(IF job.state = "CLEANUP"
                THEN PostException(s, "dws-epilog-timeout") ELSE s)
  /\ UNCHANGED faults

(* A user cancels, or another part of Flux raises a fatal exception. *)
OtherException ==
  /\ Active(job)
  /\ Spend("cancel")
  /\ Become(PostException(Current, "cancel"))

(* Other plugins' prologs and epilogs (external): a prolog before the job  *)
(* is started, an epilog before it is freed, which is at once when the     *)
(* count they all share is zero and no task is left.                       *)
OtherPerilogStart ==
  /\ \/ job.state = "RUN" /\ job.exec = "idle" /\ job.perilogs > 0
     \/ /\ job.state = "CLEANUP"
        /\ job.perilogs > 0 \/ job.exec \in {"pending", "running"}
  /\ Spend("perilog")
  /\ Become([Current EXCEPT !.job =
               [job EXCEPT !.others = job.others + 1,
                           !.perilogs = job.perilogs + 1]])

OtherPerilogFinish ==
  /\ job.state \in {"RUN", "CLEANUP"} /\ job.others > 0
  /\ Become([Current EXCEPT !.job =
               [job EXCEPT !.others = job.others - 1,
                           !.perilogs = OneLess(job.perilogs)]])
  /\ UNCHANGED faults

(* The job manager and the execution system (external). *)
StartRequest ==
  /\ job.state = "RUN" /\ job.exec = "idle" /\ job.perilogs = 0
  /\ Become([Current EXCEPT !.job.exec = "pending"])
  /\ UNCHANGED faults

StartEvent ==
  /\ job.state \in {"RUN", "CLEANUP"} /\ job.exec = "pending"
  /\ Become([Current EXCEPT !.job.exec = "running"])
  /\ UNCHANGED faults

StartAbandoned ==
  /\ job.state = "CLEANUP" /\ job.exec = "pending"
  /\ Become([Current EXCEPT !.job.exec = "idle"])
  /\ UNCHANGED faults

FinishEvent ==
  /\ job.exec = "running"
  /\ Become(PostFinish(Current))
  /\ UNCHANGED faults

(* No epilog is left: resources are freed and the job becomes inactive,    *)
(* which destroys its timer with its aux items.                            *)
CleanEvent ==
  /\ job.state = "CLEANUP" /\ job.perilogs = 0 /\ job.exec \in {"idle", "done"}
  /\ Become([Current EXCEPT !.job.state = "INACTIVE", !.job.timer = FALSE])
  /\ UNCHANGED faults

JobNext ==
  \/ depend_cb
  \/ run_cb
  \/ fetch_R_callback
  \/ HandleJmMessage
  \/ epilog_timeout_cb
  \/ OtherException
  \/ OtherPerilogStart
  \/ OtherPerilogFinish
  \/ StartRequest
  \/ StartEvent
  \/ StartAbandoned
  \/ FinishEvent
  \/ CleanEvent
=============================================================================
