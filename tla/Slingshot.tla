------------------------------ MODULE Slingshot ------------------------------
(***************************************************************************)
(* VNIs on the nodes: flux-slingshot prolog, epilog (again in              *)
(* housekeeping) and clean (src/cmd/flux-slingshot.c) and the shell plugin *)
(* (src/shell/plugins/cray-slingshot.c), with the jobtap plugin.  A device *)
(* is a Cassini NIC of some node; every job uses every device, and the     *)
(* processes of a job on different nodes take the devices in any order.    *)
(***************************************************************************)
EXTENDS SlingshotJobtap, SequencesExt

CONSTANTS
  Devices,   \* Cassini NICs
  Owner      \* Owner[j]: the user of job j

VARIABLES
  svc,       \* svc[d]: the user CXI services of a device, oldest first
  node,      \* node[j]: how far the scripts of job j have come
  clash      \* history: VNIs have been reused before their destruction

system == <<vp, ctx, job, idle, faults, svc, node>>
vars == <<vp, ctx, job, idle, faults, svc, node, clash>>

Nobody == "none"

(* todo: devices that the running command has still to visit; busy: those  *)
(* where it met EBUSY in this round; failed: those where it met another     *)
(* error in this round (history: the command forgets it); skipped: those    *)
(* that the prolog could not open; env: whose service the shell put in      *)
(* SLINGSHOT_SVC_IDS.  The stages are none, prolog, ready, epilog,          *)
(* epilog_done, housekeeping and at last finished or drained.               *)
Init ==
  /\ PluginInit
  /\ svc = [d \in Devices |-> <<>>]
  /\ node = [j \in Jobs |->
               [stage |-> "none", todo |-> {}, busy |-> {}, failed |-> {},
                skipped |-> {}, env |-> [d \in Devices |-> Nobody]]]
  /\ clash = FALSE

---------------------------------------------------------------------------
(* eventlog_wait_for(): the entry that decides what the reservation is. *)
Decides(e) == e.name # "warning"

Deciding(j) == {i \in DOMAIN job[j].log : Decides(job[j].log[i])}

Waiting(j) == Deciding(j) = {}

(* The VNIs of the reservation; <<>> if it is empty or there is none.  The  *)
(* wait may also end by its timeout, see LookupTimesOut.                    *)
lookup_reservation(j) == job[j].log[Min(Deciding(j))].vnis

parse_reservation_vnis(vnis) ==
  Len(vnis) <= MaxVnis /\ Vnis(vnis) \subseteq ValidVnis

(* The devices that a command has to visit for job j. *)
Visit(j) == IF lookup_reservation(j) = <<>> THEN {} ELSE Devices

(* mutant: the VNIs are not compared *)
match_reservation_NoVni(s, j) == s.uid = Owner[j]

(* match_reservation() *)
match_reservation(s, j) ==
  s.uid = Owner[j] /\ s.vnis = lookup_reservation(j)

---------------------------------------------------------------------------
(* flux slingshot prolog.  A reservation that does not parse would stop it;*)
(* that this never happens is part of the check for deadlock.              *)

cmd_prolog(j) ==
  /\ node[j].stage = "none" /\ job[j].state = "RUN" /\ ~Waiting(j)
  /\ parse_reservation_vnis(lookup_reservation(j))
  /\ node' = [node EXCEPT ![j].stage = "prolog", ![j].todo = Visit(j)]
  /\ UNCHANGED <<plugin, svc>>

(* allocate_cxi_service() on one device *)
allocate_cxi_service_device(j, d) ==
  /\ node[j].stage = "prolog" /\ d \in node[j].todo
  /\ svc' = [svc EXCEPT ![d] =
       Append(@, [uid |-> Owner[j], vnis |-> lookup_reservation(j), job |-> j])]
  /\ node' = [node EXCEPT ![j].todo = @ \ {d}]
  /\ UNCHANGED plugin

(* cxil_open_device() fails: a warning, and on to the next. *)
ProlOpenFails(j, d) ==
  /\ node[j].stage = "prolog" /\ d \in node[j].todo
  /\ Spend("device")
  /\ node' = [node EXCEPT ![j].todo = @ \ {d}, ![j].skipped = @ \cup {d}]
  /\ UNCHANGED <<vp, ctx, job, idle, svc>>

(* cxil_alloc_svc() fails: fatal(), which fails the prolog and the job. *)
ProlAllocFails(j, d) ==
  /\ node[j].stage = "prolog" /\ d \in node[j].todo /\ job[j].state = "RUN"
  /\ Spend("device")
  /\ Raise(vp, j)
  /\ idle' = Idle(vp', {})
  /\ node' = [node EXCEPT ![j].stage = "ready", ![j].todo = {}]
  /\ UNCHANGED <<ctx, svc>>

(* The prolog ends, or is cancelled because the job met an exception. *)
PrologEnds(j) ==
  /\ node[j].stage = "prolog"
  /\ node[j].todo = {} \/ job[j].state # "RUN"
  /\ node' = [node EXCEPT ![j].stage = "ready", ![j].todo = {}]
  /\ UNCHANGED <<plugin, svc>>

---------------------------------------------------------------------------
(* The tasks *)

StartTasks(j) == node[j].stage = "ready" /\ Start(j) /\ UNCHANGED <<svc, node>>

(* mutant: the VNIs are not compared *)
match_cxi_service_First(d, j) ==
  IF svc[d] = <<>> THEN Nobody ELSE Head(svc[d]).job

(* append_cxi_service_match(): the first service with the VNIs of the      *)
(* reservation, whoever may use it.                                        *)
match_cxi_service(d, j) ==
  LET found == {i \in DOMAIN svc[d] : svc[d][i].vnis = lookup_reservation(j)}
  IN  IF found = {} THEN Nobody ELSE svc[d][Min(found)].job

(* shell.post-init, on the node of device d *)
cray_slingshot_reserved(j, d) ==
  /\ job[j].state = "RUN" /\ Started(j) /\ lookup_reservation(j) # <<>>
  /\ node[j].env[d] = Nobody
  /\ node' = [node EXCEPT ![j].env[d] = match_cxi_service(d, j)]
  /\ UNCHANGED <<plugin, svc>>

---------------------------------------------------------------------------
(* flux slingshot epilog, in the epilog and again in housekeeping *)

(* A job that met an exception before RUN has no reservation to look for. *)
EpilogStart(j) ==
  /\ node[j].stage \in {"none", "ready"} /\ job[j].state = "CLEANUP"
  /\ node' = [node EXCEPT ![j].stage = "epilog", ![j].todo = Visit(j)]
  /\ UNCHANGED <<plugin, svc>>

(* Every command waits 30 seconds at most for the event and then ends by    *)
(* fatal(), before it has visited a device: the prolog fails the job, and   *)
(* housekeeping drains the node.                                            *)
LookupTimesOut(j) ==
  /\ Spend("timeout")
  /\ \/ /\ node[j].stage = "none" /\ job[j].state = "RUN"
        /\ Raise(vp, j)
        /\ idle' = Idle(vp', {})
        /\ node' = [node EXCEPT ![j].stage = "ready"]
     \/ /\ node[j].stage \in {"none", "ready"} /\ job[j].state = "CLEANUP"
        /\ node' = [node EXCEPT ![j].stage = "epilog_done"]
        /\ UNCHANGED <<vp, job, idle>>
     \/ /\ node[j].stage = "epilog_done" /\ job[j].state = "INACTIVE"
        /\ node' = [node EXCEPT ![j].stage = "drained"]
        /\ UNCHANGED <<vp, job, idle>>
  /\ UNCHANGED <<ctx, svc>>

HousekeepingStart(j) ==
  /\ node[j].stage = "epilog_done" /\ job[j].state = "INACTIVE"
  /\ node' = [node EXCEPT ![j].stage = "housekeeping", ![j].todo = Visit(j),
                          ![j].failed = {}]
  /\ UNCHANGED <<plugin, svc>>

Cleaning(j, d) ==
  node[j].stage \in {"epilog", "housekeeping"} /\ d \in node[j].todo

Matches(j, d) == {i \in DOMAIN svc[d] : match_reservation(svc[d][i], j)}

FirstMatch(j, d) == Min(Matches(j, d))

(* destroy_cxi_service_device() with all = false: the first match goes. *)
destroy_cxi_service_device(j, d) ==
  /\ Cleaning(j, d)
  /\ svc' = [svc EXCEPT ![d] =
       IF Matches(j, d) = {} THEN @ ELSE RemoveAt(@, FirstMatch(j, d))]
  /\ node' = [node EXCEPT ![j].todo = @ \ {d}]
  /\ UNCHANGED plugin

(* mutant: EBUSY is not counted *)
DestroyBusy_NotCounted(j, d) ==
  /\ Cleaning(j, d)
  /\ Matches(j, d) # {} /\ Started(svc[d][FirstMatch(j, d)].job)
  /\ node' = [node EXCEPT ![j].todo = @ \ {d}]
  /\ UNCHANGED <<plugin, svc>>

(* EBUSY: the NIC still works for a service that has been used. *)
DestroyBusy(j, d) ==
  /\ Cleaning(j, d)
  /\ Matches(j, d) # {} /\ Started(svc[d][FirstMatch(j, d)].job)
  /\ node' = [node EXCEPT ![j].todo = @ \ {d}, ![j].busy = @ \cup {d}]
  /\ UNCHANGED <<plugin, svc>>

(* The device cannot be opened or listed, or cxil_destroy_svc() fails with *)
(* another error: a warning, and the command counts nothing.               *)
DestroyFails(j, d) ==
  /\ Cleaning(j, d) /\ Matches(j, d) # {}
  /\ Spend("destroy")
  /\ node' = [node EXCEPT ![j].todo = @ \ {d}, ![j].failed = @ \cup {d}]
  /\ UNCHANGED <<vp, ctx, job, idle, svc>>

Destroy(j, d) ==
  destroy_cxi_service_device(j, d) \/ DestroyBusy(j, d) \/ DestroyFails(j, d)

(* cmd_epilog(): another round while a service is busy and there is time. *)
EpilogRetry(j) ==
  /\ node[j].stage \in {"epilog", "housekeeping"}
  /\ node[j].todo = {} /\ node[j].busy # {}
  /\ node' = [node EXCEPT ![j].todo = Visit(j), ![j].busy = {},
                          ![j].failed = {}]
  /\ UNCHANGED <<plugin, svc>>

(* mutant: no end while a service is busy *)
EpilogEnd_NoTimeout(j) ==
  /\ node[j].stage \in {"epilog", "housekeeping"} /\ node[j].todo = {}
  /\ node[j].busy = {}
  /\ node' = [node EXCEPT
       ![j].stage = IF @ = "epilog" THEN "epilog_done" ELSE "finished"]
  /\ UNCHANGED <<plugin, svc>>

(* It ends with 0, or with 1 if a service stayed busy until the timeout;   *)
(* housekeeping that fails drains the node.                                *)
EpilogEnd(j) ==
  /\ node[j].stage \in {"epilog", "housekeeping"} /\ node[j].todo = {}
  /\ node' = [node EXCEPT
       ![j].stage = IF @ = "epilog" THEN "epilog_done"
                    ELSE IF node[j].busy = {} THEN "finished" ELSE "drained",
       ![j].busy = {}]
  /\ UNCHANGED <<plugin, svc>>

CleanJob(j) ==
  node[j].stage = "epilog_done" /\ Clean(j) /\ UNCHANGED <<svc, node>>

(* flux slingshot clean on one device, which asks for no job: every service *)
(* with a VNI of the configured pool goes, unless it is busy.  A careful    *)
(* administrator lets housekeeping run it (slingshot.rst 516) where nodes   *)
(* are not shared, when the scripts of no other job are under way.          *)
match_vnipool(s) == Vnis(s.vnis) \cap vp.universe # {}

(* destroy_cxi_service_device() with all = true: what the loop leaves of    *)
(* the services s when those of the jobs in busy cannot be destroyed.       *)
destroy_all(s, busy) ==
  LET left[i \in 0 .. Len(s)] ==
        IF i = 0 THEN <<>>
        ELSE IF match_vnipool(s[i]) /\ s[i].job \notin busy THEN left[i - 1]
        ELSE Append(left[i - 1], s[i])
  IN  left[Len(s)]

cmd_clean(d) ==
  /\ CarefulAdmin =>
       \A j \in Jobs : node[j].stage \in {"none", "finished", "drained"}
  /\ Spend("clean")
  /\ \E busy \in SUBSET {j \in Jobs : Started(j)} :
       svc' = [svc EXCEPT ![d] = destroy_all(svc[d], busy)]
  /\ UNCHANGED <<vp, ctx, job, idle, node>>

---------------------------------------------------------------------------
HasService(j, d) == \E i \in DOMAIN svc[d] : svc[d][i].job = j

(* A job whose services are there, or whose scripts will still look for them. *)
Undestroyed(j) ==
  node[j].stage \notin {"finished", "drained"} \/ \E d \in Devices : HasService(j, d)

(* slingshot.rst 135: "The implementation must prevent these VNIs from      *)
(* being reused before destruction is successful."  The plugin releases     *)
(* them earlier, when the job enters CLEANUP, and relies on round-robin in  *)
(* a pool that is wide enough.                                              *)
NoReuseBeforeDestruction ==
  \A j, k \in Jobs : j # k /\ job[j].state = "RUN" /\ Undestroyed(k) =>
    Reserved(j) \cap Reserved(k) = {}

(* A job is through when its housekeeping is. *)
Through ==
  /\ \A j \in Jobs : node[j].stage \in {"finished", "drained"}
  /\ UNCHANGED system

PluginStep ==
  \/ \E j \in Jobs :
       \/ \E r \in Requests : job_state_run_cb(j, r)
       \/ FatalException(j) \/ Warning(j)
       \/ Finish(j)
  \/ \E c \in Configs : conf_update_cb(c)
  \/ flux_plugin_init

Step(j) ==
  \/ cmd_prolog(j) \/ PrologEnds(j) \/ StartTasks(j)
  \/ EpilogStart(j) \/ HousekeepingStart(j) \/ EpilogRetry(j) \/ EpilogEnd(j)
  \/ LookupTimesOut(j) \/ CleanJob(j)
  \/ \E d \in Devices :
       \/ allocate_cxi_service_device(j, d) \/ cray_slingshot_reserved(j, d)
       \/ ProlOpenFails(j, d) \/ ProlAllocFails(j, d)
       \/ Destroy(j, d)

Act ==
  \/ PluginStep /\ UNCHANGED <<svc, node>>
  \/ \E j \in Jobs : Step(j)
  \/ \E d \in Devices : cmd_clean(d)
  \/ Through

Next == Act /\ clash' = (clash \/ ~NoReuseBeforeDestruction')

Spec == Init /\ [][Next]_vars

(* Scripts go on once begun, the tasks end, and the loop of cmd_epilog is   *)
(* bounded in time, so that its end comes if it is possible again and again.*)
Fairness ==
  \A j \in Jobs :
    /\ WF_system(cmd_prolog(j)) /\ WF_system(PrologEnds(j)) /\ WF_system(StartTasks(j))
    /\ WF_system(\E d \in Devices : allocate_cxi_service_device(j, d))
    /\ WF_system(Finish(j) /\ UNCHANGED <<svc, node>>)
    /\ WF_system(EpilogStart(j)) /\ WF_system(CleanJob(j))
    /\ WF_system(HousekeepingStart(j))
    /\ WF_system(\E d \in Devices : Destroy(j, d))
    /\ WF_system(EpilogRetry(j)) /\ SF_system(EpilogEnd(j))

FairSpec == Spec /\ Fairness

---------------------------------------------------------------------------
(* Properties *)

(* While its tasks run, a job keeps a service with its VNIs on every device *)
(* that its prolog could open: nobody else's epilog, housekeeping or clean  *)
(* takes it away, not even one of an earlier job with the same VNIs, as     *)
(* long as no VNI has been reused too early.                                *)
ServicesWhileRunning ==
  ~clash =>
    \A j \in Jobs : job[j].state = "RUN" /\ Started(j) /\ Reserved(j) # {} =>
      \A d \in Devices : HasService(j, d) \/ d \in node[j].skipped

(* The shell, which looks only at VNIs, hands the tasks services of their   *)
(* own job, never what an earlier job with the same VNIs left behind, as    *)
(* long as no VNI has been reused too early.                                *)
OwnServiceIds ==
  ~clash => \A j \in Jobs, d \in Devices : node[j].env[d] \in {j, Nobody}

(* slingshot.rst 145: "Failure to destroy a lingering CXI service in        *)
(* housekeeping drains the node."  The code does so for EBUSY only: a job   *)
(* whose node goes back into service undrained has left no CXI service,     *)
(* except where the last attempt to destroy it failed with another error,   *)
(* which destroy_cxi_service_device() only warns about.                     *)
LingeringServiceDrains ==
  ~clash =>
    \A j \in Jobs, d \in Devices :
      node[j].stage = "finished" /\ HasService(j, d) => d \in node[j].failed

(* A busy NIC holds a job back only until the timeouts: every job that got  *)
(* its resources is cleaned up or its node is drained.                      *)
CleanedOrDrained ==
  \A j \in Jobs :
    job[j].state = "RUN" ~> node[j].stage \in {"finished", "drained"}
=============================================================================
