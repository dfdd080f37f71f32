--------------------------- MODULE SlingshotJobtap ---------------------------
(***************************************************************************)
(* The cray-slingshot jobtap plugin (src/job-manager/plugins/              *)
(* cray-slingshot.c): VNIs are reserved when a job enters RUN, announced   *)
(* in its eventlog, and released when it enters CLEANUP.                   *)
(***************************************************************************)
EXTENDS VniPool

CONSTANTS
  Requests,       \* what jobs ask for: [off, parsed, vnicount]
  Configs,        \* configurations: [vni_pool, vnis_per_job, vni_reserve_fatal]
  Budgets,        \* the mixes of faults that a behaviour may contain
  CarefulAdmin    \* vni-pool is never grown by a VNI that a job still holds,
                  \* nor flux slingshot clean run on a node that is in use

FaultKinds ==
  {"exception", "warning", "post", "config", "restart", "timeout", "device",
   "destroy", "clean"}

Allowed(c) == c.vni_pool \subseteq ValidVnis /\ c.vnis_per_job \in 0..MaxVnis

ASSUME ConfigAssumption ==
  /\ Requests \subseteq [off : BOOLEAN, parsed : BOOLEAN, vnicount : Int]
  /\ Configs \subseteq [vni_pool : SUBSET Nat, vnis_per_job : Int,
                        vni_reserve_fatal : BOOLEAN]
  /\ Budgets \subseteq [FaultKinds -> Nat]
  /\ CarefulAdmin \in BOOLEAN

VARIABLES
  vp,       \* the pool
  ctx,      \* vnis_per_job and vni_reserve_fatal of the plugin's context
  job,      \* the jobs: state and eventlog
  idle,     \* idle[v]: the VNIs that have been free since v was last taken
  faults    \* the faults that have happened

plugin == <<vp, ctx, job, idle, faults>>

(* The entries of the eventlog that matter here. *)
Event(name) == [name |-> name, vnis |-> <<>>]
Reservation(vnis) == [name |-> "cray-slingshot", vnis |-> vnis]

Events ==
  [name : {"cray-slingshot", "start", "exception", "warning"},
   vnis : Seq(ValidVnis)]

PluginTypeOK ==
  /\ vp \in Pools /\ vp.free \subseteq vp.universe
  /\ ctx \in [vnis_per_job : 0..MaxVnis, vni_reserve_fatal : BOOLEAN]
  /\ job \in [Jobs -> [state : {"SCHED", "RUN", "CLEANUP", "INACTIVE"},
                       log : Seq(Events)]]
  /\ idle \in [ValidVnis -> SUBSET ValidVnis]
  /\ faults \in [FaultKinds -> Nat]

PluginInit ==
  /\ \E c \in Configs :
       /\ Allowed(c)
       /\ vp = NewPool(c.vni_pool)
       /\ ctx = [vnis_per_job |-> c.vnis_per_job,
                 vni_reserve_fatal |-> c.vni_reserve_fatal]
  /\ job = [j \in Jobs |-> [state |-> "SCHED", log |-> <<>>]]
  /\ idle = [v \in ValidVnis |-> {}]
  /\ faults = [kind \in FaultKinds |-> 0]

(* One more fault, if some mix has room for it. *)
Spend(kind) ==
  /\ faults' = [faults EXCEPT ![kind] = @ + 1]
  /\ \E mix \in Budgets : \A k \in FaultKinds : faults'[k] <= mix[k]

(* How idle follows a pool that becomes p: taken are the VNIs reserved. *)
Idle(p, taken) ==
  [v \in ValidVnis |-> IF v \in taken THEN p.free ELSE idle[v] \cap p.free]
NeverIdle == [v \in ValidVnis |-> {}]

---------------------------------------------------------------------------
(* The job's state becomes s, with an entry e in its eventlog. *)
Post(j, s, e) == job' = [job EXCEPT ![j] = [state |-> s, log |-> Append(job[j].log, e)]]

(* flux_jobtap_raise_exception(), severity 0, in pool p: the job enters    *)
(* CLEANUP and the callback below releases what it has.                    *)
job_state_cleanup_cb(p, j) == vnipool_release(p, j)

Raise(p, j) ==
  /\ Post(j, "CLEANUP", Event("exception"))
  /\ vp' = job_state_cleanup_cb(p, j)

(* job.state.run: the VNIs are reserved before anybody can see the job run. *)
VniCount(r) == IF r.vnicount = -1 THEN ctx.vnis_per_job ELSE r.vnicount

(* labels empty and error of job_state_run_cb *)
Empty(j, p) ==
  \/ /\ Post(j, "RUN", Reservation(<<>>)) /\ vp' = p
     /\ UNCHANGED faults
  \/ Raise(p, j) /\ Spend("post")
Refuse(j, p) ==
  IF ctx.vni_reserve_fatal THEN Raise(p, j) /\ UNCHANGED faults
                           ELSE Empty(j, p)

job_state_run_cb(j, r) ==
  /\ job[j].state = "SCHED"
  /\ UNCHANGED ctx
  /\ IF r.off \/ (r.parsed /\ VniCount(r) = 0)
     THEN Empty(j, vp) /\ UNCHANGED idle
     ELSE IF ~r.parsed
     THEN Raise(vp, j) /\ UNCHANGED <<idle, faults>>
     ELSE \E res \in vnipool_reserve(vp, j, VniCount(r)) :
            IF res.vnis = <<>>
            THEN /\ Refuse(j, res.vp)
                 /\ idle' = IF res.vp.last = vp.last THEN idle ELSE NeverIdle
            ELSE /\ idle' = Idle(res.vp, Vnis(res.vnis))
                 /\ \/ /\ Post(j, "RUN", Reservation(res.vnis))
                       /\ vp' = res.vp /\ UNCHANGED faults
                    \/ Raise(vnipool_release(res.vp, j), j) /\ Spend("post")

(* conf.update: an out of range vnis-per-job changes nothing; an invalid   *)
(* vni-pool is refused after the other two settings were taken.            *)
conf_update_cb(c) ==
  /\ Spend("config")
  /\ CarefulAdmin =>
       \A j \in Jobs : (c.vni_pool \ vp.universe) \cap Vnis(vp.jobs[j]) = {}
  /\ UNCHANGED job
  /\ IF c.vnis_per_job \notin 0..MaxVnis
     THEN UNCHANGED <<vp, ctx, idle>>
     ELSE /\ ctx' = [vnis_per_job |-> c.vnis_per_job,
                     vni_reserve_fatal |-> c.vni_reserve_fatal]
          /\ IF c.vni_pool \subseteq ValidVnis
             THEN /\ vp' = vnipool_configure(vp, c.vni_pool)
                  /\ idle' = IF c.vni_pool = vp.universe THEN idle ELSE NeverIdle
             ELSE UNCHANGED <<vp, idle>>

(* The instance restarts while jobs go on: flux_plugin_init makes a new    *)
(* context and conf.update fills it.  The plugin has no callback that      *)
(* reads the reservations in the eventlogs.                                *)
flux_plugin_init ==
  /\ Spend("restart")
  /\ vp' = NewPool(vp.universe)
  /\ idle' = NeverIdle
  /\ UNCHANGED <<ctx, job>>

---------------------------------------------------------------------------
(* The rest of a job's life, in flux-core *)

(* An exception of severity 0 from elsewhere. *)
FatalException(j) ==
  /\ job[j].state \in {"SCHED", "RUN"}
  /\ Spend("exception")
  /\ Raise(vp, j)
  /\ idle' = Idle(vp', {})
  /\ UNCHANGED ctx

(* An exception of another severity leaves the job alone. *)
Warning(j) ==
  /\ job[j].state \in {"SCHED", "RUN"}
  /\ Spend("warning")
  /\ Post(j, job[j].state, Event("warning"))
  /\ UNCHANGED <<vp, ctx, idle>>

Started(j) == \E i \in DOMAIN job[j].log : job[j].log[i].name = "start"

Start(j) ==
  /\ job[j].state = "RUN" /\ ~Started(j)
  /\ Post(j, "RUN", Event("start"))
  /\ UNCHANGED <<vp, ctx, idle, faults>>

Finish(j) ==
  /\ job[j].state = "RUN" /\ Started(j)
  /\ job' = [job EXCEPT ![j].state = "CLEANUP"]
  /\ vp' = job_state_cleanup_cb(vp, j)
  /\ idle' = Idle(vp', {})
  /\ UNCHANGED <<ctx, faults>>

Clean(j) ==
  /\ job[j].state = "CLEANUP"
  /\ job' = [job EXCEPT ![j].state = "INACTIVE"]
  /\ UNCHANGED <<vp, ctx, idle, faults>>

PluginNext ==
  \/ \E j \in Jobs :
       \/ \E r \in Requests : job_state_run_cb(j, r)
       \/ FatalException(j) \/ Warning(j) \/ Start(j) \/ Finish(j) \/ Clean(j)
  \/ \E c \in Configs : conf_update_cb(c)
  \/ flux_plugin_init

PluginSpec == PluginInit /\ [][PluginNext]_plugin

---------------------------------------------------------------------------
(* Properties *)

(* The VNIs that a job was told it has. *)
Reserved(j) ==
  UNION {Vnis(job[j].log[i].vnis) : i \in DOMAIN job[j].log}

(* slingshot.rst 68: "Flux reserves unique VNIs (typically one) for each    *)
(* job": of the running jobs that got VNIs since the plugin was loaded, no  *)
(* two were told the same one.  (It does not know the others.)              *)
UniqueVnis ==
  \A i, j \in {k \in Jobs : job[k].state = "RUN" /\ vp.jobs[k] # <<>>} :
    i # j => Reserved(i) \cap Reserved(j) = {}

(* No VNI is lost: one that is configured and not free belongs to a running *)
(* job, whatever failed or was reconfigured in between.                     *)
NoVniLost ==
  vp.universe \ vp.free \subseteq
    UNION {Vnis(vp.jobs[j]) : j \in {k \in Jobs : job[k].state = "RUN"}}

(* Round-robin: a VNI is not reserved again while some other one has been   *)
(* free ever since its last reservation, unless the pool was changed or     *)
(* exhausted in between (vnipool.c: IDSET_FLAG_ALLOC_RR, and an unchanged   *)
(* configuration that keeps the pool).                                      *)
RoundRobin ==
  [][\A v \in vp.free \ vp'.free :
       vp'.universe = vp.universe => idle[v] \cap vp'.free = {}]_plugin

Alloc == INSTANCE Allocator WITH
  Clients   <- Jobs,
  Resources <- ValidVnis,
  free      <- vp.free,
  held      <- [j \in Jobs |-> Vnis(vp.jobs[j])]

(* The pool is an allocator: job_state_run_cb takes, job_state_cleanup_cb   *)
(* releases, conf_update_cb reconfigures and a restart makes it anew.       *)
VnisAreAllocated == Alloc!Spec
=============================================================================
