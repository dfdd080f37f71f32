--------------------------- MODULE SlingshotProofs ---------------------------
(***************************************************************************)
(* The VNI pool under the jobtap plugin, for every set of jobs, VNIs,      *)
(* requests and configurations and every mix of faults: types, no VNI      *)
(* is lost, and (if vni-pool is never grown by a VNI that is held) no two  *)
(* running jobs have a VNI in common.                                      *)
(*                                                                         *)
(* Every step has one of five effects on the pool and the jobs: a job      *)
(* begins with VNIs taken from the pool, ends and gives back what it has,  *)
(* or only gets an entry in its log; or the pool is reconfigured or made   *)
(* anew.  The invariants are then proved from the effects alone.           *)
(*                                                                         *)
(* Then the nodes: as long as no VNI was reused before its services were   *)
(* destroyed, no command of one job touches the services of another, for   *)
(* every set of devices and users.                                         *)
(*                                                                         *)
(* And round-robin, from what a step does to the order in which VNIs come  *)
(* (Turns): what has been free since a VNI was taken comes before it.      *)
(* That is why VNIs are not reserved again too early, if the pool keeps    *)
(* the margin that is needed (Margin).                                     *)
(***************************************************************************)
EXTENDS Slingshot, FiniteSetTheorems, SequenceTheorems, TLAPS

E == INSTANCE EventlogProofs   \* for LeastNatural and UpTo

JobRecs ==
  [state : {"SCHED", "RUN", "CLEANUP", "INACTIVE"}, log : Seq(Events)]

PoolOK(p) == p \in Pools /\ p.free \subseteq p.universe

(* A job that does not run has no entry in the pool. *)
NoneLeft == \A j \in Jobs : job[j].state # "RUN" => vp.jobs[j] = <<>>

Told(log) == UNION {Vnis(log[i].vnis) : i \in DOMAIN log}

---------------------------------------------------------------------------
(* The five effects *)

Ends(j) ==
  /\ \E r \in JobRecs :
       r.state \in {"CLEANUP", "INACTIVE"} /\ job' = [job EXCEPT ![j] = r]
  /\ vp'.universe = vp.universe
  /\ vp'.free = vp.free \cup (Vnis(vp.jobs[j]) \cap vp.universe)
  /\ vp'.jobs = [vp.jobs EXCEPT ![j] = <<>>]

Begins(j) ==
  /\ job[j].state = "SCHED"
  /\ \E vnis \in Seq(ValidVnis) :
       /\ Vnis(vnis) \subseteq vp.free
       /\ Post(j, "RUN", Reservation(vnis))
       /\ vp'.universe = vp.universe
       /\ vp'.free = vp.free \ Vnis(vnis)
       /\ vp'.jobs = [vp.jobs EXCEPT ![j] = vnis]

Notes(j) ==
  /\ \E name \in {"start", "warning"} : Post(j, job[j].state, Event(name))
  /\ vp' = vp

Reconfigured ==
  /\ job' = job
  /\ \E universe \in SUBSET ValidVnis :
       /\ CarefulAdmin =>
            \A j \in Jobs : (universe \ vp.universe) \cap Vnis(vp.jobs[j]) = {}
       /\ vp' = vnipool_configure(vp, universe)

Restarted == job' = job /\ vp' = NewPool(vp.universe)

Effect ==
  \/ \E j \in Jobs : Ends(j) \/ Begins(j) \/ Notes(j)
  \/ Reconfigured
  \/ Restarted
  \/ job' = job /\ vp' = vp

---------------------------------------------------------------------------
(* Operators of the pool *)

(* The VNIs of a sequence; of the empty one there are none. *)
LEMMA VnisOf ==
  /\ Vnis(<<>>) = {}
  /\ \A S : \A s \in Seq(S) : Vnis(s) \subseteq S
BY DEF Vnis

(* An entry adds its VNIs to what a job was told. *)
LEMMA ToldAppend ==
  ASSUME NEW log \in Seq(Events), NEW e \in Events
  PROVE  Told(Append(log, e)) = Told(log) \cup Vnis(e.vnis)
<1> DEFINE app == Append(log, e)
<1>1. /\ DOMAIN log = 1..Len(log) /\ DOMAIN app = 1..(Len(log) + 1)
      /\ Len(log) \in Nat
  OBVIOUS
<1>2. /\ \A i \in 1..Len(log) : app[i] = log[i]
      /\ app[Len(log) + 1] = e
  OBVIOUS
<1>3. ASSUME NEW v PROVE v \in Told(app) <=> v \in Told(log) \cup Vnis(e.vnis)
  <2>1. v \in Told(app) <=> \E i \in 1..(Len(log) + 1) : v \in Vnis(app[i].vnis)
    BY <1>1, Zenon DEF Told
  <2>2. v \in Told(log) <=> \E i \in 1..Len(log) : v \in Vnis(log[i].vnis)
    BY <1>1, Zenon DEF Told
  <2>3. \A i \in 1..(Len(log) + 1) : i \in 1..Len(log) \/ i = Len(log) + 1
    BY <1>1
  <2>4. 1..Len(log) \subseteq 1..(Len(log) + 1) /\ Len(log) + 1 \in 1..(Len(log) + 1)
    BY <1>1
  <2> HIDE DEF app
  <2> QED
    BY <1>2, <2>1, <2>2, <2>3, <2>4, Zenon
<1> QED
  BY <1>3

(* vnipool_release() gives back what the job has and is still configured. *)
LEMMA ReleaseOK ==
  ASSUME NEW p, PoolOK(p), NEW j \in Jobs
  PROVE  LET r == vnipool_release(p, j)
         IN  /\ PoolOK(r)
             /\ r.universe = p.universe
             /\ r.free = p.free \cup (Vnis(p.jobs[j]) \cap p.universe)
             /\ r.jobs = [p.jobs EXCEPT ![j] = <<>>]
<1> DEFINE r == vnipool_release(p, j)
           free == p.free \cup (Vnis(p.jobs[j]) \cap p.universe)
           jobs == [p.jobs EXCEPT ![j] = <<>>]
<1>1. p = [universe |-> p.universe, free |-> p.free, last |-> p.last, jobs |-> p.jobs]
  BY DEF PoolOK, Pools
<1>2. r = [universe |-> p.universe, free |-> free, last |-> p.last, jobs |-> jobs]
  <2> DEFINE q == vnipool_free_array(p, p.jobs[j])
  <2>1. q = [universe |-> p.universe, free |-> free, last |-> p.last, jobs |-> p.jobs]
    BY <1>1 DEF vnipool_free_array
  <2>2. r = [q EXCEPT !.jobs = jobs]
    BY DEF vnipool_release
  <2> HIDE DEF q, r, free, jobs
  <2> QED BY <2>1, <2>2
<1>3. free \subseteq p.universe /\ p.universe \subseteq ValidVnis
  BY DEF PoolOK, Pools
<1>4. jobs \in [Jobs -> Seq(ValidVnis)]
  BY DEF PoolOK, Pools
<1> HIDE DEF free, jobs
<1>5. PoolOK(r)
  <2> HIDE DEF r
  <2> QED BY <1>2, <1>3, <1>4 DEF PoolOK, Pools
<1> QED
  BY <1>2, <1>5 DEF free, jobs

(* A loop of idset_alloc() takes free VNIs, and as many as it makes calls. *)
LEMMA AllocationsOK ==
  ASSUME NEW p, PoolOK(p), NEW n \in Nat, NEW got \in Allocations(p, n)
  PROVE  /\ got \in Seq(ValidVnis) /\ Vnis(got) \subseteq p.free
         /\ PoolOK(Moved(p, got))
         /\ Moved(p, got).universe = p.universe
         /\ Moved(p, got).free = p.free
         /\ Moved(p, got).jobs = p.jobs
<1>1. got \in [1..n -> p.free]
  BY DEF Allocations
<1>2. got \in Seq(p.free) /\ Len(got) = n
  BY <1>1
<1>3. Vnis(got) \subseteq p.free
  BY <1>2, VnisOf
<1>4. p.free \subseteq ValidVnis
  BY DEF PoolOK, Pools
<1>5. got \in Seq(ValidVnis)
  BY <1>2, <1>4
<1> DEFINE last == IF got = <<>> THEN p.last ELSE got[Len(got)]
<1>6. last \in ValidVnis \cup {NoId}
  <2>1. CASE got = <<>>
    BY <2>1 DEF PoolOK, Pools
  <2>2. CASE got # <<>>
    <3>1. Len(got) \in 1..Len(got)
      BY <1>2, <2>2
    <3> QED BY <1>1, <1>2, <1>4, <2>2, <3>1
  <2> QED BY <2>1, <2>2
<1>7. p = [universe |-> p.universe, free |-> p.free, last |-> p.last, jobs |-> p.jobs]
  BY DEF PoolOK, Pools
<1>8. Moved(p, got) =
        [universe |-> p.universe, free |-> p.free, last |-> last, jobs |-> p.jobs]
  BY <1>7 DEF Moved
<1> HIDE DEF last
<1>9. PoolOK(Moved(p, got))
  BY <1>6, <1>8 DEF PoolOK, Pools
<1> QED
  BY <1>3, <1>5, <1>8, <1>9

(* vnipool_reserve() takes the VNIs it returns out of the pool, and gives   *)
(* back everything when it fails.                                           *)
LEMMA ReserveOK ==
  ASSUME NEW p, PoolOK(p), NEW j \in Jobs, p.jobs[j] = <<>>,
         NEW count \in Int, NEW res \in vnipool_reserve(p, j, count)
  PROVE  /\ PoolOK(res.vp)
         /\ res.vnis \in Seq(ValidVnis) /\ Vnis(res.vnis) \subseteq p.free
         /\ res.vp.universe = p.universe
         /\ res.vp.free = p.free \ Vnis(res.vnis)
         /\ res.vp.jobs = [p.jobs EXCEPT ![j] = res.vnis]
<1>1. p.jobs = [p.jobs EXCEPT ![j] = <<>>]
  BY DEF PoolOK, Pools
<1>2. p.free = p.free \ Vnis(<<>>) /\ <<>> \in Seq(ValidVnis)
  BY VnisOf
<1>3. IsFiniteSet(p.free)
  <2>1. p.free \in SUBSET ValidVnis
    BY DEF PoolOK, Pools
  <2> QED BY <2>1, VniAssumption, FS_Subset
<1>4. Cardinality(p.free) \in Nat
  BY <1>3, FS_CardinalityType
<1>5. CASE count < 0 \/ count > MaxVnis
  <2>1. res = [vp |-> p, vnis |-> <<>>]
    BY <1>5 DEF vnipool_reserve
  <2> QED BY <1>1, <1>2, <2>1, VnisOf
<1>6. CASE ~(count < 0 \/ count > MaxVnis) /\ count > Cardinality(p.free)
  <2>1. PICK got \in Allocations(p, Cardinality(p.free)) :
          res = [vp |-> Moved(p, got), vnis |-> <<>>]
    BY <1>6 DEF vnipool_reserve
  <2>2. /\ PoolOK(Moved(p, got)) /\ Moved(p, got).universe = p.universe
        /\ Moved(p, got).free = p.free /\ Moved(p, got).jobs = p.jobs
    BY <1>4, AllocationsOK
  <2> QED BY <1>1, <1>2, <2>1, <2>2, VnisOf
<1>7. CASE ~(count < 0 \/ count > MaxVnis) /\ ~(count > Cardinality(p.free))
  <2>1. PICK got \in Allocations(p, count) :
          res = [vp |-> [Moved(p, got) EXCEPT
                           !.free = p.free \ Vnis(got),
                           !.jobs = [p.jobs EXCEPT ![j] = got]],
                 vnis |-> got]
    BY <1>7 DEF vnipool_reserve
  <2>2. count \in Nat
    BY <1>7
  <2>3. /\ got \in Seq(ValidVnis) /\ Vnis(got) \subseteq p.free
        /\ PoolOK(Moved(p, got)) /\ Moved(p, got).universe = p.universe
    BY <2>2, AllocationsOK
  <2> DEFINE q == Moved(p, got)
             free == p.free \ Vnis(got)
             jobs == [p.jobs EXCEPT ![j] = got]
  <2>4. q = [universe |-> q.universe, free |-> q.free, last |-> q.last, jobs |-> q.jobs]
    BY <2>3 DEF PoolOK, Pools
  <2>5. jobs \in [Jobs -> Seq(ValidVnis)]
    BY <2>3 DEF PoolOK, Pools
  <2>6. free \subseteq p.universe /\ p.universe \subseteq ValidVnis
    BY DEF PoolOK, Pools
  <2>7. q.last \in ValidVnis \cup {NoId}
    BY <2>3 DEF PoolOK, Pools
  <2>8. res.vp = [q EXCEPT !.free = free, !.jobs = jobs] /\ res.vnis = got
    BY <2>1
  <2> HIDE DEF q, free, jobs
  <2>9. res.vp = [universe |-> q.universe, free |-> free, last |-> q.last, jobs |-> jobs]
    BY <2>4, <2>8
  <2>10. q.universe = p.universe
    BY <2>3 DEF q
  <2>11. PoolOK(res.vp)
    BY <2>5, <2>6, <2>7, <2>9, <2>10 DEF PoolOK, Pools
  <2> QED BY <2>3, <2>8, <2>9, <2>10, <2>11 DEF free, jobs
<1> QED
  BY <1>5, <1>6, <1>7

---------------------------------------------------------------------------
(* What a step does *)

(* How an entry is added to the log of a job. *)
LEMMA PostOK ==
  ASSUME PluginTypeOK, NEW j \in Jobs, NEW e \in Events,
         NEW s \in {"SCHED", "RUN", "CLEANUP", "INACTIVE"}, Post(j, s, e)
  PROVE  /\ [state |-> s, log |-> Append(job[j].log, e)] \in JobRecs
         /\ job' \in [Jobs -> JobRecs]
<1>1. job \in [Jobs -> JobRecs]
  BY DEF PluginTypeOK, JobRecs
<1>2. Append(job[j].log, e) \in Seq(Events)
  BY <1>1 DEF JobRecs
<1>3. [state |-> s, log |-> Append(job[j].log, e)] \in JobRecs
  BY <1>2 DEF JobRecs
<1> QED
  BY <1>1, <1>3 DEF Post

(* The entries that the actions post. *)
LEMMA EntriesOK ==
  /\ \A name \in {"start", "exception", "warning"} : Event(name) \in Events
  /\ \A vnis \in Seq(ValidVnis) : Reservation(vnis) \in Events
<1>1. <<>> \in Seq(ValidVnis)
  OBVIOUS
<1> QED
  BY <1>1 DEF Event, Reservation, Events

(* Counting a fault keeps the type. *)
LEMMA SpendOK ==
  ASSUME faults \in [FaultKinds -> Nat], NEW kind \in FaultKinds, Spend(kind)
  PROVE  faults' \in [FaultKinds -> Nat]
<1>1. faults[kind] \in Nat /\ faults' = [faults EXCEPT ![kind] = faults[kind] + 1]
  BY DEF Spend
<1>2. faults[kind] + 1 \in Nat
  BY <1>1
<1> QED
  BY <1>1, <1>2

(* idle keeps its type. *)
LEMMA IdleOK ==
  ASSUME PluginTypeOK, NEW p, PoolOK(p), NEW taken
  PROVE  /\ Idle(p, taken) \in [ValidVnis -> SUBSET ValidVnis]
         /\ NeverIdle \in [ValidVnis -> SUBSET ValidVnis]
<1>1. p.free \subseteq ValidVnis
  BY DEF PoolOK, Pools
<1>2. idle \in [ValidVnis -> SUBSET ValidVnis]
  BY DEF PluginTypeOK
<1> QED
  BY <1>1, <1>2 DEF Idle, NeverIdle

(* A raised exception ends the job, in a pool p that holds the same VNIs    *)
(* for it as the current one, or none that are not given back already.      *)
LEMMA RaiseOK ==
  ASSUME PluginTypeOK, NEW j \in Jobs, NEW p, PoolOK(p), Raise(p, j),
         p.universe = vp.universe, p.free = vp.free, p.jobs = vp.jobs
  PROVE  Ends(j) /\ PoolOK(vp') /\ job' \in [Jobs -> JobRecs]
<1>1. /\ Post(j, "CLEANUP", Event("exception"))
      /\ vp' = vnipool_release(p, j)
  BY DEF Raise, job_state_cleanup_cb
<1>2. /\ [state |-> "CLEANUP", log |-> Append(job[j].log, Event("exception"))]
           \in JobRecs
      /\ job' \in [Jobs -> JobRecs]
  <2>1. Event("exception") \in Events
    BY EntriesOK
  <2> QED BY <1>1, <2>1, PostOK
<1>3. /\ PoolOK(vp') /\ vp'.universe = p.universe
      /\ vp'.free = p.free \cup (Vnis(p.jobs[j]) \cap p.universe)
      /\ vp'.jobs = [p.jobs EXCEPT ![j] = <<>>]
  BY <1>1, ReleaseOK
<1> DEFINE r == [state |-> "CLEANUP",
                 log |-> Append(job[j].log, Event("exception"))]
<1>4. r.state \in {"CLEANUP", "INACTIVE"} /\ job' = [job EXCEPT ![j] = r]
  BY <1>1 DEF Post
<1>5. r \in JobRecs
  BY <1>2
<1> HIDE DEF r
<1> QED
  BY <1>2, <1>3, <1>4, <1>5 DEF Ends

(* Label empty: the job begins with no VNIs, or fails. *)
LEMMA EmptyOK ==
  ASSUME PluginTypeOK, NoneLeft, NEW j \in Jobs, job[j].state = "SCHED",
         NEW p, PoolOK(p), Empty(j, p),
         p.universe = vp.universe, p.free = vp.free, p.jobs = vp.jobs
  PROVE  /\ Begins(j) \/ Ends(j)
         /\ PoolOK(vp') /\ job' \in [Jobs -> JobRecs]
         /\ faults' \in [FaultKinds -> Nat]
<1>1. faults \in [FaultKinds -> Nat]
  BY DEF PluginTypeOK
<1>2. CASE Post(j, "RUN", Reservation(<<>>)) /\ vp' = p /\ UNCHANGED faults
  <2>0. <<>> \in Seq(ValidVnis)
    OBVIOUS
  <2>1. <<>> \in Seq(ValidVnis) /\ Reservation(<<>>) \in Events
    BY <2>0, EntriesOK, Zenon
  <2>2. job' \in [Jobs -> JobRecs]
    BY <1>2, <2>1, PostOK
  <2>3. vp.jobs = [vp.jobs EXCEPT ![j] = <<>>]
    BY DEF PluginTypeOK, Pools, NoneLeft
  <2>4. Vnis(<<>>) \subseteq vp.free /\ vp.free = vp.free \ Vnis(<<>>)
    BY VnisOf
  <2>5. Begins(j)
    BY <1>2, <2>1, <2>3, <2>4, Zenon DEF Begins
  <2> QED BY <1>1, <1>2, <2>2, <2>5
<1>3. CASE Raise(p, j) /\ Spend("post")
  <2>1. "post" \in FaultKinds 
    BY DEF FaultKinds
  <2> QED BY <1>1, <1>3, <2>1, RaiseOK, SpendOK
<1> QED
  BY <1>2, <1>3 DEF Empty

(* Entering RUN begins the job with its VNIs, or ends it. *)
LEMMA RunOK ==
  ASSUME PluginTypeOK, NoneLeft, NEW j \in Jobs, NEW r \in Requests,
         job_state_run_cb(j, r)
  PROVE  Effect /\ PluginTypeOK'
<1>1. job[j].state = "SCHED" /\ ctx' = ctx
  BY DEF job_state_run_cb
<1>2. PoolOK(vp) /\ faults \in [FaultKinds -> Nat]
      /\ idle \in [ValidVnis -> SUBSET ValidVnis]
  BY DEF PluginTypeOK, PoolOK
<1> SUFFICES /\ Begins(j) \/ Ends(j)
             /\ PoolOK(vp') /\ job' \in [Jobs -> JobRecs]
             /\ faults' \in [FaultKinds -> Nat]
            
             /\ idle' \in [ValidVnis -> SUBSET ValidVnis]
  BY <1>1 DEF PluginTypeOK, PoolOK, JobRecs, Effect
<1>3. CASE r.off \/ (r.parsed /\ VniCount(r) = 0)
  <2>1. Empty(j, vp) /\ idle' = idle
    BY <1>3 DEF job_state_run_cb
  <2> QED BY <1>1, <1>2, <2>1, EmptyOK
<1>4. CASE ~(r.off \/ (r.parsed /\ VniCount(r) = 0)) /\ ~r.parsed
  <2>1. Raise(vp, j) /\ idle' = idle /\ faults' = faults
    BY <1>4 DEF job_state_run_cb
  <2> QED BY <1>2, <2>1, RaiseOK
<1>5. CASE ~(r.off \/ (r.parsed /\ VniCount(r) = 0)) /\ r.parsed
  <2>1. PICK res \in vnipool_reserve(vp, j, VniCount(r)) :
          IF res.vnis = <<>>
          THEN /\ Refuse(j, res.vp)
               /\ idle' = IF res.vp.last = vp.last THEN idle ELSE NeverIdle
          ELSE /\ idle' = Idle(res.vp, Vnis(res.vnis))
               /\ \/ /\ Post(j, "RUN", Reservation(res.vnis))
                     /\ vp' = res.vp /\ UNCHANGED faults
                  \/ Raise(vnipool_release(res.vp, j), j) /\ Spend("post")
    BY <1>5 DEF job_state_run_cb
  <2>2. VniCount(r) \in Int
    BY ConfigAssumption DEF VniCount, PluginTypeOK
  <2>3. vp.jobs[j] = <<>>
    BY <1>1 DEF NoneLeft
  <2>4. /\ PoolOK(res.vp)
        /\ res.vnis \in Seq(ValidVnis) /\ Vnis(res.vnis) \subseteq vp.free
        /\ res.vp.universe = vp.universe
        /\ res.vp.free = vp.free \ Vnis(res.vnis)
        /\ res.vp.jobs = [vp.jobs EXCEPT ![j] = res.vnis]
    BY <1>2, <2>2, <2>3, ReserveOK
  <2>5. vp.jobs = [vp.jobs EXCEPT ![j] = <<>>]
    BY <1>2, <2>3 DEF PoolOK, Pools
  <2>6. CASE res.vnis = <<>>
    <3>1. /\ Refuse(j, res.vp)
          /\ idle' = IF res.vp.last = vp.last THEN idle ELSE NeverIdle
      BY <2>1, <2>6
    <3>2. res.vp.free = vp.free /\ res.vp.jobs = vp.jobs
      BY <2>4, <2>5, <2>6, VnisOf
    <3>3. idle' \in [ValidVnis -> SUBSET ValidVnis]
      BY <1>2, <3>1, IdleOK
    <3>4. CASE Raise(res.vp, j) /\ UNCHANGED faults
      BY <1>2, <2>4, <3>2, <3>3, <3>4, RaiseOK
    <3>5. CASE Empty(j, res.vp)
      BY <1>1, <2>4, <3>2, <3>3, <3>5, EmptyOK
    <3> QED BY <3>1, <3>4, <3>5 DEF Refuse
  <2>7. CASE res.vnis # <<>>
    <3>1. idle' = Idle(res.vp, Vnis(res.vnis))
      BY <2>1, <2>7
    <3>2. idle' \in [ValidVnis -> SUBSET ValidVnis]
      BY <2>4, <3>1, IdleOK
    <3>3. CASE Post(j, "RUN", Reservation(res.vnis)) /\ vp' = res.vp /\ UNCHANGED faults
      <4>1. Reservation(res.vnis) \in Events
        BY <2>4, EntriesOK
      <4>2. job' \in [Jobs -> JobRecs]
        BY <3>3, <4>1, PostOK
      <4>3. Begins(j)
        BY <1>1, <2>4, <3>3 DEF Begins
      <4> QED BY <1>2, <2>4, <3>2, <3>3, <4>2, <4>3
    <3>4. CASE Raise(vnipool_release(res.vp, j), j) /\ Spend("post")
      <4> DEFINE q == vnipool_release(res.vp, j)
      <4>1. /\ PoolOK(q) /\ q.universe = res.vp.universe
            /\ q.free = res.vp.free \cup (Vnis(res.vp.jobs[j]) \cap res.vp.universe)
            /\ q.jobs = [res.vp.jobs EXCEPT ![j] = <<>>]
        BY <2>4, ReleaseOK
      <4>2. res.vp.jobs[j] = res.vnis
        BY <1>2, <2>4 DEF PoolOK, Pools
      <4>3. vp.free \subseteq vp.universe
        BY <1>2 DEF PoolOK
      <4>4. q.free = vp.free
        BY <2>4, <4>1, <4>2, <4>3
      <4>5. q.jobs = vp.jobs
        BY <1>2, <2>4, <2>5, <4>1 DEF PoolOK, Pools
      <4>6. "post" \in FaultKinds 
        BY DEF FaultKinds
      <4>7. Raise(q, j)
        BY <3>4
      <4> HIDE DEF q
      <4>8. Ends(j) /\ PoolOK(vp') /\ job' \in [Jobs -> JobRecs]
        BY <2>4, <4>1, <4>4, <4>5, <4>7, RaiseOK
      <4> QED BY <1>2, <3>2, <3>4, <4>6, <4>8, SpendOK
    <3> QED BY <2>1, <2>7, <3>3, <3>4
  <2> QED BY <2>6, <2>7
<1> QED
  BY <1>3, <1>4, <1>5

(* Every step has one of the effects and keeps the types. *)
LEMMA StepOK ==
  ASSUME PluginTypeOK, NoneLeft, [PluginNext]_plugin
  PROVE  /\ Effect /\ PluginTypeOK'
<1>1. PoolOK(vp) /\ faults \in [FaultKinds -> Nat]
      /\ idle \in [ValidVnis -> SUBSET ValidVnis]
      /\ job \in [Jobs -> JobRecs]
  BY DEF PluginTypeOK, PoolOK, JobRecs
<1>2. {"exception", "warning", "config", "restart"} \subseteq FaultKinds
  BY DEF FaultKinds
<1>3. ASSUME NEW j \in Jobs, NEW r \in Requests, job_state_run_cb(j, r)
      PROVE  /\ Effect /\ PluginTypeOK'
  BY <1>3, RunOK
<1>4. ASSUME NEW j \in Jobs, FatalException(j)
      PROVE  /\ Effect /\ PluginTypeOK'
  <2>1. Spend("exception") /\ Raise(vp, j) /\ idle' = Idle(vp', {}) /\ ctx' = ctx
    BY <1>4 DEF FatalException
  <2>2. Ends(j) /\ PoolOK(vp') /\ job' \in [Jobs -> JobRecs]
    BY <1>1, <2>1, RaiseOK
  <2>3. /\ faults' \in [FaultKinds -> Nat]
       
    BY <1>1, <1>2, <2>1, SpendOK
  <2>4. idle' \in [ValidVnis -> SUBSET ValidVnis]
    BY <2>1, <2>2, IdleOK
  <2> QED BY <2>1, <2>2, <2>3, <2>4 DEF Effect, PluginTypeOK, PoolOK, JobRecs
<1>5. ASSUME NEW j \in Jobs, Warning(j)
      PROVE  /\ Effect /\ PluginTypeOK'
  <2>1. /\ Spend("warning") /\ Post(j, job[j].state, Event("warning"))
        /\ vp' = vp /\ ctx' = ctx /\ idle' = idle
        /\ job[j].state \in {"SCHED", "RUN", "CLEANUP", "INACTIVE"}
    BY <1>5 DEF Warning
  <2>2. Event("warning") \in Events
    BY EntriesOK
  <2>3. job' \in [Jobs -> JobRecs]
    BY <2>1, <2>2, PostOK
  <2>4. /\ faults' \in [FaultKinds -> Nat]
       
    BY <1>1, <1>2, <2>1, SpendOK
  <2>5. Notes(j)
    BY <2>1 DEF Notes
  <2> QED BY <2>1, <2>3, <2>4, <2>5 DEF Effect, PluginTypeOK, PoolOK, JobRecs
<1>6. ASSUME NEW j \in Jobs, Start(j)
      PROVE  /\ Effect /\ PluginTypeOK'
  <2>1. /\ Post(j, job[j].state, Event("start"))
        /\ vp' = vp /\ ctx' = ctx /\ idle' = idle /\ faults' = faults
        /\ job[j].state \in {"SCHED", "RUN", "CLEANUP", "INACTIVE"}
    BY <1>6 DEF Start
  <2>2. Event("start") \in Events
    BY EntriesOK
  <2>3. job' \in [Jobs -> JobRecs]
    BY <2>1, <2>2, PostOK
  <2>4. Notes(j)
    BY <2>1 DEF Notes
  <2> QED BY <2>1, <2>3, <2>4 DEF Effect, PluginTypeOK, PoolOK, JobRecs
<1>7. ASSUME NEW j \in Jobs, Finish(j)
      PROVE  /\ Effect /\ PluginTypeOK'
  <2> DEFINE r == [state |-> "CLEANUP", log |-> job[j].log]
  <2>1. /\ job' = [job EXCEPT ![j].state = "CLEANUP"]
        /\ vp' = vnipool_release(vp, j) /\ idle' = Idle(vp', {})
        /\ ctx' = ctx /\ faults' = faults
    BY <1>7 DEF Finish, job_state_cleanup_cb
  <2>2. r \in JobRecs /\ r.state \in {"CLEANUP", "INACTIVE"}
    BY <1>1 DEF JobRecs
  <2>3. job' = [job EXCEPT ![j] = r]
    <3>1. job[j] \in JobRecs
      BY <1>1
    <3>2. [job[j] EXCEPT !.state = "CLEANUP"] = r
      BY <3>1 DEF JobRecs
    <3>3. job' = [job EXCEPT ![j] = [job[j] EXCEPT !.state = "CLEANUP"]]
      BY <2>1
    <3> QED BY <3>2, <3>3
  <2> HIDE DEF r
  <2>4. job' \in [Jobs -> JobRecs]
    BY <1>1, <2>2, <2>3
  <2>5. /\ PoolOK(vp') /\ vp'.universe = vp.universe
        /\ vp'.free = vp.free \cup (Vnis(vp.jobs[j]) \cap vp.universe)
        /\ vp'.jobs = [vp.jobs EXCEPT ![j] = <<>>]
    BY <1>1, <2>1, ReleaseOK
  <2>6. Ends(j)
    BY <2>2, <2>3, <2>5 DEF Ends
  <2>7. idle' \in [ValidVnis -> SUBSET ValidVnis]
    BY <2>1, <2>5, IdleOK
  <2> QED BY <2>1, <2>4, <2>5, <2>6, <2>7 DEF Effect, PluginTypeOK, PoolOK, JobRecs
<1>8. ASSUME NEW j \in Jobs, Clean(j)
      PROVE  /\ Effect /\ PluginTypeOK'
  <2> DEFINE r == [state |-> "INACTIVE", log |-> job[j].log]
  <2>1. /\ job' = [job EXCEPT ![j].state = "INACTIVE"] /\ job[j].state = "CLEANUP"
        /\ vp' = vp /\ idle' = idle /\ ctx' = ctx /\ faults' = faults
    BY <1>8 DEF Clean
  <2>2. r \in JobRecs /\ r.state \in {"CLEANUP", "INACTIVE"}
    BY <1>1 DEF JobRecs
  <2>3. job' = [job EXCEPT ![j] = r]
    <3>1. job[j] \in JobRecs
      BY <1>1
    <3>2. [job[j] EXCEPT !.state = "INACTIVE"] = r
      BY <3>1 DEF JobRecs
    <3>3. job' = [job EXCEPT ![j] = [job[j] EXCEPT !.state = "INACTIVE"]]
      BY <2>1
    <3> QED BY <3>2, <3>3
  <2> HIDE DEF r
  <2>4. job' \in [Jobs -> JobRecs]
    BY <1>1, <2>2, <2>3
  <2>5. vp.jobs[j] = <<>>
    BY <2>1 DEF NoneLeft
  <2>6. /\ vp'.free = vp.free \cup (Vnis(vp.jobs[j]) \cap vp.universe)
        /\ vp'.jobs = [vp.jobs EXCEPT ![j] = <<>>]
    BY <1>1, <2>1, <2>5, VnisOf DEF PoolOK, Pools
  <2>7. Ends(j)
    BY <2>1, <2>2, <2>3, <2>6 DEF Ends
  <2> QED BY <2>1, <2>4, <2>7 DEF Effect, PluginTypeOK, PoolOK, JobRecs
<1>9. ASSUME NEW c \in Configs, conf_update_cb(c)
      PROVE  /\ Effect /\ PluginTypeOK'
  <2>1. /\ Spend("config") /\ job' = job
        /\ CarefulAdmin => \A j \in Jobs :
             (c.vni_pool \ vp.universe) \cap Vnis(vp.jobs[j]) = {}
    BY <1>9 DEF conf_update_cb
  <2>2. /\ faults' \in [FaultKinds -> Nat]
       
    BY <1>1, <1>2, <2>1, SpendOK
  <2>3. ctx' \in [vnis_per_job : 0..MaxVnis, vni_reserve_fatal : BOOLEAN]
    BY <1>9, ConfigAssumption DEF conf_update_cb, PluginTypeOK
  <2>4. \/ vp' = vp /\ idle' = idle
        \/ /\ c.vni_pool \subseteq ValidVnis
           /\ vp' = vnipool_configure(vp, c.vni_pool)
           /\ idle' = IF c.vni_pool = vp.universe THEN idle ELSE NeverIdle
    BY <1>9 DEF conf_update_cb
  <2>5. CASE vp' = vp /\ idle' = idle
    BY <2>1, <2>2, <2>3, <2>5 DEF Effect, PluginTypeOK, PoolOK, JobRecs
  <2>6. CASE /\ c.vni_pool \subseteq ValidVnis
             /\ vp' = vnipool_configure(vp, c.vni_pool)
             /\ idle' = IF c.vni_pool = vp.universe THEN idle ELSE NeverIdle
    <3>1. Reconfigured
      BY <2>1, <2>6 DEF Reconfigured
    <3>2. idle' \in [ValidVnis -> SUBSET ValidVnis]
      BY <1>1, <2>6, IdleOK
    <3>3. PoolOK(vp')
      <4>1. vp = [universe |-> vp.universe, free |-> vp.free, last |-> vp.last, jobs |-> vp.jobs]
        BY <1>1 DEF PoolOK, Pools
      <4>2. NoId \in ValidVnis \cup {NoId}
        OBVIOUS
      <4> QED BY <1>1, <2>6, <4>1, <4>2 DEF PoolOK, Pools, vnipool_configure
    <3> QED BY <2>1, <2>2, <2>3, <3>1, <3>2, <3>3 DEF Effect, PluginTypeOK, PoolOK, JobRecs
  <2> QED BY <2>4, <2>5, <2>6
<1>10. ASSUME flux_plugin_init
       PROVE  /\ Effect /\ PluginTypeOK'
  <2>1. /\ Spend("restart") /\ vp' = NewPool(vp.universe) /\ idle' = NeverIdle
        /\ ctx' = ctx /\ job' = job
    BY <1>10 DEF flux_plugin_init
  <2>2. faults' \in [FaultKinds -> Nat]
    BY <1>1, <1>2, <2>1, SpendOK
  <2>3. Restarted
    BY <2>1 DEF Restarted
  <2>4. PoolOK(vp')
    <3>1. <<>> \in Seq(ValidVnis) /\ NoId \in ValidVnis \cup {NoId}
      OBVIOUS
    <3> QED BY <1>1, <2>1, <3>1 DEF PoolOK, Pools, NewPool
  <2>5. idle' \in [ValidVnis -> SUBSET ValidVnis]
    BY <1>1, <2>1, IdleOK
  <2> QED BY <2>1, <2>2, <2>3, <2>4, <2>5 DEF Effect, PluginTypeOK, PoolOK, JobRecs
<1>11. CASE UNCHANGED plugin
  BY <1>11 DEF plugin, Effect, PluginTypeOK
<1> QED
  BY <1>3, <1>4, <1>5, <1>6, <1>7, <1>8, <1>9, <1>10, <1>11 DEF PluginNext

---------------------------------------------------------------------------
(* The invariants, from the effects *)

(* A VNI that is configured and not free is in some job's entry. *)
AllHeld ==
  \A v \in vp.universe \ vp.free : \E j \in Jobs : v \in Vnis(vp.jobs[j])

(* The eventlog of a running job and its entry in the pool, if there is    *)
(* one, agree, no VNI is in two entries, and none is in an entry and free. *)
Exclusive ==
  /\ \A j \in Jobs : job[j].state = "SCHED" => Told(job[j].log) = {}
  /\ \A j \in Jobs :
       job[j].state = "RUN" /\ vp.jobs[j] # <<>>
         => Told(job[j].log) = Vnis(vp.jobs[j])
  /\ \A j \in Jobs : Vnis(vp.jobs[j]) \cap vp.free = {}
  /\ \A i, j \in Jobs : i # j => Vnis(vp.jobs[i]) \cap Vnis(vp.jobs[j]) = {}

(* What holds before and after a reconfiguration or a restart. *)
LEMMA PoolShape ==
  ASSUME PluginTypeOK
  PROVE  /\ \A universe \in SUBSET ValidVnis :
              LET q == vnipool_configure(vp, universe)
              IN  /\ q.jobs = vp.jobs
                  /\ q.universe = universe
                  /\ \/ universe = vp.universe /\ q.free = vp.free
                     \/ q.free = universe \ (vp.universe \ vp.free)
         /\ NewPool(vp.universe).free = NewPool(vp.universe).universe
         /\ \A j \in Jobs : NewPool(vp.universe).jobs[j] = <<>>
<1>1. vp = [universe |-> vp.universe, free |-> vp.free, last |-> vp.last, jobs |-> vp.jobs]
  BY DEF PluginTypeOK, Pools
<1> QED
  BY <1>1 DEF vnipool_configure, NewPool

(* Entries of the pool go when a job stops running. *)
LEMMA NoneLeftStep ==
  ASSUME PluginTypeOK, NoneLeft, Effect
  PROVE  NoneLeft'
<1>1. vp.jobs \in [Jobs -> Seq(ValidVnis)] /\ job \in [Jobs -> JobRecs]
  BY DEF PluginTypeOK, Pools, JobRecs
<1>2. ASSUME NEW j \in Jobs, Ends(j) PROVE NoneLeft'
  BY <1>1, <1>2 DEF Ends, NoneLeft
<1>3. ASSUME NEW j \in Jobs, Begins(j) PROVE NoneLeft'
  BY <1>1, <1>3 DEF Begins, NoneLeft, Post
<1>4. ASSUME NEW j \in Jobs, Notes(j) PROVE NoneLeft'
  BY <1>1, <1>4 DEF Notes, NoneLeft, Post
<1>5. CASE Reconfigured
  BY <1>5, PoolShape DEF Reconfigured, NoneLeft
<1>6. CASE Restarted
  BY <1>6, PoolShape DEF Restarted, NoneLeft
<1>7. CASE job' = job /\ vp' = vp
  BY <1>7 DEF NoneLeft
<1> QED
  BY <1>2, <1>3, <1>4, <1>5, <1>6, <1>7 DEF Effect

(* A VNI leaves the pool only into an entry, and leaves an entry only into  *)
(* the pool.                                                                *)
LEMMA AllHeldStep ==
  ASSUME PluginTypeOK, NoneLeft, AllHeld, Effect
  PROVE  AllHeld'
<1>1. vp.jobs \in [Jobs -> Seq(ValidVnis)] /\ job \in [Jobs -> JobRecs]
  BY DEF PluginTypeOK, Pools, JobRecs
<1>2. ASSUME NEW j \in Jobs, Ends(j) PROVE AllHeld'
  <2>1. /\ vp'.jobs[j] = <<>> /\ \A k \in Jobs \ {j} : vp'.jobs[k] = vp.jobs[k]
        /\ vp'.universe = vp.universe
        /\ vp'.free = vp.free \cup (Vnis(vp.jobs[j]) \cap vp.universe)
    BY <1>1, <1>2 DEF Ends
  <2> SUFFICES ASSUME NEW v \in vp'.universe \ vp'.free
               PROVE  \E k \in Jobs : v \in Vnis(vp'.jobs[k])
    BY DEF AllHeld
  <2>2. v \in vp.universe \ vp.free /\ v \notin Vnis(vp.jobs[j])
    BY <2>1
  <2>3. PICK k \in Jobs : v \in Vnis(vp.jobs[k])
    BY <2>2 DEF AllHeld
  <2> QED BY <2>1, <2>2, <2>3
<1>3. ASSUME NEW j \in Jobs, Begins(j) PROVE AllHeld'
  <2>1. PICK vnis \in Seq(ValidVnis) :
          /\ vp'.universe = vp.universe /\ vp'.free = vp.free \ Vnis(vnis)
          /\ vp'.jobs = [vp.jobs EXCEPT ![j] = vnis]
    BY <1>3 DEF Begins
  <2>2. vp'.jobs[j] = vnis /\ \A k \in Jobs \ {j} : vp'.jobs[k] = vp.jobs[k]
    BY <1>1, <2>1
  <2>3. Vnis(vp.jobs[j]) = {}
    BY <1>3, VnisOf DEF Begins, NoneLeft
  <2> SUFFICES ASSUME NEW v \in vp'.universe \ vp'.free
               PROVE  \E k \in Jobs : v \in Vnis(vp'.jobs[k])
    BY DEF AllHeld
  <2>4. CASE v \in Vnis(vnis)
    BY <2>2, <2>4
  <2>5. CASE v \in vp.universe \ vp.free
    <3>1. PICK k \in Jobs : v \in Vnis(vp.jobs[k])
      BY <2>5 DEF AllHeld
    <3> QED BY <2>2, <2>3, <3>1
  <2> QED BY <2>1, <2>4, <2>5
<1>4. ASSUME NEW j \in Jobs, Notes(j) PROVE AllHeld'
  BY <1>4 DEF Notes, AllHeld
<1>5. CASE Reconfigured
  <2>1. PICK universe \in SUBSET ValidVnis : vp' = vnipool_configure(vp, universe)
    BY <1>5 DEF Reconfigured
  <2>2. vp'.jobs = vp.jobs /\ vp'.universe \ vp'.free \subseteq vp.universe \ vp.free
    BY <2>1, PoolShape
  <2> QED BY <2>2 DEF AllHeld
<1>6. CASE Restarted
  BY <1>6, PoolShape DEF Restarted, AllHeld
<1>7. CASE job' = job /\ vp' = vp
  BY <1>7 DEF AllHeld
<1> QED
  BY <1>2, <1>3, <1>4, <1>5, <1>6, <1>7 DEF Effect

(* No effect but a pool grown by a VNI that is held gives a VNI to two jobs. *)
LEMMA ExclusiveStep ==
  ASSUME PluginTypeOK, NoneLeft, Exclusive, Effect, CarefulAdmin
  PROVE  Exclusive'
<1>1. vp.jobs \in [Jobs -> Seq(ValidVnis)] /\ job \in [Jobs -> JobRecs]
  BY DEF PluginTypeOK, Pools, JobRecs
<1>2. ASSUME NEW j \in Jobs, Ends(j) PROVE Exclusive'
  <2>1. /\ vp'.jobs[j] = <<>> /\ \A k \in Jobs \ {j} : vp'.jobs[k] = vp.jobs[k]
        /\ vp'.free \subseteq vp.free \cup Vnis(vp.jobs[j])
        /\ job'[j].state \notin {"SCHED", "RUN"}
        /\ \A k \in Jobs \ {j} : job'[k] = job[k]
    BY <1>1, <1>2 DEF Ends
  <2>2. Vnis(vp'.jobs[j]) = {}
    BY <2>1, VnisOf
  <2>3. ASSUME NEW k \in Jobs
        PROVE  /\ job'[k].state = "SCHED" => Told(job'[k].log) = {}
               /\ job'[k].state = "RUN" /\ vp'.jobs[k] # <<>>
                    => Told(job'[k].log) = Vnis(vp'.jobs[k])
    BY <2>1 DEF Exclusive
  <2>4. ASSUME NEW k \in Jobs PROVE Vnis(vp'.jobs[k]) \cap vp'.free = {}
    <3>1. CASE k = j
      BY <2>2, <3>1
    <3>2. CASE k # j
      <4>1. /\ vp'.jobs[k] = vp.jobs[k] /\ Vnis(vp.jobs[k]) \cap vp.free = {}
            /\ Vnis(vp.jobs[k]) \cap Vnis(vp.jobs[j]) = {}
        BY <2>1, <3>2 DEF Exclusive
      <4> QED BY <2>1, <4>1
    <3> QED BY <3>1, <3>2
  <2>5. ASSUME NEW i \in Jobs, NEW k \in Jobs, i # k
        PROVE  Vnis(vp'.jobs[i]) \cap Vnis(vp'.jobs[k]) = {}
    <3>1. CASE i = j \/ k = j
      BY <2>2, <3>1
    <3>2. CASE i # j /\ k # j
      BY <2>1, <2>5, <3>2 DEF Exclusive
    <3> QED BY <3>1, <3>2
  <2> QED BY <2>3, <2>4, <2>5 DEF Exclusive
<1>3. ASSUME NEW j \in Jobs, Begins(j) PROVE Exclusive'
  <2>1. PICK vnis \in Seq(ValidVnis) :
          /\ Vnis(vnis) \subseteq vp.free
          /\ Post(j, "RUN", Reservation(vnis))
          /\ vp'.free = vp.free \ Vnis(vnis)
          /\ vp'.jobs = [vp.jobs EXCEPT ![j] = vnis]
    BY <1>3 DEF Begins
  <2>2. /\ vp'.jobs[j] = vnis /\ \A k \in Jobs \ {j} : vp'.jobs[k] = vp.jobs[k]
        /\ job'[j] = [state |-> "RUN",
                      log |-> Append(job[j].log, Reservation(vnis))]
        /\ \A k \in Jobs \ {j} : job'[k] = job[k]
    BY <1>1, <2>1 DEF Post
  <2>3. Told(job[j].log) = {}
    BY <1>3 DEF Begins, Exclusive
  <2>4. Told(job'[j].log) = Vnis(vnis)
    <3>1. Reservation(vnis) \in Events /\ Reservation(vnis).vnis = vnis
      BY EntriesOK DEF Reservation
    <3>2. job[j].log \in Seq(Events)
      BY <1>1 DEF JobRecs
    <3>3. Told(job'[j].log) = Told(Append(job[j].log, Reservation(vnis)))
      BY <2>2
    <3> HIDE DEF Told
    <3>4. Told(Append(job[j].log, Reservation(vnis))) = Told(job[j].log) \cup Vnis(vnis)
      BY <3>1, <3>2, ToldAppend
    <3> QED BY <2>3, <3>3, <3>4
  <2>5. ASSUME NEW k \in Jobs
        PROVE  /\ job'[k].state = "SCHED" => Told(job'[k].log) = {}
               /\ job'[k].state = "RUN" /\ vp'.jobs[k] # <<>>
                    => Told(job'[k].log) = Vnis(vp'.jobs[k])
    <3>1. CASE k = j
      <4>1. job'[j].state = "RUN"
        BY <2>2
      <4> QED BY <2>2, <2>4, <3>1, <4>1
    <3>2. CASE k # j
      <4>1. job'[k] = job[k] /\ vp'.jobs[k] = vp.jobs[k]
        BY <2>2, <3>2
      <4> QED BY <4>1 DEF Exclusive
    <3> QED BY <3>1, <3>2
  <2>6. \A k \in Jobs \ {j} : Vnis(vp.jobs[k]) \cap Vnis(vnis) = {}
    BY <2>1 DEF Exclusive
  <2>7. ASSUME NEW k \in Jobs PROVE Vnis(vp'.jobs[k]) \cap vp'.free = {}
    <3>1. CASE k = j
      BY <2>1, <2>2, <3>1
    <3>2. CASE k # j
      BY <2>1, <2>2, <3>2 DEF Exclusive
    <3> QED BY <3>1, <3>2
  <2>8. ASSUME NEW i \in Jobs, NEW k \in Jobs, i # k
        PROVE  Vnis(vp'.jobs[i]) \cap Vnis(vp'.jobs[k]) = {}
    <3>1. CASE i = j
      BY <2>2, <2>6, <2>8, <3>1
    <3>2. CASE k = j
      BY <2>2, <2>6, <2>8, <3>2
    <3>3. CASE i # j /\ k # j
      BY <2>2, <2>8, <3>3 DEF Exclusive
    <3> QED BY <3>1, <3>2, <3>3
  <2> QED BY <2>5, <2>7, <2>8 DEF Exclusive
<1>4. ASSUME NEW j \in Jobs, Notes(j) PROVE Exclusive'
  <2>1. PICK name \in {"start", "warning"} : Post(j, job[j].state, Event(name))
    BY <1>4 DEF Notes
  <2>2. /\ job'[j] = [state |-> job[j].state, log |-> Append(job[j].log, Event(name))]
        /\ \A k \in Jobs \ {j} : job'[k] = job[k]
        /\ vp' = vp
    BY <1>1, <1>4, <2>1 DEF Notes, Post
  <2>3. job'[j].state = job[j].state /\ Told(job'[j].log) = Told(job[j].log)
    <3>1. Event(name) \in Events /\ Event(name).vnis = <<>>
      BY EntriesOK DEF Event
    <3>2. job[j].log \in Seq(Events)
      BY <1>1 DEF JobRecs
    <3>3. Told(Append(job[j].log, Event(name))) = Told(job[j].log) \cup Vnis(<<>>)
      BY <3>1, <3>2, ToldAppend
    <3>4. Told(Append(job[j].log, Event(name))) = Told(job[j].log)
      BY <3>3, VnisOf
    <3>5. job'[j].log = Append(job[j].log, Event(name)) /\ job'[j].state = job[j].state
      BY <2>2
    <3> QED BY <3>4, <3>5
  <2>4. \A k \in Jobs : job'[k].state = job[k].state /\ Told(job'[k].log) = Told(job[k].log)
    BY <2>2, <2>3
  <2> QED BY <2>2, <2>4 DEF Exclusive
<1>5. CASE Reconfigured
  <2>1. PICK universe \in SUBSET ValidVnis :
          /\ \A j \in Jobs : (universe \ vp.universe) \cap Vnis(vp.jobs[j]) = {}
          /\ vp' = vnipool_configure(vp, universe)
    BY <1>5 DEF Reconfigured
  <2>2. /\ job' = job /\ vp'.jobs = vp.jobs
        /\ \/ vp'.free = vp.free
           \/ vp'.free = universe \ (vp.universe \ vp.free)
    BY <1>5, <2>1, PoolShape DEF Reconfigured
  <2>3. ASSUME NEW k \in Jobs PROVE Vnis(vp'.jobs[k]) \cap vp'.free = {}
    <3>1. /\ Vnis(vp.jobs[k]) \cap vp.free = {}
          /\ (universe \ vp.universe) \cap Vnis(vp.jobs[k]) = {}
      BY <2>1 DEF Exclusive
    <3> QED BY <2>2, <3>1
  <2> QED BY <2>2, <2>3 DEF Exclusive
<1>6. CASE Restarted
  <2>1. job' = job /\ \A j \in Jobs : vp'.jobs[j] = <<>>
    BY <1>6, PoolShape DEF Restarted
  <2>2. \A j \in Jobs : Vnis(vp'.jobs[j]) = {}
    BY <2>1, VnisOf
  <2> QED BY <2>1, <2>2 DEF Exclusive
<1>7. CASE job' = job /\ vp' = vp
  BY <1>7 DEF Exclusive
<1> QED
  BY <1>2, <1>3, <1>4, <1>5, <1>6, <1>7 DEF Effect

---------------------------------------------------------------------------
(* The theorems *)

(* What holds at the start *)
LEMMA InitOK ==
  ASSUME PluginInit
  PROVE  PluginTypeOK /\ NoneLeft /\ AllHeld /\ Exclusive
<1>1. PICK c \in Configs :
        /\ Allowed(c) /\ vp = NewPool(c.vni_pool)
        /\ ctx = [vnis_per_job |-> c.vnis_per_job,
                  vni_reserve_fatal |-> c.vni_reserve_fatal]
  BY DEF PluginInit
<1>2. /\ job = [j \in Jobs |-> [state |-> "SCHED", log |-> <<>>]]
      /\ idle = [v \in ValidVnis |-> {}] /\ faults = [kind \in FaultKinds |-> 0]
  BY DEF PluginInit
<1>3. /\ vp.free = vp.universe /\ vp.universe = c.vni_pool /\ vp.last = NoId
      /\ vp.jobs = [j \in Jobs |-> <<>>]
  BY <1>1 DEF NewPool
<1>4. c.vni_pool \subseteq ValidVnis
  BY <1>1 DEF Allowed
<1>5. \A S : <<>> \in Seq(S)
  OBVIOUS
<1>6. vp \in Pools
  BY <1>1, <1>4, <1>5 DEF Pools, NewPool
<1>7. ctx \in [vnis_per_job : 0..MaxVnis, vni_reserve_fatal : BOOLEAN]
  BY <1>1, ConfigAssumption DEF Allowed
<1>8. job \in [Jobs -> [state : {"SCHED", "RUN", "CLEANUP", "INACTIVE"},
                        log : Seq(Events)]]
  BY <1>2, <1>5
<1>9. PluginTypeOK
  BY <1>2, <1>3, <1>6, <1>7, <1>8, ConfigAssumption DEF PluginTypeOK
<1>10. NoneLeft /\ AllHeld
  BY <1>3 DEF NoneLeft, AllHeld
<1>11. \A j \in Jobs : Vnis(vp.jobs[j]) = {}
  BY <1>3, VnisOf
<1>12. \A j \in Jobs : job[j].state = "SCHED" /\ Told(job[j].log) = {}
  BY <1>2 DEF Told
<1> QED
  BY <1>9, <1>10, <1>11, <1>12 DEF Exclusive

(* The pool, the context, the jobs and their eventlogs keep their types;    *)
(* in particular nothing is free in the pool that is not configured         *)
(* (vnipool_free_array() drops what left the universe).                     *)
THEOREM PluginTypeCorrect == PluginSpec => []PluginTypeOK
<1>1. PluginInit => PluginTypeOK /\ NoneLeft
  BY InitOK
<1>2. PluginTypeOK /\ NoneLeft /\ [PluginNext]_plugin => (PluginTypeOK /\ NoneLeft)'
  BY StepOK, NoneLeftStep
<1> QED
  BY <1>1, <1>2, PTL DEF PluginSpec

(* vnipool_reserve(), vnipool_release() and vnipool_configure() lose no VNI *)
(* whatever fails, is reconfigured or restarted: one that is configured and *)
(* not free is reserved for a job in RUN.                                   *)
THEOREM VnisKept == PluginSpec => []NoVniLost
<1> DEFINE Inv == PluginTypeOK /\ NoneLeft /\ AllHeld
<1>1. PluginInit => Inv
  BY InitOK
<1>2. Inv /\ [PluginNext]_plugin => Inv'
  BY StepOK, NoneLeftStep, AllHeldStep
<1>3. Inv => NoVniLost
  <2> SUFFICES ASSUME Inv, NEW v \in vp.universe \ vp.free
               PROVE  \E j \in {k \in Jobs : job[k].state = "RUN"} : v \in Vnis(vp.jobs[j])
    BY DEF NoVniLost
  <2>1. PICK j \in Jobs : v \in Vnis(vp.jobs[j])
    BY DEF AllHeld
  <2>2. job[j].state = "RUN"
    BY <2>1, VnisOf DEF NoneLeft
  <2> QED BY <2>1, <2>2
<1> QED
  BY <1>1, <1>2, <1>3, PTL DEF PluginSpec

(* slingshot.rst 68, "Flux reserves unique VNIs (typically one) for each    *)
(* job": as long as vni-pool is not grown by a VNI that a job still holds   *)
(* (create_vnipool() would take it for free), no two running jobs that got  *)
(* VNIs since the plugin was loaded were told the same one.                 *)
THEOREM VnisUnique ==
  ASSUME CarefulAdmin
  PROVE  PluginSpec => []UniqueVnis
<1> DEFINE Inv == PluginTypeOK /\ NoneLeft /\ Exclusive
<1>1. PluginInit => Inv
  BY InitOK
<1>2. Inv /\ [PluginNext]_plugin => Inv'
  BY StepOK, NoneLeftStep, ExclusiveStep
<1>3. Inv => UniqueVnis
  BY DEF UniqueVnis, Exclusive, Reserved, Told
<1> QED
  BY <1>1, <1>2, <1>3, PTL DEF PluginSpec

---------------------------------------------------------------------------
(* The pool implements Allocator *)

HeldVnis == [j \in Jobs |-> Vnis(vp.jobs[j])]

LEMMA InitAllocates ==
  ASSUME PluginInit
  PROVE  Alloc!Init
<1>0. \E c \in Configs : vp = NewPool(c.vni_pool)
  BY DEF PluginInit
<1>1. vp \in Pools /\ \A j \in Jobs : vp.jobs[j] = <<>>
  BY <1>0, InitOK DEF PluginTypeOK, NewPool
<1>2. \A j \in Jobs : Vnis(vp.jobs[j]) = {}
  BY <1>1, VnisOf
<1> QED BY <1>1, <1>2 DEF Alloc!Init, Alloc!Nothing, Pools

(* Each effect is a step of the allocator or none at all. *)
LEMMA EffectAllocates ==
  ASSUME PluginTypeOK, NoneLeft, Exclusive, Effect, CarefulAdmin
  PROVE  [Alloc!Next]_<<vp.free, [j \in Jobs |-> Vnis(vp.jobs[j])]>>
<1>1. /\ vp.jobs \in [Jobs -> Seq(ValidVnis)] /\ job \in [Jobs -> JobRecs]
      /\ vp.free \subseteq ValidVnis /\ vp.universe \subseteq ValidVnis
  BY DEF PluginTypeOK, Pools, JobRecs
<1>2. ASSUME NEW j \in Jobs, Ends(j) PROVE Alloc!Release(j)
  <2>1. /\ vp'.jobs[j] = <<>> /\ \A k \in Jobs \ {j} : vp'.jobs[k] = vp.jobs[k]
        /\ vp'.free \subseteq vp.free \cup Vnis(vp.jobs[j])
    BY <1>1, <1>2 DEF Ends
  <2>2. Vnis(vp'.jobs[j]) = {}
    BY <2>1, VnisOf
  <2>3. HeldVnis' = [HeldVnis EXCEPT ![j] = {}] /\ HeldVnis[j] = Vnis(vp.jobs[j])
    BY <2>1, <2>2 DEF HeldVnis
  <2> QED BY <2>1, <2>3 DEF Alloc!Release, HeldVnis
<1>3. ASSUME NEW j \in Jobs, Begins(j) PROVE Alloc!Take(j)
  <2>1. PICK vnis \in Seq(ValidVnis) :
          /\ Vnis(vnis) \subseteq vp.free /\ vp'.free = vp.free \ Vnis(vnis)
          /\ vp'.jobs = [vp.jobs EXCEPT ![j] = vnis]
    BY <1>3 DEF Begins
  <2>2. vp'.jobs[j] = vnis /\ \A k \in Jobs \ {j} : vp'.jobs[k] = vp.jobs[k]
    BY <1>1, <2>1
  <2>3. Vnis(vp.jobs[j]) = {}
    BY <1>3, VnisOf DEF Begins, NoneLeft
  <2>4. HeldVnis' = [HeldVnis EXCEPT ![j] = Vnis(vnis)] /\ HeldVnis[j] = {}
    BY <2>2, <2>3 DEF HeldVnis
  <2> QED BY <2>1, <2>4 DEF Alloc!Take, HeldVnis
<1>4. ASSUME NEW j \in Jobs, Notes(j) PROVE vp' = vp
  BY <1>4 DEF Notes
<1>5. CASE Reconfigured
  <2>1. PICK universe \in SUBSET ValidVnis :
          /\ \A j \in Jobs : (universe \ vp.universe) \cap Vnis(vp.jobs[j]) = {}
          /\ vp' = vnipool_configure(vp, universe)
    BY <1>5 DEF Reconfigured
  <2>2. /\ vp'.jobs = vp.jobs
        /\ vp'.free = vp.free \/ vp'.free = universe \ (vp.universe \ vp.free)
    BY <2>1, PoolShape
  <2>3. \A j \in Jobs : vp'.free \cap Vnis(vp.jobs[j]) = {}
    BY <2>1, <2>2 DEF Exclusive
  <2>4. vp'.free \in SUBSET ValidVnis
    BY <1>1, <2>2
  <2> QED BY <2>2, <2>3, <2>4 DEF Alloc!Next, Alloc!Configure
<1>6. CASE Restarted
  <2>1. vp'.free = vp'.universe /\ vp'.universe = vp.universe
        /\ \A j \in Jobs : vp'.jobs[j] = <<>>
    BY <1>6, PoolShape DEF Restarted, NewPool
  <2>2. \A j \in Jobs : Vnis(vp'.jobs[j]) = {}
    BY <2>1, VnisOf
  <2> QED BY <1>1, <2>1, <2>2 DEF Alloc!Next, Alloc!Renew, Alloc!Nothing
<1>7. CASE job' = job /\ vp' = vp
  BY <1>7
<1> QED BY <1>2, <1>3, <1>4, <1>5, <1>6, <1>7 DEF Effect, Alloc!Next

(* As long as vni-pool is not grown by a VNI that a job still holds, the    *)
(* plugin and its pool implement an allocator.                              *)
THEOREM VnisImplementAllocator ==
  ASSUME CarefulAdmin
  PROVE  PluginSpec => VnisAreAllocated
<1> DEFINE Inv == PluginTypeOK /\ NoneLeft /\ Exclusive
<1>1. PluginInit => Inv /\ Alloc!Init
  BY InitOK, InitAllocates
<1>2. Inv /\ [PluginNext]_plugin => Inv'
  BY StepOK, NoneLeftStep, ExclusiveStep
<1>3. Inv /\ [PluginNext]_plugin =>
        [Alloc!Next]_<<vp.free, [j \in Jobs |-> Vnis(vp.jobs[j])]>>
  BY StepOK, EffectAllocates
<1> QED
  BY <1>1, <1>2, <1>3, PTL DEF PluginSpec, VnisAreAllocated, Alloc!Spec

---------------------------------------------------------------------------
(* The nodes *)

(* The eventlog of a job, as its readers see it. *)
DecidingIn(log) == {i \in DOMAIN log : Decides(log[i])}
Found(log) == log[Min(DecidingIn(log))].vnis
HasStart(log) == \E i \in DOMAIN log : log[i].name = "start"

(* A job that was scheduled has an entry that decides, and the first one    *)
(* has all the VNIs that the job was ever told.                             *)
LogOK(r) ==
  IF r.state = "SCHED" THEN DecidingIn(r.log) = {} /\ Told(r.log) = {}
  ELSE /\ DecidingIn(r.log) # {} /\ Found(r.log) \in Seq(ValidVnis)
       /\ Told(r.log) = Vnis(Found(r.log))

(* The devices that have a service of job j, and those that have several. *)
Placed(j) == {d \in Devices : HasService(j, d)}
Twice(j) ==
  {d \in Devices : \E a, b \in DOMAIN svc[d] :
                     a # b /\ svc[d][a].job = j /\ svc[d][b].job = j}

Over == {"finished", "drained"}
Stages == {"none", "prolog", "ready", "epilog", "epilog_done", "housekeeping"} \cup Over

(* How the scripts n of a job r go with the devices that have its services. *)
ScriptOK(n, r, placed, twice) ==
  /\ n.stage \in {"none", "prolog"} => ~HasStart(r.log)
  /\ n.stage = "none" => placed = {}
  /\ n.stage = "prolog" => placed \cap n.todo = {} /\ (n.todo # {} => Found(r.log) # <<>>)
  /\ n.stage \in {"none", "ready"} => n.todo = {}
  /\ n.stage # "none" => r.state # "SCHED"
  /\ n.stage \notin {"none"} \cup Over => twice = {}
  /\ r.state = "RUN" => n.stage \in {"none", "prolog", "ready"}
  /\ CarefulAdmin /\ r.state = "RUN" /\ n.stage # "none" /\ Found(r.log) # <<>> =>
       Devices \subseteq placed \cup n.todo \cup n.skipped
  /\ n.stage = "housekeeping" => placed \subseteq n.todo \cup n.busy \cup n.failed
  /\ n.stage = "finished" => placed \subseteq n.failed

(* A service says whose it is: the readers of a log find its VNIs. *)
ServiceOK(s, r) ==
  /\ r.state # "SCHED" /\ s.vnis = Found(r.log) /\ s.vnis # <<>>
  /\ s.uid = Owner[s.job]

Users == {Owner[j] : j \in Jobs}
Services == [uid : Users, vnis : Seq(ValidVnis), job : Jobs]
Scripts ==
  [stage : Stages, todo : SUBSET Devices, busy : SUBSET Devices,
   failed : SUBSET Devices, skipped : SUBSET Devices, env : [Devices -> Jobs \cup {Nobody}]]

NodeTypes == svc \in [Devices -> Seq(Services)] /\ node \in [Jobs -> Scripts]

(* The shell hands on services of its own job only. *)
EnvOwn == \A j \in Jobs, d \in Devices : node[j].env[d] \in {j, Nobody}

NodeInv ==
  /\ NodeTypes
  /\ \A j \in Jobs : LogOK(job[j])
  /\ \A d \in Devices : \A i \in DOMAIN svc[d] : ServiceOK(svc[d][i], job[svc[d][i].job])
  /\ \A j \in Jobs : ScriptOK(node[j], job[j], Placed(j), Twice(j))
  /\ \A j, k \in Jobs : j # k /\ Undestroyed(j) /\ Undestroyed(k) =>
       Told(job[j].log) \cap Told(job[k].log) = {}
  /\ EnvOwn

(* The least of a set of positions. *)
LEMMA MinOK ==
  ASSUME NEW T, T \subseteq Nat, T # {}
  PROVE  Min(T) \in T /\ \A k \in T : Min(T) <= k
<1>1. \E m \in T : \A k \in T : m <= k
  BY E!LeastNatural
<1> QED BY <1>1 DEF Min

(* Once an entry decides, later ones change nothing. *)
LEMMA LogGrows ==
  ASSUME NEW log \in Seq(Events), NEW e \in Events
  PROVE  LET app == Append(log, e)
         IN  /\ DecidingIn(log) # {} => DecidingIn(app) # {} /\ Found(app) = Found(log)
             /\ DecidingIn(log) = {} /\ Decides(e) => DecidingIn(app) # {} /\ Found(app) = e.vnis
             /\ DecidingIn(log) = {} /\ ~Decides(e) => DecidingIn(app) = {}
             /\ HasStart(app) <=> HasStart(log) \/ e.name = "start"
<1> DEFINE app == Append(log, e)
           L == Len(log)
<1>1. /\ DOMAIN log = 1 .. L /\ DOMAIN app = 1 .. L + 1 /\ L \in Nat
      /\ app[L + 1] = e /\ \A i \in 1 .. L : app[i] = log[i]
  OBVIOUS
<1> HIDE DEF app, L
<1>2. /\ DecidingIn(log) \subseteq Nat /\ DecidingIn(app) \subseteq Nat
      /\ \A i \in DecidingIn(log) : i \in 1 .. L
  BY <1>1 DEF DecidingIn
<1>3. \A i \in 1 .. L : i \in DecidingIn(app) <=> i \in DecidingIn(log)
  BY <1>1 DEF DecidingIn
<1>4. L + 1 \in DecidingIn(app) <=> Decides(e)
  BY <1>1 DEF DecidingIn
<1>5. \A i \in DecidingIn(app) : i \in 1 .. L \/ i = L + 1
  BY <1>1 DEF DecidingIn
<1>6. ASSUME DecidingIn(log) # {}
      PROVE  DecidingIn(app) # {} /\ Found(app) = Found(log)
  <2>1. DecidingIn(app) # {}
    BY <1>2, <1>3, <1>6
  <2> DEFINE a == Min(DecidingIn(app))
             b == Min(DecidingIn(log))
  <2>2. /\ a \in DecidingIn(app) /\ \A k \in DecidingIn(app) : a <= k
        /\ b \in DecidingIn(log) /\ \A k \in DecidingIn(log) : b <= k
    BY <1>2, <1>6, <2>1, MinOK
  <2> HIDE DEF a, b
  <2>3. b \in 1 .. L /\ a <= b
    BY <1>2, <1>3, <2>2
  <2>4. a \in 1 .. L /\ b <= a
    BY <1>1, <1>2, <1>3, <1>5, <2>2, <2>3
  <2>5. a = b
    BY <1>1, <2>3, <2>4
  <2> QED BY <1>1, <2>1, <2>4, <2>5 DEF Found, a, b
<1>7. ASSUME DecidingIn(log) = {}, Decides(e)
      PROVE  DecidingIn(app) # {} /\ Found(app) = e.vnis
  <2>1. DecidingIn(app) = {L + 1}
    BY <1>3, <1>4, <1>5, <1>7
  <2>2. Min(DecidingIn(app)) = L + 1
    BY <1>2, <2>1, MinOK
  <2> QED BY <1>1, <2>1, <2>2 DEF Found
<1>8. ASSUME DecidingIn(log) = {}, ~Decides(e)
      PROVE  DecidingIn(app) = {}
  BY <1>3, <1>4, <1>5, <1>8
<1>9. HasStart(app) <=> HasStart(log) \/ e.name = "start"
  BY <1>1 DEF HasStart
<1> QED BY <1>6, <1>7, <1>8, <1>9 DEF app

(* What the actions other than Start make of a job. *)
Moves(r, q) ==
  \/ q = r
  \/ /\ r.state = "SCHED"
     /\ \E vnis \in Seq(ValidVnis) :
          q = [state |-> "RUN", log |-> Append(r.log, Reservation(vnis))]
  \/ /\ r.state \in {"SCHED", "RUN"}
     /\ \/ q = [state |-> "CLEANUP", log |-> Append(r.log, Event("exception"))]
        \/ q = [state |-> r.state, log |-> Append(r.log, Event("warning"))]
  \/ r.state = "RUN" /\ q = [state |-> "CLEANUP", log |-> r.log]
  \/ r.state = "CLEANUP" /\ q = [state |-> "INACTIVE", log |-> r.log]

Starts(r, q) ==
  r.state = "RUN" /\ q = [state |-> "RUN", log |-> Append(r.log, Event("start"))]

(* A log stays in order, and what was found in it is found again. *)
LEMMA MovesOK ==
  ASSUME NEW r \in JobRecs, LogOK(r), NEW q, Moves(r, q) \/ Starts(r, q)
  PROVE  /\ q \in JobRecs /\ LogOK(q)
         /\ r.state # "SCHED" => /\ q.state # "SCHED" /\ Found(q.log) = Found(r.log)
                                 /\ Told(q.log) = Told(r.log)
         /\ q.state = "RUN" => r.state \in {"SCHED", "RUN"}
         /\ Told(q.log) # Told(r.log) => q.state = "RUN"
         /\ Moves(r, q) => (HasStart(q.log) => HasStart(r.log))
<1> DEFINE A(e) == Append(r.log, e)
<1>1. r.log \in Seq(Events) /\ r.state \in {"SCHED", "RUN", "CLEANUP", "INACTIVE"}
      /\ r = [state |-> r.state, log |-> r.log]
  BY DEF JobRecs
<1>2. \A e \in Events : A(e) \in Seq(Events)
  BY <1>1
<1>3. /\ Event("exception") \in Events /\ Event("warning") \in Events /\ Event("start") \in Events
      /\ \A vnis \in Seq(ValidVnis) : Reservation(vnis) \in Events
  BY EntriesOK
<1>4. /\ Decides(Event("exception")) /\ ~Decides(Event("warning")) /\ Decides(Event("start"))
      /\ \A vnis : Decides(Reservation(vnis))
      /\ Event("exception").vnis = <<>> /\ Event("warning").vnis = <<>> /\ Event("start").vnis = <<>>
      /\ \A vnis : Reservation(vnis).vnis = vnis
      /\ Event("exception").name # "start" /\ Event("warning").name # "start"
      /\ \A vnis : Reservation(vnis).name # "start"
  BY DEF Event, Reservation, Decides
<1>5. \A e \in Events :
        /\ Told(A(e)) = Told(r.log) \cup Vnis(e.vnis)
        /\ DecidingIn(r.log) # {} => DecidingIn(A(e)) # {} /\ Found(A(e)) = Found(r.log)
        /\ DecidingIn(r.log) = {} /\ Decides(e) => DecidingIn(A(e)) # {} /\ Found(A(e)) = e.vnis
        /\ DecidingIn(r.log) = {} /\ ~Decides(e) => DecidingIn(A(e)) = {}
        /\ HasStart(A(e)) <=> HasStart(r.log) \/ e.name = "start"
  BY <1>1, ToldAppend, LogGrows
<1>6. Vnis(<<>>) = {} /\ <<>> \in Seq(ValidVnis)
  BY VnisOf
<1> HIDE DEF A
<1>7. CASE q = r
  BY <1>7
<1>8. ASSUME r.state = "SCHED", NEW vnis \in Seq(ValidVnis),
             q = [state |-> "RUN", log |-> A(Reservation(vnis))]
      PROVE  /\ q \in JobRecs /\ LogOK(q) /\ q.state = "RUN"
             /\ HasStart(q.log) => HasStart(r.log)
  <2>1. q.state = "RUN" /\ q.log = A(Reservation(vnis))
    BY <1>8
  <2>2. q \in JobRecs
    BY <1>2, <1>3, <1>8 DEF JobRecs
  <2>3. DecidingIn(r.log) = {} /\ Told(r.log) = {}
    BY <1>8 DEF LogOK
  <2>4. /\ Told(q.log) = Vnis(vnis) /\ DecidingIn(q.log) # {} /\ Found(q.log) = vnis
        /\ HasStart(q.log) => HasStart(r.log)
    BY <1>3, <1>4, <1>5, <2>1, <2>3
  <2> QED BY <2>1, <2>2, <2>4 DEF LogOK
<1>9. ASSUME NEW e \in Events, e.vnis = <<>>, NEW s \in {"SCHED", "RUN", "CLEANUP"},
             q = [state |-> s, log |-> A(e)], s = "SCHED" => r.state = "SCHED",
             s # "SCHED" <=> (r.state # "SCHED" \/ Decides(e)),
             s = "RUN" => r.state \in {"SCHED", "RUN"}
      PROVE  /\ q \in JobRecs /\ LogOK(q) /\ Told(q.log) = Told(r.log)
             /\ r.state # "SCHED" => q.state # "SCHED" /\ Found(q.log) = Found(r.log)
             /\ q.state = "RUN" => r.state \in {"SCHED", "RUN"}
             /\ e.name # "start" => (HasStart(q.log) => HasStart(r.log))
  <2>1. q.state = s /\ q.log = A(e)
    BY <1>9
  <2>2. q \in JobRecs
    BY <1>2, <1>9 DEF JobRecs
  <2>3. Told(q.log) = Told(r.log)
    BY <1>5, <1>6, <1>9, <2>1
  <2>4. CASE r.state = "SCHED"
    <3>1. DecidingIn(r.log) = {} /\ Told(r.log) = {}
      BY <2>4 DEF LogOK
    <3>2. CASE Decides(e)
      <4>1. DecidingIn(q.log) # {} /\ Found(q.log) = <<>> /\ q.state # "SCHED"
        BY <1>5, <1>9, <2>1, <3>1, <3>2
      <4>2. LogOK(q)
        BY <1>6, <2>3, <3>1, <4>1 DEF LogOK
      <4> QED BY <1>5, <1>9, <2>1, <2>2, <2>3, <2>4, <4>2
    <3>3. CASE ~Decides(e)
      <4>1. DecidingIn(q.log) = {} /\ q.state = "SCHED"
        BY <1>5, <1>9, <2>1, <2>4, <3>1, <3>3
      <4>2. LogOK(q)
        BY <2>3, <3>1, <4>1 DEF LogOK
      <4> QED BY <1>5, <1>9, <2>1, <2>2, <2>3, <2>4, <4>2
    <3> QED BY <3>2, <3>3
  <2>5. CASE r.state # "SCHED"
    <3>1. DecidingIn(r.log) # {} /\ Found(r.log) \in Seq(ValidVnis) /\ Told(r.log) = Vnis(Found(r.log))
      BY <2>5 DEF LogOK
    <3>2. DecidingIn(q.log) # {} /\ Found(q.log) = Found(r.log) /\ q.state # "SCHED"
      BY <1>5, <1>9, <2>1, <2>5, <3>1
    <3>3. LogOK(q)
      BY <2>3, <3>1, <3>2 DEF LogOK
    <3> QED BY <1>5, <1>9, <2>1, <2>2, <2>3, <3>2, <3>3
  <2> QED BY <2>4, <2>5
<1>10. ASSUME NEW s \in {"CLEANUP", "INACTIVE"}, q = [state |-> s, log |-> r.log],
              r.state # "SCHED"
       PROVE  /\ q \in JobRecs /\ LogOK(q) /\ q.state # "SCHED" /\ q.state # "RUN"
              /\ q.log = r.log
  BY <1>1, <1>10 DEF LogOK, JobRecs
<1>11. CASE ~Moves(r, q)
  <2>1. r.state = "RUN" /\ q = [state |-> "RUN", log |-> A(Event("start"))]
    BY <1>11 DEF Starts, A
  <2> QED BY <1>3, <1>4, <1>9, <1>11, <2>1
<1>12. CASE Moves(r, q)
  <2>1. CASE r.state = "SCHED" /\ \E vnis \in Seq(ValidVnis) :
                q = [state |-> "RUN", log |-> A(Reservation(vnis))]
    BY <1>8, <2>1
  <2>2. CASE /\ r.state \in {"SCHED", "RUN"}
             /\ q = [state |-> "CLEANUP", log |-> A(Event("exception"))]
    BY <1>3, <1>4, <1>9, <2>2
  <2>3. CASE /\ r.state \in {"SCHED", "RUN"}
             /\ q = [state |-> r.state, log |-> A(Event("warning"))]
    BY <1>3, <1>4, <1>9, <2>3
  <2>4. CASE \/ r.state = "RUN" /\ q = [state |-> "CLEANUP", log |-> r.log]
             \/ r.state = "CLEANUP" /\ q = [state |-> "INACTIVE", log |-> r.log]
    BY <1>10, <2>4
  <2> QED BY <1>7, <1>12, <2>1, <2>2, <2>3, <2>4 DEF Moves, A
<1> QED BY <1>11, <1>12

(* One job changes its record, the others keep theirs. *)
Changed(j, q) == job' = [job EXCEPT ![j] = q]

LEMMA ChangedOK ==
  ASSUME PluginTypeOK, NEW j \in Jobs, NEW q, Changed(j, q)
  PROVE  job'[j] = q /\ \A k \in Jobs \ {j} : job'[k] = job[k]
BY DEF Changed, PluginTypeOK

LEMMA RaiseChanges ==
  ASSUME NEW j \in Jobs, NEW p, Raise(p, j), job[j].state \in {"SCHED", "RUN"}
  PROVE  \E q : Changed(j, q) /\ Moves(job[j], q) /\ q.state = "CLEANUP"
<1> DEFINE q == [state |-> "CLEANUP", log |-> Append(job[j].log, Event("exception"))]
<1>1. Changed(j, q)
  BY DEF Raise, Post, Changed
<1>2. Moves(job[j], q) /\ q.state = "CLEANUP"
  BY DEF Moves
<1> QED BY <1>1, <1>2

LEMMA BeginChanges ==
  ASSUME NEW j \in Jobs, job[j].state = "SCHED", NEW vnis \in Seq(ValidVnis),
         Post(j, "RUN", Reservation(vnis))
  PROVE  \E q : Changed(j, q) /\ Moves(job[j], q)
<1> DEFINE q == [state |-> "RUN", log |-> Append(job[j].log, Reservation(vnis))]
<1>1. Changed(j, q)
  BY DEF Post, Changed
<1>2. Moves(job[j], q)
  BY DEF Moves
<1> QED BY <1>1, <1>2

LEMMA RunChanges ==
  ASSUME PluginTypeOK, NoneLeft, NEW j \in Jobs, NEW r \in Requests,
         job_state_run_cb(j, r)
  PROVE  /\ \E q : Changed(j, q) /\ Moves(job[j], q)
         /\ faults' = faults \/ Spend("post")
<1>1. job[j].state = "SCHED" /\ job[j].state \in {"SCHED", "RUN"} /\ <<>> \in Seq(ValidVnis)
  BY DEF job_state_run_cb
<1>2. ASSUME NEW p, Empty(j, p)
      PROVE  /\ \E q : Changed(j, q) /\ Moves(job[j], q)
             /\ faults' = faults \/ Spend("post")
  <2>1. CASE Post(j, "RUN", Reservation(<<>>)) /\ vp' = p /\ UNCHANGED faults
    BY <1>1, <2>1, BeginChanges
  <2>2. CASE Raise(p, j) /\ Spend("post")
    BY <1>1, <2>2, RaiseChanges
  <2> QED BY <1>2, <2>1, <2>2 DEF Empty
<1>3. CASE r.off \/ (r.parsed /\ VniCount(r) = 0)
  BY <1>2, <1>3 DEF job_state_run_cb
<1>4. CASE ~(r.off \/ (r.parsed /\ VniCount(r) = 0)) /\ ~r.parsed
  <2>1. Raise(vp, j) /\ faults' = faults
    BY <1>4 DEF job_state_run_cb
  <2> QED BY <1>1, <2>1, RaiseChanges
<1>5. CASE ~(r.off \/ (r.parsed /\ VniCount(r) = 0)) /\ r.parsed
  <2>1. PICK res \in vnipool_reserve(vp, j, VniCount(r)) :
          IF res.vnis = <<>>
          THEN /\ Refuse(j, res.vp)
               /\ idle' = IF res.vp.last = vp.last THEN idle ELSE NeverIdle
          ELSE /\ idle' = Idle(res.vp, Vnis(res.vnis))
               /\ \/ /\ Post(j, "RUN", Reservation(res.vnis))
                     /\ vp' = res.vp /\ UNCHANGED faults
                  \/ Raise(vnipool_release(res.vp, j), j) /\ Spend("post")
    BY <1>5 DEF job_state_run_cb
  <2>2. VniCount(r) \in Int
    BY ConfigAssumption DEF VniCount, PluginTypeOK
  <2>3. vp.jobs[j] = <<>> /\ PoolOK(vp)
    BY <1>1 DEF NoneLeft, PluginTypeOK, PoolOK
  <2>4. res.vnis \in Seq(ValidVnis)
    BY <2>2, <2>3, ReserveOK
  <2>5. CASE Refuse(j, res.vp)
    <3>1. CASE Raise(res.vp, j) /\ UNCHANGED faults
      BY <1>1, <3>1, RaiseChanges
    <3>2. CASE Empty(j, res.vp)
      BY <1>2, <3>2
    <3> QED BY <2>5, <3>1, <3>2 DEF Refuse
  <2>6. CASE Post(j, "RUN", Reservation(res.vnis)) /\ vp' = res.vp /\ UNCHANGED faults
    BY <1>1, <2>4, <2>6, BeginChanges
  <2>7. CASE Raise(vnipool_release(res.vp, j), j) /\ Spend("post")
    BY <1>1, <2>7, RaiseChanges
  <2> QED BY <2>1, <2>5, <2>6, <2>7
<1> QED BY <1>3, <1>4, <1>5

(* The plugin's steps, seen from the nodes. *)
LEMMA PluginMoves ==
  ASSUME PluginTypeOK, NoneLeft, PluginStep \/ \E j \in Jobs : Clean(j)
  PROVE  /\ PluginTypeOK' /\ NoneLeft'
         /\ \A j \in Jobs : Moves(job[j], job'[j])
<1>1. PluginNext
  BY DEF PluginStep, PluginNext
<1>2. PluginTypeOK' /\ Effect
  BY <1>1, StepOK
<1>3. NoneLeft'
  BY <1>2, NoneLeftStep
<1>4. job \in [Jobs -> JobRecs]
  BY DEF PluginTypeOK, JobRecs
<1>5. \A r : Moves(r, r)
  BY DEF Moves
<1>6. ASSUME NEW j \in Jobs, \E q : Changed(j, q) /\ Moves(job[j], q)
      PROVE  \A k \in Jobs : Moves(job[k], job'[k])
  BY <1>5, <1>6, ChangedOK
<1>7. ASSUME NEW j \in Jobs, NEW r \in Requests, job_state_run_cb(j, r)
      PROVE  \A k \in Jobs : Moves(job[k], job'[k])
  BY <1>6, <1>7, RunChanges
<1>8. ASSUME NEW j \in Jobs, FatalException(j)
      PROVE  \A k \in Jobs : Moves(job[k], job'[k])
  <2>1. job[j].state \in {"SCHED", "RUN"} /\ Raise(vp, j)
    BY <1>8 DEF FatalException
  <2>2. \E q : Changed(j, q) /\ Moves(job[j], q)
    BY <2>1, RaiseChanges
  <2> QED BY <1>6, <2>2
<1>9. ASSUME NEW j \in Jobs, Warning(j)
      PROVE  \A k \in Jobs : Moves(job[k], job'[k])
  <2> DEFINE q == [state |-> job[j].state, log |-> Append(job[j].log, Event("warning"))]
  <2>1. job[j].state \in {"SCHED", "RUN"} /\ Changed(j, q)
    BY <1>9 DEF Warning, Post, Changed
  <2>2. Moves(job[j], q)
    BY <2>1 DEF Moves
  <2> QED BY <1>6, <2>1, <2>2
<1>10. ASSUME NEW j \in Jobs, Finish(j) \/ Clean(j)
       PROVE  \A k \in Jobs : Moves(job[k], job'[k])
  <2>1. PICK s \in {"CLEANUP", "INACTIVE"} :
          /\ job' = [job EXCEPT ![j].state = s]
          /\ s = "CLEANUP" => job[j].state = "RUN"
          /\ s = "INACTIVE" => job[j].state = "CLEANUP"
    BY <1>10 DEF Finish, Clean
  <2> DEFINE q == [state |-> s, log |-> job[j].log]
  <2>2. [job[j] EXCEPT !.state = s] = q
    BY <1>4 DEF JobRecs
  <2>3. job' = [job EXCEPT ![j] = [job[j] EXCEPT !.state = s]]
    BY <2>1
  <2>4. Changed(j, q)
    BY <2>2, <2>3 DEF Changed
  <2>5. Moves(job[j], q)
    BY <2>1 DEF Moves
  <2> QED BY <1>6, <2>4, <2>5
<1>11. ASSUME flux_plugin_init \/ \E c \in Configs : conf_update_cb(c)
       PROVE  \A k \in Jobs : Moves(job[k], job'[k])
  <2>1. job' = job
    BY <1>11 DEF conf_update_cb, flux_plugin_init
  <2> QED BY <1>5, <2>1
<1> QED BY <1>2, <1>3, <1>7, <1>8, <1>9, <1>10, <1>11 DEF PluginStep

(* Tasks start. *)
LEMMA StartMoves ==
  ASSUME PluginTypeOK, NoneLeft, NEW j \in Jobs, Start(j)
  PROVE  /\ PluginTypeOK' /\ NoneLeft' /\ faults' = faults
         /\ Starts(job[j], job'[j]) /\ \A k \in Jobs \ {j} : job'[k] = job[k]
<1>1. PluginNext
  BY DEF PluginNext
<1>2. PluginTypeOK' /\ Effect
  BY <1>1, StepOK
<1>3. NoneLeft'
  BY <1>2, NoneLeftStep
<1> DEFINE q == [state |-> "RUN", log |-> Append(job[j].log, Event("start"))]
<1>4. Changed(j, q) /\ job[j].state = "RUN" /\ faults' = faults
  BY DEF Start, Post, Changed
<1> QED BY <1>2, <1>3, <1>4, ChangedOK DEF Starts

(* A prolog fails the job. *)
LEMMA FailMoves ==
  ASSUME PluginTypeOK, NoneLeft, NEW j \in Jobs, job[j].state = "RUN",
         NEW kind \in FaultKinds, Spend(kind), Raise(vp, j), idle' = Idle(vp', {}), ctx' = ctx
  PROVE  /\ PluginTypeOK' /\ NoneLeft'
         /\ Moves(job[j], job'[j]) /\ job'[j].state = "CLEANUP"
         /\ \A k \in Jobs \ {j} : job'[k] = job[k]
<1>1. faults \in [FaultKinds -> Nat] /\ PoolOK(vp)
  BY DEF PluginTypeOK, PoolOK
<1>2. Ends(j) /\ PoolOK(vp') /\ job' \in [Jobs -> JobRecs]
  BY <1>1, RaiseOK
<1>3. faults' \in [FaultKinds -> Nat]
  BY <1>1, SpendOK
<1>4. idle' \in [ValidVnis -> SUBSET ValidVnis]
  BY <1>2, IdleOK
<1>5. PluginTypeOK'
  BY <1>2, <1>3, <1>4 DEF PluginTypeOK, PoolOK, JobRecs
<1>6. NoneLeft'
  BY <1>2, NoneLeftStep DEF Effect
<1>7. \E q : Changed(j, q) /\ Moves(job[j], q) /\ q.state = "CLEANUP"
  BY RaiseChanges
<1> QED BY <1>5, <1>6, <1>7, ChangedOK

---------------------------------------------------------------------------
(* The services of a device *)

(* Every service of t was in s. *)
Within(t, s) == \A i \in DOMAIN t : \E k \in DOMAIN s : t[i] = s[k]

(* The places of the services of job j, and of those that are not the only one. *)
Mine(s, j) == {i \in DOMAIN s : s[i].job = j}
Extra(s, j) == {i \in Mine(s, j) : \E k \in Mine(s, j) : k # i}

LEMMA RemoveOK ==
  ASSUME NEW s \in Seq(Services), NEW i \in DOMAIN s, NEW t, t = RemoveAt(s, i)
  PROVE  /\ t \in Seq(Services) /\ Within(t, s)
         /\ \A j \in Jobs : Extra(s, j) = {} => Extra(t, j) = {}
         /\ \A j \in Jobs : Mine(s, j) # {} /\ Mine(t, j) = {} => s[i].job = j
         /\ \A j \in Jobs : s[i].job = j /\ Extra(s, j) = {} => Mine(t, j) = {}
<1> DEFINE L == Len(s)
           f(k) == IF k < i THEN k ELSE k + 1
<1>1. i \in 1 .. L /\ L \in Nat /\ DOMAIN s = 1 .. L
  OBVIOUS
<1>2. t = SubSeq(s, 1, i - 1) \o SubSeq(s, i + 1, L)
  BY DEF RemoveAt
<1>3. /\ t \in Seq(Services) /\ Len(t) = L - 1
      /\ \A k \in 1 .. L - 1 : t[k] = s[f(k)]
  <2> DEFINE u == SubSeq(s, 1, i - 1)
             v == SubSeq(s, i + 1, L)
  <2>1. u \in Seq(Services) /\ Len(u) = i - 1 /\ \A k \in 1 .. i - 1 : u[k] = s[k]
    BY <1>1
  <2>2. v \in Seq(Services) /\ Len(v) = L - i /\ \A k \in 1 .. L - i : v[k] = s[i + k]
    BY <1>1
  <2> HIDE DEF u, v
  <2>3. t = u \o v
    BY <1>2 DEF u, v
  <2>4. /\ t \in Seq(Services) /\ Len(t) = (i - 1) + (L - i)
        /\ \A k \in 1 .. (i - 1) + (L - i) : t[k] = IF k <= i - 1 THEN u[k] ELSE v[k - (i - 1)]
    <3>1. /\ u \o v \in Seq(Services) /\ Len(u \o v) = Len(u) + Len(v)
          /\ \A k \in 1 .. Len(u) + Len(v) :
               (u \o v)[k] = IF k <= Len(u) THEN u[k] ELSE v[k - Len(u)]
      BY <2>1, <2>2, ConcatProperties
    <3> QED BY <2>1, <2>2, <2>3, <3>1
  <2>5. ASSUME NEW k \in 1 .. L - 1 PROVE t[k] = s[f(k)]
    <3>1. CASE k < i
      BY <1>1, <2>1, <2>4, <3>1
    <3>2. CASE ~(k < i)
      <4>1. k - (i - 1) \in 1 .. L - i /\ i + (k - (i - 1)) = k + 1
        BY <1>1, <3>2
      <4>2. t[k] = v[k - (i - 1)]
        BY <1>1, <2>4, <3>2
      <4> QED BY <2>2, <3>2, <4>1, <4>2
    <3> QED BY <3>1, <3>2
  <2> QED BY <1>1, <2>4, <2>5
<1>4. \A k \in 1 .. L - 1 : t[k] = s[f(k)]
  BY <1>3
<1>5. DOMAIN t = 1 .. L - 1
  BY <1>3
<1>6. \A k \in 1 .. L - 1 : f(k) \in 1 .. L /\ f(k) # i
  BY <1>1
<1>7. \A k, l \in 1 .. L - 1 : k # l => f(k) # f(l)
  BY <1>1
<1>8. \A x \in 1 .. L : x # i => \E k \in 1 .. L - 1 : f(k) = x
  <2> SUFFICES ASSUME NEW x \in 1 .. L, x # i PROVE \E k \in 1 .. L - 1 : f(k) = x
    OBVIOUS
  <2>1. CASE x < i
    BY <1>1, <2>1
  <2>2. CASE x > i
    <3>1. x - 1 \in 1 .. L - 1 /\ f(x - 1) = x
      BY <1>1, <2>2
    <3> QED BY <3>1
  <2> QED BY <1>1, <2>1, <2>2
<1> HIDE DEF L, f
<1>9. Within(t, s)
  BY <1>1, <1>4, <1>5, <1>6 DEF Within
<1>10. ASSUME NEW j \in Jobs PROVE \A k : k \in Mine(t, j) <=> k \in 1 .. L - 1 /\ f(k) \in Mine(s, j)
  BY <1>1, <1>4, <1>5, <1>6 DEF Mine
<1>11. ASSUME NEW j \in Jobs, Extra(s, j) = {} PROVE Extra(t, j) = {}
  BY <1>7, <1>10, <1>11 DEF Extra
<1>12. ASSUME NEW j \in Jobs, Mine(s, j) # {}, Mine(t, j) = {} PROVE s[i].job = j
  <2>1. PICK x \in Mine(s, j) : TRUE
    BY <1>12
  <2>2. x \in 1 .. L /\ s[x].job = j
    BY <1>1 DEF Mine
  <2>3. x = i
    BY <1>8, <1>10, <1>12, <2>1, <2>2
  <2> QED BY <2>2, <2>3
<1>13. ASSUME NEW j \in Jobs, s[i].job = j, Extra(s, j) = {} PROVE Mine(t, j) = {}
  <2>1. i \in Mine(s, j)
    BY <1>13 DEF Mine
  <2>2. \A k \in Mine(t, j) : f(k) \in Mine(s, j) /\ f(k) # i
    BY <1>6, <1>10
  <2> QED BY <1>13, <2>1, <2>2 DEF Extra
<1> QED BY <1>3, <1>9, <1>11, <1>12, <1>13

LEMMA AppendOK ==
  ASSUME NEW s \in Seq(Services), NEW e \in Services, NEW t, t = Append(s, e)
  PROVE  /\ t \in Seq(Services)
         /\ \A i \in DOMAIN t : t[i] = e \/ \E k \in DOMAIN s : t[i] = s[k]
         /\ Len(t) = Len(s) + 1 /\ t[Len(s) + 1] = e /\ \A i \in 1 .. Len(s) : t[i] = s[i]
<1> DEFINE L == Len(s)
<1>1. /\ L \in Nat /\ DOMAIN s = 1 .. L /\ DOMAIN t = 1 .. L + 1 /\ t \in Seq(Services)
      /\ t[L + 1] = e /\ Len(t) = L + 1 /\ \A i \in 1 .. L : t[i] = s[i]
  OBVIOUS
<1> HIDE DEF L
<1>2. \A i \in 1 .. L + 1 : i \in 1 .. L \/ i = L + 1
  BY <1>1
<1>3. \A i \in DOMAIN t : t[i] = e \/ \E k \in DOMAIN s : t[i] = s[k]
  BY <1>1, <1>2
<1> QED BY <1>1, <1>3 DEF L

(* The service that was appended is found where it was put. *)
LEMMA AppendedMine ==
  ASSUME NEW s \in Seq(Services), NEW t \in Seq(Services), Len(t) = Len(s) + 1,
         \A i \in 1 .. Len(s) : t[i] = s[i], NEW j \in Jobs
  PROVE  /\ t[Len(s) + 1].job # j => Mine(t, j) = Mine(s, j) /\ Extra(t, j) = Extra(s, j)
         /\ t[Len(s) + 1].job = j =>
              Mine(t, j) # {} /\ (Mine(s, j) = {} => Extra(t, j) = {})
<1> DEFINE L == Len(s)
<1>1. L \in Nat /\ DOMAIN s = 1 .. L /\ DOMAIN t = 1 .. L + 1
  OBVIOUS
<1> HIDE DEF L
<1>2. \A i \in 1 .. L + 1 : i \in 1 .. L \/ i = L + 1
  BY <1>1
<1>3. L + 1 \in 1 .. L + 1 /\ L + 1 \notin 1 .. L /\ 1 .. L \subseteq 1 .. L + 1
  BY <1>1
<1>4. \A i \in 1 .. L : t[i] = s[i]
  BY DEF L
<1>5. ASSUME t[L + 1].job # j PROVE Mine(t, j) = Mine(s, j) /\ Extra(t, j) = Extra(s, j)
  <2>1. Mine(t, j) = Mine(s, j)
    BY <1>1, <1>2, <1>3, <1>4, <1>5 DEF Mine
  <2> QED BY <2>1 DEF Extra
<1>6. ASSUME t[L + 1].job = j PROVE Mine(t, j) # {} /\ (Mine(s, j) = {} => Extra(t, j) = {})
  <2>1. L + 1 \in Mine(t, j)
    BY <1>1, <1>3, <1>6 DEF Mine
  <2>2. Mine(s, j) = {} => \A a \in Mine(t, j) : a = L + 1
    BY <1>1, <1>2, <1>4 DEF Mine
  <2> QED BY <2>1, <2>2 DEF Extra
<1> QED BY <1>5, <1>6 DEF L

(* The loop of destroy_all() and what it has left after each service. *)
Spares(s, busy, v, i) ==
  IF match_vnipool(s[i]) /\ s[i].job \notin busy THEN v ELSE Append(v, s[i])

Left(s, busy) ==
  CHOOSE f : f = [i \in 0 .. Len(s) |->
                    IF i = 0 THEN <<>>
                    ELSE IF match_vnipool(s[i]) /\ s[i].job \notin busy THEN f[i - 1]
                    ELSE Append(f[i - 1], s[i])]

LEMMA LeftSteps ==
  ASSUME NEW s \in Seq(Services), NEW busy
  PROVE  /\ Left(s, busy)[0] = <<>>
         /\ \A i \in 1 .. Len(s) :
              Left(s, busy)[i] = Spares(s, busy, Left(s, busy)[i - 1], i)
         /\ destroy_all(s, busy) = Left(s, busy)[Len(s)]
<1> DEFINE Op(v, i) == Spares(s, busy, v, i)
           Is(f, n) == f = [i \in 0 .. n |-> IF i = 0 THEN <<>> ELSE Op(f[i - 1], i)]
           N == Len(s)
           T == {n \in 0 .. N : \E f : Is(f, n)}
<1>1. N \in Nat
  OBVIOUS
<1>2. 0 \in T
  <2>1. Is([i \in 0 .. 0 |-> <<>>], 0)
    BY DEF Is
  <2> HIDE DEF Is
  <2>2. \E f : Is(f, 0)
    BY <2>1, Zenon
  <2> QED BY <1>1, <2>2
<1>3. ASSUME NEW n \in 0 .. N, n \in T, n < N PROVE n + 1 \in T
  <2>1. PICK f : Is(f, n)
    BY <1>3
  <2> HIDE DEF Op
  <2> DEFINE g == [i \in 0 .. n + 1 |-> IF i = n + 1 THEN Op(f[n], n + 1) ELSE f[i]]
  <2>2. \A i \in 0 .. n : f[i] = IF i = 0 THEN <<>> ELSE Op(f[i - 1], i)
    BY <2>1
  <2>3. \A i \in 0 .. n + 1 : g[i] = IF i = 0 THEN <<>> ELSE Op(g[i - 1], i)
    <3> SUFFICES ASSUME NEW i \in 0 .. n + 1
                 PROVE  g[i] = IF i = 0 THEN <<>> ELSE Op(g[i - 1], i)
      OBVIOUS
    <3>1. CASE i = n + 1
      BY <1>1, <3>1
    <3>2. CASE i # n + 1 /\ i # 0
      <4>1. i \in 0 .. n /\ i - 1 \in 0 .. n + 1 /\ i - 1 # n + 1
        BY <1>1, <3>2
      <4>2. g[i] = f[i] /\ g[i - 1] = f[i - 1]
        BY <1>1, <3>2, <4>1
      <4> QED BY <2>2, <3>2, <4>1, <4>2
    <3>3. CASE i = 0
      BY <1>1, <2>2, <3>3
    <3> QED BY <3>1, <3>2, <3>3
  <2>4. Is(g, n + 1)
    <3>1. g = [i \in 0 .. n + 1 |-> g[i]]
      OBVIOUS
    <3> HIDE DEF g
    <3> QED BY <2>3, <3>1
  <2>5. n + 1 \in 0 .. N
    BY <1>1, <1>3
  <2> QED BY <2>4, <2>5
<1>4. \E f : Is(f, N)
  <2> HIDE DEF T
  <2>1. 0 .. N \subseteq T
    BY <1>1, <1>2, <1>3, E!UpTo
  <2> QED BY <1>1, <2>1 DEF T
<1>5. Is(Left(s, busy), N)
  <2>1. Left(s, busy) = CHOOSE f : Is(f, N)
    BY DEF Left, Spares
  <2> HIDE DEF Is
  <2> QED BY <1>4, <2>1
<1>6. destroy_all(s, busy) = Left(s, busy)[N]
  BY DEF destroy_all, Left
<1> HIDE DEF Op
<1>7. \A i \in 0 .. N : Left(s, busy)[i] = IF i = 0 THEN <<>> ELSE Op(Left(s, busy)[i - 1], i)
  BY <1>5
<1> QED BY <1>1, <1>6, <1>7 DEF Op

(* flux slingshot clean makes nothing up. *)
LEMMA DestroyAllOK ==
  ASSUME NEW s \in Seq(Services), NEW busy
  PROVE  destroy_all(s, busy) \in Seq(Services) /\ Within(destroy_all(s, busy), s)
<1> DEFINE L(i) == Left(s, busy)[i]
           T == {i \in 0 .. Len(s) : L(i) \in Seq(Services) /\ Within(L(i), s)}
<1>1. Len(s) \in Nat /\ DOMAIN s = 1 .. Len(s)
  OBVIOUS
<1>2. 0 \in T
  <2>1. L(0) = <<>>
    BY LeftSteps
  <2>2. Within(<<>>, s) /\ <<>> \in Seq(Services)
    BY DEF Within
  <2> HIDE DEF L
  <2>3. 0 \in 0 .. Len(s)
    BY <1>1
  <2> QED BY <2>1, <2>2, <2>3
<1>3. ASSUME NEW i \in 0 .. Len(s), i \in T, i < Len(s) PROVE i + 1 \in T
  <2>1. i + 1 \in 1 .. Len(s) /\ i + 1 \in 0 .. Len(s) /\ (i + 1) - 1 = i
    BY <1>1, <1>3
  <2>2. L(i + 1) = Spares(s, busy, L(i), i + 1)
    BY <2>1, LeftSteps
  <2>3. L(i) \in Seq(Services) /\ Within(L(i), s) /\ s[i + 1] \in Services
    BY <1>1, <1>3, <2>1
  <2>4. CASE L(i + 1) = L(i)
    BY <2>1, <2>3, <2>4
  <2>5. CASE L(i + 1) = Append(L(i), s[i + 1])
    <3> HIDE DEF L
    <3>1. L(i + 1) \in Seq(Services)
      BY <2>3, <2>5
    <3>2. ASSUME NEW k \in DOMAIN L(i + 1) PROVE \E m \in DOMAIN s : L(i + 1)[k] = s[m]
      <4>1. L(i + 1)[k] = s[i + 1] \/ \E m \in DOMAIN L(i) : L(i + 1)[k] = L(i)[m]
        BY <2>3, <2>5, AppendOK
      <4> QED BY <1>1, <2>1, <2>3, <4>1 DEF Within
    <3> QED BY <2>1, <3>1, <3>2 DEF Within
  <2> QED BY <2>2, <2>4, <2>5 DEF Spares
<1>4. Len(s) \in T
  <2> HIDE DEF T
  <2>1. 0 .. Len(s) \subseteq T
    BY <1>1, <1>2, <1>3, E!UpTo
  <2> QED BY <1>1, <2>1
<1> QED BY <1>4, LeftSteps

(* Nor does it double what there was once. *)
LEMMA DestroyAllOnce ==
  ASSUME NEW s \in Seq(Services), NEW busy, NEW j \in Jobs, Extra(s, j) = {}
  PROVE  Extra(destroy_all(s, busy), j) = {}
<1> DEFINE L(i) == Left(s, busy)[i]
           Early(i) == \A a \in DOMAIN L(i) : \E m \in 1 .. i : L(i)[a] = s[m]
           T == {i \in 0 .. Len(s) : L(i) \in Seq(Services) /\ Early(i) /\ Extra(L(i), j) = {}}
<1>1. Len(s) \in Nat /\ DOMAIN s = 1 .. Len(s)
  OBVIOUS
<1>2. 0 \in T
  <2>1. L(0) = <<>>
    BY LeftSteps
  <2>2. Extra(<<>>, j) = {} /\ <<>> \in Seq(Services)
    BY DEF Extra, Mine
  <2> HIDE DEF L
  <2>3. 0 \in 0 .. Len(s)
    BY <1>1
  <2>4. Early(0)
    BY <2>1
  <2> HIDE DEF Early
  <2> QED BY <2>1, <2>2, <2>3, <2>4
<1>3. ASSUME NEW i \in 0 .. Len(s), i \in T, i < Len(s) PROVE i + 1 \in T
  <2>1. i + 1 \in 1 .. Len(s) /\ i + 1 \in 0 .. Len(s) /\ (i + 1) - 1 = i
    BY <1>1, <1>3
  <2>2. L(i + 1) = Spares(s, busy, L(i), i + 1)
    BY <2>1, LeftSteps
  <2>3. L(i) \in Seq(Services) /\ Early(i) /\ Extra(L(i), j) = {} /\ s[i + 1] \in Services
    BY <1>1, <1>3, <2>1
  <2>4. 1 .. i \subseteq 1 .. i + 1 /\ i + 1 \in 1 .. i + 1 /\ 1 .. i \subseteq 1 .. Len(s)
        /\ i + 1 \notin 1 .. i
    BY <1>1, <1>3
  <2>5. CASE L(i + 1) = L(i)
    BY <2>1, <2>3, <2>4, <2>5
  <2>6. CASE L(i + 1) = Append(L(i), s[i + 1])
    <3> DEFINE u == L(i)
               t == L(i + 1)
    <3>1. t = Append(u, s[i + 1]) /\ u \in Seq(Services)
      BY <2>3, <2>6
    <3>2. \A a \in DOMAIN u : \E m \in 1 .. i : u[a] = s[m]
      BY <2>3
    <3>3. Extra(u, j) = {}
      BY <2>3
    <3> HIDE DEF u, t
    <3>4. /\ t \in Seq(Services) /\ Len(t) = Len(u) + 1 /\ t[Len(u) + 1] = s[i + 1]
          /\ \A a \in 1 .. Len(u) : t[a] = u[a]
          /\ \A a \in DOMAIN t : t[a] = s[i + 1] \/ \E k \in DOMAIN u : t[a] = u[k]
      BY <2>3, <3>1, AppendOK
    <3>5. \A a \in DOMAIN t : \E m \in 1 .. i + 1 : t[a] = s[m]
      BY <2>4, <3>2, <3>4
    <3>6. /\ s[i + 1].job # j => Extra(t, j) = Extra(u, j)
          /\ s[i + 1].job = j => (Mine(u, j) = {} => Extra(t, j) = {})
      <4> DEFINE l == t[Len(u) + 1]
      <4>1. /\ l.job # j => Mine(t, j) = Mine(u, j) /\ Extra(t, j) = Extra(u, j)
            /\ l.job = j => Mine(t, j) # {} /\ (Mine(u, j) = {} => Extra(t, j) = {})
        <5>1. u \in Seq(Services) /\ t \in Seq(Services) /\ Len(t) = Len(u) + 1
              /\ \A a \in 1 .. Len(u) : t[a] = u[a]
          BY <3>1, <3>4
        <5> QED BY ONLY <5>1, j \in Jobs, AppendedMine
      <4>2. l = s[i + 1]
        BY <3>4
      <4> HIDE DEF l
      <4> QED BY <4>1, <4>2
    <3>7. ASSUME s[i + 1].job = j, NEW a \in Mine(u, j) PROVE FALSE
      <4>1. PICK m \in 1 .. i : u[a] = s[m]
        BY <3>2 DEF Mine
      <4>2. m \in Mine(s, j) /\ i + 1 \in Mine(s, j) /\ m # i + 1
        BY <1>1, <2>1, <2>4, <3>7, <4>1 DEF Mine
      <4> QED BY <4>2 DEF Extra
    <3>8. Extra(t, j) = {}
      BY <3>3, <3>6, <3>7
    <3> QED BY <2>1, <3>4, <3>5, <3>8 DEF t
  <2> QED BY <2>2, <2>5, <2>6 DEF Spares
<1>4. Len(s) \in T
  <2> HIDE DEF T
  <2>1. 0 .. Len(s) \subseteq T
    BY <1>1, <1>2, <1>3, E!UpTo
  <2> QED BY <1>1, <2>1
<1> QED BY <1>4, LeftSteps

---------------------------------------------------------------------------
(* Scripts and services while the jobs go on *)

LEMMA HasMine ==
  ASSUME NEW j \in Jobs, NEW d \in Devices
  PROVE  /\ HasService(j, d) <=> Mine(svc[d], j) # {}
         /\ d \in Placed(j) <=> Mine(svc[d], j) # {}
         /\ d \in Twice(j) <=> Extra(svc[d], j) # {}
BY DEF HasService, Placed, Twice, Mine, Extra

LEMMA HasMineNext ==
  ASSUME NEW j \in Jobs, NEW d \in Devices
  PROVE  /\ HasService(j, d)' <=> Mine(svc'[d], j) # {}
         /\ d \in Placed(j)' <=> Mine(svc'[d], j) # {}
         /\ d \in Twice(j)' <=> Extra(svc'[d], j) # {}
BY DEF HasService, Placed, Twice, Mine, Extra

LEMMA ScriptMoves ==
  ASSUME NEW r \in JobRecs, LogOK(r), NEW n, NEW p, NEW t, ScriptOK(n, r, p, t),
         NEW q, Moves(r, q) \/ (Starts(r, q) /\ n.stage = "ready")
  PROVE  ScriptOK(n, q, p, t)
<1>1. /\ r.state # "SCHED" => q.state # "SCHED" /\ Found(q.log) = Found(r.log)
      /\ q.state = "RUN" => r.state \in {"SCHED", "RUN"}
      /\ Moves(r, q) => (HasStart(q.log) => HasStart(r.log))
  BY MovesOK
<1>2. n.stage \in {"none", "prolog"} => ~HasStart(q.log)
  BY <1>1 DEF ScriptOK
<1>3. n.stage # "none" => r.state # "SCHED"
  BY DEF ScriptOK
<1>4. q.state = "RUN" => n.stage \in {"none", "prolog", "ready"}
  BY <1>1, <1>3 DEF ScriptOK
<1>5. q.state = "RUN" /\ n.stage # "none" => r.state = "RUN" /\ Found(q.log) = Found(r.log)
  BY <1>1, <1>3
<1>6. n.stage = "prolog" => Found(q.log) = Found(r.log)
  BY <1>1, <1>3
<1> QED BY <1>1, <1>2, <1>3, <1>4, <1>5, <1>6 DEF ScriptOK

(* What remains to be shown of a step once its scripts and services are. *)
LEMMA Keeps ==
  ASSUME PluginTypeOK, NodeInv, NoReuseBeforeDestruction', NodeTypes', EnvOwn',
         \A j \in Jobs : Moves(job[j], job'[j]) \/ Starts(job[j], job'[j]),
         \A d \in Devices : \A i \in DOMAIN svc'[d] :
           ServiceOK(svc'[d][i], job[svc'[d][i].job]),
         \A j \in Jobs : ScriptOK(node'[j], job'[j], Placed(j)', Twice(j)'),
         \A j \in Jobs : Undestroyed(j)' => Undestroyed(j)
  PROVE  NodeInv'
<1>1. \A j \in Jobs : job[j] \in JobRecs /\ LogOK(job[j])
  BY DEF PluginTypeOK, JobRecs, NodeInv
<1>2. \A j \in Jobs :
        /\ LogOK(job'[j])
        /\ job[j].state # "SCHED" => job'[j].state # "SCHED" /\ Found(job'[j].log) = Found(job[j].log)
        /\ Told(job'[j].log) # Told(job[j].log) => job'[j].state = "RUN"
  BY <1>1, MovesOK
<1>3. \A d \in Devices : \A i \in DOMAIN svc'[d] : svc'[d][i].job \in Jobs
  <2> SUFFICES ASSUME NEW d \in Devices, NEW i \in DOMAIN svc'[d] PROVE svc'[d][i].job \in Jobs
    OBVIOUS
  <2>1. svc'[d] \in Seq(Services)
    BY DEF NodeTypes
  <2>2. svc'[d][i] \in Services
    BY <2>1
  <2> QED BY <2>2 DEF Services
<1>4. ASSUME NEW d \in Devices, NEW i \in DOMAIN svc'[d]
      PROVE  ServiceOK(svc'[d][i], job'[svc'[d][i].job])
  <2>1. ServiceOK(svc'[d][i], job[svc'[d][i].job]) /\ svc'[d][i].job \in Jobs
    BY <1>3
  <2> QED BY <1>2, <2>1 DEF ServiceOK
<1>5. ASSUME NEW j \in Jobs, NEW k \in Jobs, j # k, Undestroyed(j)', Undestroyed(k)'
      PROVE  Told(job'[j].log) \cap Told(job'[k].log) = {}
  <2>1. Reserved(j)' = Told(job'[j].log) /\ Reserved(k)' = Told(job'[k].log)
    BY DEF Reserved, Told
  <2>2. CASE job'[j].state = "RUN"
    BY <1>5, <2>1, <2>2 DEF NoReuseBeforeDestruction
  <2>3. CASE job'[k].state = "RUN"
    <3>1. Reserved(k)' \cap Reserved(j)' = {}
      BY <1>5, <2>3 DEF NoReuseBeforeDestruction
    <3> QED BY <2>1, <3>1
  <2>4. CASE job'[j].state # "RUN" /\ job'[k].state # "RUN"
    <3>1. Told(job'[j].log) = Told(job[j].log) /\ Told(job'[k].log) = Told(job[k].log)
      BY <1>2, <2>4
    <3>2. Told(job[j].log) \cap Told(job[k].log) = {}
      BY <1>5 DEF NodeInv
    <3> QED BY <3>1, <3>2
  <2> QED BY <2>2, <2>3, <2>4
<1>6. (\A j, k \in Jobs : j # k /\ Undestroyed(j) /\ Undestroyed(k) =>
         Told(job[j].log) \cap Told(job[k].log) = {})'
  BY <1>5
<1>7. (\A d \in Devices : \A i \in DOMAIN svc[d] : ServiceOK(svc[d][i], job[svc[d][i].job]))'
  BY <1>4 DEF ServiceOK
<1>8. (\A j \in Jobs : LogOK(job[j]))'
  BY <1>2 DEF LogOK
<1>9. (\A j \in Jobs : ScriptOK(node[j], job[j], Placed(j), Twice(j)))'
  BY DEF ScriptOK
<1> QED BY <1>6, <1>7, <1>8, <1>9 DEF NodeInv

(* A service with the VNIs of a job whose services may be there is its own. *)
LEMMA OwnMatch ==
  ASSUME NodeInv, NEW j \in Jobs, Undestroyed(j), job[j].state # "SCHED",
         NEW d \in Devices, NEW i \in DOMAIN svc[d],
         svc[d][i].vnis = lookup_reservation(j)
  PROVE  svc[d][i].job = j
<1> DEFINE k == svc[d][i].job
           v == svc[d][i].vnis
<1>1. k \in Jobs /\ v \in Seq(ValidVnis)
  <2>1. svc[d] \in Seq(Services)
    BY DEF NodeInv, NodeTypes
  <2>2. svc[d][i] \in Services
    BY <2>1
  <2> QED BY <2>2 DEF Services
<1>2. job[k].state # "SCHED" /\ v = Found(job[k].log) /\ v # <<>>
  BY <1>1 DEF NodeInv, ServiceOK
<1>3. v = Found(job[j].log)
  BY DEF lookup_reservation, Deciding, Found, DecidingIn
<1>4. Undestroyed(k)
  BY DEF Undestroyed, HasService
<1> HIDE DEF k, v
<1>5. Told(job[j].log) = Vnis(v) /\ Told(job[k].log) = Vnis(v)
  BY <1>1, <1>2, <1>3 DEF NodeInv, LogOK
<1>6. Vnis(v) # {}
  <2>1. 1 \in DOMAIN v
    BY <1>1, <1>2
  <2>2. v[1] \in Vnis(v)
    BY <2>1 DEF Vnis
  <2> QED BY <2>2
<1>7. k = j
  BY <1>1, <1>4, <1>5, <1>6 DEF NodeInv
<1> QED BY <1>7 DEF k

(* A job's own service is found with its reservation. *)
LEMMA OwnFound ==
  ASSUME NodeInv, NEW j \in Jobs, NEW d \in Devices
  PROVE  /\ \A i \in Mine(svc[d], j) : i \in Matches(j, d)
         /\ d \in Placed(j) => d \in Visit(j)
<1>1. lookup_reservation(j) = Found(job[j].log)
  BY DEF lookup_reservation, Deciding, Found, DecidingIn
<1>2. ASSUME NEW i \in Mine(svc[d], j)
      PROVE  i \in Matches(j, d) /\ lookup_reservation(j) # <<>>
  <2>1. i \in DOMAIN svc[d] /\ svc[d][i].job = j
    BY DEF Mine
  <2>2. ServiceOK(svc[d][i], job[j])
    BY <2>1 DEF NodeInv
  <2> QED BY <1>1, <2>1, <2>2 DEF ServiceOK, Matches, match_reservation
<1> QED BY <1>2, HasMine DEF Visit

---------------------------------------------------------------------------
(* Steps that leave the services alone *)

Script(a, t, b, f, s, e) ==
  [stage |-> a, todo |-> t, busy |-> b, failed |-> f, skipped |-> s, env |-> e]

(* What an assignment to some fields of a script makes of it. *)
LEMMA ScriptFields ==
  ASSUME NEW n \in Scripts
  PROVE  n = Script(n.stage, n.todo, n.busy, n.failed, n.skipped, n.env)
BY DEF Scripts, Script

LEMMA SetStage ==
  ASSUME node \in [Jobs -> Scripts], NEW j \in Jobs, NEW a,
         node' = [node EXCEPT ![j].stage = a]
  PROVE  node' = [node EXCEPT ![j] =
           Script(a, node[j].todo, node[j].busy, node[j].failed, node[j].skipped, node[j].env)]
<1> DEFINE n == node[j]
           m1 == [n EXCEPT !.stage = a]
<1>1. n = Script(n.stage, n.todo, n.busy, n.failed, n.skipped, n.env)
  BY ScriptFields
<1>2. node' = [node EXCEPT ![j] = m1]
  OBVIOUS
<1> HIDE DEF n
<1>3. m1 = Script(a, n.todo, n.busy, n.failed, n.skipped, n.env)
  BY <1>1 DEF Script
<1> HIDE DEF m1
<1> QED BY <1>2, <1>3 DEF n

LEMMA SetTodo ==
  ASSUME node \in [Jobs -> Scripts], NEW j \in Jobs, NEW t,
         node' = [node EXCEPT ![j].todo = t]
  PROVE  node' = [node EXCEPT ![j] =
           Script(node[j].stage, t, node[j].busy, node[j].failed, node[j].skipped, node[j].env)]
<1> DEFINE n == node[j]
           m1 == [n EXCEPT !.todo = t]
<1>1. n = Script(n.stage, n.todo, n.busy, n.failed, n.skipped, n.env)
  BY ScriptFields
<1>2. node' = [node EXCEPT ![j] = m1]
  OBVIOUS
<1> HIDE DEF n
<1>3. m1 = Script(n.stage, t, n.busy, n.failed, n.skipped, n.env)
  BY <1>1 DEF Script
<1> HIDE DEF m1
<1> QED BY <1>2, <1>3 DEF n

LEMMA SetStageTodo ==
  ASSUME node \in [Jobs -> Scripts], NEW j \in Jobs, NEW a, NEW t,
         node' = [node EXCEPT ![j].stage = a, ![j].todo = t]
  PROVE  node' = [node EXCEPT ![j] =
           Script(a, t, node[j].busy, node[j].failed, node[j].skipped, node[j].env)]
<1> DEFINE n == node[j]
           m1 == [n EXCEPT !.stage = a]
           m2 == [m1 EXCEPT !.todo = t]
<1>1. n = Script(n.stage, n.todo, n.busy, n.failed, n.skipped, n.env)
  BY ScriptFields
<1>2. node' = [node EXCEPT ![j] = m2]
  OBVIOUS
<1> HIDE DEF n
<1>3. m1 = Script(a, n.todo, n.busy, n.failed, n.skipped, n.env)
  BY <1>1 DEF Script
<1> HIDE DEF m1
<1>4. m2 = Script(a, t, n.busy, n.failed, n.skipped, n.env)
  BY <1>3 DEF Script
<1> HIDE DEF m2
<1> QED BY <1>2, <1>4 DEF n

LEMMA SetStageTodoFailed ==
  ASSUME node \in [Jobs -> Scripts], NEW j \in Jobs, NEW a, NEW t, NEW f,
         node' = [node EXCEPT ![j].stage = a, ![j].todo = t, ![j].failed = f]
  PROVE  node' = [node EXCEPT ![j] =
           Script(a, t, node[j].busy, f, node[j].skipped, node[j].env)]
<1> DEFINE n == node[j]
           m1 == [n EXCEPT !.stage = a]
           m2 == [m1 EXCEPT !.todo = t]
           m3 == [m2 EXCEPT !.failed = f]
<1>1. n = Script(n.stage, n.todo, n.busy, n.failed, n.skipped, n.env)
  BY ScriptFields
<1>2. node' = [node EXCEPT ![j] = m3]
  OBVIOUS
<1> HIDE DEF n
<1>3. m1 = Script(a, n.todo, n.busy, n.failed, n.skipped, n.env)
  BY <1>1 DEF Script
<1> HIDE DEF m1
<1>4. m2 = Script(a, t, n.busy, n.failed, n.skipped, n.env)
  BY <1>3 DEF Script
<1> HIDE DEF m2
<1>5. m3 = Script(a, t, n.busy, f, n.skipped, n.env)
  BY <1>4 DEF Script
<1> HIDE DEF m3
<1> QED BY <1>2, <1>5 DEF n

LEMMA SetTodoSkipped ==
  ASSUME node \in [Jobs -> Scripts], NEW j \in Jobs, NEW t, NEW s,
         node' = [node EXCEPT ![j].todo = t, ![j].skipped = s]
  PROVE  node' = [node EXCEPT ![j] =
           Script(node[j].stage, t, node[j].busy, node[j].failed, s, node[j].env)]
<1> DEFINE n == node[j]
           m1 == [n EXCEPT !.todo = t]
           m2 == [m1 EXCEPT !.skipped = s]
<1>1. n = Script(n.stage, n.todo, n.busy, n.failed, n.skipped, n.env)
  BY ScriptFields
<1>2. node' = [node EXCEPT ![j] = m2]
  OBVIOUS
<1> HIDE DEF n
<1>3. m1 = Script(n.stage, t, n.busy, n.failed, n.skipped, n.env)
  BY <1>1 DEF Script
<1> HIDE DEF m1
<1>4. m2 = Script(n.stage, t, n.busy, n.failed, s, n.env)
  BY <1>3 DEF Script
<1> HIDE DEF m2
<1> QED BY <1>2, <1>4 DEF n

LEMMA SetTodoBusy ==
  ASSUME node \in [Jobs -> Scripts], NEW j \in Jobs, NEW t, NEW b,
         node' = [node EXCEPT ![j].todo = t, ![j].busy = b]
  PROVE  node' = [node EXCEPT ![j] =
           Script(node[j].stage, t, b, node[j].failed, node[j].skipped, node[j].env)]
<1> DEFINE n == node[j]
           m1 == [n EXCEPT !.todo = t]
           m2 == [m1 EXCEPT !.busy = b]
<1>1. n = Script(n.stage, n.todo, n.busy, n.failed, n.skipped, n.env)
  BY ScriptFields
<1>2. node' = [node EXCEPT ![j] = m2]
  OBVIOUS
<1> HIDE DEF n
<1>3. m1 = Script(n.stage, t, n.busy, n.failed, n.skipped, n.env)
  BY <1>1 DEF Script
<1> HIDE DEF m1
<1>4. m2 = Script(n.stage, t, b, n.failed, n.skipped, n.env)
  BY <1>3 DEF Script
<1> HIDE DEF m2
<1> QED BY <1>2, <1>4 DEF n

LEMMA SetTodoFailed ==
  ASSUME node \in [Jobs -> Scripts], NEW j \in Jobs, NEW t, NEW f,
         node' = [node EXCEPT ![j].todo = t, ![j].failed = f]
  PROVE  node' = [node EXCEPT ![j] =
           Script(node[j].stage, t, node[j].busy, f, node[j].skipped, node[j].env)]
<1> DEFINE n == node[j]
           m1 == [n EXCEPT !.todo = t]
           m2 == [m1 EXCEPT !.failed = f]
<1>1. n = Script(n.stage, n.todo, n.busy, n.failed, n.skipped, n.env)
  BY ScriptFields
<1>2. node' = [node EXCEPT ![j] = m2]
  OBVIOUS
<1> HIDE DEF n
<1>3. m1 = Script(n.stage, t, n.busy, n.failed, n.skipped, n.env)
  BY <1>1 DEF Script
<1> HIDE DEF m1
<1>4. m2 = Script(n.stage, t, n.busy, f, n.skipped, n.env)
  BY <1>3 DEF Script
<1> HIDE DEF m2
<1> QED BY <1>2, <1>4 DEF n

LEMMA SetTodoBusyFailed ==
  ASSUME node \in [Jobs -> Scripts], NEW j \in Jobs, NEW t, NEW b, NEW f,
         node' = [node EXCEPT ![j].todo = t, ![j].busy = b, ![j].failed = f]
  PROVE  node' = [node EXCEPT ![j] =
           Script(node[j].stage, t, b, f, node[j].skipped, node[j].env)]
<1> DEFINE n == node[j]
           m1 == [n EXCEPT !.todo = t]
           m2 == [m1 EXCEPT !.busy = b]
           m3 == [m2 EXCEPT !.failed = f]
<1>1. n = Script(n.stage, n.todo, n.busy, n.failed, n.skipped, n.env)
  BY ScriptFields
<1>2. node' = [node EXCEPT ![j] = m3]
  OBVIOUS
<1> HIDE DEF n
<1>3. m1 = Script(n.stage, t, n.busy, n.failed, n.skipped, n.env)
  BY <1>1 DEF Script
<1> HIDE DEF m1
<1>4. m2 = Script(n.stage, t, b, n.failed, n.skipped, n.env)
  BY <1>3 DEF Script
<1> HIDE DEF m2
<1>5. m3 = Script(n.stage, t, b, f, n.skipped, n.env)
  BY <1>4 DEF Script
<1> HIDE DEF m3
<1> QED BY <1>2, <1>5 DEF n

LEMMA SetStageBusy ==
  ASSUME node \in [Jobs -> Scripts], NEW j \in Jobs, NEW a, NEW b,
         node' = [node EXCEPT ![j].stage = a, ![j].busy = b]
  PROVE  node' = [node EXCEPT ![j] =
           Script(a, node[j].todo, b, node[j].failed, node[j].skipped, node[j].env)]
<1> DEFINE n == node[j]
           m1 == [n EXCEPT !.stage = a]
           m2 == [m1 EXCEPT !.busy = b]
<1>1. n = Script(n.stage, n.todo, n.busy, n.failed, n.skipped, n.env)
  BY ScriptFields
<1>2. node' = [node EXCEPT ![j] = m2]
  OBVIOUS
<1> HIDE DEF n
<1>3. m1 = Script(a, n.todo, n.busy, n.failed, n.skipped, n.env)
  BY <1>1 DEF Script
<1> HIDE DEF m1
<1>4. m2 = Script(a, n.todo, b, n.failed, n.skipped, n.env)
  BY <1>3 DEF Script
<1> HIDE DEF m2
<1> QED BY <1>2, <1>4 DEF n

LEMMA SetEnv ==
  ASSUME NEW n \in Scripts, NEW e
  PROVE  [n EXCEPT !.env = e] = Script(n.stage, n.todo, n.busy, n.failed, n.skipped, e)
BY DEF Scripts, Script

(* The conditions under which the script of one job may become n. *)
Fits(j, n) ==
  /\ n \in Scripts /\ ScriptOK(n, job[j], Placed(j), Twice(j))
  /\ n.stage \notin Over => node[j].stage \notin Over
  /\ \A d \in Devices : n.env[d] \in {j, Nobody}

LEMMA NodeStep ==
  ASSUME PluginTypeOK, NodeInv, NoReuseBeforeDestruction', job' = job, svc' = svc,
         NEW j \in Jobs, NEW n, node' = [node EXCEPT ![j] = n], Fits(j, n)
  PROVE  NodeInv'
<1>1. node'[j] = n /\ \A k \in Jobs \ {j} : node'[k] = node[k]
  BY DEF NodeInv, NodeTypes
<1>2. NodeTypes'
  BY DEF NodeInv, NodeTypes, Fits
<1>3. EnvOwn'
  BY <1>1 DEF NodeInv, EnvOwn, Fits
<1>4. \A k \in Jobs : Placed(k)' = Placed(k) /\ Twice(k)' = Twice(k)
  BY DEF Placed, Twice, HasService
<1>5. \A k \in Jobs : ScriptOK(node'[k], job'[k], Placed(k)', Twice(k)')
  BY <1>1, <1>4 DEF NodeInv, Fits
<1>6. \A k \in Jobs : Undestroyed(k)' => Undestroyed(k)
  BY <1>1 DEF Undestroyed, HasService, Fits, Over
<1>7. \A k \in Jobs : Moves(job[k], job'[k])
  BY DEF Moves
<1>8. \A d \in Devices : \A i \in DOMAIN svc'[d] : ServiceOK(svc'[d][i], job[svc'[d][i].job])
  BY DEF NodeInv
<1> QED BY <1>2, <1>3, <1>5, <1>6, <1>7, <1>8, Keeps

(* The facts about one script that the steps below need. *)
LEMMA ScriptFacts ==
  ASSUME PluginTypeOK, NodeInv, NEW j \in Jobs
  PROVE  LET n == node[j]
         IN  /\ n \in Scripts /\ ScriptOK(n, job[j], Placed(j), Twice(j))
             /\ n = Script(n.stage, n.todo, n.busy, n.failed, n.skipped, n.env)
             /\ Visit(j) \subseteq Devices /\ Placed(j) \subseteq Visit(j)
             /\ Twice(j) \subseteq Placed(j)
             /\ Found(job[j].log) # <<>> => Visit(j) = Devices
             /\ Visit(j) # {} => Found(job[j].log) # <<>>
             /\ \A d \in Devices : n.env[d] \in {j, Nobody}
<1>1. node \in [Jobs -> Scripts]
  BY DEF NodeInv, NodeTypes
<1>2. node[j] = Script(node[j].stage, node[j].todo, node[j].busy, node[j].failed,
                        node[j].skipped, node[j].env)
  BY <1>1, ScriptFields
<1>3. lookup_reservation(j) = Found(job[j].log)
  BY DEF lookup_reservation, Deciding, Found, DecidingIn
<1>4. Placed(j) \subseteq Visit(j)
  BY OwnFound DEF Placed
<1>5. Twice(j) \subseteq Placed(j)
  BY HasMine DEF Twice, Extra
<1> QED BY <1>1, <1>2, <1>3, <1>4, <1>5 DEF Visit, NodeInv, EnvOwn

(* The prolog and the shell *)
LEMMA PrologSteps ==
  ASSUME PluginTypeOK, NodeInv, NoReuseBeforeDestruction', NEW j \in Jobs,
         \/ cmd_prolog(j) \/ PrologEnds(j)
         \/ \E d \in Devices : ProlOpenFails(j, d) \/ cray_slingshot_reserved(j, d)
  PROVE  NodeInv'
<1> DEFINE n == node[j]
           p == Placed(j)
           t == Twice(j)
           r == job[j]
<1>1. /\ n \in Scripts /\ ScriptOK(n, r, p, t)
      /\ n = Script(n.stage, n.todo, n.busy, n.failed, n.skipped, n.env)
      /\ Visit(j) \subseteq Devices /\ p \subseteq Visit(j) /\ t \subseteq p
      /\ Found(r.log) # <<>> => Visit(j) = Devices
      /\ Visit(j) # {} => Found(r.log) # <<>>
      /\ \A e \in Devices : n.env[e] \in {j, Nobody}
  BY ScriptFacts
<1>2. node \in [Jobs -> Scripts]
  BY DEF NodeInv, NodeTypes
<1>3. /\ n.stage \in Stages /\ n.todo \subseteq Devices /\ n.busy \subseteq Devices
      /\ n.failed \subseteq Devices /\ n.skipped \subseteq Devices /\ n.env \in [Devices -> Jobs \cup {Nobody}]
  BY <1>1 DEF Scripts
<1> HIDE DEF n, p, t, r
<1>4. CASE cmd_prolog(j)
  <2> DEFINE m == Script("prolog", Visit(j), n.busy, n.failed, n.skipped, n.env)
  <2>1. /\ n.stage = "none" /\ r.state = "RUN" /\ job' = job /\ svc' = svc
        /\ node' = [node EXCEPT ![j].stage = "prolog", ![j].todo = Visit(j)]
    BY <1>4 DEF cmd_prolog, plugin, n, r
  <2>2. node' = [node EXCEPT ![j] = m]
    BY <1>2, <2>1, SetStageTodo DEF n
  <2>3. m \in Scripts
    BY <1>1, <1>3 DEF Scripts, Script, Stages
  <2>4. ScriptOK(m, r, p, t)
    BY <1>1, <2>1 DEF ScriptOK, Script, Over
  <2>5. Fits(j, m)
    BY <1>1, <2>1, <2>3, <2>4 DEF Fits, Script, Over, n, r, p, t
  <2> HIDE DEF m
  <2> QED BY <1>2, <2>1, <2>2, <2>5, NodeStep
<1>5. CASE PrologEnds(j)
  <2> DEFINE m == Script("ready", {}, n.busy, n.failed, n.skipped, n.env)
  <2>1. /\ n.stage = "prolog" /\ (n.todo = {} \/ r.state # "RUN")
        /\ job' = job /\ svc' = svc
        /\ node' = [node EXCEPT ![j].stage = "ready", ![j].todo = {}]
    BY <1>5 DEF PrologEnds, plugin, n, r
  <2>2. node' = [node EXCEPT ![j] = m]
    BY <1>2, <2>1, SetStageTodo DEF n
  <2>3. m \in Scripts
    BY <1>1, <1>3 DEF Scripts, Script, Stages
  <2>4. ScriptOK(m, r, p, t)
    BY <1>1, <2>1 DEF ScriptOK, Script, Over
  <2>5. Fits(j, m)
    BY <1>1, <2>1, <2>3, <2>4 DEF Fits, Script, Over, n, r, p, t
  <2> HIDE DEF m
  <2> QED BY <1>2, <2>1, <2>2, <2>5, NodeStep
<1>6. ASSUME NEW d \in Devices, ProlOpenFails(j, d) PROVE NodeInv'
  <2> DEFINE m == Script(n.stage, n.todo \ {d}, n.busy, n.failed, n.skipped \cup {d}, n.env)
  <2>1. /\ n.stage = "prolog" /\ d \in n.todo
        /\ job' = job /\ svc' = svc /\ Spend("device")
        /\ node' = [node EXCEPT ![j].todo = n.todo \ {d}, ![j].skipped = n.skipped \cup {d}]
    BY <1>6 DEF ProlOpenFails, n, r
  <2>2. node' = [node EXCEPT ![j] = m]
    BY <1>2, <2>1, SetTodoSkipped DEF n
  <2>3. m \in Scripts
    BY <1>1, <1>3 DEF Scripts, Script, Stages
  <2>4. ScriptOK(m, r, p, t)
    BY <1>1, <2>1 DEF ScriptOK, Script, Over
  <2>5. Fits(j, m)
    BY <1>1, <2>1, <2>3, <2>4 DEF Fits, Script, Over, n, r, p, t
  <2> HIDE DEF m
  <2> QED BY <1>2, <2>1, <2>2, <2>5, NodeStep
<1>7. ASSUME NEW d \in Devices, cray_slingshot_reserved(j, d) PROVE NodeInv'
  <2> DEFINE k == match_cxi_service(d, j)
             e == [n.env EXCEPT ![d] = k]
             m == Script(n.stage, n.todo, n.busy, n.failed, n.skipped, e)
  <2>1. /\ r.state = "RUN" /\ job' = job /\ svc' = svc
        /\ node' = [node EXCEPT ![j].env[d] = k]
    BY <1>7 DEF cray_slingshot_reserved, plugin, n, r
  <2>2. node' = [node EXCEPT ![j] = m]
    <3> HIDE DEF k
    <3>1. node' = [node EXCEPT ![j] = [n EXCEPT !.env = e]]
      BY <1>2, <2>1 DEF n
    <3> HIDE DEF e
    <3>2. [n EXCEPT !.env = e] = m
      BY <1>1, SetEnv
    <3> HIDE DEF m
    <3> QED BY <3>1, <3>2
  <2>3. Undestroyed(j)
    BY <1>1, <2>1 DEF ScriptOK, Undestroyed, Over, n
  <2>4. k \in {j, Nobody}
    <3> DEFINE found == {i \in DOMAIN svc[d] : svc[d][i].vnis = lookup_reservation(j)}
    <3>1. k = IF found = {} THEN Nobody ELSE svc[d][Min(found)].job
      BY DEF match_cxi_service
    <3>2. CASE found # {}
      <4>1. found \subseteq Nat
        BY DEF NodeInv, NodeTypes
      <4>2. Min(found) \in found
        <5> HIDE DEF found
        <5> QED BY <3>2, <4>1, MinOK
      <4>3. Min(found) \in DOMAIN svc[d] /\ svc[d][Min(found)].vnis = lookup_reservation(j)
        BY <4>2
      <4>4. svc[d][Min(found)].job = j
        <5> HIDE DEF found
        <5> QED BY <2>1, <2>3, <4>3, OwnMatch DEF r
      <4> QED BY <3>1, <3>2, <4>4
    <3> QED BY <3>1, <3>2
  <2> HIDE DEF k
  <2>5. e \in [Devices -> Jobs \cup {Nobody}] /\ \A f \in Devices : e[f] \in {j, Nobody}
    BY <1>1, <1>3, <2>4
  <2> HIDE DEF e
  <2>6. m \in Scripts
    BY <1>3, <2>5 DEF Scripts, Script
  <2>7. ScriptOK(m, r, p, t)
    BY <1>1 DEF ScriptOK, Script
  <2>8. Fits(j, m)
    BY <2>5, <2>6, <2>7 DEF Fits, Script, n, r, p, t
  <2> HIDE DEF m
  <2> QED BY <1>2, <2>1, <2>2, <2>8, NodeStep
<1> QED BY <1>4, <1>5, <1>6, <1>7

(* The epilog and housekeeping, when they destroy nothing *)
LEMMA EpilogSteps ==
  ASSUME PluginTypeOK, NodeInv, NoReuseBeforeDestruction', NEW j \in Jobs,
         \/ EpilogStart(j) \/ HousekeepingStart(j) \/ EpilogRetry(j) \/ EpilogEnd(j)
         \/ LookupTimesOut(j) /\ job' = job
         \/ \E d \in Devices : DestroyBusy(j, d) \/ DestroyFails(j, d)
  PROVE  NodeInv'
<1> DEFINE n == node[j]
           p == Placed(j)
           t == Twice(j)
           r == job[j]
<1>1. /\ n \in Scripts /\ ScriptOK(n, r, p, t)
      /\ Visit(j) \subseteq Devices /\ p \subseteq Visit(j) /\ t \subseteq p
      /\ \A e \in Devices : n.env[e] \in {j, Nobody}
  BY ScriptFacts
<1>2. node \in [Jobs -> Scripts]
  BY DEF NodeInv, NodeTypes
<1>3. /\ n.stage \in Stages /\ n.todo \subseteq Devices /\ n.busy \subseteq Devices
      /\ n.failed \subseteq Devices /\ n.skipped \subseteq Devices /\ n.env \in [Devices -> Jobs \cup {Nobody}]
  BY <1>1 DEF Scripts
<1> HIDE DEF n, p, t, r
<1>4. CASE EpilogStart(j)
  <2> DEFINE m == Script("epilog", Visit(j), n.busy, n.failed, n.skipped, n.env)
  <2>1. /\ n.stage \in {"none", "ready"} /\ r.state = "CLEANUP"
        /\ job' = job /\ svc' = svc
        /\ node' = [node EXCEPT ![j].stage = "epilog", ![j].todo = Visit(j)]
    BY <1>4 DEF EpilogStart, plugin, n, r
  <2>2. node' = [node EXCEPT ![j] = m]
    BY <1>2, <2>1, SetStageTodo DEF n
  <2>3. m \in Scripts
    BY <1>1, <1>3 DEF Scripts, Script, Stages
  <2>4. ScriptOK(m, r, p, t)
    BY <1>1, <2>1 DEF ScriptOK, Script, Over
  <2>5. Fits(j, m)
    BY <1>1, <2>1, <2>3, <2>4 DEF Fits, Script, Over, n, r, p, t
  <2> HIDE DEF m
  <2> QED BY <1>2, <2>1, <2>2, <2>5, NodeStep
<1>5. CASE HousekeepingStart(j)
  <2> DEFINE m == Script("housekeeping", Visit(j), n.busy, {}, n.skipped, n.env)
  <2>1. /\ n.stage = "epilog_done" /\ r.state = "INACTIVE"
        /\ job' = job /\ svc' = svc
        /\ node' = [node EXCEPT ![j].stage = "housekeeping", ![j].todo = Visit(j),
                                ![j].failed = {}]
    BY <1>5 DEF HousekeepingStart, plugin, n, r
  <2>2. node' = [node EXCEPT ![j] = m]
    <3>1. node' = [node EXCEPT ![j] = Script("housekeeping", Visit(j), node[j].busy, {},
                     node[j].skipped, node[j].env)]
      <4> DEFINE v == Visit(j)
                 z == {}
      <4>1. /\ node \in [Jobs -> Scripts]
            /\ node' = [node EXCEPT ![j].stage = "housekeeping", ![j].todo = v, ![j].failed = z]
        BY <1>2, <2>1
      <4> HIDE DEF v, z
      <4>2. node' = [node EXCEPT ![j] = Script("housekeeping", v, node[j].busy, z,
                       node[j].skipped, node[j].env)]
        BY ONLY <4>1, j \in Jobs, SetStageTodoFailed
      <4> QED BY <4>2 DEF v, z
    <3> QED BY <3>1 DEF n
  <2>3. m \in Scripts
    BY <1>1, <1>3 DEF Scripts, Script, Stages
  <2>4. ScriptOK(m, r, p, t)
    BY <1>1, <2>1 DEF ScriptOK, Script, Over
  <2>5. Fits(j, m)
    BY <1>1, <2>1, <2>3, <2>4 DEF Fits, Script, Over, n, r, p, t
  <2> HIDE DEF m
  <2> QED BY <1>2, <2>1, <2>2, <2>5, NodeStep
<1>6. CASE EpilogRetry(j)
  <2> DEFINE m == Script(n.stage, Visit(j), {}, {}, n.skipped, n.env)
  <2>1. /\ n.stage \in {"epilog", "housekeeping"}
        /\ job' = job /\ svc' = svc
        /\ node' = [node EXCEPT ![j].todo = Visit(j), ![j].busy = {}, ![j].failed = {}]
    BY <1>6 DEF EpilogRetry, plugin, n, r
  <2>2. node' = [node EXCEPT ![j] = m]
    <3>1. node' = [node EXCEPT ![j] = Script(node[j].stage, Visit(j), {}, {},
                     node[j].skipped, node[j].env)]
      <4> DEFINE v == Visit(j)
                 z == {}
      <4>1. /\ node \in [Jobs -> Scripts]
            /\ node' = [node EXCEPT ![j].todo = v, ![j].busy = z, ![j].failed = z]
        BY <1>2, <2>1
      <4> HIDE DEF v, z
      <4>2. node' = [node EXCEPT ![j] = Script(node[j].stage, v, z, z,
                       node[j].skipped, node[j].env)]
        BY ONLY <4>1, j \in Jobs, SetTodoBusyFailed
      <4> QED BY <4>2 DEF v, z
    <3> QED BY <3>1 DEF n
  <2>3. m \in Scripts
    BY <1>1, <1>3 DEF Scripts, Script, Stages
  <2>4. ScriptOK(m, r, p, t)
    BY <1>1, <2>1 DEF ScriptOK, Script, Over
  <2>5. Fits(j, m)
    BY <1>1, <2>1, <2>3, <2>4 DEF Fits, Script, Over, n, r, p, t
  <2> HIDE DEF m
  <2> QED BY <1>2, <2>1, <2>2, <2>5, NodeStep
<1>7. CASE EpilogEnd(j)
  <2> DEFINE a == IF n.stage = "epilog" THEN "epilog_done"
                  ELSE IF n.busy = {} THEN "finished" ELSE "drained"
             m == Script(a, n.todo, {}, n.failed, n.skipped, n.env)
  <2>1. /\ n.stage \in {"epilog", "housekeeping"} /\ n.todo = {}
        /\ job' = job /\ svc' = svc
        /\ node' = [node EXCEPT ![j].stage = a, ![j].busy = {}]
    BY <1>7 DEF EpilogEnd, plugin, n, r
  <2>2. node' = [node EXCEPT ![j] = m]
    <3> HIDE DEF a
    <3> QED BY <1>2, <2>1, SetStageBusy DEF n
  <2>3. /\ a \in {"epilog_done", "finished", "drained"}
        /\ a = "epilog_done" => n.stage = "epilog"
        /\ a = "finished" => n.stage = "housekeeping" /\ n.busy = {}
    BY <2>1
  <2> HIDE DEF a
  <2>4. m \in Scripts
    BY <1>1, <1>3, <2>3 DEF Scripts, Script, Stages, Over
  <2>5. ScriptOK(m, r, p, t)
    BY <1>1, <2>1, <2>3 DEF ScriptOK, Script, Over
  <2>6. Fits(j, m)
    BY <1>1, <2>1, <2>4, <2>5 DEF Fits, Script, Over, n, r, p, t
  <2> HIDE DEF m
  <2> QED BY <1>2, <2>1, <2>2, <2>6, NodeStep
<1>8. ASSUME NEW d \in Devices, DestroyBusy(j, d) PROVE NodeInv'
  <2> DEFINE m == Script(n.stage, n.todo \ {d}, n.busy \cup {d}, n.failed, n.skipped, n.env)
  <2>1. /\ n.stage \in {"epilog", "housekeeping"}
        /\ job' = job /\ svc' = svc
        /\ node' = [node EXCEPT ![j].todo = n.todo \ {d}, ![j].busy = n.busy \cup {d}]
    BY <1>8 DEF DestroyBusy, Cleaning, plugin, n, r
  <2>2. node' = [node EXCEPT ![j] = m]
    BY <1>2, <2>1, SetTodoBusy DEF n
  <2>3. m \in Scripts
    BY <1>1, <1>3 DEF Scripts, Script, Stages
  <2>4. ScriptOK(m, r, p, t)
    BY <1>1, <2>1 DEF ScriptOK, Script, Over
  <2>5. Fits(j, m)
    BY <1>1, <2>1, <2>3, <2>4 DEF Fits, Script, Over, n, r, p, t
  <2> HIDE DEF m
  <2> QED BY <1>2, <2>1, <2>2, <2>5, NodeStep
<1>9. ASSUME NEW d \in Devices, DestroyFails(j, d) PROVE NodeInv'
  <2> DEFINE m == Script(n.stage, n.todo \ {d}, n.busy, n.failed \cup {d}, n.skipped, n.env)
  <2>1. /\ n.stage \in {"epilog", "housekeeping"}
        /\ job' = job /\ svc' = svc
        /\ node' = [node EXCEPT ![j].todo = n.todo \ {d}, ![j].failed = n.failed \cup {d}]
    BY <1>9 DEF DestroyFails, Cleaning, n, r
  <2>2. node' = [node EXCEPT ![j] = m]
    BY <1>2, <2>1, SetTodoFailed DEF n
  <2>3. m \in Scripts
    BY <1>1, <1>3 DEF Scripts, Script, Stages
  <2>4. ScriptOK(m, r, p, t)
    BY <1>1, <2>1 DEF ScriptOK, Script, Over
  <2>5. Fits(j, m)
    BY <1>1, <2>1, <2>3, <2>4 DEF Fits, Script, Over, n, r, p, t
  <2> HIDE DEF m
  <2> QED BY <1>2, <2>1, <2>2, <2>5, NodeStep
<1>10. ASSUME LookupTimesOut(j), job' = job PROVE NodeInv'
  <2> DEFINE Past(a) == Script(a, n.todo, n.busy, n.failed, n.skipped, n.env)
  <2>1. PICK a \in {"epilog_done", "drained"} :
          /\ a = "epilog_done" => n.stage \in {"none", "ready"} /\ r.state = "CLEANUP"
          /\ a = "drained" => n.stage = "epilog_done" /\ r.state = "INACTIVE"
          /\ node' = [node EXCEPT ![j].stage = a]
    <3>1. ~(r.state = "RUN" /\ Raise(vp, j))
      BY <1>10, RaiseChanges, ChangedOK DEF r
    <3> QED BY <1>10, <3>1 DEF LookupTimesOut, n, r
  <2> DEFINE m == Past(a)
  <2>2. node' = [node EXCEPT ![j] = m]
    BY <1>2, <2>1, SetStage DEF n
  <2>3. m \in Scripts
    BY <1>1, <1>3, <2>1 DEF Scripts, Script, Stages, Over
  <2>4. ScriptOK(m, r, p, t)
    BY <1>1, <2>1 DEF ScriptOK, Script, Over
  <2>5. Fits(j, m)
    BY <1>1, <2>1, <2>3, <2>4 DEF Fits, Script, Over, n, r, p, t
  <2>6. svc' = svc
    BY <1>10 DEF LookupTimesOut
  <2> HIDE DEF m
  <2> QED BY <1>2, <1>10, <2>2, <2>5, <2>6, NodeStep
<1> QED BY <1>4, <1>5, <1>6, <1>7, <1>8, <1>9, <1>10

---------------------------------------------------------------------------
(* Steps that change the services *)

(* One device has other services, and the script of one job goes on. *)
LEMMA SvcStep ==
  ASSUME PluginTypeOK, NodeInv, NoReuseBeforeDestruction', job' = job,
         NEW j \in Jobs, NEW d \in Devices, NEW s \in Seq(Services), NEW m,
         svc' = [svc EXCEPT ![d] = s], node' = [node EXCEPT ![j] = m],
         m \in Scripts, m.stage = node[j].stage, m.env = node[j].env, m.stage \notin Over,
         \A i \in DOMAIN s : ServiceOK(s[i], job[s[i].job]),
         ScriptOK(m, job[j], Placed(j)', Twice(j)'),
         \A k \in Jobs \ {j} : /\ Mine(s, k) = {} <=> Mine(svc[d], k) = {}
                               /\ Extra(svc[d], k) = {} => Extra(s, k) = {}
  PROVE  NodeInv'
<1>1. node'[j] = m /\ \A k \in Jobs \ {j} : node'[k] = node[k]
  BY DEF NodeInv, NodeTypes
<1>2. svc'[d] = s /\ \A e \in Devices \ {d} : svc'[e] = svc[e]
  BY DEF NodeInv, NodeTypes
<1>3. NodeTypes'
  BY DEF NodeInv, NodeTypes
<1>4. EnvOwn'
  BY <1>1 DEF NodeInv, EnvOwn
<1>5. ASSUME NEW k \in Jobs, k # j
      PROVE  /\ Placed(k)' = Placed(k) /\ Twice(k)' \subseteq Twice(k)
             /\ \A e \in Devices : HasService(k, e)' => HasService(k, e)
  <2>1. \A e \in Devices : /\ e \in Placed(k)' <=> e \in Placed(k)
                           /\ e \in Twice(k)' => e \in Twice(k)
                           /\ HasService(k, e)' => HasService(k, e)
    <3>1. ASSUME NEW e \in Devices
          PROVE  /\ Mine(svc'[e], k) = {} <=> Mine(svc[e], k) = {}
                 /\ Extra(svc[e], k) = {} => Extra(svc'[e], k) = {}
      <4>1. CASE e = d
        BY <1>2, <1>5, <4>1
      <4>2. CASE e # d
        BY <1>2, <4>2
      <4> QED BY <4>1, <4>2
    <3> SUFFICES ASSUME NEW e \in Devices
                 PROVE  /\ e \in Placed(k)' <=> e \in Placed(k)
                        /\ e \in Twice(k)' => e \in Twice(k)
                        /\ HasService(k, e)' => HasService(k, e)
      OBVIOUS
    <3>2. /\ HasService(k, e) <=> Mine(svc[e], k) # {}
          /\ e \in Placed(k) <=> Mine(svc[e], k) # {}
          /\ e \in Twice(k) <=> Extra(svc[e], k) # {}
      BY HasMine, HasMineNext
    <3>3. /\ HasService(k, e)' <=> Mine(svc'[e], k) # {}
          /\ e \in Placed(k)' <=> Mine(svc'[e], k) # {}
          /\ e \in Twice(k)' <=> Extra(svc'[e], k) # {}
      BY HasMine, HasMineNext
    <3> QED BY <3>1, <3>2, <3>3
  <2>2. /\ Placed(k) \subseteq Devices /\ Placed(k)' \subseteq Devices
        /\ Twice(k) \subseteq Devices /\ Twice(k)' \subseteq Devices
    BY DEF Placed, Twice
  <2> QED BY <2>1, <2>2
<1>6. ASSUME NEW k \in Jobs PROVE ScriptOK(node'[k], job'[k], Placed(k)', Twice(k)')
  <2>1. CASE k # j
    <3>1. ScriptOK(node[k], job[k], Placed(k), Twice(k))
      BY DEF NodeInv
    <3> QED BY <1>1, <1>5, <2>1, <3>1 DEF ScriptOK
  <2> QED BY <1>1, <2>1
<1>7. \A k \in Jobs : Undestroyed(k)' => Undestroyed(k)
  BY <1>1, <1>5 DEF Undestroyed, Over
<1>8. \A k \in Jobs : Moves(job[k], job'[k])
  BY DEF Moves
<1>9. \A e \in Devices : \A i \in DOMAIN svc'[e] : ServiceOK(svc'[e][i], job[svc'[e][i].job])
  BY <1>2 DEF NodeInv
<1> QED BY <1>3, <1>4, <1>6, <1>7, <1>8, <1>9, Keeps

(* The prolog allocates a service. *)
LEMMA AllocateStep ==
  ASSUME PluginTypeOK, NodeInv, NoReuseBeforeDestruction', NEW j \in Jobs, NEW d \in Devices,
         allocate_cxi_service_device(j, d)
  PROVE  NodeInv'
<1> DEFINE n == node[j]
           p == Placed(j)
           t == Twice(j)
           r == job[j]
           new == [uid |-> Owner[j], vnis |-> lookup_reservation(j), job |-> j]
           s == Append(svc[d], new)
           m == Script(n.stage, n.todo \ {d}, n.busy, n.failed, n.skipped, n.env)
<1>1. n \in Scripts /\ ScriptOK(n, r, p, t) /\ t \subseteq p
  BY ScriptFacts
<1>2. /\ node \in [Jobs -> Scripts] /\ svc \in [Devices -> Seq(Services)]
      /\ svc[d] \in Seq(Services) /\ LogOK(r)
  BY DEF NodeInv, NodeTypes
<1>3. /\ n.stage \in Stages /\ n.todo \subseteq Devices /\ n.busy \subseteq Devices
      /\ n.failed \subseteq Devices /\ n.skipped \subseteq Devices /\ n.env \in [Devices -> Jobs \cup {Nobody}]
  BY <1>1 DEF Scripts
<1>4. /\ n.stage = "prolog" /\ d \in n.todo /\ job' = job /\ faults' = faults
      /\ svc' = [svc EXCEPT ![d] = s]
      /\ node' = [node EXCEPT ![j].todo = n.todo \ {d}]
  BY DEF allocate_cxi_service_device, plugin
<1>5. lookup_reservation(j) = Found(r.log)
  BY DEF lookup_reservation, Deciding, Found, DecidingIn
<1> HIDE DEF n, p, t, r
<1>6. r.state # "SCHED" /\ Found(r.log) # <<>> /\ d \notin p /\ Found(r.log) \in Seq(ValidVnis)
  BY <1>1, <1>2, <1>4 DEF ScriptOK, LogOK
<1>7. new \in Services /\ new.job = j /\ ServiceOK(new, r)
  <2>1. Owner[j] \in Users
    BY DEF Users
  <2> QED BY <1>5, <1>6, <2>1 DEF Services, ServiceOK
<1>8. node' = [node EXCEPT ![j] = m]
  BY <1>2, <1>4, SetTodo DEF n
<1>9. m \in Scripts
  BY <1>3 DEF Scripts, Script
<1> HIDE DEF new
<1>10. /\ s \in Seq(Services)
       /\ \A i \in DOMAIN s : s[i] = new \/ \E k \in DOMAIN svc[d] : s[i] = svc[d][k]
       /\ \A k \in Jobs : k # j => Mine(s, k) = Mine(svc[d], k) /\ Extra(s, k) = Extra(svc[d], k)
       /\ Mine(s, j) # {}
       /\ Mine(svc[d], j) = {} => Extra(s, j) = {}
  <2> DEFINE u == svc[d]
  <2>1. s = Append(u, new) /\ u \in Seq(Services)
    BY <1>2
  <2> HIDE DEF s, u
  <2>2. /\ s \in Seq(Services) /\ Len(s) = Len(u) + 1 /\ s[Len(u) + 1] = new
        /\ \A i \in 1 .. Len(u) : s[i] = u[i]
    BY <1>7, <2>1, AppendOK
  <2>3. \A i \in DOMAIN s : s[i] = new \/ \E k \in DOMAIN u : s[i] = u[k]
    BY <1>7, <2>1, AppendOK
  <2>4. s[Len(u) + 1].job = j
    BY <1>7, <2>2
  <2>5. ASSUME NEW k \in Jobs
        PROVE  /\ k # j => Mine(s, k) = Mine(u, k) /\ Extra(s, k) = Extra(u, k)
               /\ k = j => Mine(s, k) # {} /\ (Mine(u, k) = {} => Extra(s, k) = {})
    BY <2>1, <2>2, <2>4, AppendedMine
  <2> QED BY <2>2, <2>3, <2>5 DEF u
<1> HIDE DEF s
<1>11. svc'[d] = s /\ \A e \in Devices \ {d} : svc'[e] = svc[e]
  BY <1>2, <1>4
<1>12. Mine(svc[d], j) = {}
  BY <1>6, HasMine DEF p
<1>13. Placed(j)' = p \cup {d} /\ Twice(j)' = {}
  <2>1. ASSUME NEW e \in Devices
        PROVE  /\ e \in Placed(j)' <=> e \in p \/ e = d
               /\ e \notin Twice(j)'
    <3>1. /\ e \in Placed(j)' <=> Mine(svc'[e], j) # {}
          /\ e \in Twice(j)' <=> Extra(svc'[e], j) # {}
      BY HasMineNext
    <3>2. /\ e \in p <=> Mine(svc[e], j) # {}
          /\ e \in t <=> Extra(svc[e], j) # {}
      BY HasMine DEF p, t
    <3>3. t = {}
      BY <1>1, <1>4 DEF ScriptOK, Over
    <3>4. CASE e = d
      BY <1>10, <1>11, <1>12, <3>1, <3>4
    <3>5. CASE e # d
      BY <1>11, <3>1, <3>2, <3>3, <3>5
    <3> QED BY <3>4, <3>5
  <2>2. Placed(j)' \subseteq Devices /\ Twice(j)' \subseteq Devices /\ p \subseteq Devices
    BY DEF Placed, Twice, p
  <2> QED BY <2>1, <2>2
<1>14. ScriptOK(m, r, Placed(j)', Twice(j)')
  BY <1>1, <1>4, <1>13 DEF ScriptOK, Script, Over
<1>15. \A i \in DOMAIN s : ServiceOK(s[i], job[s[i].job])
  BY <1>7, <1>10 DEF NodeInv, r
<1>16. m.stage = node[j].stage /\ m.env = node[j].env /\ m.stage \notin Over
  BY <1>4 DEF n, Script, Over
<1> HIDE DEF m
<1>17. \A k \in Jobs \ {j} : /\ Mine(s, k) = {} <=> Mine(svc[d], k) = {}
                             /\ Extra(svc[d], k) = {} => Extra(s, k) = {}
  BY <1>10
<1>18. s \in Seq(Services) /\ ScriptOK(m, job[j], Placed(j)', Twice(j)')
  BY <1>10, <1>14 DEF r
<1> QED BY <1>4, <1>8, <1>9, <1>15, <1>16, <1>17, <1>18, SvcStep

(* An epilog or housekeeping destroys a service. *)
LEMMA DestroyStep ==
  ASSUME PluginTypeOK, NodeInv, NoReuseBeforeDestruction', NEW j \in Jobs, NEW d \in Devices,
         destroy_cxi_service_device(j, d)
  PROVE  NodeInv'
<1> DEFINE n == node[j]
           p == Placed(j)
           t == Twice(j)
           r == job[j]
           i == FirstMatch(j, d)
           s == IF Matches(j, d) = {} THEN svc[d] ELSE RemoveAt(svc[d], i)
           m == Script(n.stage, n.todo \ {d}, n.busy, n.failed, n.skipped, n.env)
<1>1. n \in Scripts /\ ScriptOK(n, r, p, t) /\ t \subseteq p
  BY ScriptFacts
<1>2. /\ node \in [Jobs -> Scripts] /\ svc \in [Devices -> Seq(Services)]
      /\ svc[d] \in Seq(Services)
  BY DEF NodeInv, NodeTypes
<1>3. /\ n.stage \in Stages /\ n.todo \subseteq Devices /\ n.busy \subseteq Devices
      /\ n.failed \subseteq Devices /\ n.skipped \subseteq Devices /\ n.env \in [Devices -> Jobs \cup {Nobody}]
  BY <1>1 DEF Scripts
<1>4. /\ n.stage \in {"epilog", "housekeeping"} /\ job' = job /\ faults' = faults
      /\ svc' = [svc EXCEPT ![d] = s]
      /\ node' = [node EXCEPT ![j].todo = n.todo \ {d}]
  BY DEF destroy_cxi_service_device, Cleaning, plugin
<1> HIDE DEF n, p, t, r
<1>5. r.state # "SCHED" /\ t = {} /\ r.state # "RUN"
  BY <1>1, <1>4 DEF ScriptOK, Over
<1>6. Undestroyed(j)
  BY <1>4 DEF Undestroyed, n
<1>7. node' = [node EXCEPT ![j] = m]
  BY <1>2, <1>4, SetTodo DEF n
<1>8. m \in Scripts
  BY <1>3 DEF Scripts, Script
<1>9. Extra(svc[d], j) = {}
  BY <1>5, HasMine DEF t
<1>10. /\ s \in Seq(Services) /\ Within(s, svc[d]) /\ Mine(s, j) = {}
       /\ \A k \in Jobs : k # j => /\ Mine(s, k) = {} <=> Mine(svc[d], k) = {}
                                   /\ Extra(svc[d], k) = {} => Extra(s, k) = {}
  <2>1. CASE Matches(j, d) = {}
    <3>1. s = svc[d]
      BY <2>1
    <3>2. Mine(svc[d], j) = {}
      BY <2>1, OwnFound
    <3>3. Within(svc[d], svc[d])
      BY DEF Within
    <3> HIDE DEF s
    <3> QED BY <1>2, <3>1, <3>2, <3>3
  <2>2. CASE Matches(j, d) # {}
    <3>1. Matches(j, d) \subseteq DOMAIN svc[d] /\ Matches(j, d) \subseteq Nat
      BY <1>2 DEF Matches
    <3>2. i \in Matches(j, d)
      BY <2>2, <3>1, MinOK DEF FirstMatch
    <3>3. i \in DOMAIN svc[d] /\ svc[d][i].vnis = lookup_reservation(j)
      BY <3>2 DEF Matches, match_reservation
    <3>4. svc[d][i].job = j
      BY <1>5, <1>6, <3>3, OwnMatch DEF r
    <3>5. s = RemoveAt(svc[d], i)
      BY <2>2
    <3> HIDE DEF s, i
    <3>6. /\ s \in Seq(Services) /\ Within(s, svc[d])
          /\ \A k \in Jobs : Extra(svc[d], k) = {} => Extra(s, k) = {}
          /\ \A k \in Jobs : Mine(svc[d], k) # {} /\ Mine(s, k) = {} => svc[d][i].job = k
          /\ \A k \in Jobs : svc[d][i].job = k /\ Extra(svc[d], k) = {} => Mine(s, k) = {}
      <4> DEFINE u == svc[d]
      <4>1. s = RemoveAt(u, i) /\ u \in Seq(Services) /\ i \in DOMAIN u
        BY <1>2, <3>3, <3>5
      <4> HIDE DEF u
      <4>2. /\ s \in Seq(Services) /\ Within(s, u)
            /\ \A k \in Jobs : Extra(u, k) = {} => Extra(s, k) = {}
            /\ \A k \in Jobs : Mine(u, k) # {} /\ Mine(s, k) = {} => u[i].job = k
            /\ \A k \in Jobs : u[i].job = k /\ Extra(u, k) = {} => Mine(s, k) = {}
        BY <4>1, RemoveOK
      <4> QED BY <4>2 DEF u
    <3>7. Mine(s, j) = {}
      BY <1>9, <3>4, <3>6
    <3>8. ASSUME NEW k \in Jobs, k # j
          PROVE  /\ Mine(s, k) = {} <=> Mine(svc[d], k) = {}
                 /\ Extra(svc[d], k) = {} => Extra(s, k) = {}
      <4>1. Mine(s, k) = {} => Mine(svc[d], k) = {}
        BY <3>4, <3>6, <3>8
      <4>2. Mine(svc[d], k) = {} => Mine(s, k) = {}
        BY <3>6 DEF Within, Mine
      <4>3. Extra(svc[d], k) = {} => Extra(s, k) = {}
        BY <3>6
      <4> QED BY <4>1, <4>2, <4>3
    <3> QED BY <3>6, <3>7, <3>8
  <2> QED BY <2>1, <2>2
<1> HIDE DEF s
<1>11. svc'[d] = s /\ \A e \in Devices \ {d} : svc'[e] = svc[e]
  BY <1>2, <1>4
<1>12. Placed(j)' \subseteq p \ {d} /\ Twice(j)' = {}
  <2>1. ASSUME NEW e \in Devices
        PROVE  /\ e \in Placed(j)' => e \in p /\ e # d
               /\ e \notin Twice(j)'
    <3>1. /\ e \in Placed(j)' <=> Mine(svc'[e], j) # {}
          /\ e \in Twice(j)' <=> Extra(svc'[e], j) # {}
      BY HasMineNext
    <3>2. /\ e \in p <=> Mine(svc[e], j) # {}
          /\ e \in t <=> Extra(svc[e], j) # {}
      BY HasMine DEF p, t
    <3>3. CASE e = d
      BY <1>10, <1>11, <3>1, <3>3 DEF Extra
    <3>4. CASE e # d
      BY <1>5, <1>11, <3>1, <3>2, <3>4
    <3> QED BY <3>3, <3>4
  <2>2. Placed(j)' \subseteq Devices /\ Twice(j)' \subseteq Devices
    BY DEF Placed, Twice
  <2> QED BY <2>1, <2>2
<1>13. ScriptOK(m, r, Placed(j)', Twice(j)')
  BY <1>1, <1>4, <1>5, <1>12 DEF ScriptOK, Script, Over
<1>14. \A a \in DOMAIN s : ServiceOK(s[a], job[s[a].job])
  BY <1>10 DEF NodeInv, Within
<1>15. m.stage = node[j].stage /\ m.env = node[j].env /\ m.stage \notin Over
  BY <1>4 DEF n, Script, Over
<1> HIDE DEF m
<1>16. \A k \in Jobs \ {j} : /\ Mine(s, k) = {} <=> Mine(svc[d], k) = {}
                             /\ Extra(svc[d], k) = {} => Extra(s, k) = {}
  BY <1>10
<1>17. s \in Seq(Services) /\ ScriptOK(m, job[j], Placed(j)', Twice(j)')
  BY <1>10, <1>13 DEF r
<1> QED BY <1>4, <1>7, <1>8, <1>14, <1>15, <1>16, <1>17, SvcStep

(* flux slingshot clean, by a careful administrator where no job has tasks *)
LEMMA CleanStep ==
  ASSUME PluginTypeOK, NodeInv, NoReuseBeforeDestruction', NEW d \in Devices, cmd_clean(d)
  PROVE  NodeInv'
<1>1. PICK busy \in SUBSET {j \in Jobs : Started(j)} :
        svc' = [svc EXCEPT ![d] = destroy_all(svc[d], busy)]
  BY DEF cmd_clean
<1>2. /\ CarefulAdmin => \A j \in Jobs : node[j].stage \in {"none", "finished", "drained"}
      /\ job' = job /\ node' = node
  BY DEF cmd_clean
<1>3. svc \in [Devices -> Seq(Services)] /\ node \in [Jobs -> Scripts] /\ svc[d] \in Seq(Services)
  BY DEF NodeInv, NodeTypes
<1> DEFINE s == destroy_all(svc[d], busy)
<1>4. s \in Seq(Services) /\ Within(s, svc[d])
  BY <1>3, DestroyAllOK
<1> HIDE DEF s
<1>5. svc'[d] = s /\ \A e \in Devices \ {d} : svc'[e] = svc[e]
  BY <1>1, <1>3 DEF s
<1>6. NodeTypes'
  BY <1>1, <1>2, <1>3, <1>4 DEF NodeTypes, s
<1>7. \A e \in Devices : Within(svc'[e], svc[e])
  <2>1. \A e \in Devices : Within(svc[e], svc[e])
    BY DEF Within
  <2> QED BY <1>4, <1>5, <2>1
<1>8. \A k \in Jobs, e \in Devices : HasService(k, e)' => HasService(k, e)
  BY <1>7 DEF HasService, Within
<1>9. \A k \in Jobs : Placed(k)' \subseteq Placed(k) /\ Twice(k)' \subseteq Twice(k)
  <2> SUFFICES ASSUME NEW k \in Jobs
               PROVE  Placed(k)' \subseteq Placed(k) /\ Twice(k)' \subseteq Twice(k)
    OBVIOUS
  <2>1. Placed(k)' \subseteq Placed(k)
    BY <1>8 DEF Placed
  <2>2. ASSUME NEW e \in Devices, e \in Twice(k)' PROVE e \in Twice(k)
    <3>1. Extra(svc'[e], k) # {}
      BY <2>2, HasMineNext
    <3>2. Extra(svc[d], k) = {} => Extra(s, k) = {}
      BY <1>3, DestroyAllOnce DEF s
    <3>3. Extra(svc[e], k) # {}
      BY <1>5, <3>1, <3>2
    <3> QED BY <3>3, HasMine
  <2> QED BY <2>1, <2>2 DEF Twice
<1>10. ASSUME NEW k \in Jobs PROVE ScriptOK(node'[k], job'[k], Placed(k)', Twice(k)')
  <2>1. ScriptOK(node[k], job[k], Placed(k), Twice(k))
    BY DEF NodeInv
  <2>2. CarefulAdmin => node[k].stage \in {"none"} \cup Over
    BY <1>2 DEF Over
  <2> QED BY <1>2, <1>9, <2>1, <2>2 DEF ScriptOK, Over
<1>11. \A k \in Jobs : Undestroyed(k)' => Undestroyed(k)
  BY <1>2, <1>8 DEF Undestroyed
<1>12. \A k \in Jobs : Moves(job[k], job'[k])
  BY <1>2 DEF Moves
<1>13. \A e \in Devices : \A i \in DOMAIN svc'[e] : ServiceOK(svc'[e][i], job[svc'[e][i].job])
  BY <1>7 DEF NodeInv, Within
<1>14. EnvOwn'
  BY <1>2 DEF NodeInv, EnvOwn
<1> QED BY <1>6, <1>10, <1>11, <1>12, <1>13, <1>14, Keeps

---------------------------------------------------------------------------
(* Steps of the jobs *)

LEMMA JobStep ==
  ASSUME PluginTypeOK, NodeInv, NoReuseBeforeDestruction', svc' = svc, node' = node,
         \A j \in Jobs : \/ Moves(job[j], job'[j])
                         \/ Starts(job[j], job'[j]) /\ node[j].stage = "ready"
  PROVE  NodeInv'
<1>1. NodeTypes' /\ EnvOwn'
  BY DEF NodeInv, NodeTypes, EnvOwn
<1>2. \A k \in Jobs : Placed(k)' = Placed(k) /\ Twice(k)' = Twice(k)
  BY DEF Placed, Twice, HasService
<1>3. ASSUME NEW k \in Jobs PROVE ScriptOK(node'[k], job'[k], Placed(k)', Twice(k)')
  <2>1. job[k] \in JobRecs /\ LogOK(job[k]) /\ ScriptOK(node[k], job[k], Placed(k), Twice(k))
    BY DEF PluginTypeOK, JobRecs, NodeInv
  <2>2. ScriptOK(node[k], job'[k], Placed(k), Twice(k))
    BY <2>1, ScriptMoves
  <2> QED BY <1>2, <2>2
<1>4. \A k \in Jobs : Undestroyed(k)' => Undestroyed(k)
  BY DEF Undestroyed, HasService
<1>5. \A d \in Devices : \A i \in DOMAIN svc'[d] : ServiceOK(svc'[d][i], job[svc'[d][i].job])
  BY DEF NodeInv
<1> QED BY <1>1, <1>3, <1>4, <1>5, Keeps

(* A prolog fails, or cannot begin, and its job with it. *)
FailedProlog(j) ==
  \/ LookupTimesOut(j) /\ node[j].stage = "none" /\ job[j].state = "RUN"
  \/ \E d \in Devices : ProlAllocFails(j, d)

(* What the two have in common. *)
LEMMA ProlFails ==
  ASSUME PluginTypeOK, NoneLeft, NodeInv, NEW j \in Jobs, FailedProlog(j)
  PROVE  /\ PluginTypeOK' /\ NoneLeft'
         /\ Moves(job[j], job'[j]) /\ job'[j].state = "CLEANUP"
         /\ \A k \in Jobs \ {j} : job'[k] = job[k]
         /\ Raise(vp, j) /\ idle' = Idle(vp', {})
         /\ node[j].stage \in {"none", "prolog"} /\ svc' = svc
         /\ node' = [node EXCEPT ![j] =
              Script("ready", {}, node[j].busy, node[j].failed, node[j].skipped, node[j].env)]
<1>1. "timeout" \in FaultKinds /\ "device" \in FaultKinds
  BY DEF FaultKinds
<1>2. /\ job[j].state = "RUN" /\ Raise(vp, j) /\ idle' = Idle(vp', {}) /\ ctx' = ctx
      /\ \E kind \in FaultKinds : Spend(kind)
      /\ node[j].stage \in {"none", "prolog"} /\ svc' = svc
      /\ \/ node' = [node EXCEPT ![j].stage = "ready", ![j].todo = {}]
         \/ node[j].stage = "none" /\ node' = [node EXCEPT ![j].stage = "ready"]
  BY <1>1 DEF FailedProlog, ProlAllocFails, LookupTimesOut
<1>3. /\ PluginTypeOK' /\ NoneLeft'
      /\ Moves(job[j], job'[j]) /\ job'[j].state = "CLEANUP"
      /\ \A k \in Jobs \ {j} : job'[k] = job[k]
  BY <1>2, FailMoves
<1>4. node \in [Jobs -> Scripts]
  BY DEF NodeInv, NodeTypes
<1>5. node[j].stage = "none" => node[j].todo = {}
  BY DEF NodeInv, ScriptOK
<1>6. node' = [node EXCEPT ![j] =
        Script("ready", {}, node[j].busy, node[j].failed, node[j].skipped, node[j].env)]
  <2>1. CASE node' = [node EXCEPT ![j].stage = "ready", ![j].todo = {}]
    BY <1>4, <2>1, SetStageTodo
  <2>2. CASE node[j].stage = "none" /\ node' = [node EXCEPT ![j].stage = "ready"]
    <3>1. node' = [node EXCEPT ![j] = Script("ready", node[j].todo, node[j].busy,
                     node[j].failed, node[j].skipped, node[j].env)]
      BY <1>4, <2>2, SetStage
    <3> QED BY <1>5, <2>2, <3>1
  <2> QED BY <1>2, <2>1, <2>2
<1> QED BY <1>2, <1>3, <1>6

LEMMA FailStep ==
  ASSUME PluginTypeOK, NoneLeft, NodeInv, NoReuseBeforeDestruction',
         NEW j \in Jobs, FailedProlog(j)
  PROVE  NodeInv'
<1> DEFINE n == node[j]
           m == Script("ready", {}, n.busy, n.failed, n.skipped, n.env)
<1>1. /\ n \in Scripts /\ ScriptOK(n, job[j], Placed(j), Twice(j))
      /\ Twice(j) \subseteq Placed(j)
      /\ \A e \in Devices : n.env[e] \in {j, Nobody}
  BY ScriptFacts
<1>2. node \in [Jobs -> Scripts]
  BY DEF NodeInv, NodeTypes
<1>3. n.stage \in {"none", "prolog"} /\ svc' = svc
  BY ProlFails
<1>4. /\ job'[j].state = "CLEANUP"
      /\ Moves(job[j], job'[j]) /\ \A k \in Jobs \ {j} : job'[k] = job[k]
  BY ProlFails
<1>5. node' = [node EXCEPT ![j] = m]
  BY ProlFails
<1>6. /\ n.stage \in Stages /\ n.todo \subseteq Devices /\ n.busy \subseteq Devices
      /\ n.failed \subseteq Devices /\ n.skipped \subseteq Devices /\ n.env \in [Devices -> Jobs \cup {Nobody}]
  BY <1>1 DEF Scripts
<1>7. m \in Scripts
  BY <1>6 DEF Scripts, Script, Stages
<1>8. m.stage = "ready" /\ m.env = n.env
  BY DEF Script
<1>9. ScriptOK(n, job'[j], Placed(j), Twice(j))
  <2>1. job[j] \in JobRecs /\ LogOK(job[j])
    BY DEF PluginTypeOK, JobRecs, NodeInv
  <2> HIDE DEF n
  <2> QED BY <1>1, <1>4, <2>1, ScriptMoves
<1>10. ScriptOK(m, job'[j], Placed(j), Twice(j))
  <2> HIDE DEF n
  <2> QED BY <1>1, <1>3, <1>4, <1>9 DEF ScriptOK, Script, Over
<1> HIDE DEF m
<1>11. node'[j] = m /\ \A k \in Jobs \ {j} : node'[k] = node[k]
  BY <1>2, <1>5
<1>12. NodeTypes'
  BY <1>3, <1>5, <1>7 DEF NodeInv, NodeTypes
<1>13. EnvOwn'
  BY <1>1, <1>8, <1>11 DEF NodeInv, EnvOwn
<1>14. \A k \in Jobs : Placed(k)' = Placed(k) /\ Twice(k)' = Twice(k)
  BY <1>3 DEF Placed, Twice, HasService
<1>15. \A k \in Jobs : ScriptOK(node'[k], job'[k], Placed(k)', Twice(k)')
  BY <1>4, <1>10, <1>11, <1>14 DEF NodeInv
<1>16. \A k \in Jobs : Undestroyed(k)' => Undestroyed(k)
  BY <1>3, <1>8, <1>11 DEF Undestroyed, HasService
<1>17. \A k \in Jobs : Moves(job[k], job'[k])
  <2>1. \A q : Moves(q, q)
    BY DEF Moves
  <2> QED BY <1>4, <2>1
<1>18. \A e \in Devices : \A i \in DOMAIN svc'[e] : ServiceOK(svc'[e][i], job[svc'[e][i].job])
  BY <1>3 DEF NodeInv
<1> QED BY <1>12, <1>13, <1>15, <1>16, <1>17, <1>18, Keeps

---------------------------------------------------------------------------
(* Together *)

(* The scripts leave the plugin's part in order. *)
LEMMA PluginStays ==
  ASSUME PluginTypeOK, NoneLeft, vp' = vp, ctx' = ctx, job' = job, idle' = idle,
         faults' = faults \/ \E kind \in FaultKinds : Spend(kind)
  PROVE  PluginTypeOK' /\ NoneLeft'
<1>1. faults' \in [FaultKinds -> Nat]
  BY SpendOK DEF PluginTypeOK
<1> QED BY <1>1 DEF PluginTypeOK, NoneLeft

NodesOK == PluginTypeOK /\ NoneLeft /\ NodeInv

LEMMA NodesStep ==
  ASSUME NodesOK, NoReuseBeforeDestruction', [Next]_vars
  PROVE  NodesOK'
<1> USE DEF NodesOK
<1>1. ASSUME NEW j \in Jobs,
             \/ cmd_prolog(j) \/ PrologEnds(j)
             \/ \E d \in Devices : ProlOpenFails(j, d) \/ cray_slingshot_reserved(j, d)
      PROVE  NodesOK'
  <2>1. NodeInv'
    BY <1>1, PrologSteps
  <2>2. PluginTypeOK' /\ NoneLeft'
    BY <1>1, PluginStays
       DEF cmd_prolog, PrologEnds, ProlOpenFails, cray_slingshot_reserved, plugin, FaultKinds
  <2> QED BY <2>1, <2>2
<1>2. ASSUME NEW j \in Jobs,
             \/ EpilogStart(j) \/ HousekeepingStart(j) \/ EpilogRetry(j) \/ EpilogEnd(j)
             \/ LookupTimesOut(j) /\ job' = job
             \/ \E d \in Devices : DestroyBusy(j, d) \/ DestroyFails(j, d)
      PROVE  NodesOK'
  <2>1. NodeInv'
    BY <1>2, EpilogSteps
  <2>2. CASE LookupTimesOut(j) /\ job' = job
    <3>1. ~(job[j].state = "RUN" /\ Raise(vp, j))
      BY <2>2, RaiseChanges, ChangedOK
    <3>2. PluginTypeOK' /\ NoneLeft'
      BY <2>2, <3>1, PluginStays DEF LookupTimesOut, FaultKinds
    <3> QED BY <2>1, <3>2
  <2>3. CASE \/ EpilogStart(j) \/ HousekeepingStart(j) \/ EpilogRetry(j) \/ EpilogEnd(j)
             \/ \E d \in Devices : DestroyBusy(j, d) \/ DestroyFails(j, d)
    <3>1. PluginTypeOK' /\ NoneLeft'
      BY <2>3, PluginStays
         DEF EpilogStart, HousekeepingStart, EpilogRetry, EpilogEnd, DestroyBusy, DestroyFails,
             plugin, FaultKinds
    <3> QED BY <2>1, <3>1
  <2> QED BY <1>2, <2>2, <2>3
<1>3. ASSUME NEW j \in Jobs, NEW d \in Devices,
             allocate_cxi_service_device(j, d) \/ destroy_cxi_service_device(j, d)
      PROVE  NodesOK'
  <2>1. NodeInv'
    BY <1>3, AllocateStep, DestroyStep
  <2>2. PluginTypeOK' /\ NoneLeft'
    BY <1>3, PluginStays DEF allocate_cxi_service_device, destroy_cxi_service_device, plugin
  <2> QED BY <2>1, <2>2
<1>4. ASSUME NEW d \in Devices, cmd_clean(d) PROVE NodesOK'
  <2>1. NodeInv'
    BY <1>4, CleanStep
  <2>2. PluginTypeOK' /\ NoneLeft'
    BY <1>4, PluginStays DEF cmd_clean, FaultKinds
  <2> QED BY <2>1, <2>2
<1>5. ASSUME NEW j \in Jobs, FailedProlog(j) PROVE NodesOK'
  BY <1>5, FailStep, ProlFails
<1>6. ASSUME NEW j \in Jobs, StartTasks(j) PROVE NodesOK'
  <2>1. node[j].stage = "ready" /\ Start(j) /\ svc' = svc /\ node' = node
    BY <1>6 DEF StartTasks
  <2>2. /\ PluginTypeOK' /\ NoneLeft' /\ faults' = faults
        /\ Starts(job[j], job'[j]) /\ \A k \in Jobs \ {j} : job'[k] = job[k]
    BY <2>1, StartMoves
  <2>3. \A q : Moves(q, q)
    BY DEF Moves
  <2>4. \A k \in Jobs : \/ Moves(job[k], job'[k])
                        \/ Starts(job[k], job'[k]) /\ node[k].stage = "ready"
    BY <2>1, <2>2, <2>3
  <2>5. NodeInv'
    BY <2>1, <2>2, <2>4, JobStep
  <2> QED BY <2>2, <2>5
<1>7. ASSUME PluginStep \/ \E j \in Jobs : Clean(j), svc' = svc, node' = node PROVE NodesOK'
  <2>1. /\ PluginTypeOK' /\ NoneLeft'
        /\ \A j \in Jobs : Moves(job[j], job'[j])
    BY <1>7, PluginMoves
  <2>2. NodeInv'
    BY <1>7, <2>1, JobStep
  <2> QED BY <2>1, <2>2
<1>8. CASE UNCHANGED system
  <2>1. vp' = vp /\ ctx' = ctx /\ job' = job /\ idle' = idle /\ faults' = faults
        /\ svc' = svc /\ node' = node
    BY <1>8 DEF system
  <2>2. PluginTypeOK' /\ NoneLeft'
    BY <2>1, PluginStays
  <2>3. \A j \in Jobs : Moves(job[j], job'[j])
    BY <2>1 DEF Moves
  <2>4. NodeInv'
    BY <2>1, <2>3, JobStep
  <2> QED BY <2>2, <2>4
<1>9. ASSUME NEW j \in Jobs, Step(j) PROVE NodesOK'
  <2>1. CASE \E d \in Devices :
               \/ allocate_cxi_service_device(j, d) \/ cray_slingshot_reserved(j, d)
               \/ ProlOpenFails(j, d) \/ ProlAllocFails(j, d)
               \/ Destroy(j, d)
    BY <1>1, <1>2, <1>3, <1>5, <2>1 DEF Destroy, FailedProlog
  <2>2. CASE StartTasks(j) \/ CleanJob(j)
    BY <1>6, <1>7, <2>2 DEF CleanJob
  <2>3. CASE \/ cmd_prolog(j) \/ PrologEnds(j)
             \/ EpilogStart(j) \/ HousekeepingStart(j) \/ EpilogRetry(j) \/ EpilogEnd(j)
    BY <1>1, <1>2, <2>3
  <2>4. CASE LookupTimesOut(j)
    <3>1. \/ node[j].stage = "none" /\ job[j].state = "RUN"
          \/ job' = job
      BY <2>4 DEF LookupTimesOut
    <3> QED BY <1>2, <1>5, <2>4, <3>1 DEF FailedProlog
  <2> QED BY <1>9, <2>1, <2>2, <2>3, <2>4 DEF Step
<1> QED BY <1>4, <1>7, <1>8, <1>9 DEF Next, Act, Through, vars, system

LEMMA NodesInit ==
  ASSUME Init
  PROVE  NodesOK
<1>1. PluginTypeOK /\ NoneLeft
  BY InitOK DEF Init
<1>2. /\ job = [j \in Jobs |-> [state |-> "SCHED", log |-> <<>>]]
      /\ svc = [d \in Devices |-> <<>>]
  BY DEF Init, PluginInit
<1>3. /\ node \in [Jobs -> Scripts]
      /\ \A j \in Jobs : /\ node[j].stage = "none" /\ node[j].todo = {}
                         /\ \A d \in Devices : node[j].env[d] = Nobody
  BY DEF Init, Scripts, Stages
<1>4. NodeTypes
  <2>1. <<>> \in Seq(Services)
    OBVIOUS
  <2> QED BY <1>2, <1>3, <2>1 DEF NodeTypes
<1>5. ASSUME NEW j \in Jobs PROVE LogOK(job[j]) /\ ~HasStart(job[j].log) /\ Told(job[j].log) = {}
  <2>1. job[j].state = "SCHED" /\ job[j].log = <<>>
    BY <1>2
  <2> QED BY <2>1 DEF LogOK, HasStart, Told, DecidingIn
<1>6. \A d \in Devices : svc[d] = <<>>
  BY <1>2
<1>7. \A j \in Jobs : Placed(j) = {} /\ Twice(j) = {}
  BY <1>6 DEF Placed, Twice, HasService
<1>8. \A j \in Jobs : ScriptOK(node[j], job[j], Placed(j), Twice(j))
  BY <1>3, <1>5, <1>7 DEF ScriptOK, Over
<1>9. \A d \in Devices : \A i \in DOMAIN svc[d] : ServiceOK(svc[d][i], job[svc[d][i].job])
  BY <1>6
<1>10. EnvOwn
  BY <1>3 DEF EnvOwn
<1> QED BY <1>1, <1>2, <1>4, <1>5, <1>8, <1>9, <1>10 DEF NodesOK, NodeInv

(* As long as there was no clash. *)
Undisturbed == ~clash => NodesOK /\ NoReuseBeforeDestruction

LEMMA NodesAlways == Spec => []Undisturbed
<1>1. Init => Undisturbed
  <2> SUFFICES ASSUME Init PROVE NodesOK /\ NoReuseBeforeDestruction
    BY DEF Undisturbed
  <2>1. \A j \in Jobs : job[j].state = "SCHED"
    BY DEF Init, PluginInit
  <2> QED BY <2>1, NodesInit DEF NoReuseBeforeDestruction
<1>2. Undisturbed /\ [Next]_vars => Undisturbed'
  <2> SUFFICES ASSUME Undisturbed, [Next]_vars, ~clash'
               PROVE  NodesOK' /\ NoReuseBeforeDestruction'
    BY DEF Undisturbed
  <2>1. CASE Next
    <3>1. ~clash /\ NoReuseBeforeDestruction'
      BY <2>1 DEF Next
    <3>2. NodesOK'
      BY <3>1, NodesStep DEF Undisturbed
    <3> QED BY <3>1, <3>2
  <2>2. CASE UNCHANGED vars
    <3>1. ~clash
      BY <2>2 DEF vars
    <3>2. NodesOK /\ NoReuseBeforeDestruction
      BY <3>1 DEF Undisturbed
    <3>3. NoReuseBeforeDestruction'
      BY <2>2, <3>2 DEF vars, NoReuseBeforeDestruction, Undestroyed, HasService, Reserved
    <3> QED BY <3>2, <3>3, NodesStep
  <2> QED BY <2>1, <2>2
<1> QED BY <1>1, <1>2, PTL DEF Spec

(* Running tasks keep their CXI services: as long as no VNI has been reused *)
(* too early, no epilog, housekeeping or clean of another job takes away a  *)
(* service that cmd_prolog() allocated, whatever is busy, fails or times    *)
(* out, however often VNIs come round, and however the commands interleave, *)
(* if flux slingshot clean is run on nodes only that are not in use.        *)
THEOREM ServicesStay ==
  ASSUME CarefulAdmin
  PROVE  Spec => []ServicesWhileRunning
<1>1. Undisturbed => ServicesWhileRunning
  <2> SUFFICES ASSUME NodesOK, NEW j \in Jobs, job[j].state = "RUN", Started(j), Reserved(j) # {},
                      NEW d \in Devices
               PROVE  HasService(j, d) \/ d \in node[j].skipped
    BY DEF ServicesWhileRunning, Undisturbed
  <2>1. ScriptOK(node[j], job[j], Placed(j), Twice(j)) /\ LogOK(job[j])
    BY DEF NodesOK, NodeInv
  <2>2. HasStart(job[j].log)
    BY DEF Started, HasStart
  <2>3. node[j].stage = "ready" /\ node[j].todo = {}
    BY <2>1, <2>2 DEF ScriptOK
  <2>4. Found(job[j].log) # <<>>
    <3>1. Reserved(j) = Told(job[j].log)
      BY DEF Reserved, Told
    <3>2. Told(job[j].log) = Vnis(Found(job[j].log))
      BY <2>1 DEF LogOK
    <3> QED BY <3>1, <3>2, VnisOf
  <2>5. Devices \subseteq Placed(j) \cup node[j].todo \cup node[j].skipped
    BY <2>1, <2>3, <2>4 DEF ScriptOK
  <2> QED BY <2>3, <2>5 DEF Placed
<1> QED BY <1>1, NodesAlways, PTL

(* The shell plugin, which compares nothing but VNIs, puts into             *)
(* SLINGSHOT_SVC_IDS services of its own job only, as long as no VNI has    *)
(* been reused too early.                                                   *)
THEOREM ServiceIdsAreOwn == Spec => []OwnServiceIds
<1>1. Undisturbed => OwnServiceIds
  BY DEF Undisturbed, NodesOK, NodeInv, EnvOwn, OwnServiceIds
<1> QED BY <1>1, NodesAlways, PTL

(* When housekeeping ends without draining the node, its job has left no    *)
(* service behind, except where the last attempt to destroy it met an error *)
(* other than EBUSY, the only one that cmd_epilog() counts.                 *)
THEOREM LingeringIsNoticed == Spec => []LingeringServiceDrains
<1>1. Undisturbed => LingeringServiceDrains
  <2> SUFFICES ASSUME NodesOK, NEW j \in Jobs, NEW d \in Devices, node[j].stage = "finished",
                      HasService(j, d)
               PROVE  d \in node[j].failed
    BY DEF Undisturbed, LingeringServiceDrains
  <2>1. ScriptOK(node[j], job[j], Placed(j), Twice(j))
    BY DEF NodesOK, NodeInv
  <2>2. Placed(j) \subseteq node[j].failed
    BY <2>1 DEF ScriptOK
  <2> QED BY <2>2 DEF Placed
<1> QED BY <1>1, NodesAlways, PTL

---------------------------------------------------------------------------
(* Round-robin *)

(* From last on and round again, w comes strictly before v. *)
Before(w, v, last) ==
  IF w > last THEN v <= last \/ w < v ELSE v <= last /\ w < v

(* Only the order matters, not the numbers: who comes first from l on       *)
(* comes first from a on, if both come after a.                             *)
LEMMA Rotate ==
  ASSUME NEW a \in Int, NEW v \in Int, NEW w \in Int, NEW l \in Int
  PROVE  /\ Before(a, w, l) /\ Before(w, v, l) => Before(w, v, a)
         /\ Before(a, w, l) /\ (v = a \/ Before(v, a, l)) => Before(w, v, a)
         /\ Before(a, v, l) /\ Before(a, w, l) /\ Before(v, w, a) => Before(v, w, l)
         /\ ~(Before(v, w, l) /\ Before(w, v, l))
         /\ Before(a, w, l) /\ Before(w, v, l) => Before(a, v, l)
         /\ w > l /\ Before(v, w, l) => v > l /\ v < w
BY DEF Before

LEMMA FollowsFirst ==
  ASSUME NEW S \in SUBSET Int, NEW l \in Int, NEW v, Follows(v, S, l),
         NEW w \in S \ {v}
  PROVE  Before(v, w, l)
<1>1. v \in S /\ v \in Int /\ w \in Int
  BY DEF Follows
<1>2. CASE {u \in S : u > l} = {}
  <2>1. v <= w /\ ~(v > l) /\ ~(w > l)
    BY <1>1, <1>2 DEF Follows
  <2> QED BY <1>1, <2>1 DEF Before
<1>3. CASE {u \in S : u > l} # {}
  <2>1. v > l /\ (w > l => v <= w)
    BY <1>1, <1>3 DEF Follows
  <2> QED BY <1>1, <2>1 DEF Before
<1> QED BY <1>2, <1>3

Taken(got, i) == {got[k] : k \in 1 .. i}

(* What a loop of idset_alloc() takes comes, in the order in which it is    *)
(* taken, before all that it leaves.                                        *)
LEMMA FirstInOrder ==
  ASSUME NEW p, PoolOK(p), NEW n \in Nat, NEW got \in Allocations(p, n)
  PROVE  /\ p.last \in Int /\ p.free \subseteq Int
         /\ DOMAIN got = 1 .. n /\ Len(got) = n /\ Vnis(got) = Taken(got, n)
         /\ \A i \in 1 .. n : got[i] \in p.free \ Taken(got, i - 1)
         /\ \A i \in 1 .. n : \A w \in p.free \ Taken(got, i) : Before(got[i], w, p.last)
<1> DEFINE From(i) == IF i = 1 THEN p.last ELSE got[i - 1]
           First(i) == \A w \in p.free \ Taken(got, i) : Before(got[i], w, p.last)
           T == {i \in 0 .. n : i = 0 \/ First(i)}
<1>1. p.last \in Int /\ p.free \subseteq Int
  <2>1. ValidVnis \subseteq Int /\ NoId \in Int
    BY VniAssumption DEF NoId
  <2>2. p.free \subseteq ValidVnis /\ p.last \in ValidVnis \cup {NoId}
    BY DEF PoolOK, Pools
  <2> QED BY <2>1, <2>2
<1>2. got \in [1 .. n -> p.free] /\ got \in Seq(p.free) /\ Len(got) = n
  BY DEF Allocations
<1>3. ASSUME NEW i \in 1 .. n
      PROVE  Follows(got[i], p.free \ Taken(got, i - 1), From(i))
  BY <1>3 DEF Allocations, Taken
<1>4. \A i \in 1 .. n : got[i] \in p.free \ Taken(got, i - 1)
  BY <1>3 DEF Follows
<1>5. 0 \in T
  OBVIOUS
<1>6. ASSUME NEW k \in 1 .. n, k - 1 = 0 \/ First(k - 1) PROVE First(k)
  <2> SUFFICES ASSUME NEW w \in p.free \ Taken(got, k) PROVE Before(got[k], w, p.last)
    OBVIOUS
  <2>1. got[k] \in p.free \ Taken(got, k - 1) /\ got[k] \in Int
    BY <1>1, <1>4
  <2>2. Taken(got, k) = Taken(got, k - 1) \cup {got[k]}
    <3>1. 1 .. k = (1 .. k - 1) \cup {k}
      OBVIOUS
    <3> QED BY <3>1 DEF Taken
  <2>3. w \in (p.free \ Taken(got, k - 1)) \ {got[k]} /\ w \in Int
    BY <1>1, <2>2
  <2>4. From(k) \in Int
    BY <1>1, <1>2
  <2>5. p.free \ Taken(got, k - 1) \in SUBSET Int
    BY <1>1
  <2>6. Before(got[k], w, From(k))
    <3>1. Follows(got[k], p.free \ Taken(got, k - 1), From(k))
      BY <1>3
    <3> HIDE DEF From
    <3> QED BY <2>3, <2>4, <2>5, <3>1, FollowsFirst
  <2>7. CASE k = 1
    BY <2>6, <2>7
  <2>8. CASE k # 1
    <3>1. From(k) = got[k - 1] /\ got[k - 1] \in Int
      BY <2>4, <2>8
    <3>2. Before(got[k - 1], w, p.last) /\ Before(got[k - 1], got[k], p.last)
      BY <1>6, <2>1, <2>3, <2>8
    <3> QED BY <1>1, <2>1, <2>3, <2>6, <3>1, <3>2, Rotate
  <2> QED BY <2>7, <2>8
<1>7. 0 .. n \subseteq T
  <2>1. ASSUME NEW i \in 0 .. n, i \in T, i < n PROVE i + 1 \in T
    <3>1. PICK k \in 1 .. n : k = i + 1 /\ k - 1 = i
      BY <2>1
    <3>2. k - 1 = 0 \/ First(k - 1)
      BY <2>1, <3>1
    <3>3. First(k)
      BY <1>6, <3>2
    <3> QED BY <3>1, <3>3
  <2> HIDE DEF T
  <2> QED BY <1>5, <2>1, E!UpTo
<1>8. \A i \in 1 .. n : First(i)
  <2> SUFFICES ASSUME NEW i \in 1 .. n PROVE First(i)
    OBVIOUS
  <2>1. i \in T /\ i # 0
    BY <1>7
  <2> QED BY <2>1
<1>9. Vnis(got) = Taken(got, n) /\ DOMAIN got = 1 .. n
  BY <1>2 DEF Vnis, Taken
<1> QED BY <1>1, <1>2, <1>4, <1>8, <1>9

(* So it is all that comes up to the last VNI taken. *)
LEMMA TakenFirst ==
  ASSUME NEW p, PoolOK(p), NEW n \in Nat, n > 0, NEW got \in Allocations(p, n),
         NEW v \in Vnis(got)
  PROVE  /\ v \in Int /\ v \in p.free
         /\ got[n] \in Vnis(got)
         /\ v = got[n] \/ Before(v, got[n], p.last)
         /\ \A w \in p.free \ Vnis(got) : Before(v, w, p.last) /\ Before(got[n], w, p.last)
<1>1. PICK i \in 1 .. n : v = got[i]
  BY FirstInOrder DEF Taken
<1>2. /\ v \in p.free /\ v \in Int /\ n \in 1 .. n /\ got[n] \in Vnis(got)
  BY <1>1, FirstInOrder DEF Taken
<1>3. Taken(got, i) \subseteq Vnis(got)
  <2>1. 1 .. i \subseteq 1 .. n
    BY <1>1
  <2>2. Vnis(got) = Taken(got, n)
    BY FirstInOrder
  <2> QED BY <2>1, <2>2 DEF Taken
<1>4. v = got[n] \/ Before(v, got[n], p.last)
  <2>1. CASE i = n
    BY <1>1, <2>1
  <2>2. CASE i < n
    <3>1. 1 .. i \subseteq 1 .. n - 1
      BY <1>1, <2>2
    <3>2. got[n] \in p.free \ Taken(got, n - 1)
      BY <1>2, FirstInOrder
    <3>3. got[n] \in p.free \ Taken(got, i)
      BY <3>1, <3>2 DEF Taken
    <3> QED BY <1>1, <3>3, FirstInOrder
  <2> QED BY <1>1, <2>1, <2>2
<1>5. \A w \in p.free \ Vnis(got) : Before(v, w, p.last)
  BY <1>1, <1>3, FirstInOrder
<1>6. \A w \in p.free \ Vnis(got) : Before(got[n], w, p.last)
  BY <1>2, FirstInOrder
<1> QED BY <1>2, <1>4, <1>5, <1>6

(* What a step does to the order in which VNIs come: nothing, except that   *)
(* some may be given back, or a job takes what comes first.                 *)
NothingTold == \A j \in Jobs : Told(job'[j].log) \subseteq Told(job[j].log)

Quiet ==
  /\ vp'.universe = vp.universe /\ vp'.last = vp.last /\ vp.free \subseteq vp'.free
  /\ \A v \in ValidVnis : idle'[v] \subseteq idle[v]
  /\ \A j \in Jobs : job'[j].state = "SCHED" => job[j].state = "SCHED"
  /\ NothingTold

Takes(j, r, got) ==
  LET n == VniCount(r)
  IN  /\ n \in Nat /\ n > 0 /\ n <= Cardinality(vp.free) /\ got \in Allocations(vp, n)
      /\ job[j].state = "SCHED" /\ job'[j].state # "SCHED"
      /\ \A k \in Jobs \ {j} : job'[k] = job[k]
      /\ Told(job'[j].log) \subseteq Told(job[j].log) \cup Vnis(got)
      /\ vp'.universe = vp.universe /\ vp'.last = got[n]
      /\ vp'.free = vp.free \ Vnis(got) \/ vp.free \subseteq vp'.free
      /\ \A v \in ValidVnis :
           idle'[v] = (IF v \in Vnis(got) THEN vp.free ELSE idle[v]) \cap (vp.free \ Vnis(got))

(* What makes the ghost variable start again. *)
Exhausts ==
  /\ \E j \in Jobs : job[j].state = "SCHED"
  /\ \E r \in Requests : VniCount(r) <= MaxVnis /\ VniCount(r) > Cardinality(vp.free)
  /\ vp.free \subseteq vp'.free /\ NothingTold
  /\ \A v \in ValidVnis : idle'[v] = {}

Renews ==
  /\ NothingTold
  /\ \A v \in ValidVnis : idle'[v] = {}
  /\ \/ \E c \in Configs : /\ c.vni_pool \in SUBSET ValidVnis /\ c.vnis_per_job \in 0 .. MaxVnis
                           /\ c.vni_pool # vp.universe /\ vp'.universe = c.vni_pool
     \/ vp.free \subseteq vp'.free

Turns ==
  \/ Quiet
  \/ \E j \in Jobs, r \in Requests : \E got \in Allocations(vp, VniCount(r)) : Takes(j, r, got)
  \/ Exhausts
  \/ Renews

(* vnipool_release() does not move the position. *)
LEMMA ReleaseStays ==
  ASSUME NEW p, PoolOK(p), NEW j \in Jobs
  PROVE  vnipool_release(p, j).last = p.last
<1>1. p = [universe |-> p.universe, free |-> p.free, last |-> p.last, jobs |-> p.jobs]
  BY DEF PoolOK, Pools
<1> QED BY <1>1 DEF vnipool_release, vnipool_free_array

(* A reservation takes what comes first, and moves the position there; one  *)
(* that fails in an exhausted pool moves it too.                            *)
LEMMA ReserveTurns ==
  ASSUME NEW p, PoolOK(p), NEW j \in Jobs,
         NEW count \in Int, NEW res \in vnipool_reserve(p, j, count)
  PROVE  \/ res.vnis = <<>> /\ res.vp.last = p.last
         \/ res.vnis = <<>> /\ count <= MaxVnis /\ count > Cardinality(p.free)
         \/ /\ res.vnis # <<>> /\ count \in Nat /\ count > 0 /\ count <= Cardinality(p.free)
            /\ res.vnis \in Allocations(p, count) /\ res.vp.last = res.vnis[count]
<1>1. p = [universe |-> p.universe, free |-> p.free, last |-> p.last, jobs |-> p.jobs]
  BY DEF PoolOK, Pools
<1>2. Cardinality(p.free) \in Nat /\ MaxVnis \in Nat
  <2>1. p.free \in SUBSET ValidVnis
    BY DEF PoolOK, Pools
  <2> QED BY <2>1, VniAssumption, FS_Subset, FS_CardinalityType
<1>3. CASE count < 0 \/ count > MaxVnis
  <2>1. res = [vp |-> p, vnis |-> <<>>]
    BY <1>3 DEF vnipool_reserve
  <2> QED BY <2>1
<1>4. CASE ~(count < 0 \/ count > MaxVnis) /\ count > Cardinality(p.free)
  <2>1. \E got \in Allocations(p, Cardinality(p.free)) :
          res = [vp |-> Moved(p, got), vnis |-> <<>>]
    BY <1>4 DEF vnipool_reserve
  <2> QED BY <1>2, <1>4, <2>1
<1>5. CASE ~(count < 0 \/ count > MaxVnis) /\ ~(count > Cardinality(p.free))
  <2>1. PICK got \in Allocations(p, count) :
          res = [vp |-> [Moved(p, got) EXCEPT
                           !.free = p.free \ Vnis(got),
                           !.jobs = [p.jobs EXCEPT ![j] = got]],
                 vnis |-> got]
    BY <1>5 DEF vnipool_reserve
  <2>2. count \in Nat /\ count <= Cardinality(p.free)
    BY <1>2, <1>5
  <2>3. Len(got) = count /\ DOMAIN got = 1 .. count
    BY <2>2, FirstInOrder
  <2>4. /\ res.vnis = got
        /\ res.vp.last = IF got = <<>> THEN p.last ELSE got[Len(got)]
    BY <1>1, <2>1 DEF Moved
  <2>5. CASE got = <<>>
    BY <2>4, <2>5
  <2>6. CASE got # <<>>
    <3>1. got \in Seq(p.free)
      BY <2>2 DEF Allocations
    <3>2. count > 0
      BY <2>2, <2>3, <2>6, <3>1
    <3> QED BY <2>2, <2>3, <2>4, <2>6, <3>2
  <2> QED BY <2>5, <2>6
<1> QED BY <1>2, <1>3, <1>4, <1>5

(* An entry that brings no VNIs. *)
LEMMA PostTells ==
  ASSUME PluginTypeOK, NEW j \in Jobs, NEW s, NEW e \in Events, Post(j, s, e)
  PROVE  /\ job'[j].state = s /\ Told(job'[j].log) = Told(job[j].log) \cup Vnis(e.vnis)
         /\ \A k \in Jobs \ {j} : job'[k] = job[k]
<1>1. job \in [Jobs -> JobRecs]
  BY DEF PluginTypeOK, JobRecs
<1>2. /\ job'[j].state = s /\ job'[j].log = Append(job[j].log, e)
      /\ \A k \in Jobs \ {j} : job'[k] = job[k]
  BY <1>1 DEF Post
<1>3. job[j].log \in Seq(Events)
  BY <1>1 DEF JobRecs
<1>4. Told(Append(job[j].log, e)) = Told(job[j].log) \cup Vnis(e.vnis)
  BY <1>3, ToldAppend
<1> QED BY <1>2, <1>4

LEMMA RaiseTurns ==
  ASSUME PluginTypeOK, NEW j \in Jobs, NEW p, PoolOK(p), Raise(p, j)
  PROVE  /\ job'[j].state = "CLEANUP" /\ Told(job'[j].log) = Told(job[j].log)
         /\ \A k \in Jobs \ {j} : job'[k] = job[k]
         /\ vp'.universe = p.universe /\ vp'.last = p.last /\ p.free \subseteq vp'.free
<1>1. Post(j, "CLEANUP", Event("exception")) /\ vp' = vnipool_release(p, j)
  BY DEF Raise, job_state_cleanup_cb
<1>2. Event("exception") \in Events /\ Vnis(Event("exception").vnis) = {}
  BY EntriesOK, VnisOf DEF Event
<1>3. /\ job'[j].state = "CLEANUP" /\ Told(job'[j].log) = Told(job[j].log)
      /\ \A k \in Jobs \ {j} : job'[k] = job[k]
  <2>1. /\ job'[j].state = "CLEANUP"
        /\ Told(job'[j].log) = Told(job[j].log) \cup Vnis(Event("exception").vnis)
        /\ \A k \in Jobs \ {j} : job'[k] = job[k]
    BY <1>1, <1>2, PostTells
  <2> QED BY <1>2, <2>1
<1>4. /\ PoolOK(vp') /\ vp'.universe = p.universe
      /\ vp'.free = p.free \cup (Vnis(p.jobs[j]) \cap p.universe)
      /\ vp'.jobs = [p.jobs EXCEPT ![j] = <<>>]
  BY <1>1, ReleaseOK
<1>5. vp'.last = p.last
  BY <1>1, ReleaseStays
<1> QED BY <1>3, <1>4, <1>5

LEMMA EmptyTurns ==
  ASSUME PluginTypeOK, NEW j \in Jobs, NEW p, PoolOK(p), Empty(j, p)
  PROVE  /\ job'[j].state # "SCHED" /\ Told(job'[j].log) = Told(job[j].log)
         /\ \A k \in Jobs \ {j} : job'[k] = job[k]
         /\ vp'.universe = p.universe /\ vp'.last = p.last /\ p.free \subseteq vp'.free
<1>1. CASE Post(j, "RUN", Reservation(<<>>)) /\ vp' = p /\ UNCHANGED faults
  <2>1. <<>> \in Seq(ValidVnis)
    OBVIOUS
  <2>2. Reservation(<<>>) \in Events /\ Vnis(Reservation(<<>>).vnis) = {}
    BY <2>1, EntriesOK, VnisOf DEF Reservation
  <2>3. /\ job'[j].state = "RUN"
        /\ Told(job'[j].log) = Told(job[j].log) \cup Vnis(Reservation(<<>>).vnis)
        /\ \A k \in Jobs \ {j} : job'[k] = job[k]
    BY <1>1, <2>2, PostTells
  <2> QED BY <1>1, <2>2, <2>3
<1>2. CASE Raise(p, j) /\ Spend("post")
  BY <1>2, RaiseTurns
<1> QED BY <1>1, <1>2 DEF Empty

(* Entering RUN. *)
LEMMA RunTurns ==
  ASSUME PluginTypeOK, NoneLeft, NEW j \in Jobs, NEW r \in Requests, job_state_run_cb(j, r)
  PROVE  Turns
<1>1. /\ PoolOK(vp) /\ job[j].state = "SCHED" /\ vp.jobs[j] = <<>>
      /\ idle \in [ValidVnis -> SUBSET ValidVnis] /\ VniCount(r) \in Int
  BY ConfigAssumption DEF job_state_run_cb, NoneLeft, PluginTypeOK, PoolOK, VniCount
<1>2. ASSUME /\ job'[j].state # "SCHED" /\ Told(job'[j].log) = Told(job[j].log)
             /\ \A k \in Jobs \ {j} : job'[k] = job[k]
             /\ vp'.universe = vp.universe /\ vp'.last = vp.last /\ vp.free \subseteq vp'.free
             /\ idle' = idle
      PROVE  Quiet
  <2>1. \A k \in Jobs : /\ job'[k].state = "SCHED" => job[k].state = "SCHED"
                        /\ Told(job'[k].log) \subseteq Told(job[k].log)
    BY <1>2
  <2> QED BY <1>2, <2>1 DEF Quiet, NothingTold
<1>3. CASE r.off \/ (r.parsed /\ VniCount(r) = 0)
  BY <1>1, <1>2, <1>3, EmptyTurns DEF job_state_run_cb, Turns
<1>4. CASE ~(r.off \/ (r.parsed /\ VniCount(r) = 0)) /\ ~r.parsed
  <2>1. Raise(vp, j) /\ idle' = idle
    BY <1>4 DEF job_state_run_cb
  <2> QED BY <1>1, <1>2, <2>1, RaiseTurns DEF Turns
<1>5. CASE ~(r.off \/ (r.parsed /\ VniCount(r) = 0)) /\ r.parsed
  <2>1. PICK res \in vnipool_reserve(vp, j, VniCount(r)) :
          IF res.vnis = <<>>
          THEN /\ Refuse(j, res.vp)
               /\ idle' = IF res.vp.last = vp.last THEN idle ELSE NeverIdle
          ELSE /\ idle' = Idle(res.vp, Vnis(res.vnis))
               /\ \/ /\ Post(j, "RUN", Reservation(res.vnis))
                     /\ vp' = res.vp /\ UNCHANGED faults
                  \/ Raise(vnipool_release(res.vp, j), j) /\ Spend("post")
    BY <1>5 DEF job_state_run_cb
  <2>2. /\ PoolOK(res.vp)
        /\ res.vnis \in Seq(ValidVnis) /\ Vnis(res.vnis) \subseteq vp.free
        /\ res.vp.universe = vp.universe
        /\ res.vp.free = vp.free \ Vnis(res.vnis)
        /\ res.vp.jobs = [vp.jobs EXCEPT ![j] = res.vnis]
    <3>1. PoolOK(vp) /\ vp.jobs[j] = <<>> /\ VniCount(r) \in Int
      BY <1>1
    <3>2. /\ PoolOK(res.vp)
          /\ res.vnis \in Seq(ValidVnis) /\ Vnis(res.vnis) \subseteq vp.free
          /\ res.vp.universe = vp.universe
          /\ res.vp.free = vp.free \ Vnis(res.vnis)
          /\ res.vp.jobs = [vp.jobs EXCEPT ![j] = res.vnis]
      BY <3>1, ReserveOK
    <3> QED BY <3>2
  <2>3. \/ res.vnis = <<>> /\ res.vp.last = vp.last
        \/ res.vnis = <<>> /\ VniCount(r) <= MaxVnis /\ VniCount(r) > Cardinality(vp.free)
        \/ /\ res.vnis # <<>> /\ VniCount(r) \in Nat /\ VniCount(r) > 0
           /\ VniCount(r) <= Cardinality(vp.free)
           /\ res.vnis \in Allocations(vp, VniCount(r)) /\ res.vp.last = res.vnis[VniCount(r)]
    BY <1>1, ReserveTurns
  <2>4. CASE res.vnis = <<>>
    <3>1. /\ Refuse(j, res.vp)
          /\ idle' = IF res.vp.last = vp.last THEN idle ELSE NeverIdle
      BY <2>1, <2>4
    <3>2. res.vp.free = vp.free
      BY <2>2, <2>4, VnisOf
    <3>3. /\ job'[j].state # "SCHED" /\ Told(job'[j].log) = Told(job[j].log)
          /\ \A k \in Jobs \ {j} : job'[k] = job[k]
          /\ vp'.universe = res.vp.universe /\ vp'.last = res.vp.last
          /\ res.vp.free \subseteq vp'.free
      <4>1. CASE Raise(res.vp, j) /\ UNCHANGED faults
        BY <2>2, <4>1, RaiseTurns
      <4>2. CASE Empty(j, res.vp)
        BY <2>2, <4>2, EmptyTurns
      <4> QED BY <3>1, <4>1, <4>2 DEF Refuse
    <3>4. CASE res.vp.last = vp.last
      BY <1>2, <2>2, <3>1, <3>2, <3>3, <3>4 DEF Turns
    <3>5. CASE res.vp.last # vp.last
      <4>1. \A v \in ValidVnis : idle'[v] = {}
        BY <3>1, <3>5 DEF NeverIdle
      <4>2. NothingTold
        BY <3>3 DEF NothingTold
      <4>3. Exhausts
        BY <1>1, <2>3, <2>4, <3>2, <3>3, <3>5, <4>1, <4>2 DEF Exhausts
      <4> QED BY <4>3 DEF Turns
    <3> QED BY <3>4, <3>5
  <2>5. CASE res.vnis # <<>>
    <3>1. \A v \in ValidVnis :
            idle'[v] = (IF v \in Vnis(res.vnis) THEN vp.free ELSE idle[v])
                         \cap (vp.free \ Vnis(res.vnis))
      <4>1. idle' = Idle(res.vp, Vnis(res.vnis))
        BY <2>1, <2>5
      <4> QED BY <2>2, <4>1 DEF Idle
    <3>2. /\ job'[j].state # "SCHED"
          /\ Told(job'[j].log) \subseteq Told(job[j].log) \cup Vnis(res.vnis)
          /\ \A k \in Jobs \ {j} : job'[k] = job[k]
          /\ vp'.universe = vp.universe /\ vp'.last = res.vp.last
          /\ vp'.free = vp.free \ Vnis(res.vnis) \/ vp.free \subseteq vp'.free
      <4>1. CASE Post(j, "RUN", Reservation(res.vnis)) /\ vp' = res.vp /\ UNCHANGED faults
        <5>1. Reservation(res.vnis) \in Events /\ Reservation(res.vnis).vnis = res.vnis
          BY <2>2, EntriesOK DEF Reservation
        <5> QED BY <2>2, <4>1, <5>1, PostTells
      <4>2. CASE Raise(vnipool_release(res.vp, j), j) /\ Spend("post")
        <5> DEFINE q == vnipool_release(res.vp, j)
        <5>1. /\ PoolOK(q) /\ q.universe = vp.universe /\ q.last = res.vp.last
              /\ vp.free \subseteq q.free
          <6>1. /\ PoolOK(q) /\ q.universe = res.vp.universe
                /\ q.free = res.vp.free \cup (Vnis(res.vp.jobs[j]) \cap res.vp.universe)
                /\ q.jobs = [res.vp.jobs EXCEPT ![j] = <<>>]
            BY <2>2, ReleaseOK
          <6>2. q.last = res.vp.last
            BY <2>2, ReleaseStays
          <6>3. res.vp.jobs[j] = res.vnis /\ vp.free \subseteq vp.universe
            <7>1. res.vp.jobs = [vp.jobs EXCEPT ![j] = res.vnis]
              BY <2>2
            <7> QED BY <1>1, <7>1 DEF PoolOK, Pools
          <6> QED BY <2>2, <6>1, <6>2, <6>3
        <5>2. Raise(q, j)
          BY <4>2
        <5> HIDE DEF q
        <5> QED BY <5>1, <5>2, RaiseTurns
      <4> QED BY <2>1, <2>5, <4>1, <4>2
    <3>3. res.vnis \in Allocations(vp, VniCount(r)) /\ Takes(j, r, res.vnis)
      BY <1>1, <2>3, <2>5, <3>1, <3>2 DEF Takes
    <3> QED BY <3>3 DEF Turns
  <2> QED BY <2>4, <2>5
<1> QED BY <1>3, <1>4, <1>5

(* Every step of the plugin. *)
LEMMA PluginTurns ==
  ASSUME PluginTypeOK, NoneLeft, [PluginNext]_plugin
  PROVE  Turns
<1>1. /\ PoolOK(vp) /\ job \in [Jobs -> JobRecs]
      /\ idle \in [ValidVnis -> SUBSET ValidVnis]
  BY DEF PluginTypeOK, PoolOK, JobRecs
<1>2. ASSUME NEW j \in Jobs, NEW r \in Requests, job_state_run_cb(j, r) PROVE Turns
  BY <1>2, RunTurns
<1>3. ASSUME NEW j \in Jobs, FatalException(j) PROVE Turns
  <2>1. Raise(vp, j) /\ idle' = Idle(vp', {})
    BY <1>3 DEF FatalException
  <2>2. /\ job'[j].state = "CLEANUP" /\ Told(job'[j].log) = Told(job[j].log)
        /\ \A k \in Jobs \ {j} : job'[k] = job[k]
        /\ vp'.universe = vp.universe /\ vp'.last = vp.last /\ vp.free \subseteq vp'.free
    BY <1>1, <2>1, RaiseTurns
  <2>3. \A v \in ValidVnis : idle'[v] \subseteq idle[v]
    BY <2>1 DEF Idle
  <2>4. \A k \in Jobs : /\ job'[k].state = "SCHED" => job[k].state = "SCHED"
                        /\ Told(job'[k].log) \subseteq Told(job[k].log)
    BY <2>2
  <2> QED BY <2>2, <2>3, <2>4 DEF Turns, Quiet, NothingTold
<1>4. ASSUME NEW j \in Jobs, NEW name \in {"start", "warning"}, Post(j, job[j].state, Event(name)),
             vp' = vp, idle' = idle
      PROVE  Turns
  <2>1. Event(name) \in Events /\ Vnis(Event(name).vnis) = {}
    BY EntriesOK, VnisOf DEF Event
  <2>2. /\ job'[j].state = job[j].state
        /\ Told(job'[j].log) = Told(job[j].log) \cup Vnis(Event(name).vnis)
        /\ \A k \in Jobs \ {j} : job'[k] = job[k]
    BY <1>4, <2>1, PostTells
  <2>3. \A k \in Jobs : /\ job'[k].state = "SCHED" => job[k].state = "SCHED"
                        /\ Told(job'[k].log) \subseteq Told(job[k].log)
    BY <2>1, <2>2
  <2> QED BY <1>4, <2>3 DEF Turns, Quiet, NothingTold
<1>5. ASSUME NEW j \in Jobs, Warning(j) \/ Start(j) PROVE Turns
  BY <1>4, <1>5 DEF Warning, Start
<1>6. ASSUME NEW j \in Jobs, NEW s \in {"CLEANUP", "INACTIVE"},
             job' = [job EXCEPT ![j].state = s]
      PROVE  \A k \in Jobs : /\ job'[k].state = "SCHED" => job[k].state = "SCHED"
                             /\ Told(job'[k].log) \subseteq Told(job[k].log)
  <2>1. job[j] \in JobRecs /\ job' = [job EXCEPT ![j] = [job[j] EXCEPT !.state = s]]
    BY <1>1, <1>6
  <2>2. job'[j].state = s /\ job'[j].log = job[j].log /\ \A k \in Jobs \ {j} : job'[k] = job[k]
    BY <1>1, <2>1 DEF JobRecs
  <2> QED BY <2>2
<1>7. ASSUME NEW j \in Jobs, Finish(j) PROVE Turns
  <2>1. /\ job' = [job EXCEPT ![j].state = "CLEANUP"]
        /\ vp' = vnipool_release(vp, j) /\ idle' = Idle(vp', {})
    BY <1>7 DEF Finish, job_state_cleanup_cb
  <2>2. /\ PoolOK(vp') /\ vp'.universe = vp.universe
        /\ vp'.free = vp.free \cup (Vnis(vp.jobs[j]) \cap vp.universe)
        /\ vp'.jobs = [vp.jobs EXCEPT ![j] = <<>>]
    BY <1>1, <2>1, ReleaseOK
  <2>3. vp'.last = vp.last
    BY <1>1, <2>1, ReleaseStays
  <2>4. \A v \in ValidVnis : idle'[v] \subseteq idle[v]
    BY <2>1 DEF Idle
  <2> QED BY <1>6, <2>1, <2>2, <2>3, <2>4 DEF Turns, Quiet, NothingTold
<1>8. ASSUME NEW j \in Jobs, Clean(j) PROVE Turns
  BY <1>6, <1>8 DEF Clean, Turns, Quiet, NothingTold
<1>9. ASSUME NEW c \in Configs, conf_update_cb(c) PROVE Turns
  <2>1. /\ job' = job
        /\ \/ vp' = vp /\ idle' = idle
           \/ /\ c.vnis_per_job \in 0 .. MaxVnis /\ c.vni_pool \in SUBSET ValidVnis
              /\ vp' = vnipool_configure(vp, c.vni_pool)
              /\ idle' = IF c.vni_pool = vp.universe THEN idle ELSE NeverIdle
    BY <1>9 DEF conf_update_cb
  <2>2. CASE vp' = vp /\ idle' = idle
    BY <2>1, <2>2 DEF Turns, Quiet, NothingTold
  <2>3. CASE /\ c.vnis_per_job \in 0 .. MaxVnis /\ c.vni_pool \in SUBSET ValidVnis
             /\ vp' = vnipool_configure(vp, c.vni_pool)
             /\ idle' = IF c.vni_pool = vp.universe THEN idle ELSE NeverIdle
    <3>1. CASE c.vni_pool = vp.universe
      BY <2>1, <2>3, <3>1 DEF vnipool_configure, Turns, Quiet, NothingTold
    <3>2. CASE c.vni_pool # vp.universe
      <4>1. vp'.universe = c.vni_pool
        <5>1. vp = [universe |-> vp.universe, free |-> vp.free, last |-> vp.last,
                    jobs |-> vp.jobs]
          BY <1>1 DEF PoolOK, Pools
        <5> QED BY <2>3, <3>2, <5>1 DEF vnipool_configure
      <4>2. \A v \in ValidVnis : idle'[v] = {}
        BY <2>3, <3>2 DEF NeverIdle
      <4> QED BY <2>1, <2>3, <3>2, <4>1, <4>2 DEF Turns, Renews, NothingTold
    <3> QED BY <3>1, <3>2
  <2> QED BY <2>1, <2>2, <2>3
<1>10. ASSUME flux_plugin_init PROVE Turns
  <2>1. vp' = NewPool(vp.universe) /\ idle' = NeverIdle /\ job' = job
    BY <1>10 DEF flux_plugin_init
  <2>2. vp.free \subseteq vp'.free
    BY <1>1, <2>1 DEF NewPool, PoolOK
  <2>3. \A v \in ValidVnis : idle'[v] = {}
    BY <2>1 DEF NeverIdle
  <2> QED BY <2>1, <2>2, <2>3 DEF Turns, Renews, NothingTold
<1>11. CASE UNCHANGED plugin
  BY <1>11 DEF plugin, Turns, Quiet, NothingTold
<1> QED BY <1>2, <1>3, <1>5, <1>7, <1>8, <1>9, <1>10, <1>11 DEF PluginNext

(* What has been free since v was taken comes before v. *)
RoundInv ==
  \A v \in ValidVnis : \A w \in idle[v] : w \in vp.free /\ Before(w, v, vp.last)

LEMMA RoundStep ==
  ASSUME PluginTypeOK, RoundInv, Turns
  PROVE  /\ RoundInv'
         /\ \A v \in vp.free \ vp'.free :
              vp'.universe = vp.universe => idle[v] \cap vp'.free = {}
<1>1. /\ PoolOK(vp) /\ ValidVnis \subseteq Int /\ vp.last \in Int
      /\ vp.free \subseteq ValidVnis
      /\ idle \in [ValidVnis -> SUBSET ValidVnis]
  <2>1. ValidVnis \subseteq Int /\ NoId \in Int
    BY VniAssumption DEF NoId
  <2> QED BY <2>1 DEF PluginTypeOK, PoolOK, Pools
<1>2. CASE Quiet
  BY <1>2 DEF Quiet, RoundInv
<1>3. CASE Exhausts \/ Renews
  BY <1>3 DEF Exhausts, Renews, RoundInv
<1>4. ASSUME NEW j \in Jobs, NEW r \in Requests, NEW got \in Allocations(vp, VniCount(r)),
             Takes(j, r, got)
      PROVE  /\ RoundInv'
             /\ \A v \in vp.free \ vp'.free : idle[v] \cap vp'.free = {}
  <2> DEFINE n == VniCount(r)
             left == vp.free \ Vnis(got)
  <2>1. /\ n \in Nat /\ n > 0 /\ vp'.last = got[n] /\ left \subseteq vp'.free
        /\ vp'.free = left \/ vp.free \subseteq vp'.free
        /\ \A v \in ValidVnis :
             idle'[v] = (IF v \in Vnis(got) THEN vp.free ELSE idle[v]) \cap left
    BY <1>4 DEF Takes
  <2>2. \A v \in Vnis(got) :
          /\ v \in Int /\ v \in vp.free /\ got[n] \in Vnis(got)
          /\ v = got[n] \/ Before(v, got[n], vp.last)
          /\ \A w \in left : Before(v, w, vp.last) /\ Before(got[n], w, vp.last)
    BY <1>1, <2>1, TakenFirst
  <2>3. got[n] \in Vnis(got) /\ got[n] \in Int
    <3>1. n \in 1 .. n
      BY <2>1
    <3>2. Vnis(got) = Taken(got, n)
      BY <1>1, <2>1, FirstInOrder
    <3>3. got[n] \in Vnis(got)
      BY <3>1, <3>2 DEF Taken
    <3> QED BY <2>2, <3>3
  <2> HIDE DEF n, left
  <2>4. ASSUME NEW v \in ValidVnis, NEW w \in idle'[v]
        PROVE  w \in vp'.free /\ Before(w, v, vp'.last)
    <3>1. w \in left /\ w \in vp'.free /\ w \in Int /\ v \in Int
      BY <1>1, <2>1, <2>4 DEF left
    <3>2. Before(got[n], w, vp.last)
      BY <2>2, <2>3, <3>1
    <3>3. CASE v \in Vnis(got)
      BY <1>1, <2>1, <2>2, <2>3, <3>1, <3>2, <3>3, Rotate
    <3>4. CASE v \notin Vnis(got)
      <4>1. w \in idle[v] /\ Before(w, v, vp.last)
        BY <2>1, <2>4, <3>4 DEF RoundInv
      <4> QED BY <1>1, <2>1, <2>3, <3>1, <3>2, <4>1, Rotate
    <3> QED BY <3>3, <3>4
  <2>5. ASSUME NEW v \in vp.free \ vp'.free, NEW w \in idle[v], w \in vp'.free PROVE FALSE
    <3>1. v \in Vnis(got) /\ v \in ValidVnis /\ v \in Int
      BY <1>1, <2>1, <2>5 DEF left
    <3>2. w \in vp.free /\ Before(w, v, vp.last) /\ w \in Int
      BY <1>1, <2>5, <3>1 DEF RoundInv
    <3>3. w \notin left
      BY <1>1, <2>2, <3>1, <3>2, Rotate
    <3> QED BY <2>1, <2>5, <3>2, <3>3
  <2> QED BY <2>4, <2>5 DEF RoundInv
<1> QED BY <1>2, <1>3, <1>4 DEF Turns

(* Round-robin: job_state_run_cb() takes a VNI again only when all that has *)
(* been free ever since the VNI was last taken is taken too, however many   *)
(* VNIs the jobs ask for and give back in whatever order, unless the pool   *)
(* is exhausted, configured anew or lost with the instance.                 *)
THEOREM VnisGoRound == PluginSpec => RoundRobin
<1> DEFINE Inv == PluginTypeOK /\ NoneLeft /\ RoundInv
<1>1. PluginInit => Inv
  BY InitOK DEF PluginInit, RoundInv
<1>2. Inv /\ [PluginNext]_plugin => Inv'
  BY StepOK, NoneLeftStep, PluginTurns, RoundStep
<1>3. Inv /\ [PluginNext]_plugin =>
        [\A v \in vp.free \ vp'.free :
           vp'.universe = vp.universe => idle[v] \cap vp'.free = {}]_plugin
  BY PluginTurns, RoundStep
<1> QED BY <1>1, <1>2, <1>3, PTL DEF PluginSpec, RoundRobin

---------------------------------------------------------------------------
(* The margin that is needed *)

(* A loop of n allocations takes at most n VNIs. *)
LEMMA FewTaken ==
  ASSUME NEW p, PoolOK(p), NEW n \in Nat, NEW got \in Allocations(p, n)
  PROVE  IsFiniteSet(Vnis(got)) /\ Cardinality(Vnis(got)) \in Nat /\ Cardinality(Vnis(got)) <= n
<1>1. got \in [1 .. n -> p.free] /\ DOMAIN got = 1 .. n
  BY DEF Allocations
<1>2. got \in Surjection(1 .. n, Vnis(got))
  BY <1>1 DEF Surjection, Vnis
<1>3. IsFiniteSet(1 .. n) /\ Cardinality(1 .. n) = n
  BY FS_Interval
<1>4. IsFiniteSet(Vnis(got)) /\ Cardinality(Vnis(got)) <= n
  BY <1>2, <1>3, FS_Surjection
<1> QED BY <1>4, FS_CardinalityType

(* Every step of the nodes' scripts and of the plugin, seen from the pool.  *)
LEMMA NextTurns ==
  ASSUME NodesOK, [Next]_vars
  PROVE  PluginTypeOK' /\ NoneLeft' /\ Turns
<1> DEFINE Fine == PluginTypeOK' /\ NoneLeft' /\ Turns
<1> USE DEF NodesOK
<1>1. FaultKinds = {"exception", "warning", "post", "config", "restart", "timeout", "device",
                    "destroy", "clean"}
  BY DEF FaultKinds
<1>2. ASSUME PluginNext PROVE Fine
  <2>1. PluginTypeOK' /\ Effect
    BY <1>2, StepOK
  <2>2. NoneLeft'
    BY <2>1, NoneLeftStep
  <2>3. Turns
    BY <1>2, PluginTurns
  <2> QED BY <2>1, <2>2, <2>3
<1>3. ASSUME vp' = vp, ctx' = ctx, job' = job, idle' = idle,
             faults' = faults \/ \E kind \in FaultKinds : Spend(kind)
      PROVE  Fine
  <2>1. PluginTypeOK' /\ NoneLeft'
    BY <1>3, PluginStays
  <2>2. Turns
    BY <1>3 DEF Turns, Quiet, NothingTold
  <2> QED BY <2>1, <2>2
<1>4. ASSUME PluginStep \/ \E j \in Jobs : Start(j) \/ Clean(j) PROVE Fine
  BY <1>2, <1>4 DEF PluginStep, PluginNext
<1>5. ASSUME NEW j \in Jobs, FailedProlog(j) PROVE Fine
  <2>1. /\ PluginTypeOK' /\ NoneLeft'
        /\ Raise(vp, j) /\ idle' = Idle(vp', {})
    BY <1>5, ProlFails
  <2>2. PoolOK(vp) /\ idle \in [ValidVnis -> SUBSET ValidVnis]
    BY DEF PluginTypeOK, PoolOK
  <2>3. /\ job'[j].state = "CLEANUP" /\ Told(job'[j].log) = Told(job[j].log)
        /\ \A k \in Jobs \ {j} : job'[k] = job[k]
        /\ vp'.universe = vp.universe /\ vp'.last = vp.last /\ vp.free \subseteq vp'.free
    BY <2>1, <2>2, RaiseTurns
  <2>4. \A v \in ValidVnis : idle'[v] \subseteq idle[v]
    BY <2>1 DEF Idle
  <2>5. \A k \in Jobs : /\ job'[k].state = "SCHED" => job[k].state = "SCHED"
                        /\ Told(job'[k].log) \subseteq Told(job[k].log)
    BY <2>3
  <2>6. Turns
    BY <2>3, <2>4, <2>5 DEF Turns, Quiet, NothingTold
  <2> QED BY <2>1, <2>6
<1>6. ASSUME NEW j \in Jobs, Step(j) PROVE Fine
  <2>1. CASE FailedProlog(j)
    BY <1>5, <2>1
  <2>2. CASE StartTasks(j) \/ CleanJob(j)
    BY <1>4, <2>2 DEF StartTasks, CleanJob
  <2>3. CASE \/ cmd_prolog(j) \/ PrologEnds(j)
             \/ EpilogStart(j) \/ HousekeepingStart(j) \/ EpilogRetry(j) \/ EpilogEnd(j)
             \/ \E d \in Devices :
                  \/ allocate_cxi_service_device(j, d) \/ cray_slingshot_reserved(j, d)
                  \/ destroy_cxi_service_device(j, d) \/ DestroyBusy(j, d)
    <3>1. UNCHANGED plugin
      BY <2>3
         DEF cmd_prolog, PrologEnds, EpilogStart, HousekeepingStart, EpilogRetry, EpilogEnd,
             allocate_cxi_service_device, cray_slingshot_reserved, destroy_cxi_service_device,
             DestroyBusy
    <3> QED BY <1>3, <3>1 DEF plugin
  <2>4. CASE \/ \E d \in Devices : ProlOpenFails(j, d) \/ DestroyFails(j, d)
             \/ LookupTimesOut(j) /\ ~FailedProlog(j)
    <3>1. vp' = vp /\ ctx' = ctx /\ job' = job /\ idle' = idle
          /\ (Spend("device") \/ Spend("destroy") \/ Spend("timeout"))
      BY <2>4 DEF ProlOpenFails, DestroyFails, LookupTimesOut, FailedProlog
    <3>2. \E kind \in FaultKinds : Spend(kind)
      BY <1>1, <3>1
    <3> QED BY <1>3, <3>1, <3>2
  <2> HIDE DEF Fine
  <2> QED BY <1>6, <2>1, <2>2, <2>3, <2>4 DEF Step, Destroy, FailedProlog
<1>7. ASSUME NEW d \in Devices, cmd_clean(d) PROVE Fine
  <2>1. vp' = vp /\ ctx' = ctx /\ job' = job /\ idle' = idle /\ Spend("clean")
    BY <1>7 DEF cmd_clean
  <2>2. \E kind \in FaultKinds : Spend(kind)
    BY <1>1, <2>1
  <2> QED BY <1>3, <2>1, <2>2
<1>8. ASSUME UNCHANGED system PROVE Fine
  BY <1>3, <1>8 DEF system
<1>9. \/ PluginStep \/ \E j \in Jobs : Step(j)
      \/ \E d \in Devices : cmd_clean(d)
      \/ UNCHANGED system
  BY DEF Next, Act, Through, vars, system
<1> HIDE DEF Fine
<1>10. Fine
  <2>1. CASE PluginStep
    BY <1>4, <2>1
  <2>2. CASE \E j \in Jobs : Step(j)
    BY <1>6, <2>2
  <2>3. CASE \E d \in Devices : cmd_clean(d)
    BY <1>7, <2>3
  <2> QED BY <1>8, <1>9, <2>1, <2>2, <2>3
<1> QED BY <1>10 DEF Fine

(* While a job waits to run: of every free VNI that a job with services was *)
(* told, at least as many others as may be asked for have been free ever    *)
(* since it was taken.                                                      *)
Margin ==
  (\E j \in Jobs : job[j].state = "SCHED") =>
    \A k \in Jobs : Undestroyed(k) =>
      \A v \in Told(job[k].log) \cap vp.free : \A r \in Requests :
        VniCount(r) <= Cardinality(idle[v])

(* Then round-robin passes these VNIs by. *)
LEMMA PassedBy ==
  ASSUME PluginTypeOK, RoundInv, Margin, NEW j \in Jobs, NEW r \in Requests,
         NEW got \in Allocations(vp, VniCount(r)), Takes(j, r, got),
         NEW k \in Jobs, Undestroyed(k)
  PROVE  Told(job[k].log) \cap Vnis(got) = {}
<1> SUFFICES ASSUME NEW v \in Told(job[k].log), v \in Vnis(got) PROVE FALSE
  OBVIOUS
<1> DEFINE n == VniCount(r)
<1>1. PoolOK(vp) /\ n \in Nat /\ n > 0 /\ got \in Allocations(vp, n)
  BY DEF Takes, PluginTypeOK, PoolOK
<1>2. ValidVnis \subseteq Int /\ vp.last \in Int /\ vp.free \subseteq ValidVnis
  <2>1. ValidVnis \subseteq Int /\ NoId \in Int
    BY VniAssumption DEF NoId
  <2> QED BY <2>1 DEF PluginTypeOK, PoolOK, Pools
<1> HIDE DEF n
<1>3. /\ v \in vp.free /\ v \in ValidVnis /\ v \in Int
      /\ \A w \in vp.free \ Vnis(got) : Before(v, w, vp.last)
  BY <1>1, <1>2, TakenFirst
<1>4. /\ IsFiniteSet(Vnis(got)) /\ Cardinality(Vnis(got)) \in Nat
      /\ Cardinality(Vnis(got)) <= n
  BY <1>1, FewTaken
<1>5. idle[v] \subseteq Vnis(got) /\ v \notin idle[v]
  <2>1. \A w \in idle[v] : w \in vp.free /\ w \in Int /\ Before(w, v, vp.last)
    BY <1>2, <1>3 DEF RoundInv
  <2>2. \A w \in idle[v] : ~Before(v, w, vp.last)
    BY <1>2, <1>3, <2>1, Rotate
  <2>3. ~Before(v, v, vp.last)
    BY <1>2, <1>3 DEF Before
  <2> QED BY <1>3, <2>1, <2>2, <2>3
<1>6. n <= Cardinality(idle[v])
  BY <1>3 DEF Margin, Takes, n
<1>7. Cardinality(idle[v]) <= Cardinality(Vnis(got)) - 1 /\ Cardinality(idle[v]) \in Nat
  <2> DEFINE S == Vnis(got) \ {v}
  <2>1. IsFiniteSet(S) /\ Cardinality(S) = Cardinality(Vnis(got)) - 1
    BY <1>4, FS_RemoveElement
  <2>2. idle[v] \in SUBSET S
    BY <1>5
  <2> HIDE DEF S
  <2> QED BY <2>1, <2>2, FS_Subset, FS_CardinalityType
<1> QED BY <1>1, <1>4, <1>6, <1>7

(* A job is not destroyed later than it was: only its own prolog makes      *)
(* services, and the scripts of a job that is through are not run again.    *)
LEMMA NextUndestroyed ==
  ASSUME NodesOK, [Next]_vars
  PROVE  /\ \A k \in Jobs : Undestroyed(k)' => Undestroyed(k)
         /\ \A k \in Jobs : job'[k].state = "RUN" => Undestroyed(k)
<1>1. /\ svc \in [Devices -> Seq(Services)] /\ node \in [Jobs -> Scripts]
      /\ job \in [Jobs -> JobRecs] /\ PluginTypeOK /\ NoneLeft
      /\ \A k \in Jobs : LogOK(job[k]) /\ ScriptOK(node[k], job[k], Placed(k), Twice(k))
  BY DEF NodesOK, NodeInv, NodeTypes, PluginTypeOK, JobRecs
<1>2. \A k \in Jobs : node[k].stage \notin Over => Undestroyed(k)
  BY DEF Undestroyed, Over
<1>3. \A k \in Jobs : job[k].state \in {"SCHED", "RUN"} => Undestroyed(k)
  BY <1>1, <1>2 DEF ScriptOK, Over
<1>4. ASSUME NEW k \in Jobs, Moves(job[k], job'[k]) \/ Starts(job[k], job'[k]),
             job'[k].state = "RUN"
      PROVE  Undestroyed(k)
  BY <1>1, <1>3, <1>4, MovesOK
<1>5. ASSUME NEW j \in Jobs, Step(j)
      PROVE  /\ Undestroyed(j)
             /\ \A k \in Jobs \ {j} : node'[k] = node[k]
             /\ \A k \in Jobs \ {j} : \A d \in Devices : HasService(k, d)' => HasService(k, d)
             /\ \A k \in Jobs : job'[k].state = "RUN" => Undestroyed(k)
  <2>1. node[j].stage \notin Over
    <3>1. job[j].state = "RUN" => node[j].stage \notin Over
      BY <1>1 DEF ScriptOK, Over
    <3> QED
      BY <1>5, <3>1
         DEF Step, Over, cmd_prolog, PrologEnds, StartTasks, EpilogStart, HousekeepingStart,
             EpilogRetry, EpilogEnd, LookupTimesOut, CleanJob, allocate_cxi_service_device,
             cray_slingshot_reserved, ProlOpenFails, ProlAllocFails, Destroy,
             destroy_cxi_service_device, DestroyBusy, DestroyFails, Cleaning
  <2>2. \A k \in Jobs \ {j} : node'[k] = node[k]
    BY <1>1, <1>5
       DEF Step, cmd_prolog, PrologEnds, StartTasks, EpilogStart, HousekeepingStart,
           EpilogRetry, EpilogEnd, LookupTimesOut, CleanJob, allocate_cxi_service_device,
           cray_slingshot_reserved, ProlOpenFails, ProlAllocFails, Destroy,
           destroy_cxi_service_device, DestroyBusy, DestroyFails
  <2>3. ASSUME NEW k \in Jobs \ {j}, NEW d \in Devices, HasService(k, d)'
        PROVE  HasService(k, d)
    <3>1. PICK i \in DOMAIN svc'[d] : svc'[d][i].job = k
      BY <2>3 DEF HasService
    <3>2. CASE svc' = svc
      BY <3>1, <3>2 DEF HasService
    <3>3. ASSUME NEW e \in Devices, allocate_cxi_service_device(j, e) PROVE HasService(k, d)
      <4> DEFINE s == [uid |-> Owner[j], vnis |-> lookup_reservation(j), job |-> j]
      <4>1. svc' = [svc EXCEPT ![e] = Append(svc[e], s)]
        BY <3>3 DEF allocate_cxi_service_device
      <4>2. CASE e # d
        BY <1>1, <3>1, <4>1, <4>2 DEF HasService
      <4>3. CASE e = d
        <5>1. svc'[d] = Append(svc[d], s) /\ svc[d] \in Seq(Services) /\ s.job = j
          BY <1>1, <4>1, <4>3
        <5> HIDE DEF s
        <5>2. \A a \in DOMAIN Append(svc[d], s) :
                Append(svc[d], s)[a] = s \/ \E b \in DOMAIN svc[d] : Append(svc[d], s)[a] = svc[d][b]
          BY <5>1
        <5> QED BY <3>1, <5>1, <5>2 DEF HasService
      <4> QED BY <4>2, <4>3
    <3>4. ASSUME NEW e \in Devices, destroy_cxi_service_device(j, e) PROVE HasService(k, d)
      <4>1. svc' = [svc EXCEPT ![e] =
              IF Matches(j, e) = {} THEN svc[e] ELSE RemoveAt(svc[e], FirstMatch(j, e))]
        BY <3>4 DEF destroy_cxi_service_device
      <4>2. CASE e # d \/ Matches(j, e) = {}
        BY <1>1, <3>1, <4>1, <4>2 DEF HasService
      <4>3. CASE e = d /\ Matches(j, d) # {}
        <5>1. svc'[d] = RemoveAt(svc[d], FirstMatch(j, d)) /\ svc[d] \in Seq(Services)
          BY <1>1, <4>1, <4>3
        <5>2. FirstMatch(j, d) \in DOMAIN svc[d]
          <6>1. Matches(j, d) \subseteq DOMAIN svc[d] /\ DOMAIN svc[d] \subseteq Nat
            BY <5>1 DEF Matches
          <6> QED BY <4>3, <6>1, MinOK DEF FirstMatch
        <5>3. Within(svc'[d], svc[d])
          BY <5>1, <5>2, RemoveOK
        <5> QED BY <3>1, <5>3 DEF HasService, Within
      <4> QED BY <4>2, <4>3
    <3>5. \/ svc' = svc
          \/ \E e \in Devices :
               allocate_cxi_service_device(j, e) \/ destroy_cxi_service_device(j, e)
      BY <1>5
         DEF Step, cmd_prolog, PrologEnds, StartTasks, EpilogStart, HousekeepingStart,
             EpilogRetry, EpilogEnd, LookupTimesOut, CleanJob, cray_slingshot_reserved, ProlOpenFails,
             ProlAllocFails, Destroy, DestroyBusy, DestroyFails
    <3> QED BY <3>2, <3>3, <3>4, <3>5
  <2>4. \A k \in Jobs : job'[k].state = "RUN" => Undestroyed(k)
    <3>1. CASE StartTasks(j)
      <4>1. Starts(job[j], job'[j]) /\ \A k \in Jobs \ {j} : job'[k] = job[k]
        BY <1>1, <3>1, StartMoves DEF StartTasks
      <4> QED BY <1>3, <1>4, <4>1
    <3>2. CASE CleanJob(j)
      <4>1. \A k \in Jobs : Moves(job[k], job'[k])
        BY <1>1, <3>2, PluginMoves DEF CleanJob
      <4> QED BY <1>4, <4>1
    <3>3. CASE FailedProlog(j)
      <4>1. Moves(job[j], job'[j]) /\ \A k \in Jobs \ {j} : job'[k] = job[k]
        BY <1>1, <3>3, ProlFails DEF NodesOK
      <4> QED BY <1>3, <1>4, <4>1
    <3>4. \/ job' = job \/ StartTasks(j) \/ CleanJob(j)
          \/ FailedProlog(j)
      BY <1>5
         DEF Step, cmd_prolog, PrologEnds, EpilogStart, HousekeepingStart, EpilogRetry,
             EpilogEnd, allocate_cxi_service_device, cray_slingshot_reserved, ProlOpenFails,
             Destroy, destroy_cxi_service_device, DestroyBusy, DestroyFails, LookupTimesOut,
             FailedProlog, plugin
    <3> QED BY <1>3, <3>1, <3>2, <3>3, <3>4
  <2> QED BY <1>2, <2>1, <2>2, <2>3, <2>4
<1>6. ASSUME NEW d \in Devices, cmd_clean(d)
      PROVE  /\ node' = node /\ job' = job
             /\ \A k \in Jobs : \A e \in Devices : HasService(k, e)' => HasService(k, e)
  <2>1. PICK busy \in SUBSET {j \in Jobs : Started(j)} :
          svc' = [svc EXCEPT ![d] = destroy_all(svc[d], busy)]
    BY <1>6 DEF cmd_clean
  <2>2. Within(destroy_all(svc[d], busy), svc[d])
    BY <1>1, DestroyAllOK
  <2>3. svc'[d] = destroy_all(svc[d], busy) /\ \A e \in Devices \ {d} : svc'[e] = svc[e]
    BY <1>1, <2>1
  <2>4. \A e \in Devices : Within(svc'[e], svc[e])
    BY <2>2, <2>3 DEF Within
  <2> QED BY <1>6, <2>4 DEF cmd_clean, HasService, Within
<1>7. ASSUME svc' = svc, node' = node
      PROVE  \A k \in Jobs : Undestroyed(k)' => Undestroyed(k)
  BY <1>7 DEF Undestroyed, HasService
<1>8. CASE PluginStep /\ UNCHANGED <<svc, node>>
  <2>1. \A k \in Jobs : Moves(job[k], job'[k])
    BY <1>1, <1>8, PluginMoves
  <2> QED BY <1>4, <1>7, <1>8, <2>1
<1>9. CASE UNCHANGED system
  BY <1>3, <1>7, <1>9 DEF system
<1>10. CASE \E j \in Jobs : Step(j)
  <2>1. PICK j \in Jobs : Step(j)
    BY <1>10
  <2>2. /\ Undestroyed(j) /\ \A k \in Jobs \ {j} : node'[k] = node[k]
        /\ \A k \in Jobs \ {j} : \A d \in Devices : HasService(k, d)' => HasService(k, d)
        /\ \A k \in Jobs : job'[k].state = "RUN" => Undestroyed(k)
    BY <1>5, <2>1
  <2>3. \A k \in Jobs \ {j} : Undestroyed(k)' => Undestroyed(k)
    BY <2>2 DEF Undestroyed
  <2> QED BY <2>2, <2>3
<1>11. CASE \E d \in Devices : cmd_clean(d)
  <2>1. /\ node' = node /\ job' = job
        /\ \A k \in Jobs : \A e \in Devices : HasService(k, e)' => HasService(k, e)
    BY <1>6, <1>11
  <2> QED BY <1>3, <2>1 DEF Undestroyed
<1> QED BY <1>8, <1>9, <1>10, <1>11 DEF Next, Act, Through, vars, system

LEMMA MarginStep ==
  ASSUME NodesOK, RoundInv, Margin, [Next]_vars
  PROVE  NodesOK' /\ RoundInv' /\ NoReuseBeforeDestruction'
<1>1. PluginTypeOK /\ NoneLeft
  BY DEF NodesOK
<1>2. Turns
  BY NextTurns
<1>3. RoundInv'
  BY <1>1, <1>2, RoundStep
<1>4. /\ \A k \in Jobs : Undestroyed(k)' => Undestroyed(k)
      /\ \A k \in Jobs : job'[k].state = "RUN" => Undestroyed(k)
  BY NextUndestroyed
<1>5. \A j, k \in Jobs : j # k /\ Undestroyed(j) /\ Undestroyed(k) =>
        Told(job[j].log) \cap Told(job[k].log) = {}
  BY DEF NodesOK, NodeInv
<1>6. ASSUME NEW j \in Jobs, NEW k \in Jobs, j # k, Undestroyed(j), Undestroyed(k)
      PROVE  Told(job'[j].log) \cap Told(job'[k].log) = {}
  <2>1. CASE NothingTold
    BY <1>5, <1>6, <2>1 DEF NothingTold
  <2>2. ASSUME NEW i \in Jobs, NEW r \in Requests, NEW got \in Allocations(vp, VniCount(r)),
               Takes(i, r, got)
        PROVE  Told(job'[j].log) \cap Told(job'[k].log) = {}
    <3>1. /\ Told(job[j].log) \cap Vnis(got) = {} /\ Told(job[k].log) \cap Vnis(got) = {}
          /\ Told(job[j].log) \cap Told(job[k].log) = {}
      BY <1>1, <1>5, <1>6, <2>2, PassedBy
    <3>2. /\ \A l \in Jobs \ {i} : job'[l] = job[l]
          /\ Told(job'[i].log) \subseteq Told(job[i].log) \cup Vnis(got)
      BY <2>2 DEF Takes
    <3>3. CASE i = j
      BY <1>6, <3>1, <3>2, <3>3
    <3>4. CASE i = k
      BY <1>6, <3>1, <3>2, <3>4
    <3>5. CASE i # j /\ i # k
      BY <3>1, <3>2, <3>5
    <3> QED BY <3>3, <3>4, <3>5
  <2> QED BY <1>2, <2>1, <2>2 DEF Turns, Quiet, Exhausts, Renews
<1>7. NoReuseBeforeDestruction'
  <2>1. \A k \in Jobs : Reserved(k)' = Told(job'[k].log)
    BY DEF Reserved, Told
  <2> QED BY <1>4, <1>6, <2>1 DEF NoReuseBeforeDestruction
<1>8. NodesOK'
  BY <1>7, NodesStep
<1> QED BY <1>3, <1>7, <1>8

(* However many jobs there are, and however often the pool is exhausted,    *)
(* configured anew or lost with the instance: no VNI is reserved again      *)
(* before its services are destroyed, provided that the pool keeps this     *)
(* margin.  It is the whole of what the plugin relies on instead of         *)
(* waiting for the destruction.                                             *)
THEOREM MarginNoReuse == Spec /\ []Margin => []NoReuseBeforeDestruction
<1> DEFINE Inv == NodesOK /\ RoundInv /\ NoReuseBeforeDestruction
<1>1. Init => Inv
  <2> SUFFICES ASSUME Init PROVE Inv
    OBVIOUS
  <2>1. NodesOK
    BY NodesInit
  <2>2. RoundInv
    BY DEF Init, PluginInit, RoundInv
  <2>3. \A j \in Jobs : job[j].state = "SCHED"
    BY DEF Init, PluginInit
  <2>4. NoReuseBeforeDestruction
    BY <2>3 DEF NoReuseBeforeDestruction
  <2> QED BY <2>1, <2>2, <2>4
<1>2. Inv /\ Margin /\ [Next]_vars => Inv'
  BY MarginStep
<1>3. Inv => NoReuseBeforeDestruction
  OBVIOUS
<1> HIDE DEF Inv
<1> QED BY <1>1, <1>2, <1>3, PTL DEF Spec
=============================================================================
