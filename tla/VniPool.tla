------------------------------- MODULE VniPool -------------------------------
(***************************************************************************)
(* The VNI pool (src/job-manager/plugins/vnipool.c): operators on a pool   *)
(*   [universe, free, last, jobs]                                          *)
(* where universe and free are the idsets "universe" and "pool", last is   *)
(* where round-robin allocation stands in "pool", and jobs is the JSON     *)
(* object of reservations, <<>> standing for a job without an entry.       *)
(***************************************************************************)
EXTENDS Integers, Sequences, FiniteSets

CONSTANTS
  Jobs,        \* job ids
  ValidVnis,   \* VNI_VALID_SET
  MaxVnis      \* CXI_SVC_MAX_VNIS, the VNIs one CXI service can have

ASSUME VniAssumption ==
  ValidVnis \subseteq Nat /\ IsFiniteSet(ValidVnis) /\ MaxVnis \in Nat

NoId == -1     \* IDSET_INVALID_ID

Pools ==
  [universe : SUBSET ValidVnis, free : SUBSET ValidVnis,
   last : ValidVnis \cup {NoId}, jobs : [Jobs -> Seq(ValidVnis)]]

(* vnipool_create() followed by the first vnipool_configure() *)
NewPool(universe) ==
  [universe |-> universe, free |-> universe, last |-> NoId,
   jobs |-> [j \in Jobs |-> <<>>]]

Vnis(s) == {s[i] : i \in DOMAIN s}

---------------------------------------------------------------------------
(* idset_alloc() with IDSET_FLAG_ALLOC_RR takes v from the set free: the   *)
(* first member after the last one allocated, else the first member.       *)
Follows(v, free, last) ==
  /\ v \in free
  /\ LET later == {w \in free : w > last}
     IN  IF later = {} THEN \A w \in free : v <= w
                       ELSE v > last /\ \A w \in later : v <= w

(* What a loop of n calls of idset_alloc() can return. *)
Allocations(vp, n) ==
  {s \in [1..n -> vp.free] :
     \A i \in 1..n :
       Follows(s[i], vp.free \ {s[k] : k \in 1..(i - 1)},
               IF i = 1 THEN vp.last ELSE s[i - 1])}

(* mutant: no look at the universe *)
vnipool_free_array_Anyway(vp, vnis) ==
  [vp EXCEPT !.free = @ \cup Vnis(vnis)]

(* vnipool_free_array() *)
vnipool_free_array(vp, vnis) ==
  [vp EXCEPT !.free = @ \cup (Vnis(vnis) \cap vp.universe)]

(* vnipool_alloc_array() leaves the round-robin position at its last VNI.  *)
Moved(vp, got) ==
  [vp EXCEPT !.last = IF got = <<>> THEN vp.last ELSE got[Len(got)]]

(* mutant: VNIs of a failed allocation are kept *)
vnipool_reserve_Partial(vp, id, count) ==
  IF count > Cardinality(vp.free)
  THEN {[vp |-> [vp EXCEPT !.free = {}], vnis |-> <<>>]}
  ELSE {[vp |-> [Moved(vp, got) EXCEPT !.free = vp.free \ Vnis(got),
                                       !.jobs = [vp.jobs EXCEPT ![id] = got]],
         vnis |-> got] :
          got \in Allocations(vp, count)}

(* vnipool_reserve(): the possible results of reserving count VNIs for job *)
(* id.  If the pool is too small everything in it is allocated and given   *)
(* back, which moves last.                                                 *)
vnipool_reserve(vp, id, count) ==
  IF count < 0 \/ count > MaxVnis THEN {[vp |-> vp, vnis |-> <<>>]}
  ELSE IF count > Cardinality(vp.free)
  THEN {[vp |-> Moved(vp, got), vnis |-> <<>>] :
          got \in Allocations(vp, Cardinality(vp.free))}
  ELSE {[vp |-> [Moved(vp, got) EXCEPT !.free = vp.free \ Vnis(got),
                                       !.jobs = [vp.jobs EXCEPT ![id] = got]],
         vnis |-> got] :
          got \in Allocations(vp, count)}

(* vnipool_release(); ENOENT when there is no entry *)
vnipool_release(vp, id) ==
  [vnipool_free_array(vp, vp.jobs[id]) EXCEPT
     !.jobs = [vp.jobs EXCEPT ![id] = <<>>]]

(* mutant: what was allocated is free *)
vnipool_configure_Reset(vp, universe) ==
  [vp EXCEPT !.universe = universe, !.free = universe, !.last = NoId]

(* mutant: the same universe configured again makes a new pool *)
vnipool_configure_Again(vp, universe) ==
  [vp EXCEPT !.universe = universe,
             !.free = universe \ (vp.universe \ vp.free), !.last = NoId]

(* vnipool_configure() and create_vnipool(): the new pool has the members  *)
(* of the new universe that are not allocated in the old one.              *)
vnipool_configure(vp, universe) ==
  IF universe = vp.universe THEN vp
  ELSE [vp EXCEPT !.universe = universe,
                  !.free = universe \ (vp.universe \ vp.free), !.last = NoId]
=============================================================================
