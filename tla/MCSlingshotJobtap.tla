-------------------------- MODULE MCSlingshotJobtap --------------------------
(* Instances of the jobtap plugin: requests, pools and mixes of faults. *)
EXTENDS SlingshotJobtap, FiniteSetsExt, TLC

(* No operator of the plugin tells jobs apart. *)
JobSymmetry == Permutations(Jobs)

(* VNI 1 belongs to the default CXI service and is not valid. *)
MCValidVnis == {0, 2, 3, 4, 5}

Request(n) == [off |-> FALSE, parsed |-> TRUE, vnicount |-> n]
Off == [off |-> TRUE, parsed |-> FALSE, vnicount |-> -1]
Malformed == [off |-> FALSE, parsed |-> FALSE, vnicount |-> -1]

(* The default, none, too many, off, and an option that is no number. *)
AllRequests == {Request(n) : n \in {-1, 0, 3}} \cup {Off, Malformed}
OneVni == {Request(-1)}
OneOrOff == {Request(-1), Off}

Config(pool, n, fatal) ==
  [vni_pool |-> pool, vnis_per_job |-> n, vni_reserve_fatal |-> fatal]

(* A pool, a shifted one (which drops a VNI and adds one), an invalid pool, *)
(* and an invalid vnis-per-job.                                             *)
AllConfigs ==
  {Config({0, 2, 3}, 1, TRUE), Config({2, 3, 4}, 2, FALSE),
   Config({1, 2}, 1, TRUE), Config({0, 2, 3}, 9, FALSE)}

SmallPool == {Config({2, 3}, 1, TRUE)}
(* One or two VNIs for two jobs: apart, one after the other, or too early. *)
NarrowPools == {Config({2}, 1, FALSE), Config({2, 3}, 1, TRUE)}
ShrinkGrow == {Config({2, 3}, 1, TRUE), Config({3}, 1, TRUE)}

NoFault == [kind \in FaultKinds |-> 0]
NoFaults == {NoFault}

(* Two reconfigurations with two other faults, or one with all of them. *)
PoolFaults ==
  {[NoFault EXCEPT !["exception"] = 1, !["post"] = 1, !["config"] = 2],
   [NoFault EXCEPT !["warning"] = 1, !["restart"] = 1, !["config"] = 2],
   [NoFault EXCEPT !["exception"] = 1, !["warning"] = 1, !["post"] = 1,
                   !["restart"] = 1, !["config"] = 1]}

ConfigFaults == {[NoFault EXCEPT !["config"] = 2]}

(* One fault each of n of the kinds. *)
Mixes(n, kinds) ==
  {[kind \in FaultKinds |-> IF kind \in s THEN 1 ELSE 0] :
     s \in kSubset(n, kinds)}
=============================================================================
