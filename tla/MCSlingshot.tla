----------------------------- MODULE MCSlingshot -----------------------------
(* Instances of Slingshot: the jobs' users and mixes of faults. *)
EXTENDS Slingshot, MCSlingshotJobtap

(* The jobs are one user's: only their VNIs tell their services apart. *)
MCOwner == [j \in Jobs |-> "alice"]

(* Neither jobs of one user nor devices are told apart. *)
JobDeviceSymmetry == Permutations(Jobs) \cup Permutations(Devices)

(* After a clash, which stays, the properties of the nodes claim nothing. *)
NoClash == ~clash

NodeFaults ==
  Mixes(2, {"device", "destroy", "timeout"})
    \cup Mixes(2, {"destroy", "clean"}) \cup Mixes(1, {"warning"})
LiveFaults ==
  Mixes(2, {"exception", "restart", "destroy", "timeout", "clean"})
    \cup Mixes(1, {"config"})
=============================================================================
