---------------------------- MODULE SystemStatus ----------------------------
(***************************************************************************)
(* systemstatus.py: which nodes are Disabled in Kubernetes' systemstatus   *)
(* resource.  m is the manager's state: _last_online and _drained.         *)
(***************************************************************************)
EXTENDS Naturals, Sequences, FiniteSets

(* mutant: a node that comes online is enabled first and last *)
_patch_resource_OnlineWins(st, m, newly_online, newly_offline) ==
  [n \in DOMAIN st |->
     IF n \in newly_online THEN "Enabled"
     ELSE IF n \in newly_offline \cup m.drained THEN "Disabled" ELSE st[n]]

(* The patch names nodes as Enabled, then the offline and the drained ones  *)
(* as Disabled, and leaves the others alone.                                *)
_patch_resource(st, m, newly_online, newly_offline) ==
  [n \in DOMAIN st |->
     IF n \in newly_offline \cup m.drained THEN "Disabled"
     ELSE IF n \in newly_online THEN "Enabled" ELSE st[n]]

NoManager == [last_online |-> {}, drained |-> {}]
=============================================================================
