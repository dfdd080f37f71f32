----------------------------- MODULE MCRabbitJob -----------------------------
(* The mixes of faults for the runs of RabbitJob. *)
EXTENDS RabbitJob

Mix(kinds) == [kind \in FaultKinds |-> IF kind \in kinds THEN 1 ELSE 0]

(* Any three of: an exception from outside, a failing call, a death of the  *)
(* service, a restart of the watch; or one of the first two while another   *)
(* plugin has a prolog or an epilog.                                        *)
FaultsBudgets ==
  {Mix({"cancel", "api", "crash"}), Mix({"cancel", "crash", "relist"}),
   Mix({"cancel", "api", "relist"}), Mix({"api", "crash", "relist"}),
   Mix({"cancel", "perilog"}), Mix({"api", "perilog"})}

(* Cancelled twice, or once with a TransientCondition, and a restart of the *)
(* watch; or once while another plugin has a prolog or an epilog.           *)
LiveBudgets ==
  {[Mix({"relist"}) EXCEPT !["cancel"] = 2], Mix({"cancel", "tc", "relist"}),
   Mix({"cancel", "perilog"})}

(* The service dies, a call fails and DWS gives up; or DWS has trouble and  *)
(* somebody deletes the Workflow.                                           *)
LastResortBudgets ==
  {Mix({"crash", "api", "error"}),
   Mix({"tc", "error", "delete"})}
=============================================================================
