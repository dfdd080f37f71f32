----------------------------- MODULE MCShellEnv -----------------------------
(* A small instance of ShellEnv: two nodes, one with two devices. *)
EXTENDS ShellEnv

MCNodes == {"node0", "node1"}
MCNics == [n \in MCNodes |-> IF n = "node0" THEN <<"cxi0", "cxi1">> ELSE <<"cxi0">>]

(* None, and two. *)
MCReservations == {<<>>, <<7, 8>>}

(* All, and fewer than all with one that has no bit. *)
MCClasses == {DefaultClasses, {"low_latency", "best_effort", "eth"}}
=============================================================================
