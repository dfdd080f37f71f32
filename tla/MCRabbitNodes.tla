---------------------------- MODULE MCRabbitNodes ---------------------------
(* Two rabbits with two nodes each; one node is not Fluxion's. *)
EXTENDS RabbitNodes, TLC

CONSTANTS r1, r2, n1, n2, n3, n4

MCRabbitSeq == <<r1, r2>>
MCHostsOf == (r1 :> {n1, n2}) @@ (r2 :> {n3, n4})

Bounds(l) == [f \in Faults |-> IF f \in DOMAIN l THEN l[f] ELSE 0]

(* soft_drain makes no difference when nodes are drained, a queue when they *)
(* are not.                                                                 *)
MCConfs == {c \in Confs : IF c.drain THEN c.soft ELSE ~c.queue}

MCBreakdowns ==
  [strategy : {"AllocatePerCompute"}, count : {0}, capacity : {7}]
  \cup [strategy : {"AllocateSingleServer"}, count : {0}, capacity : {1}]
  \cup [strategy : {"AllocateAcrossServers"}, count : {0, 2, 3, 5}, capacity : {7}]

(* Rabbits and links; jobs that race for a rabbit; the systemstatus         *)
(* resource, for which the options do not matter.                           *)
MCCases ==
  [conf : MCConfs, budget : {Bounds([storage |-> 3, undrain |-> 1, crash |-> 1]),
                             Bounds([storage |-> 1, timeout |-> 1, place |-> 1])}]
  \cup
  [conf : {c \in MCConfs : ~c.fluxion /\ c.queue},
   budget : {Bounds([place |-> 2, crash |-> 1])}]
  \cup
  [conf : {c \in MCConfs : c.fluxion /\ c.queue},
   budget : {Bounds([broker |-> 2, undrain |-> 1, patch |-> 1, place |-> 1]),
             Bounds([broker |-> 2, undrain |-> 1, place |-> 1, crash |-> 1])}]

MCSymmetry == Permutations(Jobs)
=============================================================================
