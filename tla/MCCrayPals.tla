----------------------------- MODULE MCCrayPals -----------------------------
(* A small instance of CrayPals. *)
EXTENDS CrayPals

(* Five ports at the upper end, too few, and one reserved for root. *)
MCConfigs ==
  {[port_min |-> 65531, port_max |-> 65536],
   [port_min |-> 1024,  port_max |-> 1028],
   [port_min |-> 1023,  port_max |-> 1028]}

MCOptions ==
  {[pmi |-> <<"simple", "cray-pals">>, bootstrap |-> b] :
     b \in {"default", "off", "ports", "invalid"}}
  \cup {[pmi |-> <<"simple">>, bootstrap |-> "default"]}

MCPortBudget == ("fail" :> 1) @@ ("reload" :> 1)
=============================================================================
