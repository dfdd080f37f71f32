------------------------------ MODULE Allocator ------------------------------
(***************************************************************************)
(* What a pool of resources promises to the jobs that draw from it: nobody *)
(* is given what somebody else has.  Resources may get lost, and the pool  *)
(* may be reconfigured or made anew; then it knows of no holder.           *)
(***************************************************************************)
CONSTANTS
  Clients,      \* who may hold resources
  Resources     \* what there may be in the pool

VARIABLES
  free,         \* what can be taken
  held          \* held[c]: what client c holds

Nothing == [c \in Clients |-> {}]

Init == free \in SUBSET Resources /\ held = Nothing

(* A client takes something; more may be lost on the way. *)
Take(c) ==
  /\ held[c] = {}
  /\ \E S \in SUBSET free :
       /\ held' = [held EXCEPT ![c] = S]
       /\ free' \subseteq free \ S

(* A client gives up what it has; some of it may be no longer wanted. *)
Release(c) ==
  /\ held' = [held EXCEPT ![c] = {}]
  /\ free' \subseteq free \cup held[c]

Configure ==
  /\ free' \in SUBSET Resources
  /\ \A c \in Clients : free' \cap held[c] = {}
  /\ UNCHANGED held

Renew == free' \in SUBSET Resources /\ held' = Nothing

Next == (\E c \in Clients : Take(c) \/ Release(c)) \/ Configure \/ Renew

Spec == Init /\ [][Next]_<<free, held>>

(* No resource is held twice, or held and free. *)
Exclusive ==
  \A c \in Clients :
    /\ held[c] \cap free = {}
    /\ \A d \in Clients \ {c} : held[c] \cap held[d] = {}
=============================================================================
