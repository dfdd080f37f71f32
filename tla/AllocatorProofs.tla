--------------------------- MODULE AllocatorProofs ---------------------------
(* What every implementation of Allocator inherits. *)
EXTENDS Allocator, TLAPS

AllocInv == held \in [Clients -> SUBSET Resources] /\ free \subseteq Resources /\ Exclusive

(* An allocator never gives a resource to two clients, and never has one     *)
(* that somebody holds: what the pools of ports and of VNIs must keep.       *)
THEOREM AllocatorExclusive == Spec => []Exclusive
<1>1. Init => AllocInv
  BY DEF Init, Nothing, AllocInv, Exclusive
<1>2. ASSUME AllocInv, [Next]_<<free, held>>
      PROVE  AllocInv'
  <2>1. CASE UNCHANGED <<free, held>>
    BY <1>2, <2>1 DEF AllocInv, Exclusive
  <2>2. ASSUME NEW c \in Clients, Take(c)
        PROVE  AllocInv'
    <3>1. PICK S \in SUBSET free :
            held' = [held EXCEPT ![c] = S] /\ free' \subseteq free \ S
      BY <2>2 DEF Take
    <3>2. /\ held' \in [Clients -> SUBSET Resources] /\ free' \subseteq Resources
          /\ held'[c] = S /\ \A d \in Clients \ {c} : held'[d] = held[d]
      BY <1>2, <3>1 DEF AllocInv
    <3> QED BY <1>2, <3>1, <3>2 DEF AllocInv, Exclusive
  <2>3. ASSUME NEW c \in Clients, Release(c)
        PROVE  AllocInv'
    <3>1. /\ held' \in [Clients -> SUBSET Resources] /\ free' \subseteq Resources
          /\ held'[c] = {} /\ \A d \in Clients \ {c} : held'[d] = held[d]
      BY <1>2, <2>3 DEF AllocInv, Release
    <3> QED BY <1>2, <2>3, <3>1 DEF AllocInv, Exclusive, Release
  <2>4. CASE Configure
    BY <1>2, <2>4 DEF Configure, AllocInv, Exclusive
  <2>5. CASE Renew
    BY <1>2, <2>5 DEF Renew, Nothing, AllocInv, Exclusive
  <2> QED BY <1>2, <2>1, <2>2, <2>3, <2>4, <2>5 DEF Next
<1>3. AllocInv => Exclusive
  BY DEF AllocInv
<1> QED BY <1>1, <1>2, <1>3, PTL DEF Spec
=============================================================================
