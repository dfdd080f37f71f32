------------------------- MODULE DirectiveBreakdown -------------------------
(***************************************************************************)
(* directivebreakdown.py: where the allocations that a breakdown asks for  *)
(* are placed, as setup_cb() writes them into a Servers resource.          *)
(*   nodes_per_nnf   how many of the job's nodes each of its rabbits has   *)
(***************************************************************************)
EXTENDS Naturals, Sequences, FiniteSets, Functions

LOCAL INSTANCE FiniteSetsExt

Strategies == {"AllocatePerCompute", "AllocateSingleServer", "AllocateAcrossServers"}

Divides(d, n) == n % d = 0
Gcd(numbers) == Max({d \in 1 .. Min(numbers) : \A n \in numbers : Divides(d, n)})
(* math.ceil() of a quotient of floats, which is exact for the numbers here: *)
(* below 2^53 bytes, a quotient that is not whole is never rounded to one. *)
Ceil(a, b) == (a + b - 1) \div b

(* mutant: each rabbit is given one of the allocations at most *)
CountsPerRabbit_Once(nodes_per_nnf, count) ==
  LET Rank(r) == Cardinality({s \in DOMAIN nodes_per_nnf : nodes_per_nnf[s] > nodes_per_nnf[r]})
  IN  [r \in {s \in DOMAIN nodes_per_nnf : Rank(s) < count} |-> 1]

(* A fixed number of allocations goes to the rabbits with most of the nodes *)
(* first, which are taken again while there are more allocations; Counter   *)
(* keeps equals in their order, of which any may come first.                *)
CountsPerRabbit(nodes_per_nnf, count) ==
  LET rabbits == DOMAIN nodes_per_nnf
      n       == Cardinality(rabbits)
      order   == CHOOSE f \in Bijection(1 .. n, rabbits) :
                   \A i, k \in 1 .. n : i < k => nodes_per_nnf[f[i]] >= nodes_per_nnf[f[k]]
      Given(i) == count \div n + (IF i <= count % n THEN 1 ELSE 0)
  IN  [r \in {order[i] : i \in {k \in 1 .. n : Given(k) > 0}} |->
         Given(CHOOSE i \in 1 .. n : order[i] = r)]

(* One allocation set: [strategy, count, capacity], count = 0 if there is   *)
(* no constraint on it.                                                     *)
build_allocation_sets(set, nodes_per_nnf, compute_node_count, min_alloc_size) ==
  LET count == IF set.strategy = "AllocateSingleServer" THEN 1 ELSE set.count
      gcd   == Gcd({nodes_per_nnf[r] : r \in DOMAIN nodes_per_nnf})
      asked ==
        CASE set.strategy = "AllocatePerCompute" ->
               [size |-> set.capacity, storage |-> nodes_per_nnf]
          [] set.strategy # "AllocatePerCompute" /\ count > 0 ->
               [size |-> Ceil(set.capacity, count),
                storage |-> CountsPerRabbit(nodes_per_nnf, count)]
          [] OTHER ->
               [size |-> Ceil(gcd * set.capacity, compute_node_count),
                storage |-> [r \in DOMAIN nodes_per_nnf |-> nodes_per_nnf[r] \div gcd]]
  IN  [asked EXCEPT !.size = Max({@, min_alloc_size})]
=============================================================================
