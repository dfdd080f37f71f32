------------------------------ MODULE PmiProofs ------------------------------
(***************************************************************************)
(* Proofs about the pool of ports, for any number of jobs and any          *)
(* configuration: the ports of running jobs are their own and come back,   *)
(* and the pool is an allocator; and about the shells, whose tasks all get *)
(* the ports of their job.                                                 *)
(***************************************************************************)
EXTENDS CrayPals, EventlogProofs, FiniteSetTheorems, TLAPS

(* Nothing is in the array twice. *)
Injective(r) ==
  \A a, b \in 0 .. r.fill - 1 : r.available[a] = r.available[b] => a = b

RangeOK(r) == RangeTypeOK(r) /\ Injective(r)

---------------------------------------------------------------------------
(* get_port() hands out what is in the array, and only once. *)
LEMMA GetPort ==
  ASSUME NEW r, RangeOK(r)
  PROVE  LET g == get_port(r)
         IN  /\ RangeOK(g.range)
             /\ \/ g.port = -1 /\ g.range = r
                \/ /\ g.port \in PortNumbers
                   /\ g.port \in Filled(r)
                   /\ Filled(g.range) = Filled(r) \ {g.port}
<1>1. CASE r.fill <= 0
  BY <1>1 DEF get_port
<1>2. CASE ~(r.fill <= 0)
  <2> DEFINE q == [available |-> [i \in 0 .. r.fill - 2 |-> r.available[i]],
                   fill      |-> r.fill - 1,
                   maxsize   |-> r.maxsize]
             p == r.available[r.fill - 1]
  <2>1. get_port(r) = [port |-> p, range |-> q]
    BY <1>2 DEF get_port
  <2>2. /\ r.fill \in Nat /\ r.maxsize \in Nat /\ r.fill <= r.maxsize /\ r.fill > 0
        /\ r.available \in [0 .. r.fill - 1 -> PortNumbers]
    BY <1>2 DEF RangeOK, RangeTypeOK
  <2>3. /\ q.fill = r.fill - 1 /\ q.maxsize = r.maxsize
        /\ q.available = [i \in 0 .. r.fill - 2 |-> r.available[i]]
    OBVIOUS
  <2>4. RangeTypeOK(q)
    <3>1. q = [available |-> q.available, fill |-> q.fill, maxsize |-> q.maxsize]
      OBVIOUS
    <3>2. 0 .. q.fill - 1 = 0 .. r.fill - 2
      BY <2>2, <2>3
    <3>3. q.available \in [0 .. q.fill - 1 -> PortNumbers]
      BY <2>2, <2>3, <3>2
    <3> QED BY <2>2, <2>3, <3>1, <3>3 DEF RangeTypeOK
  <2>5. \A a \in 0 .. q.fill - 1 : a \in 0 .. r.fill - 1 /\ q.available[a] = r.available[a]
    BY <2>2, <2>3
  <2>6. Injective(q)
    <3> HIDE DEF q
    <3> QED BY <2>5 DEF Injective, RangeOK
  <2>7. p \in PortNumbers /\ p \in Filled(r)
    BY <2>2 DEF Filled
  <2>8. Filled(q) = Filled(r) \ {p}
    <3>1. ASSUME NEW a \in 0 .. q.fill - 1
          PROVE  q.available[a] \in Filled(r) \ {p}
      <4>1. a # r.fill - 1 /\ r.fill - 1 \in 0 .. r.fill - 1
        BY <2>2, <2>3
      <4> QED BY <2>5, <4>1 DEF Filled, Injective, RangeOK
    <3>2. ASSUME NEW a \in 0 .. r.fill - 1, r.available[a] # p
          PROVE  r.available[a] \in Filled(q)
      <4>1. a \in 0 .. q.fill - 1
        BY <2>2, <2>3, <3>2
      <4> QED BY <2>5, <4>1 DEF Filled
    <3> HIDE DEF p, q
    <3> QED BY <3>1, <3>2 DEF Filled
  <2> HIDE DEF p, q
  <2> QED BY <2>1, <2>4, <2>6, <2>7, <2>8 DEF RangeOK
<1> QED BY <1>1, <1>2

(* set_port() puts back what is not there, or refuses. *)
LEMMA SetPort ==
  ASSUME NEW r, RangeOK(r), NEW p \in PortNumbers, p \notin Filled(r)
  PROVE  /\ RangeOK(set_port(r, p))
         /\ Filled(set_port(r, p)) \subseteq Filled(r) \cup {p}
<1>1. CASE r.fill >= r.maxsize
  BY <1>1 DEF set_port
<1>2. CASE ~(r.fill >= r.maxsize)
  <2> DEFINE q == [available |-> [i \in 0 .. r.fill |->
                                    IF i < r.fill THEN r.available[i] ELSE p],
                   fill      |-> r.fill + 1,
                   maxsize   |-> r.maxsize]
  <2>1. set_port(r, p) = q
    BY <1>2 DEF set_port
  <2>2. /\ r.fill \in Nat /\ r.maxsize \in Nat /\ r.fill < r.maxsize
        /\ r.available \in [0 .. r.fill - 1 -> PortNumbers]
    BY <1>2 DEF RangeOK, RangeTypeOK
  <2>3. /\ q.fill = r.fill + 1 /\ q.maxsize = r.maxsize
        /\ q.available = [i \in 0 .. r.fill |-> IF i < r.fill THEN r.available[i] ELSE p]
    OBVIOUS
  <2>4. RangeTypeOK(q)
    <3>1. q = [available |-> q.available, fill |-> q.fill, maxsize |-> q.maxsize]
      OBVIOUS
    <3>2. 0 .. q.fill - 1 = 0 .. r.fill
      BY <2>2, <2>3
    <3>3. \A i \in 0 .. r.fill : (IF i < r.fill THEN r.available[i] ELSE p) \in PortNumbers
      BY <2>2
    <3>4. q.available \in [0 .. q.fill - 1 -> PortNumbers]
      BY <2>3, <3>2, <3>3
    <3> QED BY <2>2, <2>3, <3>1, <3>4 DEF RangeTypeOK
  <2>5. \A a \in 0 .. q.fill - 1 :
          \/ a \in 0 .. r.fill - 1 /\ q.available[a] = r.available[a]
          \/ a = r.fill /\ q.available[a] = p
    BY <2>2, <2>3
  <2> HIDE DEF q
  <2>6. Injective(q)
    BY <2>5 DEF Injective, RangeOK, Filled
  <2>7. Filled(q) \subseteq Filled(r) \cup {p}
    BY <2>5 DEF Filled
  <2> QED BY <2>1, <2>4, <2>6, <2>7 DEF RangeOK
<1> QED BY <1>1, <1>2

(* flux_plugin_init() makes a pool of ports a job may use. *)
LEMMA FreshRange ==
  ASSUME NEW conf \in Configs
  PROVE  RangeOK(flux_plugin_init(conf))
<1> DEFINE size == conf.port_max - conf.port_min
           q == [available |-> [i \in 0 .. size - 1 |-> conf.port_min + i],
                 fill |-> size, maxsize |-> size]
<1>1. conf.port_min \in Int /\ conf.port_max \in Int
  BY ConfigsAreIntegers
<1>0. MinPort \in Int /\ PortLimit \in Int
  BY DEF MinPort, PortLimit
<1>2. CASE flux_plugin_init(conf) = Unloaded
  <2>1. /\ Unloaded.available = [i \in 0 .. -1 |-> 0] /\ Unloaded.fill = 0
        /\ Unloaded.maxsize = 0
        /\ Unloaded = [available |-> Unloaded.available, fill |-> Unloaded.fill,
                       maxsize |-> Unloaded.maxsize]
    BY DEF Unloaded
  <2>2. 0 .. -1 = {}
    OBVIOUS
  <2>3. [i \in 0 .. -1 |-> 0] \in [0 .. 0 - 1 -> PortNumbers]
    BY <2>2
  <2> QED BY <1>2, <2>1, <2>2, <2>3 DEF RangeOK, RangeTypeOK, Injective
<1>3. CASE flux_plugin_init(conf) # Unloaded
  <2>1. /\ conf.port_min >= MinPort /\ conf.port_max <= PortLimit /\ size >= MinSize
        /\ flux_plugin_init(conf) = q
    BY <1>0, <1>1, <1>3, MinSizePositive DEF flux_plugin_init
  <2>2. /\ q.fill = size /\ q.maxsize = size
        /\ q.available = [i \in 0 .. size - 1 |-> conf.port_min + i]
        /\ q = [available |-> q.available, fill |-> q.fill, maxsize |-> q.maxsize]
    OBVIOUS
  <2>3. size \in Nat /\ \A i \in 0 .. size - 1 : conf.port_min + i \in PortNumbers
    <3>1. MinSize \in Nat /\ size \in Int
      BY <1>1, MinSizePositive
    <3>2. size \in Nat
      <4> HIDE DEF size
      <4> QED BY <2>1, <3>1
    <3>3. ASSUME NEW i \in 0 .. size - 1
          PROVE  conf.port_min + i \in PortNumbers
      <4> DEFINE lo == conf.port_min
                 hi == conf.port_max
      <4>1. i \in Int /\ 0 <= i /\ i <= hi - lo - 1 /\ lo >= MinPort /\ hi <= PortLimit
        BY <1>0, <1>1, <2>1
      <4>2. lo \in Int /\ hi \in Int
        BY <1>1
      <4> HIDE DEF lo, hi
      <4>3. lo + i \in MinPort .. PortLimit - 1
        BY <1>0, <4>1, <4>2
      <4> QED BY <4>3 DEF lo, PortNumbers
    <3> HIDE DEF size
    <3> QED BY <3>2, <3>3
  <2>4. [i \in 0 .. size - 1 |-> conf.port_min + i] \in [0 .. size - 1 -> PortNumbers]
    BY <2>3
  <2>5. Injective(q)
    BY <1>1, <2>2, <2>3 DEF Injective
  <2> QED BY <2>1, <2>2, <2>3, <2>4, <2>5 DEF RangeOK, RangeTypeOK
<1> QED BY <1>2, <1>3

---------------------------------------------------------------------------
(* What makes UniquePorts inductive: the array holds nothing twice, a job   *)
(* has no ports before RUN, and the aux item repeats the event.             *)
Disjointness ==
  \A j \in Jobs :
    /\ ToldPorts(j) \cap FreePorts = {}
    /\ ToldPorts(j) # {} => event[j][1] # event[j][2]
    /\ \A k \in Jobs \ {j} : ToldPorts(j) \cap ToldPorts(k) = {}

JobInv ==
  \A j \in Jobs :
    /\ jobState[j] \in {"NONE", "SCHED"} => aux[j] = <<>> /\ event[j] = <<>> /\ ~stale[j]
    /\ aux[j] # <<>> => event[j] = aux[j] /\ ~stale[j]

PortInv == PortTypeOK /\ Injective(range) /\ Disjointness /\ JobInv

LEMMA RangeIsOK ==
  ASSUME PortInv
  PROVE  RangeOK(range)
BY DEF PortInv, PortTypeOK, RangeOK

LEMMA PairElements ==
  ASSUME NEW pair \in PortPairs
  PROVE  /\ pair = <<>> => Elements(pair) = {}
         /\ pair # <<>> => /\ pair[1] \in PortNumbers /\ pair[2] \in PortNumbers
                           /\ Elements(pair) = {pair[1], pair[2]}
BY DEF PortPairs, Elements

LEMMA InitInv ==
  ASSUME PortInit
  PROVE  PortInv
<1>1. PICK conf \in Configs : range = flux_plugin_init(conf)
  BY DEF PortInit
<1>2. RangeOK(range)
  BY <1>1, FreshRange
<1>3. PortTypeOK
  BY <1>2, PortBudgetCounts DEF PortInit, PortTypeOK, RangeOK, States, PortPairs
<1>4. \A j \in Jobs : ToldPorts(j) = {}
  BY DEF PortInit, ToldPorts
<1>5. JobInv
  BY DEF PortInit, JobInv
<1> QED BY <1>2, <1>3, <1>4, <1>5 DEF PortInv, RangeOK, Disjointness

(* What run_cb() takes out of the array: nothing, one port, or two. *)
LEMMA TwoPorts ==
  ASSUME NEW r, RangeOK(r)
  PROVE  LET first  == get_port(r)
             second == IF first.port < 0 THEN first ELSE get_port(first.range)
         IN  /\ RangeOK(second.range)
             /\ Filled(second.range) \subseteq Filled(r)
             /\ second.port >= 0 =>
                  /\ first.port \in PortNumbers /\ second.port \in PortNumbers
                  /\ first.port # second.port
                  /\ first.port \in Filled(r) /\ second.port \in Filled(r)
                  /\ first.port \notin Filled(second.range)
                  /\ second.port \notin Filled(second.range)
<1> DEFINE first  == get_port(r)
           second == IF first.port < 0 THEN first ELSE get_port(first.range)
<1>0. \A p \in PortNumbers : p \in Int /\ p >= 0 /\ ~(p < 0)
  BY DEF PortNumbers, MinPort, PortLimit
<1>1. /\ RangeOK(first.range)
      /\ \/ first.port = -1 /\ first.range = r
         \/ /\ first.port \in PortNumbers
            /\ first.port \in Filled(r)
            /\ Filled(first.range) = Filled(r) \ {first.port}
  BY GetPort
<1> DEFINE Goal ==
             /\ RangeOK(second.range)
             /\ Filled(second.range) \subseteq Filled(r)
             /\ second.port >= 0 =>
                  /\ first.port \in PortNumbers /\ second.port \in PortNumbers
                  /\ first.port # second.port
                  /\ first.port \in Filled(r) /\ second.port \in Filled(r)
                  /\ first.port \notin Filled(second.range)
                  /\ second.port \notin Filled(second.range)
<1> SUFFICES Goal
  OBVIOUS
<1> HIDE DEF first
<1>2. CASE first.port = -1
  <2>1. second = first /\ ~(-1 >= 0)
    BY <1>2
  <2> HIDE DEF second
  <2> QED BY <1>1, <1>2, <1>0, <2>1
<1>3. CASE first.port # -1
  <2>1. second = get_port(first.range)
    BY <1>0, <1>1, <1>3
  <2>2. /\ RangeOK(second.range)
        /\ \/ second.port = -1 /\ second.range = first.range
           \/ /\ second.port \in PortNumbers
              /\ second.port \in Filled(first.range)
              /\ Filled(second.range) = Filled(first.range) \ {second.port}
    BY <1>1, <2>1, GetPort
  <2> HIDE DEF second
  <2>3. ~(-1 >= 0)
    OBVIOUS
  <2> QED BY <1>0, <1>1, <1>3, <2>2, <2>3
<1> QED BY <1>2, <1>3

(* A budget is only spent. *)
LEMMA SpendBudget ==
  ASSUME portBudget \in [FaultKinds -> Nat], NEW kind \in FaultKinds, Spend(kind)
  PROVE  portBudget' \in [FaultKinds -> Nat]
BY DEF Spend

(* run_cb() posts and keeps two ports of the array, posts them only, or     *)
(* neither; what it posts is no longer in the array.                        *)
LEMMA RunOutcome ==
  ASSUME PortInv, NEW j \in Jobs, NEW hosts, run_cb(j, hosts)
  PROVE  /\ jobState[j] = "SCHED"
         /\ jobState' = [jobState EXCEPT ![j] = "RUN"]
         /\ stale' = stale
         /\ portBudget' \in [FaultKinds -> Nat]
         /\ RangeOK(range') /\ Filled(range') \subseteq Filled(range)
         /\ \E posted, kept \in PortPairs :
              /\ event' = [event EXCEPT ![j] = posted]
              /\ aux' = [aux EXCEPT ![j] = kept]
              /\ kept # <<>> => kept = posted
              /\ posted # <<>> => /\ posted[1] # posted[2]
                                  /\ Elements(posted) \subseteq Filled(range)
                                  /\ Elements(posted) \cap Filled(range') = {}
<1> DEFINE first  == get_port(range)
           second == IF first.port < 0 THEN first ELSE get_port(first.range)
           ports  == <<first.port, second.port>>
           Done(posted, kept) ==
             /\ range' = second.range
             /\ event' = [event EXCEPT ![j] = posted]
             /\ aux' = [aux EXCEPT ![j] = kept]
<1>1. RangeOK(range)
  BY RangeIsOK
<1>2. /\ RangeOK(second.range)
      /\ Filled(second.range) \subseteq Filled(range)
      /\ second.port >= 0 =>
           /\ first.port \in PortNumbers /\ second.port \in PortNumbers
           /\ first.port # second.port
           /\ first.port \in Filled(range) /\ second.port \in Filled(range)
           /\ first.port \notin Filled(second.range)
           /\ second.port \notin Filled(second.range)
  BY <1>1, TwoPorts
<1>3. /\ jobState[j] = "SCHED"
      /\ jobState' = [jobState EXCEPT ![j] = "RUN"]
      /\ stale' = stale
      /\ \/ range' = range /\ event' = event /\ aux' = aux /\ portBudget' = portBudget
         \/ Done(<<>>, <<>>) /\ portBudget' = portBudget
         \/ /\ second.port >= 0
            /\ \/ Done(ports, ports) /\ portBudget' = portBudget
               \/ Done(<<>>, <<>>) /\ Spend("fail")
               \/ Done(ports, <<>>) /\ Spend("fail")
  BY DEF run_cb
<1>4. portBudget \in [FaultKinds -> Nat] /\ "fail" \in FaultKinds
  BY DEF PortInv, PortTypeOK, FaultKinds
<1>5. portBudget' \in [FaultKinds -> Nat]
  BY <1>3, <1>4, SpendBudget
<1>6. event[j] = <<>> /\ aux[j] = <<>> /\ event \in [Jobs -> PortPairs]
      /\ aux \in [Jobs -> PortPairs] /\ <<>> \in PortPairs
  BY <1>3 DEF PortInv, PortTypeOK, JobInv, PortPairs
<1>7. second.port >= 0 =>
        /\ ports \in PortPairs /\ ports # <<>> /\ ports[1] # ports[2]
        /\ Elements(ports) \subseteq Filled(range)
        /\ Elements(ports) \cap Filled(second.range) = {}
  <2> HIDE DEF first, second
  <2> QED BY <1>2 DEF PortPairs, Elements
<1> HIDE DEF first, second, ports
<1>8. CASE range' = range /\ event' = event /\ aux' = aux
  <2>1. event' = [event EXCEPT ![j] = <<>>] /\ aux' = [aux EXCEPT ![j] = <<>>]
    BY <1>6, <1>8
  <2> QED BY <1>1, <1>3, <1>5, <1>6, <1>8, <2>1
<1>9. CASE Done(<<>>, <<>>)
  BY <1>2, <1>3, <1>5, <1>6, <1>9
<1>10. CASE second.port >= 0 /\ Done(ports, ports)
  BY <1>2, <1>3, <1>5, <1>6, <1>7, <1>10
<1>11. CASE second.port >= 0 /\ Done(ports, <<>>)
  BY <1>2, <1>3, <1>5, <1>6, <1>7, <1>11
<1> QED BY <1>3, <1>8, <1>9, <1>10, <1>11

(* cleanup_cb() puts the job's own ports back and nothing else. *)
LEMMA CleanupOutcome ==
  ASSUME PortInv, NEW j \in Jobs, EnterCleanup(j)
  PROVE  /\ RangeOK(range')
         /\ Filled(range') \subseteq Filled(range) \cup HeldPorts(j)
         /\ HeldPorts(j) \subseteq ToldPorts(j)
<1>1. RangeOK(range)
  BY RangeIsOK
<1>2. aux[j] \in PortPairs /\ event[j] \in PortPairs
  BY DEF PortInv, PortTypeOK
<1>3. CASE aux[j] = <<>>
  <2>1. range' = range /\ HeldPorts(j) = {}
    BY <1>3 DEF EnterCleanup, cleanup_cb, HeldPorts, Elements
  <2> QED BY <1>1, <2>1
<1>4. CASE aux[j] # <<>>
  <2>1. jobState[j] = "RUN" /\ event[j] = aux[j] /\ ~stale[j]
    BY <1>4 DEF EnterCleanup, PortInv, JobInv
  <2>2. /\ aux[j][1] \in PortNumbers /\ aux[j][2] \in PortNumbers
        /\ Elements(aux[j]) = {aux[j][1], aux[j][2]}
    BY <1>2, <1>4, PairElements
  <2>3. HeldPorts(j) = {aux[j][1], aux[j][2]} /\ ToldPorts(j) = HeldPorts(j)
    BY <2>1, <2>2 DEF HeldPorts, ToldPorts
  <2>4. aux[j][1] \notin Filled(range) /\ aux[j][2] \notin Filled(range)
        /\ aux[j][1] # aux[j][2]
    BY <2>1, <2>3 DEF PortInv, Disjointness, FreePorts
  <2> DEFINE once == set_port(range, aux[j][1])
  <2>5. RangeOK(once) /\ Filled(once) \subseteq Filled(range) \cup {aux[j][1]}
    BY <1>1, <2>2, <2>4, SetPort
  <2>6. range' = set_port(once, aux[j][2])
    BY <1>4 DEF EnterCleanup, cleanup_cb
  <2> HIDE DEF once
  <2>7. aux[j][2] \notin Filled(once)
    BY <2>4, <2>5
  <2>8. RangeOK(range') /\ Filled(range') \subseteq Filled(once) \cup {aux[j][2]}
    BY <2>2, <2>5, <2>6, <2>7, SetPort
  <2> QED BY <2>3, <2>5, <2>8
<1> QED BY <1>3, <1>4

LEMMA SubmitInv ==
  ASSUME PortInv, NEW j \in Jobs, Submit(j)
  PROVE  PortInv'
<1>1. PortTypeOK'
  BY DEF PortInv, PortTypeOK, RangeTypeOK, Submit, States
<1>2. \A k \in Jobs : ToldPorts(k)' = ToldPorts(k)
  BY DEF PortInv, PortTypeOK, Submit, ToldPorts
<1>3. FreePorts' = FreePorts /\ Injective(range)' /\ event' = event
  BY DEF Submit, FreePorts, Filled, PortInv, Injective
<1>4. Disjointness'
  BY <1>2, <1>3 DEF PortInv, Disjointness
<1>5. JobInv'
  BY DEF PortInv, PortTypeOK, JobInv, Submit
<1> QED BY <1>1, <1>3, <1>4, <1>5 DEF PortInv

LEMMA RunInv ==
  ASSUME PortInv, NEW j \in Jobs, NEW hosts, run_cb(j, hosts)
  PROVE  PortInv'
<1>1. /\ jobState[j] = "SCHED"
      /\ jobState' = [jobState EXCEPT ![j] = "RUN"]
      /\ stale' = stale
      /\ portBudget' \in [FaultKinds -> Nat]
      /\ RangeOK(range') /\ Filled(range') \subseteq Filled(range)
  BY RunOutcome
<1>2. PICK posted, kept \in PortPairs :
        /\ event' = [event EXCEPT ![j] = posted]
        /\ aux' = [aux EXCEPT ![j] = kept]
        /\ kept # <<>> => kept = posted
        /\ posted # <<>> => /\ posted[1] # posted[2]
                            /\ Elements(posted) \subseteq Filled(range)
                            /\ Elements(posted) \cap Filled(range') = {}
  BY RunOutcome
<1>3. /\ jobState \in [Jobs -> States] /\ aux \in [Jobs -> PortPairs]
      /\ event \in [Jobs -> PortPairs] /\ stale \in [Jobs -> BOOLEAN]
  BY DEF PortInv, PortTypeOK
<1>4. PortTypeOK'
  <2>1. RangeTypeOK(range)'
    BY <1>1 DEF RangeOK, RangeTypeOK
  <2>2. (jobState \in [Jobs -> States])'
    BY <1>1, <1>3 DEF States
  <2> QED BY <1>1, <1>2, <1>3, <2>1, <2>2 DEF PortTypeOK
<1>5. Injective(range)'
  BY <1>1 DEF RangeOK, Injective
<1>6. ~stale[j]
  BY <1>1 DEF PortInv, JobInv
<1>7. JobInv'
  BY <1>1, <1>2, <1>3, <1>6 DEF PortInv, JobInv
<1>8. ToldPorts(j)' = Elements(posted) /\ event'[j] = posted
  BY <1>1, <1>2, <1>3, <1>6 DEF ToldPorts
<1>9. \A k \in Jobs \ {j} : ToldPorts(k)' = ToldPorts(k) /\ event'[k] = event[k]
  BY <1>1, <1>2, <1>3 DEF ToldPorts
<1>10. FreePorts' = Filled(range') /\ FreePorts = Filled(range)
  BY DEF FreePorts, Filled
<1>11. posted = <<>> => Elements(posted) = {}
  BY DEF Elements
<1>12. /\ Elements(posted) \cap Filled(range') = {}
       /\ Elements(posted) \subseteq Filled(range)
       /\ Elements(posted) # {} => posted[1] # posted[2]
  BY <1>2, <1>11
<1>13. ASSUME NEW k \in Jobs
       PROVE  /\ ToldPorts(k)' \cap FreePorts' = {}
              /\ ToldPorts(k)' # {} => event'[k][1] # event'[k][2]
              /\ \A l \in Jobs \ {k} : ToldPorts(k)' \cap ToldPorts(l)' = {}
  <2>1. CASE k = j
    <3>1. \A l \in Jobs \ {k} : ToldPorts(l) \cap Filled(range) = {}
      BY <1>10 DEF PortInv, Disjointness
    <3> QED BY <1>8, <1>9, <1>10, <1>12, <2>1, <3>1
  <2>2. CASE k # j
    <3>1. /\ ToldPorts(k) \cap Filled(range) = {}
          /\ ToldPorts(k) # {} => event[k][1] # event[k][2]
          /\ \A l \in Jobs \ {k} : ToldPorts(k) \cap ToldPorts(l) = {}
      BY <1>10 DEF PortInv, Disjointness
    <3>2. ToldPorts(k)' = ToldPorts(k) /\ event'[k] = event[k]
      BY <1>9, <2>2
    <3>3. ToldPorts(k) \cap ToldPorts(j)' = {}
      BY <1>8, <1>12, <3>1
    <3>4. \A l \in Jobs \ {k} : ToldPorts(k)' \cap ToldPorts(l)' = {}
      BY <1>9, <3>1, <3>2, <3>3
    <3> QED BY <1>1, <1>10, <3>1, <3>2, <3>4
  <2> QED BY <2>1, <2>2
<1>14. Disjointness'
  BY <1>13 DEF Disjointness
<1> QED BY <1>4, <1>5, <1>7, <1>14 DEF PortInv

LEMMA CleanupInv ==
  ASSUME PortInv, NEW j \in Jobs, EnterCleanup(j)
  PROVE  PortInv'
<1>1. /\ RangeOK(range')
      /\ Filled(range') \subseteq Filled(range) \cup HeldPorts(j)
      /\ HeldPorts(j) \subseteq ToldPorts(j)
  BY CleanupOutcome
<1>2. /\ jobState \in [Jobs -> States] /\ aux \in [Jobs -> PortPairs]
      /\ event \in [Jobs -> PortPairs] /\ stale \in [Jobs -> BOOLEAN]
      /\ portBudget \in [FaultKinds -> Nat]
  BY DEF PortInv, PortTypeOK
<1>3. /\ jobState' = [jobState EXCEPT ![j] = "CLEANUP"]
      /\ aux' = aux /\ event' = event /\ stale' = stale /\ portBudget' = portBudget
  BY DEF EnterCleanup
<1>4. PortTypeOK'
  <2>1. RangeTypeOK(range)'
    BY <1>1 DEF RangeOK, RangeTypeOK
  <2> QED BY <1>2, <1>3, <2>1 DEF PortTypeOK, States
<1>5. Injective(range)'
  BY <1>1 DEF RangeOK, Injective
<1>6. JobInv'
  BY <1>2, <1>3 DEF PortInv, JobInv
<1>7. ToldPorts(j)' = {} /\ \A k \in Jobs \ {j} : ToldPorts(k)' = ToldPorts(k)
  BY <1>2, <1>3 DEF ToldPorts
<1>8. FreePorts' = Filled(range') /\ FreePorts = Filled(range)
  BY DEF FreePorts, Filled
<1>9. Disjointness'
  <2>1. ASSUME NEW k \in Jobs \ {j}
        PROVE  ToldPorts(k)' \cap FreePorts' = {}
    BY <1>1, <1>7, <1>8 DEF PortInv, Disjointness
  <2> QED BY <1>3, <1>7, <2>1 DEF PortInv, Disjointness
<1> QED BY <1>4, <1>5, <1>6, <1>9 DEF PortInv

LEMMA InactiveInv ==
  ASSUME PortInv, NEW j \in Jobs, Inactive(j)
  PROVE  PortInv'
<1>1. PortTypeOK'
  BY DEF PortInv, PortTypeOK, RangeTypeOK, Inactive, States, PortPairs
<1>2. ToldPorts(j)' = {}
      /\ \A k \in Jobs \ {j} : ToldPorts(k)' = ToldPorts(k) /\ event'[k] = event[k]
  BY DEF PortInv, PortTypeOK, Inactive, ToldPorts
<1>3. FreePorts' = FreePorts /\ Injective(range)'
  BY DEF Inactive, FreePorts, Filled, PortInv, Injective
<1>4. Disjointness'
  BY <1>2, <1>3 DEF PortInv, Disjointness
<1>5. JobInv'
  BY DEF PortInv, PortTypeOK, JobInv, Inactive
<1> QED BY <1>1, <1>3, <1>4, <1>5 DEF PortInv

LEMMA ReloadInv ==
  ASSUME PortInv, Reload
  PROVE  PortInv'
<1>1. PICK conf \in Configs : range' = flux_plugin_init(conf)
  BY DEF Reload
<1>2. RangeOK(range')
  BY <1>1, FreshRange
<1>3. PortTypeOK'
  <2>1. RangeTypeOK(range)'
    BY <1>2 DEF RangeOK, RangeTypeOK
  <2>2. portBudget' \in [FaultKinds -> Nat]
    BY SpendBudget DEF Reload, PortInv, PortTypeOK, FaultKinds
  <2> QED BY <2>1, <2>2 DEF PortInv, PortTypeOK, Reload, PortPairs
<1>4. \A j \in Jobs : ToldPorts(j)' = {}
  BY DEF PortInv, PortTypeOK, Reload, ToldPorts, Elements
<1>5. Disjointness'
  BY <1>4 DEF Disjointness
<1>6. JobInv'
  BY DEF PortInv, PortTypeOK, JobInv, Reload
<1>7. Injective(range)'
  BY <1>2 DEF RangeOK, Injective
<1> QED BY <1>3, <1>5, <1>6, <1>7 DEF PortInv

LEMMA StepInv ==
  ASSUME PortInv, [PortNext]_portVars
  PROVE  PortInv'
<1>1. CASE UNCHANGED portVars
  BY <1>1 DEF portVars, PortInv, PortTypeOK, RangeTypeOK, Injective, Disjointness,
             JobInv, ToldPorts, FreePorts, Filled
<1>2. CASE PortNext
  BY <1>2, SubmitInv, RunInv, CleanupInv, InactiveInv, ReloadInv DEF PortNext
<1> QED BY <1>1, <1>2

LEMMA PortInvariant == PortSpec => []PortInv
<1>1. PortInit => PortInv
  BY InitInv
<1>2. PortInv /\ [PortNext]_portVars => PortInv'
  BY StepInv
<1> QED BY <1>1, <1>2, PTL DEF PortSpec

(* Every port a job is told fits in 16 bits and needs no root, whatever     *)
(* port-min and port-max are and however long the plugin runs.              *)
THEOREM PortTypeCorrect == PortSpec => []PortTypeOK
<1>1. PortInv => PortTypeOK
  BY DEF PortInv
<1> QED BY <1>1, PortInvariant, PTL

(* The ports of running jobs are their own, for any number of jobs, any     *)
(* pool and any number of failures and reloads.                             *)
THEOREM PortsUnique == PortSpec => []UniquePorts
<1>1. PortInv => UniquePorts
  BY DEF PortInv, Disjointness, UniquePorts
<1> QED BY <1>1, PortInvariant, PTL

---------------------------------------------------------------------------
(* How many ports there are.  What makes PortsComeBack inductive: the odd   *)
(* port, if it is lost, was the last in the array, which has an even number *)
(* of ports from then on.                                                   *)

Lost == range.maxsize - range.fill - 2 * Cardinality(Holders)
FillIsEven == \E k \in Nat : range.fill = 2 * k

CountInv ==
  /\ IsFiniteSet(Holders)
  /\ portBudget["fail"] <= PortBudget["fail"]
  /\ 0 <= Lost
  /\ Lost <= 2 * Failures \/ (FillIsEven /\ Lost <= 1 + 2 * Failures)

LEMMA BudgetNumbers ==
  ASSUME PortInv
  PROVE  portBudget["fail"] \in Nat /\ PortBudget["fail"] \in Nat
BY PortBudgetCounts DEF PortInv, PortTypeOK, FaultKinds

LEMMA GetCount ==
  ASSUME NEW r, RangeOK(r)
  PROVE  LET g == get_port(r)
         IN  /\ g.range.maxsize = r.maxsize
             /\ r.fill = 0 => g.port < 0 /\ g.range.fill = 0
             /\ r.fill > 0 => g.port >= 0 /\ g.range.fill = r.fill - 1
<1>1. r.fill \in Nat /\ r.maxsize \in Nat /\ r.available \in [0 .. r.fill - 1 -> PortNumbers]
  BY DEF RangeOK, RangeTypeOK
<1>2. CASE r.fill = 0
  BY <1>1, <1>2 DEF get_port
<1>3. CASE r.fill > 0
  <2>1. r.available[r.fill - 1] \in PortNumbers
    BY <1>1, <1>3
  <2>2. /\ get_port(r).port = r.available[r.fill - 1]
        /\ get_port(r).range.maxsize = r.maxsize
        /\ get_port(r).range.fill = r.fill - 1
    BY <1>1, <1>3 DEF get_port
  <2>3. \A p \in PortNumbers : p >= 0
    BY DEF PortNumbers, MinPort, PortLimit
  <2> QED BY <1>1, <1>3, <2>1, <2>2, <2>3
<1> QED BY <1>1, <1>2, <1>3

(* run_cb() takes two ports, or what is left if that is not enough. *)
LEMMA TwoCount ==
  ASSUME NEW r, RangeOK(r)
  PROVE  LET first  == get_port(r)
             second == IF first.port < 0 THEN first ELSE get_port(first.range)
         IN  /\ second.range.maxsize = r.maxsize
             /\ r.fill < 2 => second.port < 0 /\ second.range.fill = 0
             /\ r.fill >= 2 => second.port >= 0 /\ second.range.fill = r.fill - 2
<1> DEFINE first  == get_port(r)
           second == IF first.port < 0 THEN first ELSE get_port(first.range)
<1>1. /\ first.range.maxsize = r.maxsize
      /\ r.fill = 0 => first.port < 0 /\ first.range.fill = 0
      /\ r.fill > 0 => first.port >= 0 /\ first.range.fill = r.fill - 1
  BY GetCount
<1>2. RangeOK(first.range) /\ r.fill \in Nat
  BY GetPort DEF RangeOK, RangeTypeOK
<1>3. /\ get_port(first.range).range.maxsize = first.range.maxsize
      /\ first.range.fill = 0 =>
           get_port(first.range).port < 0 /\ get_port(first.range).range.fill = 0
      /\ first.range.fill > 0 =>
           /\ get_port(first.range).port >= 0
           /\ get_port(first.range).range.fill = first.range.fill - 1
  BY <1>2, GetCount
<1>4. first.port = -1 \/ first.port \in PortNumbers
  BY GetPort
<1> DEFINE Goal ==
             /\ second.range.maxsize = r.maxsize
             /\ r.fill < 2 => second.port < 0 /\ second.range.fill = 0
             /\ r.fill >= 2 => second.port >= 0 /\ second.range.fill = r.fill - 2
<1> SUFFICES Goal
  OBVIOUS
<1> HIDE DEF first
<1>5. first.port \in Int
  <2>1. -1 \in Int /\ PortNumbers \subseteq Int
    BY DEF PortNumbers, MinPort, PortLimit
  <2> QED BY <1>4, <2>1
<1>6. CASE r.fill = 0
  BY <1>1, <1>6
<1>7. CASE r.fill > 0
  <2>1. second = get_port(first.range)
    BY <1>1, <1>5, <1>7
  <2> HIDE DEF second
  <2>2. CASE r.fill = 1
    BY <1>1, <1>3, <2>1, <2>2
  <2>3. CASE r.fill >= 2
    BY <1>1, <1>2, <1>3, <2>1, <2>3
  <2> QED BY <1>2, <1>7, <2>2, <2>3
<1> QED BY <1>2, <1>6, <1>7

LEMMA SetCount ==
  ASSUME NEW r, NEW p, r.fill \in Nat, r.maxsize \in Nat, r.fill < r.maxsize
  PROVE  /\ set_port(r, p).maxsize = r.maxsize
         /\ set_port(r, p).fill = r.fill + 1
BY DEF set_port

LEMMA FreshCount ==
  ASSUME NEW conf \in Configs
  PROVE  flux_plugin_init(conf).fill = flux_plugin_init(conf).maxsize
BY DEF flux_plugin_init, Unloaded

LEMMA HolderHas ==
  ASSUME PortInv, NEW j \in Jobs
  PROVE  j \in Holders <=> jobState[j] = "RUN" /\ aux[j] # <<>>
<1>1. aux[j] \in PortPairs
  BY DEF PortInv, PortTypeOK
<1> QED BY <1>1, PairElements DEF Holders, HeldPorts

(* The effects of run_cb() on the numbers. *)
LEMMA RunCount ==
  ASSUME PortInv, NEW j \in Jobs, NEW hosts, run_cb(j, hosts)
  PROVE  /\ j \notin Holders
         /\ range'.maxsize = range.maxsize
         /\ \/ /\ range'.fill = range.fill
               /\ Holders' = Holders /\ portBudget' = portBudget
            \/ /\ range.fill < 2 /\ range'.fill = 0
               /\ Holders' = Holders /\ portBudget' = portBudget
            \/ /\ range.fill >= 2 /\ range'.fill = range.fill - 2
               /\ Holders' = Holders \cup {j} /\ portBudget' = portBudget
            \/ /\ range.fill >= 2 /\ range'.fill = range.fill - 2
               /\ Holders' = Holders
               /\ portBudget'["fail"] = portBudget["fail"] - 1
<1> DEFINE first  == get_port(range)
           second == IF first.port < 0 THEN first ELSE get_port(first.range)
           ports  == <<first.port, second.port>>
           Done(posted, kept) ==
             /\ range' = second.range
             /\ event' = [event EXCEPT ![j] = posted]
             /\ aux' = [aux EXCEPT ![j] = kept]
<1>1. RangeOK(range)
  BY RangeIsOK
<1>2. /\ second.range.maxsize = range.maxsize
      /\ range.fill < 2 => second.port < 0 /\ second.range.fill = 0
      /\ range.fill >= 2 => second.port >= 0 /\ second.range.fill = range.fill - 2
  BY <1>1, TwoCount
<1>3. /\ jobState[j] = "SCHED"
      /\ jobState' = [jobState EXCEPT ![j] = "RUN"]
      /\ \/ range' = range /\ aux' = aux /\ portBudget' = portBudget
         \/ second.port < 0 /\ Done(<<>>, <<>>) /\ portBudget' = portBudget
         \/ second.port >= 0 /\ Done(ports, ports) /\ portBudget' = portBudget
         \/ second.port >= 0 /\ Done(<<>>, <<>>) /\ Spend("fail")
         \/ second.port >= 0 /\ Done(ports, <<>>) /\ Spend("fail")
  BY DEF run_cb
<1>4. PortInv'
  BY RunInv
<1>5. /\ jobState \in [Jobs -> States] /\ aux \in [Jobs -> PortPairs]
      /\ portBudget \in [FaultKinds -> Nat] /\ "fail" \in FaultKinds
      /\ range.fill \in Nat
  BY DEF PortInv, PortTypeOK, RangeTypeOK, FaultKinds
<1>6. j \notin Holders /\ aux[j] = <<>>
  BY <1>3, HolderHas DEF PortInv, JobInv
<1>7. \A k \in Jobs : k \in Holders <=> jobState[k] = "RUN" /\ aux[k] # <<>>
  BY HolderHas
<1>8. \A k \in Jobs : k \in Holders' <=> jobState'[k] = "RUN" /\ aux'[k] # <<>>
  <2>1. \A k \in Jobs : aux'[k] \in PortPairs
    BY <1>4 DEF PortInv, PortTypeOK
  <2> QED BY <2>1, PairElements DEF Holders, HeldPorts
<1>9. Holders \subseteq Jobs /\ Holders' \subseteq Jobs
  BY DEF Holders
<1>10. ASSUME NEW kept, aux' = [aux EXCEPT ![j] = kept]
       PROVE  Holders' = IF kept = <<>> THEN Holders ELSE Holders \cup {j}
  <2>1. ASSUME NEW k \in Jobs \ {j} PROVE k \in Holders' <=> k \in Holders
    BY <1>3, <1>5, <1>7, <1>8, <1>10
  <2>2. j \in Holders' <=> kept # <<>>
    BY <1>3, <1>5, <1>8, <1>10
  <2> QED BY <1>6, <1>9, <2>1, <2>2
<1>11. second.port \in Int
  <2>1. RangeOK(first.range) /\ (first.port = -1 \/ first.port \in PortNumbers)
    BY <1>1, GetPort
  <2>2. get_port(first.range).port = -1 \/ get_port(first.range).port \in PortNumbers
    BY <2>1, GetPort
  <2>3. -1 \in Int /\ PortNumbers \subseteq Int
    BY DEF PortNumbers, MinPort, PortLimit
  <2>4. second = first \/ second = get_port(first.range)
    OBVIOUS
  <2> HIDE DEF first, second
  <2> QED BY <2>1, <2>2, <2>3, <2>4
<1>12. Spend("fail") => portBudget'["fail"] = portBudget["fail"] - 1
  BY <1>5 DEF Spend
<1>13. ports # <<>>
  OBVIOUS
<1> HIDE DEF first, second, ports
<1>14. CASE range' = range /\ aux' = aux /\ portBudget' = portBudget
  <2>1. aux' = [aux EXCEPT ![j] = <<>>]
    BY <1>5, <1>6, <1>14
  <2> QED BY <1>6, <1>10, <1>14, <2>1
<1>15. CASE second.port < 0 /\ Done(<<>>, <<>>) /\ portBudget' = portBudget
  <2>1. Holders' = Holders
    BY <1>10, <1>15
  <2>2. range.fill < 2
    BY <1>2, <1>5, <1>11, <1>15
  <2> QED BY <1>2, <1>6, <1>15, <2>1, <2>2
<1>16. CASE second.port >= 0 /\ Done(ports, ports) /\ portBudget' = portBudget
  <2>1. Holders' = Holders \cup {j}
    BY <1>10, <1>13, <1>16
  <2>2. range.fill >= 2
    BY <1>2, <1>5, <1>11, <1>16
  <2> QED BY <1>2, <1>6, <1>16, <2>1, <2>2
<1>17. CASE second.port >= 0 /\ (Done(<<>>, <<>>) \/ Done(ports, <<>>)) /\ Spend("fail")
  <2>1. Holders' = Holders
    BY <1>10, <1>17
  <2>2. range.fill >= 2
    BY <1>2, <1>5, <1>11, <1>17
  <2> QED BY <1>2, <1>6, <1>12, <1>17, <2>1, <2>2
<1> QED BY <1>3, <1>14, <1>15, <1>16, <1>17

LEMMA InitCount ==
  ASSUME PortInit
  PROVE  CountInv
<1>1. PICK conf \in Configs : range = flux_plugin_init(conf)
  BY DEF PortInit
<1>2. range.fill = range.maxsize
  BY <1>1, FreshCount
<1>3. Holders = {} /\ portBudget = PortBudget
  BY DEF PortInit, Holders, HeldPorts
<1>4. range.fill \in Nat /\ PortBudget["fail"] \in Nat
  BY InitInv, BudgetNumbers DEF PortInv, PortTypeOK, RangeTypeOK
<1> QED BY <1>2, <1>3, <1>4, FS_EmptySet DEF CountInv, Lost, Failures

LEMMA RunCounts ==
  ASSUME PortInv, CountInv, NEW j \in Jobs, NEW hosts, run_cb(j, hosts)
  PROVE  CountInv'
<1> DEFINE n  == Cardinality(Holders)
           np == Cardinality(Holders')
           f  == range.fill
           fp == range'.fill
           m  == range.maxsize
           b  == portBudget["fail"]
           bp == portBudget'["fail"]
           B  == PortBudget["fail"]
<1>1. f \in Nat /\ m \in Nat /\ b \in Nat /\ B \in Nat /\ b <= B
  BY BudgetNumbers DEF PortInv, PortTypeOK, RangeTypeOK, CountInv
<1>2. IsFiniteSet(Holders) /\ n \in Nat
  BY FS_CardinalityType DEF CountInv
<1>3. /\ 0 <= m - f - 2 * n
      /\ \/ m - f - 2 * n <= 2 * (B - b)
         \/ (\E k \in Nat : f = 2 * k) /\ m - f - 2 * n <= 1 + 2 * (B - b)
  BY DEF CountInv, Lost, Failures, FillIsEven
<1>4. /\ j \notin Holders
      /\ range'.maxsize = m
      /\ \/ fp = f /\ Holders' = Holders /\ bp = b
         \/ f < 2 /\ fp = 0 /\ Holders' = Holders /\ bp = b
         \/ f >= 2 /\ fp = f - 2 /\ Holders' = Holders \cup {j} /\ bp = b
         \/ f >= 2 /\ fp = f - 2 /\ Holders' = Holders /\ bp = b - 1
  BY RunCount
<1>5. /\ IsFiniteSet(Holders \cup {j})
      /\ Cardinality(Holders \cup {j}) = n + 1
  BY <1>2, <1>4, FS_AddElement
<1>6. \/ fp = f /\ np = n /\ bp = b
      \/ f < 2 /\ fp = 0 /\ np = n /\ bp = b
      \/ f >= 2 /\ fp = f - 2 /\ np = n + 1 /\ bp = b
      \/ f >= 2 /\ fp = f - 2 /\ np = n /\ bp = b - 1
  BY <1>4, <1>5
<1>7. IsFiniteSet(Holders')
  BY <1>2, <1>4, <1>5
<1>8. /\ bp <= B
      /\ 0 <= m - fp - 2 * np
      /\ \/ m - fp - 2 * np <= 2 * (B - bp)
         \/ (\E k \in Nat : fp = 2 * k) /\ m - fp - 2 * np <= 1 + 2 * (B - bp)
  <2> HIDE DEF n, np, f, fp, m, b, bp, B
  <2>1. CASE fp = f /\ np = n /\ bp = b
    BY <1>1, <1>2, <1>3, <2>1
  <2>2. CASE f < 2 /\ fp = 0 /\ np = n /\ bp = b
    <3>1. fp = 2 * 0
      BY <2>2
    <3>2. CASE f = 0
      BY <1>1, <1>2, <1>3, <2>2, <3>1, <3>2
    <3>3. CASE f = 1
      <4>1. ~ \E k \in Nat : f = 2 * k
        BY <3>3
      <4> QED BY <1>1, <1>2, <1>3, <2>2, <3>1, <3>3, <4>1
    <3> QED BY <1>1, <2>2, <3>2, <3>3
  <2>3. ASSUME f >= 2, fp = f - 2, NEW k \in Nat, f = 2 * k
        PROVE  \E i \in Nat : fp = 2 * i
    <3>1. k - 1 \in Nat /\ fp = 2 * (k - 1)
      BY <2>3
    <3> QED BY <3>1
  <2>4. CASE f >= 2 /\ fp = f - 2 /\ np = n + 1 /\ bp = b
    BY <1>1, <1>2, <1>3, <2>3, <2>4
  <2>5. CASE f >= 2 /\ fp = f - 2 /\ np = n /\ bp = b - 1
    BY <1>1, <1>2, <1>3, <2>3, <2>5
  <2> QED BY <1>6, <2>1, <2>2, <2>4, <2>5
<1> QED BY <1>4, <1>7, <1>8 DEF CountInv, Lost, Failures, FillIsEven

LEMMA CleanupCounts ==
  ASSUME PortInv, CountInv, NEW j \in Jobs, EnterCleanup(j)
  PROVE  CountInv'
<1> DEFINE n == Cardinality(Holders)
           f == range.fill
           m == range.maxsize
           b == portBudget["fail"]
           B == PortBudget["fail"]
<1>1. /\ f \in Nat /\ m \in Nat /\ b \in Nat /\ B \in Nat /\ b <= B
      /\ jobState \in [Jobs -> States] /\ aux \in [Jobs -> PortPairs]
  BY BudgetNumbers DEF PortInv, PortTypeOK, RangeTypeOK, CountInv
<1>2. IsFiniteSet(Holders) /\ n \in Nat
  BY FS_CardinalityType DEF CountInv
<1>3. /\ 0 <= m - f - 2 * n
      /\ \/ m - f - 2 * n <= 2 * (B - b)
         \/ (\E k \in Nat : f = 2 * k) /\ m - f - 2 * n <= 1 + 2 * (B - b)
  BY DEF CountInv, Lost, Failures, FillIsEven
<1>4. /\ jobState' = [jobState EXCEPT ![j] = "CLEANUP"]
      /\ aux' = aux /\ portBudget' = portBudget
      /\ range' = IF aux[j] = <<>> THEN range
                  ELSE set_port(set_port(range, aux[j][1]), aux[j][2])
  BY DEF EnterCleanup, cleanup_cb
<1>5. Holders' = Holders \ {j}
  <2>1. HeldPorts(j)' = {} /\ \A k \in Jobs \ {j} : HeldPorts(k)' = HeldPorts(k)
    BY <1>1, <1>4 DEF HeldPorts
  <2> QED BY <2>1 DEF Holders
<1>6. /\ IsFiniteSet(Holders \ {j})
      /\ Cardinality(Holders \ {j}) = IF j \in Holders THEN n - 1 ELSE n
  BY <1>2, FS_RemoveElement
<1>7. j \in Holders <=> aux[j] # <<>>
  <2>1. aux[j] # <<>> => jobState[j] = "RUN"
    BY DEF EnterCleanup, PortInv, JobInv
  <2> QED BY <2>1, HolderHas
<1>8. CASE aux[j] = <<>>
  <2>1. range' = range /\ Cardinality(Holders') = n /\ IsFiniteSet(Holders')
    BY <1>4, <1>5, <1>6, <1>7, <1>8
  <2> QED BY <1>3, <1>4, <2>1 DEF CountInv, Lost, Failures, FillIsEven
<1>9. CASE aux[j] # <<>>
  <2>1. Cardinality(Holders') = n - 1 /\ n - 1 \in Nat /\ IsFiniteSet(Holders')
    <3>1. n # 0
      BY <1>2, <1>7, <1>9, FS_EmptySet
    <3> QED BY <1>2, <1>5, <1>6, <1>7, <1>9, <3>1
  <2>2. f + 2 <= m
    <3> HIDE DEF n, f, m, b, B
    <3> QED BY <1>1, <1>2, <1>3, <2>1
  <2> DEFINE once == set_port(range, aux[j][1])
  <2>3. once.maxsize = m /\ once.fill = f + 1
    BY <1>1, <2>2, SetCount
  <2> HIDE DEF once
  <2>4. set_port(once, aux[j][2]).maxsize = m /\ set_port(once, aux[j][2]).fill = f + 1 + 1
    BY <1>1, <2>2, <2>3, SetCount
  <2>5. range'.maxsize = m /\ range'.fill = f + 2
    BY <1>1, <1>4, <1>9, <2>4 DEF once
  <2>6. /\ 0 <= m - (f + 2) - 2 * (n - 1)
        /\ \/ m - (f + 2) - 2 * (n - 1) <= 2 * (B - b)
           \/ /\ \E k \in Nat : f + 2 = 2 * k
              /\ m - (f + 2) - 2 * (n - 1) <= 1 + 2 * (B - b)
    <3> HIDE DEF n, f, m, b, B
    <3>1. ASSUME NEW k \in Nat, f = 2 * k PROVE \E i \in Nat : f + 2 = 2 * i
      <4>1. k + 1 \in Nat /\ f + 2 = 2 * (k + 1)
        BY <3>1
      <4> QED BY <4>1
    <3> QED BY <1>1, <1>2, <1>3, <3>1
  <2> QED BY <1>1, <1>4, <2>1, <2>5, <2>6 DEF CountInv, Lost, Failures, FillIsEven
<1> QED BY <1>8, <1>9

LEMMA CountStep ==
  ASSUME PortInv, CountInv, [PortNext]_portVars
  PROVE  CountInv'
<1>1. ASSUME range' = range, portBudget' = portBudget, Holders' = Holders
      PROVE  CountInv'
  BY <1>1 DEF CountInv, Lost, Failures, FillIsEven
<1>2. CASE UNCHANGED portVars
  BY <1>1, <1>2 DEF portVars, Holders, HeldPorts
<1>3. ASSUME NEW j \in Jobs, Submit(j) \/ Inactive(j)
      PROVE  CountInv'
  <2>1. \A k \in Jobs : HeldPorts(k)' = HeldPorts(k)
    BY <1>3 DEF PortInv, PortTypeOK, Submit, Inactive, HeldPorts
  <2>2. Holders' = Holders
    BY <2>1 DEF Holders
  <2> QED BY <1>1, <1>3, <2>2 DEF Submit, Inactive
<1>4. CASE Reload
  <2>1. PICK conf \in Configs : range' = flux_plugin_init(conf)
    BY <1>4 DEF Reload
  <2>2. range'.fill = range'.maxsize
    BY <2>1, FreshCount
  <2>3. Holders' = {}
    BY <1>4 DEF Reload, Holders, HeldPorts, Elements
  <2>4. PortInv' /\ portBudget'["fail"] = portBudget["fail"]
    BY <1>4, ReloadInv DEF Reload, Spend, PortInv, PortTypeOK, FaultKinds
  <2>5. range'.fill \in Nat /\ portBudget["fail"] \in Nat /\ PortBudget["fail"] \in Nat
        /\ portBudget["fail"] <= PortBudget["fail"]
    BY <2>4, BudgetNumbers DEF PortInv, PortTypeOK, RangeTypeOK, CountInv
  <2> QED BY <2>2, <2>3, <2>4, <2>5, FS_EmptySet DEF CountInv, Lost, Failures
<1> QED BY <1>2, <1>3, <1>4, RunCounts, CleanupCounts DEF PortNext

(* However many jobs come and go, no port is put back twice, and the pool   *)
(* loses no more than two ports for each call that failed in run_cb() and   *)
(* one for a last port that is odd: the ports of a job that ended can be    *)
(* given out again, for any number of jobs, any pool, any number of faults. *)
THEOREM PortsReturn == PortSpec => []PortsComeBack
<1>1. PortInit => CountInv
  BY InitCount
<1>2. PortInv /\ CountInv /\ [PortNext]_portVars => CountInv'
  BY CountStep
<1>3. PortInv /\ CountInv => PortsComeBack
  <2> SUFFICES ASSUME PortInv, CountInv PROVE PortsComeBack
    OBVIOUS
  <2>1. /\ range.fill \in Nat /\ range.maxsize \in Nat /\ Cardinality(Holders) \in Nat
        /\ Failures \in Int
    BY BudgetNumbers, FS_CardinalityType
    DEF CountInv, PortInv, PortTypeOK, RangeTypeOK, Failures
  <2> QED BY <2>1 DEF CountInv, Lost, PortsComeBack
<1> QED BY <1>1, <1>2, <1>3, PortInvariant, PTL DEF PortSpec

---------------------------------------------------------------------------
(* The pool implements Allocator. *)

Held == [j \in Jobs |-> HeldPorts(j)]

LEMMA FreePortsArePorts ==
  ASSUME NEW r, RangeOK(r)
  PROVE  Filled(r) \subseteq PortNumbers
BY DEF RangeOK, RangeTypeOK, Filled

LEMMA InitAllocates ==
  ASSUME PortInit
  PROVE  Alloc!Init
<1>1. RangeOK(range)
  BY InitInv, RangeIsOK
<1>2. Held = [j \in Jobs |-> {}]
  BY DEF PortInit, Held, HeldPorts
<1> QED BY <1>1, <1>2, FreePortsArePorts DEF Alloc!Init, Alloc!Nothing, FreePorts, Held

LEMMA RunTakes ==
  ASSUME PortInv, NEW j \in Jobs, NEW hosts, run_cb(j, hosts)
  PROVE  Alloc!Take(j)
<1>1. /\ jobState[j] = "SCHED"
      /\ jobState' = [jobState EXCEPT ![j] = "RUN"]
      /\ Filled(range') \subseteq Filled(range)
  BY RunOutcome
<1>2. PICK posted, kept \in PortPairs :
        /\ aux' = [aux EXCEPT ![j] = kept]
        /\ kept # <<>> => kept = posted
        /\ posted # <<>> => /\ Elements(posted) \subseteq Filled(range)
                            /\ Elements(posted) \cap Filled(range') = {}
  BY RunOutcome
<1>3. jobState \in [Jobs -> States] /\ aux \in [Jobs -> PortPairs]
  BY DEF PortInv, PortTypeOK
<1>4. HeldPorts(j) = {}
  BY <1>1 DEF HeldPorts
<1>5. HeldPorts(j)' = Elements(kept)
  BY <1>1, <1>2, <1>3 DEF HeldPorts
<1>6. \A k \in Jobs \ {j} : HeldPorts(k)' = HeldPorts(k)
  BY <1>1, <1>2, <1>3 DEF HeldPorts
<1>7. Held' = [Held EXCEPT ![j] = Elements(kept)]
  BY <1>5, <1>6 DEF Held
<1>8. /\ Elements(kept) \subseteq Filled(range)
      /\ Filled(range') \subseteq Filled(range) \ Elements(kept)
  BY <1>1, <1>2 DEF Elements
<1>9. FreePorts' = Filled(range') /\ FreePorts = Filled(range) /\ Held[j] = {}
  BY <1>4 DEF FreePorts, Filled, Held
<1> QED BY <1>7, <1>8, <1>9 DEF Alloc!Take, Held

LEMMA CleanupReleases ==
  ASSUME PortInv, NEW j \in Jobs, EnterCleanup(j)
  PROVE  Alloc!Release(j)
<1>1. Filled(range') \subseteq Filled(range) \cup HeldPorts(j)
  BY CleanupOutcome
<1>2. jobState \in [Jobs -> States]
  BY DEF PortInv, PortTypeOK
<1>3. HeldPorts(j)' = {} /\ \A k \in Jobs \ {j} : HeldPorts(k)' = HeldPorts(k)
  BY <1>2 DEF EnterCleanup, HeldPorts
<1>4. Held' = [Held EXCEPT ![j] = {}] /\ Held[j] = HeldPorts(j)
  BY <1>3 DEF Held
<1>5. FreePorts' = Filled(range') /\ FreePorts = Filled(range)
  BY DEF FreePorts, Filled
<1> QED BY <1>1, <1>4, <1>5 DEF Alloc!Release, Held

LEMMA ReloadRenews ==
  ASSUME PortInv, Reload
  PROVE  Alloc!Renew
<1>1. PICK conf \in Configs : range' = flux_plugin_init(conf)
  BY DEF Reload
<1>2. RangeOK(range')
  BY <1>1, FreshRange
<1>3. Filled(range') \subseteq PortNumbers
  BY <1>2, FreePortsArePorts
<1>4. FreePorts' = Filled(range')
  BY DEF FreePorts, Filled
<1>5. Held' = [j \in Jobs |-> {}]
  BY DEF Reload, Held, HeldPorts, Elements
<1> QED BY <1>3, <1>4, <1>5 DEF Alloc!Renew, Alloc!Nothing, Held

LEMMA StepAllocates ==
  ASSUME PortInv, [PortNext]_portVars
  PROVE  [Alloc!Next]_<<FreePorts, [j \in Jobs |-> HeldPorts(j)]>>
<1>1. CASE UNCHANGED portVars
  BY <1>1 DEF portVars, FreePorts, Filled, HeldPorts
<1>2. ASSUME NEW j \in Jobs, Submit(j)
      PROVE  UNCHANGED <<FreePorts, [k \in Jobs |-> HeldPorts(k)]>>
  <2>1. \A k \in Jobs : HeldPorts(k)' = HeldPorts(k)
    BY <1>2 DEF PortInv, PortTypeOK, Submit, HeldPorts
  <2> QED BY <1>2, <2>1 DEF Submit, FreePorts, Filled
<1>3. ASSUME NEW j \in Jobs, Inactive(j)
      PROVE  UNCHANGED <<FreePorts, [k \in Jobs |-> HeldPorts(k)]>>
  <2>1. \A k \in Jobs : HeldPorts(k)' = HeldPorts(k)
    BY <1>3 DEF PortInv, PortTypeOK, Inactive, HeldPorts
  <2> QED BY <1>3, <2>1 DEF Inactive, FreePorts, Filled
<1>4. ASSUME NEW j \in Jobs, NEW hosts \in 1 .. 2, run_cb(j, hosts)
      PROVE  Alloc!Next
  BY <1>4, RunTakes DEF Alloc!Next
<1>5. ASSUME NEW j \in Jobs, EnterCleanup(j)
      PROVE  Alloc!Next
  BY <1>5, CleanupReleases DEF Alloc!Next
<1>6. CASE Reload
  BY <1>6, ReloadRenews DEF Alloc!Next
<1> QED BY <1>1, <1>2, <1>3, <1>4, <1>5, <1>6 DEF PortNext

(* Whoever relies on the plugin may rely on an allocator: run_cb() gives a  *)
(* job what nobody has, and cleanup_cb() only puts back what the job held.  *)
THEOREM PortsImplementAllocator == PortSpec => PortsAreAllocated
<1>1. PortInit => Alloc!Init
  BY InitAllocates
<1>2. PortInv /\ [PortNext]_portVars =>
        [Alloc!Next]_<<FreePorts, [j \in Jobs |-> HeldPorts(j)]>>
  BY StepAllocates
<1> QED BY <1>1, <1>2, PortInvariant, PTL DEF PortSpec, PortsAreAllocated, Alloc!Spec

---------------------------------------------------------------------------
(* What the shells do leaves the pool alone, so that all of this holds of   *)
(* the composed system.                                                     *)
LEMMA ComposedSpec == Spec => PortSpec
<1>1. Init => PortInit
  BY DEF Init
<1>2. [Next]_vars => [PortNext]_portVars
  <2> SUFFICES ASSUME [Next]_vars PROVE [PortNext]_portVars
    OBVIOUS
  <2>1. CASE UNCHANGED vars
    BY <2>1 DEF vars, portVars
  <2>2. ASSUME NEW j \in Jobs \ Watched, Unwatched(j)
        PROVE  PortNext
    BY <2>2 DEF Unwatched, PortNext
  <2>3. ASSUME NEW j \in Watched, Submit(j) \/ EnterCleanup(j) \/ Inactive(j)
        PROVE  PortNext
    BY <2>3, WatchedAreJobs DEF PortNext
  <2>4. ASSUME NEW j \in Watched, Allocate(j)
        PROVE  PortNext
    BY <2>4, WatchedAreJobs DEF Allocate, PortNext
  <2>5. ASSUME NEW j \in Watched, Finish(j) \/ FatalException(j) \/ Ended(j)
        PROVE  PortNext
    BY <2>3, <2>5 DEF Finish, FatalException, Ended
  <2>6. ASSUME NEW j \in Watched, NonfatalException(j) \/ StartEvent(j)
        PROVE  UNCHANGED portVars
    BY <2>6 DEF NonfatalException, StartEvent
  <2>7. ASSUME NEW j \in Watched, NEW r \in Ranks(j), LaunchShell(j, r) \/ libpals_init(j, r)
        PROVE  UNCHANGED portVars
    BY <2>7 DEF LaunchShell, libpals_init
  <2>8. CASE Reload
    BY <2>8 DEF PortNext
  <2> QED BY <2>1, <2>2, <2>3, <2>4, <2>5, <2>6, <2>7, <2>8 DEF Next
<1> QED BY <1>1, <1>2, PTL DEF Spec, PortSpec

(* No two running jobs were told the same port, whatever their shells do. *)
THEOREM RunningJobsHaveOwnPorts == Spec => []UniquePorts
BY ComposedSpec, PortsUnique, PTL
---------------------------------------------------------------------------
(* The shells.  What a shell gives its tasks is a function of the job's     *)
(* options, its event and its number of shells, and none of them changes    *)
(* while there are shells; and reading the log gives the event, because it  *)
(* is the first entry there that eventlog_wait_for() stops at.              *)

ShellRecs == [stage : Stages, env : ShellEnv]
ShellSets == {<<>>} \cup [0 .. 0 -> ShellRecs] \cup [0 .. 1 -> ShellRecs]

LogEntries ==
  {EventStart, EventException(0), EventException(1)}
    \cup {EventWith(Bootstrap, ports) : ports \in PortPairs}

(* The event, as a reader of the log finds it. *)
PostedEvent(j) == IF event[j] = <<>> THEN <<>> ELSE <<event[j]>>

PalsIsOn(j) == member_of_csv(opt[j].pmi, "cray-pals")
Parsed(j) == cray_pals_parse_args(opt[j])

(* The ports and the environment that all shells of a job agree on. *)
PalsPorts(j) ==
  IF get_pmi_bootstrap(Parsed(j)[1], 0, Cardinality(Ranks(j)))
  THEN event[j] ELSE Parsed(j)[1].ports

TaskEnv(j) ==
  IF PalsIsOn(j) THEN set_environment(Submitted, PalsPorts(j))
  ELSE unset_pals_env(Submitted)

RankOK(j, r) ==
  /\ shell[j][r].stage # "ready" => shell[j][r].env = Submitted
  /\ shell[j][r].stage = "up" => PalsIsOn(j) /\ Parsed(j) # <<>>
  /\ shell[j][r].stage = "ready" =>
       /\ shell[j][r].env = TaskEnv(j)
       /\ PalsIsOn(j) => Parsed(j) # <<>>

JobShells(j) ==
  /\ jobState[j] \in {"NONE", "SCHED"} =>
       Ranks(j) = {} /\ \A i \in DOMAIN log[j] : ~Surpasses(log[j][i])
  /\ Finds(log[j], Bootstrap, PostedEvent(j))
  /\ Ranks(j) = 0 .. 0 => event[j] = <<>>
  /\ \A r \in Ranks(j) : RankOK(j, r)

ShellTypes ==
  /\ opt \in [Watched -> Options \cup {<<>>}]
  /\ log \in [Watched -> Seq(LogEntries)]
  /\ shell \in [Watched -> ShellSets]

ShellInv == ShellTypes /\ \A j \in Watched : JobShells(j)

(* What a shell reads when eventlog_wait_for() returns is the event that    *)
(* run_cb() posted, or nothing if it posted none.                           *)
LEMMA ReadsEvent ==
  ASSUME NEW j, log[j] \in Seq(LogEntries), Finds(log[j], Bootstrap, PostedEvent(j)),
         ~Waits(log[j], Bootstrap)
  PROVE  read_future(j) = event[j]
<1>1. eventlog_wait_for(log[j], Bootstrap) =
        IF PostedEvent(j) = <<>> THEN <<>> ELSE <<PostedEvent(j)[1]>>
  BY WaitFinds
<1>2. CASE event[j] = <<>>
  BY <1>1, <1>2 DEF PostedEvent, read_future
<1>3. CASE event[j] # <<>>
  <2>1. PostedEvent(j) = <<event[j]>>
    BY <1>3 DEF PostedEvent
  <2>2. eventlog_wait_for(log[j], Bootstrap) = <<event[j]>>
    BY <1>1, <2>1
  <2> QED BY <2>2 DEF read_future
<1> QED BY <1>2, <1>3

(* cray_pals_parse_args() gives no ports or the user's. *)
LEMMA ParseOutcome ==
  ASSUME NEW o, cray_pals_parse_args(o) # <<>>
  PROVE  /\ cray_pals_parse_args(o)[1].disabled \in BOOLEAN
         /\ cray_pals_parse_args(o)[1].ports \in {<<>>, UserPorts}
         /\ o.bootstrap = "default" =>
              /\ ~cray_pals_parse_args(o)[1].disabled
              /\ cray_pals_parse_args(o)[1].ports = <<>>
<1>1. CASE o.bootstrap = "default"
  <2>1. cray_pals_parse_args(o) = <<[disabled |-> FALSE, ports |-> <<>>]>>
    BY <1>1 DEF cray_pals_parse_args
  <2>2. cray_pals_parse_args(o)[1] = [disabled |-> FALSE, ports |-> <<>>]
    BY <2>1
  <2>3. /\ cray_pals_parse_args(o)[1].disabled = FALSE
        /\ cray_pals_parse_args(o)[1].ports = <<>>
    BY <2>2
  <2> QED BY <2>3
<1>2. CASE o.bootstrap = "off"
  <2>1. cray_pals_parse_args(o) = <<[disabled |-> TRUE, ports |-> <<>>]>>
    BY <1>2 DEF cray_pals_parse_args
  <2>2. cray_pals_parse_args(o)[1] = [disabled |-> TRUE, ports |-> <<>>]
    BY <2>1
  <2>3. /\ cray_pals_parse_args(o)[1].disabled = TRUE
        /\ cray_pals_parse_args(o)[1].ports = <<>>
    BY <2>2
  <2> QED BY <1>2, <2>3
<1>3. CASE o.bootstrap = "ports"
  <2>1. cray_pals_parse_args(o) = <<[disabled |-> FALSE, ports |-> UserPorts]>>
    BY <1>3 DEF cray_pals_parse_args
  <2>2. cray_pals_parse_args(o)[1] = [disabled |-> FALSE, ports |-> UserPorts]
    BY <2>1
  <2>3. /\ cray_pals_parse_args(o)[1].disabled = FALSE
        /\ cray_pals_parse_args(o)[1].ports = UserPorts
    BY <2>2
  <2> QED BY <1>3, <2>3
<1> QED BY <1>1, <1>2, <1>3 DEF cray_pals_parse_args

LEMMA EnvTypes ==
  /\ Submitted \in ShellEnv
  /\ unset_pals_env(Submitted) \in ShellEnv
  /\ unset_pals_env(Submitted).ports = <<>> /\ unset_pals_env(Submitted).apid = "unset"
  /\ \A ports \in PortPairs \cup {UserPorts} :
       /\ set_environment(Submitted, ports) \in ShellEnv
       /\ set_environment(Submitted, ports).ports = ports
       /\ set_environment(Submitted, ports).apid = "own"
<1>1. Submitted \in ShellEnv
  BY DEF Submitted, ShellEnv, Foreign
<1>2. <<>> \in PortPairs
  BY DEF PortPairs
<1>3. /\ unset_pals_env(Submitted) \in ShellEnv
      /\ unset_pals_env(Submitted).ports = <<>> /\ unset_pals_env(Submitted).apid = "unset"
  BY <1>2 DEF unset_pals_env, ShellEnv
<1>4. ASSUME NEW ports \in PortPairs \cup {UserPorts}
      PROVE  /\ set_environment(Submitted, ports) \in ShellEnv
             /\ set_environment(Submitted, ports).ports = ports
             /\ set_environment(Submitted, ports).apid = "own"
  <2>1. CASE ports = <<>>
    BY <1>2, <2>1 DEF set_environment, Submitted, ShellEnv, Foreign
  <2>2. CASE ports # <<>>
    BY <2>2 DEF set_environment, ShellEnv
  <2> QED BY <2>1, <2>2
<1> QED BY <1>1, <1>3, <1>4

(* What a ready shell gives its tasks. *)
LEMMA TaskEnvOutcome ==
  ASSUME NEW j, event[j] \in PortPairs, PalsIsOn(j) => Parsed(j) # <<>>
  PROVE  /\ TaskEnv(j) \in ShellEnv
         /\ TaskEnv(j).ports \in PortPairs \cup {UserPorts}
         /\ TaskEnv(j).apid \in {"own", "unset"}
         /\ PalsIsOn(j) => TaskEnv(j).ports = PalsPorts(j)
         /\ TaskEnv(j).apid = "own" => PalsIsOn(j)
<1>1. <<>> \in PortPairs
  BY DEF PortPairs
<1>2. CASE PalsIsOn(j)
  <2>1. PalsPorts(j) \in PortPairs \cup {UserPorts}
    BY <1>1, <1>2, ParseOutcome DEF PalsPorts, Parsed
  <2>2. TaskEnv(j) = set_environment(Submitted, PalsPorts(j))
    BY <1>2 DEF TaskEnv
  <2> QED BY <1>2, <2>1, <2>2, EnvTypes
<1>3. CASE ~PalsIsOn(j)
  <2>1. TaskEnv(j) = unset_pals_env(Submitted)
    BY <1>3 DEF TaskEnv
  <2> QED BY <1>1, <1>3, <2>1, EnvTypes
<1> QED BY <1>2, <1>3

LEMMA RankTypes ==
  ASSUME ShellTypes, NEW j \in Watched
  PROVE  /\ Ranks(j) \in {{}, 0 .. 0, 0 .. 1}
         /\ \A r \in Ranks(j) : shell[j][r] \in ShellRecs
<1>1. shell[j] \in ShellSets
  BY DEF ShellTypes
<1>2. CASE shell[j] = <<>>
  BY <1>2 DEF Ranks
<1>3. CASE shell[j] \in [0 .. 0 -> ShellRecs]
  BY <1>3 DEF Ranks
<1>4. CASE shell[j] \in [0 .. 1 -> ShellRecs]
  BY <1>4 DEF Ranks
<1> QED BY <1>1, <1>2, <1>3, <1>4 DEF ShellSets

(* A step that leaves a job's shells, log, options and event alone. *)
LEMMA ShellFrame ==
  ASSUME NEW j, JobShells(j),
         opt'[j] = opt[j], log'[j] = log[j], shell'[j] = shell[j], event'[j] = event[j],
         jobState'[j] \in {"NONE", "SCHED"} => jobState[j] \in {"NONE", "SCHED"}
  PROVE  JobShells(j)'
BY DEF JobShells, PostedEvent, Ranks, RankOK, TaskEnv, PalsPorts, PalsIsOn, Parsed

(* An entry in the log that is not the plugin's. *)
LEMMA LogGrows ==
  ASSUME NEW j, JobShells(j), log[j] \in Seq(LogEntries),
         NEW e \in LogEntries, e.name # Bootstrap, log'[j] = Append(log[j], e),
         opt'[j] = opt[j], shell'[j] = shell[j], event'[j] = event[j],
         jobState'[j] \in {"NONE", "SCHED"} =>
           jobState[j] \in {"NONE", "SCHED"} /\ ~Surpasses(e)
  PROVE  JobShells(j)' /\ log'[j] \in Seq(LogEntries)
<1>1. log'[j] \in Seq(LogEntries)
  BY LogAppend
<1>2. \A i \in DOMAIN log'[j] : \/ i \in DOMAIN log[j] /\ log'[j][i] = log[j][i]
                                \/ log'[j][i] = e
  BY LogAppend
<1>3. Finds(log'[j], Bootstrap, PostedEvent(j)')
  <2>1. PostedEvent(j)' = PostedEvent(j)
    BY DEF PostedEvent
  <2> QED BY <2>1, FindsStill DEF JobShells
<1>4. jobState'[j] \in {"NONE", "SCHED"} =>
        Ranks(j)' = {} /\ \A i \in DOMAIN log'[j] : ~Surpasses(log'[j][i])
  BY <1>2 DEF JobShells, Ranks
<1>5. /\ (Ranks(j) = 0 .. 0 => event[j] = <<>>)'
      /\ (\A r \in Ranks(j) : RankOK(j, r))'
  BY DEF JobShells, Ranks, RankOK, TaskEnv, PalsPorts, PalsIsOn, Parsed
<1> QED BY <1>1, <1>3, <1>4, <1>5 DEF JobShells

LEMMA ExceptLog ==
  ASSUME ShellTypes, NEW j \in Watched, NEW s \in Seq(LogEntries),
         log' = [log EXCEPT ![j] = s]
  PROVE  /\ log' \in [Watched -> Seq(LogEntries)]
         /\ log'[j] = s
         /\ \A k \in Watched \ {j} : log'[k] = log[k]
BY DEF ShellTypes

(* One shell of a job changes. *)
LEMMA OneShell ==
  ASSUME ShellTypes, NEW j \in Watched, NEW r \in Ranks(j), NEW s \in ShellRecs,
         shell' = [shell EXCEPT ![j][r] = s]
  PROVE  /\ shell' \in [Watched -> ShellSets]
         /\ Ranks(j)' = Ranks(j)
         /\ shell'[j][r] = s
         /\ \A q \in Ranks(j) \ {r} : shell'[j][q] = shell[j][q]
         /\ \A k \in Watched \ {j} : shell'[k] = shell[k]
<1>1. shell \in [Watched -> ShellSets] /\ shell[j] \in ShellSets
  BY DEF ShellTypes
<1>2. /\ shell' = [shell EXCEPT ![j] = [shell[j] EXCEPT ![r] = s]]
      /\ shell'[j] = [shell[j] EXCEPT ![r] = s]
      /\ \A k \in Watched \ {j} : shell'[k] = shell[k]
  BY <1>1
<1>3. [shell[j] EXCEPT ![r] = s] \in ShellSets
  <2>1. CASE shell[j] = <<>>
    BY <2>1 DEF Ranks
  <2>2. CASE shell[j] \in [0 .. 0 -> ShellRecs]
    BY <2>2 DEF Ranks, ShellSets
  <2>3. CASE shell[j] \in [0 .. 1 -> ShellRecs]
    BY <2>3 DEF Ranks, ShellSets
  <2> QED BY <1>1, <2>1, <2>2, <2>3 DEF ShellSets
<1>4. DOMAIN shell'[j] = DOMAIN shell[j]
  BY <1>2
<1> QED BY <1>1, <1>2, <1>3, <1>4 DEF Ranks

(* RankOK of the shell that changes is all that has to be shown. *)
LEMMA OneShellJob ==
  ASSUME ShellInv, NEW j \in Watched, NEW r \in Ranks(j), NEW s \in ShellRecs,
         shell' = [shell EXCEPT ![j][r] = s],
         UNCHANGED <<portVars, opt, log>>,
         s.stage # "ready" => s.env = Submitted,
         s.stage = "up" => PalsIsOn(j) /\ Parsed(j) # <<>>,
         s.stage = "ready" => s.env = TaskEnv(j) /\ (PalsIsOn(j) => Parsed(j) # <<>>)
  PROVE  ShellInv'
<1>1. ShellTypes /\ opt' = opt /\ log' = log /\ event' = event /\ jobState' = jobState
  BY DEF ShellInv, portVars
<1>2. /\ shell' \in [Watched -> ShellSets]
      /\ Ranks(j)' = Ranks(j)
      /\ shell'[j][r] = s
      /\ \A q \in Ranks(j) \ {r} : shell'[j][q] = shell[j][q]
      /\ \A k \in Watched \ {j} : shell'[k] = shell[k]
  BY <1>1, OneShell
<1>3. ShellTypes'
  BY <1>1, <1>2 DEF ShellTypes
<1>4. ASSUME NEW k \in Watched \ {j} PROVE JobShells(k)'
  BY <1>1, <1>2, ShellFrame DEF ShellInv
<1>5. /\ PalsIsOn(j)' = PalsIsOn(j) /\ Parsed(j)' = Parsed(j)
      /\ TaskEnv(j)' = TaskEnv(j)
  BY <1>1, <1>2 DEF PalsIsOn, Parsed, TaskEnv, PalsPorts
<1>6. JobShells(j)'
  <2>1. JobShells(j)
    BY DEF ShellInv
  <2>2. ASSUME NEW q \in Ranks(j) PROVE RankOK(j, q)'
    <3>1. CASE q = r
      BY <1>2, <1>5, <3>1 DEF RankOK
    <3>2. CASE q # r
      BY <1>2, <1>5, <2>1, <3>2 DEF RankOK, JobShells
    <3> QED BY <3>1, <3>2
  <2>3. Finds(log'[j], Bootstrap, PostedEvent(j)')
    BY <1>1, <2>1 DEF JobShells, PostedEvent
  <2> QED BY <1>1, <1>2, <2>1, <2>2, <2>3 DEF JobShells
<1> QED BY <1>3, <1>4, <1>6 DEF ShellInv

LEMMA ShellInitInv ==
  ASSUME Init
  PROVE  ShellInv
<1>1. ShellTypes
  BY DEF Init, ShellInit, ShellTypes, ShellSets
<1>2. ASSUME NEW j \in Watched PROVE JobShells(j)
  <2>1. log[j] = <<>> /\ shell[j] = <<>>
    BY DEF Init, ShellInit
  <2>2. event[j] = <<>>
    BY WatchedAreJobs DEF Init, PortInit
  <2>3. DOMAIN <<>> = {} /\ 0 \in 0 .. 0
    OBVIOUS
  <2> QED BY <2>1, <2>2, <2>3 DEF JobShells, Finds, PostedEvent, Ranks
<1> QED BY <1>1, <1>2 DEF ShellInv

(* The shells of the other jobs. *)
LEMMA OtherJobs ==
  ASSUME ShellInv, NEW j,
         \A k \in Watched \ {j} :
           /\ opt'[k] = opt[k] /\ log'[k] = log[k] /\ shell'[k] = shell[k]
           /\ event'[k] = event[k] /\ jobState'[k] = jobState[k]
  PROVE  \A k \in Watched \ {j} : JobShells(k)'
<1> TAKE k \in Watched \ {j}
<1> QED BY ShellFrame DEF ShellInv

LEMMA AllocateInv ==
  ASSUME PortInv, ShellInv, NEW j \in Watched, Allocate(j)
  PROVE  ShellInv'
<1>0. j \in Jobs
  BY WatchedAreJobs
<1>1. PICK hosts \in 1 .. 2 :
        /\ run_cb(j, hosts)
        /\ log' = IF event'[j] = <<>> THEN log
                  ELSE [log EXCEPT ![j] = Append(log[j], EventWith(Bootstrap, event'[j]))]
        /\ shell' = [shell EXCEPT ![j] = [r \in 0 .. hosts - 1 |-> NoShell]]
        /\ opt' \in {[opt EXCEPT ![j] = o] : o \in Options}
  BY DEF Allocate
<1>2. /\ jobState[j] = "SCHED"
      /\ jobState' = [jobState EXCEPT ![j] = "RUN"]
  BY <1>0, <1>1, RunOutcome
<1>3. PICK posted \in PortPairs : event' = [event EXCEPT ![j] = posted]
  BY <1>0, <1>1, RunOutcome
<1>4. /\ jobState \in [Jobs -> States] /\ event \in [Jobs -> PortPairs]
      /\ event[j] = <<>>
  BY <1>0, <1>2 DEF PortInv, PortTypeOK, JobInv
<1>5. /\ event'[j] = posted /\ jobState'[j] = "RUN"
      /\ \A k \in Jobs \ {j} : event'[k] = event[k] /\ jobState'[k] = jobState[k]
  BY <1>0, <1>2, <1>3, <1>4
<1>6. hosts = 1 => posted = <<>>
  <2> SUFFICES ASSUME hosts = 1 PROVE posted = <<>>
    OBVIOUS
  <2>1. event' = event
    BY <1>1 DEF run_cb
  <2> QED BY <1>4, <1>5, <2>1
<1>7. /\ ShellTypes /\ JobShells(j) /\ log[j] \in Seq(LogEntries)
      /\ opt \in [Watched -> Options \cup {<<>>}] /\ shell \in [Watched -> ShellSets]
  BY DEF ShellInv, ShellTypes
<1>8. /\ opt' \in [Watched -> Options \cup {<<>>}]
      /\ \A k \in Watched \ {j} : opt'[k] = opt[k]
  BY <1>1, <1>7
<1>9. NoShell \in ShellRecs /\ NoShell.stage = "none" /\ NoShell.env = Submitted
  BY EnvTypes DEF NoShell, ShellRecs, Stages
<1>10. [r \in 0 .. hosts - 1 |-> NoShell] \in ShellSets
  <2>1. 0 .. hosts - 1 = 0 .. 0 \/ 0 .. hosts - 1 = 0 .. 1
    OBVIOUS
  <2> QED BY <1>9, <2>1 DEF ShellSets
<1>11. /\ shell' \in [Watched -> ShellSets]
       /\ shell'[j] = [r \in 0 .. hosts - 1 |-> NoShell]
       /\ \A k \in Watched \ {j} : shell'[k] = shell[k]
  BY <1>1, <1>7, <1>10
<1>12. Ranks(j)' = 0 .. hosts - 1 /\ \A r \in Ranks(j)' : shell'[j][r] = NoShell
  BY <1>11 DEF Ranks
<1>13. \A i \in DOMAIN log[j] : ~Stops(log[j][i], Bootstrap)
  BY <1>2, <1>4, <1>7 DEF JobShells, Finds, PostedEvent, Stops
<1>14. /\ log' \in [Watched -> Seq(LogEntries)]
       /\ \A k \in Watched \ {j} : log'[k] = log[k]
       /\ Finds(log'[j], Bootstrap, PostedEvent(j)')
  <2>1. CASE posted = <<>>
    <3>1. log' = log /\ PostedEvent(j)' = <<>>
      BY <1>1, <1>5, <2>1 DEF PostedEvent
    <3>2. \A i \in DOMAIN log[j] : log[j][i].name # Bootstrap
      BY <1>13 DEF Stops
    <3> QED BY <1>7, <3>1, <3>2 DEF Finds, ShellTypes
  <2>2. CASE posted # <<>>
    <3>1. EventWith(Bootstrap, posted) \in LogEntries
      BY DEF LogEntries
    <3> DEFINE new == Append(log[j], EventWith(Bootstrap, posted))
    <3>2. new \in Seq(LogEntries)
      BY <1>7, <3>1, LogAppend
    <3>3. Finds(new, Bootstrap, <<posted>>)
      BY <1>7, <1>13, <3>1, FindsNew
    <3>4. log' = [log EXCEPT ![j] = new]
      BY <1>1, <1>5, <2>2
    <3> HIDE DEF new
    <3>5. /\ log' \in [Watched -> Seq(LogEntries)]
          /\ log'[j] = new
          /\ \A k \in Watched \ {j} : log'[k] = log[k]
      BY <1>7, <3>2, <3>4, ExceptLog
    <3>6. PostedEvent(j)' = <<posted>>
      BY <1>5, <2>2 DEF PostedEvent
    <3> QED BY <3>3, <3>5, <3>6
  <2> QED BY <2>1, <2>2
<1>15. JobShells(j)'
  <2>1. (Ranks(j) = 0 .. 0 => event[j] = <<>>)'
    <3>1. 0 .. hosts - 1 = 0 .. 0 => hosts = 1
      <4>1. CASE hosts = 2
        <5>1. 1 \in 0 .. hosts - 1 /\ 1 \notin 0 .. 0
          BY <4>1
        <5> QED BY <5>1
      <4> QED BY <4>1
    <3> QED BY <1>5, <1>6, <1>12, <3>1
  <2>2. (\A r \in Ranks(j) : RankOK(j, r))'
    BY <1>9, <1>12 DEF RankOK
  <2> QED BY <1>5, <1>14, <2>1, <2>2 DEF JobShells
<1>16. \A k \in Watched \ {j} : JobShells(k)'
  BY <1>5, <1>8, <1>11, <1>14, OtherJobs, WatchedAreJobs
<1>17. ShellTypes'
  BY <1>8, <1>11, <1>14 DEF ShellTypes
<1> QED BY <1>15, <1>16, <1>17 DEF ShellInv

(* An entry in the log of one job, in a step that may move it to CLEANUP. *)
LEMMA LogStep ==
  ASSUME PortInv, ShellInv, NEW j \in Watched,
         NEW e \in {EventStart, EventException(0), EventException(1)},
         log' = [log EXCEPT ![j] = Append(log[j], e)],
         opt' = opt, shell' = shell, event' = event,
         \A k \in Watched \ {j} : jobState'[k] = jobState[k],
         jobState'[j] \in {"NONE", "SCHED"} =>
           jobState[j] \in {"NONE", "SCHED"} /\ ~Surpasses(e)
  PROVE  ShellInv'
<1>1. e \in LogEntries /\ e.name # Bootstrap
  BY EntryNames DEF LogEntries, Bootstrap
<1>2. ShellTypes /\ JobShells(j) /\ log[j] \in Seq(LogEntries)
  BY DEF ShellInv, ShellTypes
<1>3. Append(log[j], e) \in Seq(LogEntries)
  BY <1>1, <1>2
<1>4. /\ log' \in [Watched -> Seq(LogEntries)]
      /\ log'[j] = Append(log[j], e)
      /\ \A k \in Watched \ {j} : log'[k] = log[k]
  BY <1>2, <1>3, ExceptLog
<1>5. JobShells(j)'
  BY <1>1, <1>2, <1>4, LogGrows
<1>6. \A k \in Watched \ {j} : JobShells(k)'
  BY <1>4, OtherJobs
<1>7. ShellTypes'
  BY <1>2, <1>4 DEF ShellTypes
<1> QED BY <1>5, <1>6, <1>7 DEF ShellInv

LEMMA LaunchInv ==
  ASSUME ShellInv, NEW j \in Watched, NEW r \in Ranks(j), LaunchShell(j, r)
  PROVE  ShellInv'
<1> DEFINE stage == IF ~PalsIsOn(j) THEN "ready"
                    ELSE IF Parsed(j) = <<>> THEN "failed" ELSE "up"
           env == IF stage = "ready" THEN unset_pals_env(Submitted) ELSE Submitted
           s == [stage |-> stage, env |-> env]
<1>1. shell' = [shell EXCEPT ![j][r] = s] /\ UNCHANGED <<portVars, opt, log>>
  BY DEF LaunchShell, PalsIsOn, Parsed
<1>2. s.stage = stage /\ s.env = env /\ s \in ShellRecs
  BY EnvTypes DEF ShellRecs, Stages
<1>3. /\ s.stage # "ready" => s.env = Submitted
      /\ s.stage = "up" => PalsIsOn(j) /\ Parsed(j) # <<>>
      /\ s.stage = "ready" => ~PalsIsOn(j) /\ s.env = TaskEnv(j)
  BY <1>2 DEF TaskEnv
<1> HIDE DEF s, stage, env
<1> QED BY <1>1, <1>2, <1>3, OneShellJob

LEMMA LibpalsInv ==
  ASSUME PortInv, ShellInv, NEW j \in Watched, NEW r \in Ranks(j), libpals_init(j, r)
  PROVE  ShellInv'
<1> DEFINE pmi == Parsed(j)[1]
           reads == get_pmi_bootstrap(pmi, r, Cardinality(Ranks(j)))
           given == IF reads THEN read_future(j) ELSE pmi.ports
           Done(stage, env) ==
             shell' = [shell EXCEPT ![j][r] = [stage |-> stage, env |-> env]]
<1>1. /\ shell[j][r].stage = "up"
      /\ reads => ~Waits(log[j], Bootstrap)
      /\ \/ Done("ready", set_environment(shell[j][r].env, given))
         \/ Done("failed", shell[j][r].env)
      /\ UNCHANGED <<portVars, opt, log>>
  BY DEF libpals_init, Parsed
<1>2. /\ shell[j][r].env = Submitted /\ PalsIsOn(j) /\ Parsed(j) # <<>>
      /\ Finds(log[j], Bootstrap, PostedEvent(j))
      /\ log[j] \in Seq(LogEntries) /\ event[j] \in PortPairs
  BY <1>1, WatchedAreJobs
  DEF ShellInv, ShellTypes, JobShells, RankOK, PortInv, PortTypeOK
<1>3. given = PalsPorts(j)
  BY <1>1, <1>2, ReadsEvent DEF PalsPorts, get_pmi_bootstrap
<1>4. TaskEnv(j) = set_environment(Submitted, given) /\ TaskEnv(j) \in ShellEnv
  BY <1>2, <1>3, TaskEnvOutcome DEF TaskEnv
<1> HIDE DEF given, reads, pmi
<1>5. CASE Done("ready", set_environment(shell[j][r].env, given))
  <2> DEFINE s == [stage |-> "ready", env |-> TaskEnv(j)]
  <2>1. shell' = [shell EXCEPT ![j][r] = s]
    BY <1>2, <1>4, <1>5
  <2>2. s \in ShellRecs /\ s.stage = "ready" /\ s.env = TaskEnv(j)
    BY <1>4 DEF ShellRecs, Stages
  <2> HIDE DEF s
  <2> QED BY <1>1, <1>2, <2>1, <2>2, OneShellJob
<1>6. CASE Done("failed", shell[j][r].env)
  <2> DEFINE s == [stage |-> "failed", env |-> Submitted]
  <2>1. shell' = [shell EXCEPT ![j][r] = s]
    BY <1>2, <1>6
  <2>2. s \in ShellRecs /\ s.stage = "failed" /\ s.env = Submitted
    BY EnvTypes DEF ShellRecs, Stages
  <2> HIDE DEF s
  <2> QED BY <1>1, <2>1, <2>2, OneShellJob
<1> QED BY <1>1, <1>5, <1>6

LEMMA EndedInv ==
  ASSUME PortInv, ShellInv, NEW j \in Watched, Ended(j)
  PROVE  ShellInv'
<1>0. j \in Jobs
  BY WatchedAreJobs
<1>1. /\ opt \in [Watched -> Options \cup {<<>>}] /\ log \in [Watched -> Seq(LogEntries)]
      /\ shell \in [Watched -> ShellSets]
      /\ event \in [Jobs -> PortPairs] /\ jobState \in [Jobs -> States]
  BY DEF ShellInv, ShellTypes, PortInv, PortTypeOK
<1>2. /\ opt' = [opt EXCEPT ![j] = <<>>] /\ log' = [log EXCEPT ![j] = <<>>]
      /\ shell' = [shell EXCEPT ![j] = <<>>] /\ event' = [event EXCEPT ![j] = <<>>]
      /\ jobState' = [jobState EXCEPT ![j] = "NONE"]
  BY DEF Ended, Inactive
<1>3. ShellTypes'
  BY <1>1, <1>2 DEF ShellTypes, ShellSets
<1>4. log'[j] = <<>> /\ shell'[j] = <<>> /\ event'[j] = <<>>
  BY <1>0, <1>1, <1>2
<1>5. JobShells(j)'
  <2>1. DOMAIN <<>> = {}
    OBVIOUS
  <2> QED BY <1>4, <2>1 DEF JobShells, Finds, PostedEvent, Ranks
<1>6. \A k \in Watched \ {j} :
        /\ opt'[k] = opt[k] /\ log'[k] = log[k] /\ shell'[k] = shell[k]
        /\ event'[k] = event[k] /\ jobState'[k] = jobState[k]
  BY <1>1, <1>2, WatchedAreJobs
<1>7. \A k \in Watched \ {j} : JobShells(k)'
  BY <1>6, OtherJobs
<1> QED BY <1>3, <1>5, <1>7 DEF ShellInv

(* Steps that concern no shell. *)
LEMMA QuietStep ==
  ASSUME ShellInv, UNCHANGED shellVars,
         \A k \in Watched :
           /\ event'[k] = event[k]
           /\ jobState'[k] \in {"NONE", "SCHED"} => jobState[k] \in {"NONE", "SCHED"}
  PROVE  ShellInv'
<1>1. opt' = opt /\ log' = log /\ shell' = shell
  BY DEF shellVars
<1>2. ShellTypes'
  BY <1>1 DEF ShellInv, ShellTypes
<1>3. ASSUME NEW k \in Watched PROVE JobShells(k)'
  BY <1>1, ShellFrame DEF ShellInv
<1> QED BY <1>2, <1>3 DEF ShellInv

LEMMA ShellStepInv ==
  ASSUME PortInv, ShellInv, [Next]_vars
  PROVE  ShellInv'
<1>0. /\ event \in [Jobs -> PortPairs] /\ jobState \in [Jobs -> States]
      /\ Watched \subseteq Jobs
  BY WatchedAreJobs DEF PortInv, PortTypeOK
<1>1. CASE UNCHANGED vars
  BY <1>1, QuietStep DEF vars, shellVars
<1>2. ASSUME NEW j \in Jobs \ Watched, Unwatched(j)
      PROVE  ShellInv'
  <2>1. \A k \in Watched : event'[k] = event[k] /\ jobState'[k] = jobState[k]
    <3>1. CASE Submit(j)
      BY <1>0, <3>1 DEF Submit
    <3>2. ASSUME NEW hosts \in 1 .. 2, run_cb(j, hosts)
          PROVE  \A k \in Watched : event'[k] = event[k] /\ jobState'[k] = jobState[k]
      <4>1. /\ jobState' = [jobState EXCEPT ![j] = "RUN"]
            /\ \E posted \in PortPairs : event' = [event EXCEPT ![j] = posted]
        BY <3>2, RunOutcome
      <4> QED BY <1>0, <4>1
    <3>3. CASE EnterCleanup(j)
      BY <1>0, <3>3 DEF EnterCleanup
    <3>4. CASE Inactive(j)
      BY <1>0, <3>4 DEF Inactive
    <3> QED BY <1>2, <3>1, <3>2, <3>3, <3>4 DEF Unwatched
  <2> QED BY <1>2, <2>1, QuietStep DEF Unwatched
<1>3. ASSUME NEW j \in Watched, Submit(j), UNCHANGED shellVars
      PROVE  ShellInv'
  <2>1. \A k \in Watched :
          /\ event'[k] = event[k]
          /\ jobState'[k] \in {"NONE", "SCHED"} => jobState[k] \in {"NONE", "SCHED"}
    BY <1>0, <1>3 DEF Submit
  <2> QED BY <1>3, <2>1, QuietStep
<1>4. ASSUME NEW j \in Watched, NonfatalException(j)
      PROVE  ShellInv'
  <2>1. /\ log' = [log EXCEPT ![j] = Append(log[j], EventException(1))]
        /\ opt' = opt /\ shell' = shell /\ event' = event /\ jobState' = jobState
    BY <1>4 DEF NonfatalException, portVars
  <2> QED BY <2>1, LogStep, EntryNames
<1>5. ASSUME NEW j \in Watched, StartEvent(j)
      PROVE  ShellInv'
  <2>1. /\ log' = [log EXCEPT ![j] = Append(log[j], EventStart)]
        /\ opt' = opt /\ shell' = shell /\ event' = event /\ jobState' = jobState
        /\ jobState[j] = "RUN"
    BY <1>5 DEF StartEvent, portVars
  <2> QED BY <2>1, LogStep
<1>6. ASSUME NEW j \in Watched, Finish(j)
      PROVE  ShellInv'
  <2>1. event' = event /\ jobState' = [jobState EXCEPT ![j] = "CLEANUP"]
        /\ UNCHANGED shellVars
    BY <1>6 DEF Finish, EnterCleanup
  <2> QED BY <1>0, <2>1, QuietStep
<1>7. ASSUME NEW j \in Watched, FatalException(j)
      PROVE  ShellInv'
  <2>1. /\ log' = [log EXCEPT ![j] = Append(log[j], EventException(0))]
        /\ opt' = opt /\ shell' = shell /\ event' = event
        /\ jobState' = [jobState EXCEPT ![j] = "CLEANUP"]
    BY <1>7 DEF FatalException, EnterCleanup
  <2>2. jobState'[j] = "CLEANUP" /\ \A k \in Watched \ {j} : jobState'[k] = jobState[k]
    BY <1>0, <2>1
  <2> QED BY <2>1, <2>2, LogStep
<1>8. CASE Reload /\ UNCHANGED shellVars
  BY <1>8, QuietStep DEF Reload
<1> QED BY <1>1, <1>2, <1>3, <1>4, <1>5, <1>6, <1>7, <1>8,
           AllocateInv, EndedInv, LaunchInv, LibpalsInv DEF Next

LEMMA ShellInvariant == Spec => [](PortInv /\ ShellInv)
<1>1. Init => ShellInv
  BY ShellInitInv
<1>2. PortInv /\ ShellInv /\ [Next]_vars => ShellInv'
  BY ShellStepInv
<1>3. Spec => []PortInv
  BY ComposedSpec, PortInvariant, PTL
<1> QED BY <1>1, <1>2, <1>3, PTL DEF Spec

(* Every variable of the composed system keeps its type: the environment a  *)
(* shell leaves its tasks holds ports that libpals_init() may have set.     *)
THEOREM PalsTypeCorrect == Spec => []TypeOK
<1>1. PortInv /\ ShellInv => TypeOK
  <2> SUFFICES ASSUME PortInv, ShellInv PROVE TypeOK
    OBVIOUS
  <2>1. ShellTypes /\ PortTypeOK
    BY DEF PortInv, ShellInv
  <2> QED BY <2>1, RankTypes DEF TypeOK, ShellTypes, ShellRecs
<1> QED BY <1>1, ShellInvariant, PTL

(* All shells of a job give their tasks the same ports, the ones run_cb()   *)
(* posted unless the user decided otherwise: each reads the log on its own  *)
(* and at its own time, with any other entries in it, for any number of     *)
(* jobs and exceptions.                                                     *)
THEOREM ShellsAgree == Spec => []SamePorts
<1>1. PortInv /\ ShellInv => SamePorts
  <2> SUFFICES ASSUME PortInv, ShellInv, NEW j \in Watched,
                      NEW r \in Ranks(j), NEW q \in Ranks(j),
                      shell[j][r].stage = "ready", shell[j][q].stage = "ready"
               PROVE  /\ shell[j][r].env.ports = shell[j][q].env.ports
                      /\ opt[j].bootstrap = "default" /\ shell[j][r].env.apid = "own" =>
                           shell[j][r].env.ports = event[j]
    BY DEF SamePorts
  <2>1. /\ shell[j][r].env = TaskEnv(j) /\ shell[j][q].env = TaskEnv(j)
        /\ PalsIsOn(j) => Parsed(j) # <<>>
        /\ Ranks(j) = 0 .. 0 => event[j] = <<>>
        /\ ShellTypes
    BY DEF ShellInv, JobShells, RankOK
  <2>2. event[j] \in PortPairs
    BY WatchedAreJobs DEF PortInv, PortTypeOK
  <2>3. /\ PalsIsOn(j) => TaskEnv(j).ports = PalsPorts(j)
        /\ TaskEnv(j).apid = "own" => PalsIsOn(j)
    BY <2>1, <2>2, TaskEnvOutcome
  <2>4. ASSUME opt[j].bootstrap = "default", TaskEnv(j).apid = "own"
        PROVE  TaskEnv(j).ports = event[j]
    <3>1. /\ ~Parsed(j)[1].disabled /\ Parsed(j)[1].ports = <<>>
      BY <2>1, <2>3, <2>4, ParseOutcome DEF Parsed
    <3>2. CASE Ranks(j) = 0 .. 0
      BY <2>1, <2>3, <2>4, <3>1, <3>2 DEF PalsPorts
    <3>3. CASE Ranks(j) = 0 .. 1
      <4>1. Cardinality(Ranks(j)) > 1
        <5>1. 0 \in Int /\ 1 \in Int
          OBVIOUS
        <5>2. Cardinality(0 .. 1) = IF 0 > 1 THEN 0 ELSE 1 - 0 + 1
          BY <5>1, FS_Interval
        <5> QED BY <3>3, <5>2
      <4> QED BY <2>3, <2>4, <3>1, <4>1 DEF PalsPorts, get_pmi_bootstrap
    <3> QED BY <2>1, <3>2, <3>3, RankTypes
  <2> QED BY <2>1, <2>4
<1> QED BY <1>1, ShellInvariant, PTL

(* Tasks never see the PMI_CONTROL_PORT or PALS_APID the job was submitted  *)
(* with: set_environment() and unset_pals_env() leave neither behind,       *)
(* whatever the options are and whichever entries the log holds.            *)
THEOREM TasksHaveOwnBootstrap == Spec => []OwnBootstrap
<1>1. PortInv /\ ShellInv => OwnBootstrap
  <2> SUFFICES ASSUME PortInv, ShellInv, NEW j \in Watched, NEW r \in Ranks(j),
                      shell[j][r].stage = "ready"
               PROVE  /\ shell[j][r].env.ports # ForeignPorts
                      /\ shell[j][r].env.apid # Foreign
    BY DEF OwnBootstrap
  <2>1. /\ shell[j][r].env = TaskEnv(j)
        /\ PalsIsOn(j) => Parsed(j) # <<>>
    BY DEF ShellInv, JobShells, RankOK
  <2>2. event[j] \in PortPairs
    BY WatchedAreJobs DEF PortInv, PortTypeOK
  <2>3. /\ TaskEnv(j).ports \in PortPairs \cup {UserPorts}
        /\ TaskEnv(j).apid \in {"own", "unset"}
    BY <2>1, <2>2, TaskEnvOutcome
  <2>4. ForeignPorts \notin PortPairs \cup {UserPorts}
    <3>1. <<1, 2>> # <<>> /\ <<1, 2>> # <<3, 4>> /\ 1 \notin PortNumbers
      BY DEF PortNumbers, MinPort, PortLimit
    <3>2. <<1, 2>> \notin PortNumbers \X PortNumbers
      BY <3>1
    <3> QED BY <3>1, <3>2 DEF ForeignPorts, UserPorts, PortPairs
  <2> QED BY <2>1, <2>3, <2>4 DEF Foreign
<1> QED BY <1>1, ShellInvariant, PTL
=============================================================================
