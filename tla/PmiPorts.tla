------------------------------ MODULE PmiPorts ------------------------------
(***************************************************************************)
(* The cray-pmi-bootstrap plugin of the job manager: a stack of ports, two *)
(* of which every job of several nodes gets while it is in RUN.  A job id  *)
(* stands for one job at a time and is used again after it.                *)
(***************************************************************************)
EXTENDS Integers, FiniteSets

CONSTANTS
  Jobs,         \* job ids
  Configs,      \* [port_min, port_max]: what port-min and port-max may say
  MinSize,      \* the smallest pool the plugin accepts: 50 in the code
  PortBudget    \* how often a call of the plugin fails, how often it is reloaded

ASSUME ConfigsAreIntegers ==
  Configs \subseteq [port_min : Int, port_max : Int]

ASSUME MinSizePositive == MinSize \in Nat \ {0}

FaultKinds == {"fail", "reload"}

ASSUME PortBudgetCounts == PortBudget \in [FaultKinds -> Nat]

VARIABLES
  range,        \* struct port_range; maxsize 0 stands for "not loaded"
  jobState,     \* jobState[j]: the job manager's state of the job
  aux,          \* aux[j]: the job's CRAY_PMI_AUX_NAME item, <<>> if none
  event,        \* event[j]: ports of its cray-pmi-bootstrap event, <<>> if none
  stale,        \* stale[j]: that event was posted before the plugin's reload
  portBudget

portVars == <<range, jobState, aux, event, stale, portBudget>>

(* Ports below need root; a port has 16 bits. *)
MinPort == 1024
PortLimit == 65536

States == {"NONE", "SCHED", "RUN", "CLEANUP"}
Unloaded == [available |-> [i \in 0 .. -1 |-> 0], fill |-> 0, maxsize |-> 0]

---------------------------------------------------------------------------
(* struct port_range *)

(* available is the filled part of the array: a slot behind it is written   *)
(* before it is read again.                                                 *)
get_port(r) ==
  IF r.fill <= 0 THEN [port |-> -1, range |-> r]
  ELSE [port  |-> r.available[r.fill - 1],
        range |-> [available |-> [i \in 0 .. r.fill - 2 |-> r.available[i]],
                   fill      |-> r.fill - 1,
                   maxsize   |-> r.maxsize]]

(* mutant: the last port is overwritten *)
set_port_OffByOne(r, port) ==
  IF r.fill >= r.maxsize THEN r
  ELSE [available |-> [i \in 0 .. r.fill |->
                         IF i < r.fill - 1 THEN r.available[i] ELSE port],
        fill      |-> r.fill + 1,
        maxsize   |-> r.maxsize]

(* An overflow is refused. *)
set_port(r, port) ==
  IF r.fill >= r.maxsize THEN r
  ELSE [available |-> [i \in 0 .. r.fill |->
                         IF i < r.fill THEN r.available[i] ELSE port],
        fill      |-> r.fill + 1,
        maxsize   |-> r.maxsize]

(* mutant: the upper bound counts as a port *)
flux_plugin_init_Inclusive(conf) ==
  LET size == conf.port_max - conf.port_min + 1
  IN  IF \/ conf.port_min < MinPort \/ conf.port_max < MinPort \/ conf.port_max > PortLimit
         \/ size < MinSize
      THEN Unloaded
      ELSE [available |-> [i \in 0 .. size - 1 |-> conf.port_min + i],
            fill |-> size, maxsize |-> size]

(* The plugin is loaded with this configuration, or refuses it. *)
flux_plugin_init(conf) ==
  LET size == conf.port_max - conf.port_min
  IN  IF \/ conf.port_min < MinPort \/ conf.port_max < MinPort \/ conf.port_max > PortLimit
         \/ size < MinSize
      THEN Unloaded
      ELSE [available |-> [i \in 0 .. size - 1 |-> conf.port_min + i],
            fill |-> size, maxsize |-> size]

---------------------------------------------------------------------------
PortInit ==
  /\ \E conf \in Configs : range = flux_plugin_init(conf)
  /\ jobState = [j \in Jobs |-> "NONE"]
  /\ aux = [j \in Jobs |-> <<>>]
  /\ event = [j \in Jobs |-> <<>>]
  /\ stale = [j \in Jobs |-> FALSE]
  /\ portBudget = PortBudget

Spend(kind) ==
  /\ portBudget[kind] > 0
  /\ portBudget' = [portBudget EXCEPT ![kind] = portBudget[kind] - 1]

(* A job is submitted and waits for its resources. *)
Submit(j) ==
  /\ jobState[j] = "NONE"
  /\ jobState' = [jobState EXCEPT ![j] = "SCHED"]
  /\ UNCHANGED <<range, aux, event, stale, portBudget>>

(* run_cb() for a job on hosts nodes, up to its first failure.  What was    *)
(* taken from the pool by then is not put back, and the job runs anyway.    *)
run_cb(j, hosts) ==
  LET first  == get_port(range)
      second == IF first.port < 0 THEN first ELSE get_port(first.range)
      ports  == <<first.port, second.port>>
      Done(posted, kept) ==
        /\ range' = second.range
        /\ event' = [event EXCEPT ![j] = posted]
        /\ aux' = [aux EXCEPT ![j] = kept]
  IN  /\ jobState[j] = "SCHED"
      /\ jobState' = [jobState EXCEPT ![j] = "RUN"]
      /\ UNCHANGED stale
      /\ \/ /\ hosts = 1 \/ range.maxsize = 0
            /\ UNCHANGED <<range, event, aux, portBudget>>
         \/ /\ hosts > 1 /\ range.maxsize > 0 /\ second.port < 0
            /\ Done(<<>>, <<>>) /\ UNCHANGED portBudget
         \/ /\ hosts > 1 /\ second.port >= 0
            /\ \/ Done(ports, ports) /\ UNCHANGED portBudget
               \/ Done(<<>>, <<>>) /\ Spend("fail")
               \/ Done(ports, <<>>) /\ Spend("fail")

(* mutant: only the first port of the array is put back *)
cleanup_cb_First(j) ==
  range' = IF aux[j] = <<>> THEN range ELSE set_port(range, aux[j][1])

(* cleanup_cb(): the ports of the job go back; its aux item stays. *)
cleanup_cb(j) ==
  range' = IF aux[j] = <<>> THEN range
           ELSE set_port(set_port(range, aux[j][1]), aux[j][2])

(* The job ends, or meets a fatal exception, and enters CLEANUP. *)
EnterCleanup(j) ==
  /\ jobState[j] \in {"SCHED", "RUN"}
  /\ jobState' = [jobState EXCEPT ![j] = "CLEANUP"]
  /\ cleanup_cb(j)
  /\ UNCHANGED <<aux, event, stale, portBudget>>

(* The job becomes inactive; the job manager drops it with its aux items.   *)
Inactive(j) ==
  /\ jobState[j] = "CLEANUP"
  /\ jobState' = [jobState EXCEPT ![j] = "NONE"]
  /\ aux' = [aux EXCEPT ![j] = <<>>]
  /\ event' = [event EXCEPT ![j] = <<>>]
  /\ stale' = [stale EXCEPT ![j] = FALSE]
  /\ UNCHANGED <<range, portBudget>>

(* The plugin is loaded anew, or the job manager restarts: the aux items    *)
(* are gone, and no callback is made for jobs that are in RUN already.      *)
Reload ==
  /\ Spend("reload")
  /\ \E conf \in Configs : range' = flux_plugin_init(conf)
  /\ aux' = [j \in Jobs |-> <<>>]
  /\ stale' = [j \in Jobs |-> event[j] # <<>>]
  /\ UNCHANGED <<jobState, event>>

PortNext ==
  \/ \E j \in Jobs : Submit(j) \/ EnterCleanup(j) \/ Inactive(j)
  \/ \E j \in Jobs, hosts \in 1 .. 2 : run_cb(j, hosts)
  \/ Reload

PortSpec == PortInit /\ [][PortNext]_portVars

---------------------------------------------------------------------------
PortNumbers == MinPort .. PortLimit - 1
PortPairs == {<<>>} \cup (PortNumbers \X PortNumbers)

RangeTypeOK(r) ==
  /\ r = [available |-> r.available, fill |-> r.fill, maxsize |-> r.maxsize]
  /\ r.maxsize \in Nat /\ r.fill \in Nat /\ r.fill <= r.maxsize
  /\ r.available \in [0 .. r.fill - 1 -> PortNumbers]

(* Every variable keeps its type; a port fits in 16 bits and is not reserved *)
(* for root, whatever port-min and port-max say.                             *)
PortTypeOK ==
  /\ RangeTypeOK(range)
  /\ jobState \in [Jobs -> States]
  /\ aux \in [Jobs -> PortPairs]
  /\ event \in [Jobs -> PortPairs]
  /\ stale \in [Jobs -> BOOLEAN]
  /\ portBudget \in [FaultKinds -> Nat]

Elements(pair) == IF pair = <<>> THEN {} ELSE {pair[1], pair[2]}
Filled(r) == {r.available[i] : i \in 0 .. r.fill - 1}
FreePorts == Filled(range)

(* The ports this load of the plugin has told a job that is still in RUN. *)
ToldPorts(j) ==
  IF jobState[j] = "RUN" /\ ~stale[j] THEN Elements(event[j]) ELSE {}

(* The ports cleanup_cb will put back. *)
HeldPorts(j) == IF jobState[j] = "RUN" THEN Elements(aux[j]) ELSE {}

(* Of the jobs in RUN no two were told the same port, nobody was told one    *)
(* port twice, and none of those ports can be given out again, however often *)
(* ports went back, got lost or the plugin was loaded anew in between        *)
(* (get_port, set_port, run_cb's error paths, cleanup_cb).                   *)
UniquePorts ==
  \A j \in Jobs :
    /\ ToldPorts(j) \cap FreePorts = {}
    /\ ToldPorts(j) # {} => event[j][1] # event[j][2]
    /\ \A k \in Jobs \ {j} : ToldPorts(j) \cap ToldPorts(k) = {}

Holders == {j \in Jobs : HeldPorts(j) # {}}
Failures == PortBudget["fail"] - portBudget["fail"]

(* However many jobs come and go, the pool loses two ports for a call that   *)
(* failed and, if the last port is odd, that one: run_cb takes it and cannot *)
(* have a second.                                                            *)
PortsComeBack ==
  LET lost == range.maxsize - range.fill - 2 * Cardinality(Holders)
  IN  0 <= lost /\ lost <= 1 + 2 * Failures

---------------------------------------------------------------------------
Alloc == INSTANCE Allocator WITH
  Clients   <- Jobs,
  Resources <- PortNumbers,
  free      <- FreePorts,
  held      <- [j \in Jobs |-> HeldPorts(j)]

(* The stack of ports is an allocator: run_cb takes, cleanup_cb releases,    *)
(* and a reload makes it anew.                                               *)
PortsAreAllocated == Alloc!Spec
=============================================================================
