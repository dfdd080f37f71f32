------------------------------ MODULE Storage ------------------------------
(***************************************************************************)
(* storage.py: the service keeps what Fluxion knows of the compute nodes   *)
(* of each rabbit in step with the Storage resources in Kubernetes.  Both  *)
(* managers, as functions of the scheduler's state:                        *)
(*   bad, alloc   the nodes with the badrabbit and alloc_rabbit properties *)
(*   down         the rabbits whose ssd vertices are down                  *)
(*   drained      the drained nodes                                        *)
(* Requests to Fluxion and to the resource module are not answered to      *)
(* anybody and are taken in the order they were sent.                      *)
(***************************************************************************)
EXTENDS Naturals, Sequences, FiniteSets

CONSTANTS
  RabbitSeq,   \* the rabbits, in the order Kubernetes lists them
  HostsOf,     \* HostsOf[r]: RABBITS_TO_HOSTLISTS
  Excluded,    \* resource.exclude
  DrainQueue   \* the nodes of the queue that --drain-queues names

Rabbits == {RabbitSeq[i] : i \in DOMAIN RabbitSeq}
Nodes == UNION {HostsOf[r] : r \in Rabbits}

(* RabbitManager() refuses to start when there are none. *)
ASSUME RabbitsAreListed == RabbitSeq \in Seq(Rabbits) /\ RabbitSeq # <<>>

(* One node has one rabbit, see populate_rabbits_dict(). *)
ASSUME OneRabbitPerNode ==
  \A r, s \in Rabbits : r # s => HostsOf[r] \cap HostsOf[s] = {}

HOSTNAMES_TO_RABBITS == [n \in Nodes |-> CHOOSE r \in Rabbits : n \in HostsOf[r]]

(* The options: which manager, rabbit.drain_compute_nodes, soft_drain, and  *)
(* whether draining is limited to a queue.                                  *)
Confs == [fluxion : BOOLEAN, drain : BOOLEAN, soft : BOOLEAN, queue : BOOLEAN]

(* A Storage resource; one of a rabbit that has not booted has no status. *)
Objects ==
  [name : Rabbits, status : {"Ready", "Disabled", "none"}, offline : SUBSET Nodes]

---------------------------------------------------------------------------
_get_offline_nodes(rabbit) == IF rabbit.status = "none" THEN {} ELSE rabbit.offline

(* The nodes Fluxion can be asked about.  The graph of the other manager    *)
(* has all nodes.                                                           *)
_get_rpaths(conf) == IF conf.fluxion THEN Nodes ELSE Nodes \ Excluded

remove_property(s, conf, up_nodes) == [s EXCEPT !.bad = @ \ (up_nodes \cap _get_rpaths(conf))]

set_property(s, conf, down_nodes) == [s EXCEPT !.bad = @ \cup (down_nodes \cap _get_rpaths(conf))]

_drain_offline_nodes(s, conf, rabbit) ==
  [s EXCEPT !.drained = @ \cup (_get_offline_nodes(rabbit) \cap
                                  (IF conf.queue THEN DrainQueue ELSE Nodes))]

(* The nodes to mark: with its rabbit down, all of them for RabbitManager   *)
(* and none for the other one; else those that lost their link.             *)
_down_nodes(conf, rabbit) ==
  IF rabbit.status # "Ready" THEN IF conf.fluxion THEN {} ELSE HostsOf[rabbit.name]
  ELSE IF ~conf.drain /\ conf.soft THEN _get_offline_nodes(rabbit) ELSE {}

_set_or_remove_property(s, conf, rabbit) ==
  LET down_nodes == _down_nodes(conf, rabbit)
  IN  set_property(remove_property(s, conf, HostsOf[rabbit.name] \ down_nodes),
                   conf, down_nodes)

(* The ssd vertices of the rabbit's chassis. *)
_mark_rabbit(s, rabbit) ==
  [s EXCEPT !.down = IF rabbit.status = "Ready" THEN @ \ {rabbit.name}
                     ELSE @ \cup {rabbit.name}]

rabbit_state_change_cb(s, conf, rabbit) ==
  LET drained == IF conf.drain THEN _drain_offline_nodes(s, conf, rabbit) ELSE s
      marked  == _set_or_remove_property(drained, conf, rabbit)
  IN  IF conf.fluxion THEN _mark_rabbit(marked, rabbit) ELSE marked

(* mutant: a started service only watches *)
init_rabbits_WatchOnly(s, conf, objects) == s

(* Every listed rabbit in turn is treated as one that has just changed. *)
init_rabbits(s, conf, objects) ==
  LET listed[i \in 0 .. Len(RabbitSeq)] ==
        IF i = 0 THEN s
        ELSE rabbit_state_change_cb(listed[i - 1], conf, objects[RabbitSeq[i]])
  IN  listed[Len(RabbitSeq)]

---------------------------------------------------------------------------
(* Only RabbitManager keeps rabbits to one job: all nodes of a chassis are  *)
(* marked when some of them are used.                                       *)
RabbitsOf(nodes) == {HOSTNAMES_TO_RABBITS[n] : n \in nodes}

Chassis(conf, rabbits) == (UNION {HostsOf[r] : r \in rabbits}) \cap _get_rpaths(conf)

mark_rabbits_allocated(s, conf, rabbits) ==
  IF conf.fluxion THEN s ELSE [s EXCEPT !.alloc = @ \cup Chassis(conf, rabbits)]

(* mutant: the entry is deleted before it is read *)
mark_rabbits_free_Deleted(s, conf, known) == s

(* known: _jobids_to_rabbits' entry, {} for none.  Without one the nodelist *)
(* of the job is asked for, but the loop goes over the characters of that   *)
(* encoded host list, none of which is a host: no rabbit is freed.          *)
mark_rabbits_free(s, conf, known) ==
  IF conf.fluxion THEN s ELSE [s EXCEPT !.alloc = @ \ Chassis(conf, known)]

(* handle_proposal_state() adds a constraint on properties to rabbit jobs. *)
Avoided(s, conf) ==
  IF ~conf.fluxion THEN s.bad \cup s.alloc ELSE IF ~conf.drain THEN s.bad ELSE {}

(* Where Fluxion may place one; it also wants ssds with the other manager. *)
Eligible(s, conf) ==
  {n \in Nodes \ (Excluded \cup s.drained \cup Avoided(s, conf)) :
     conf.fluxion => HOSTNAMES_TO_RABBITS[n] \notin s.down}
=============================================================================
