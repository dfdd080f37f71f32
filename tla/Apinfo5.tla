------------------------------ MODULE Apinfo5 ------------------------------
(***************************************************************************)
(* apinfo5.c: the fifth version of the file, with two more sections that   *)
(* the header does not count and that are never filled.                    *)
(***************************************************************************)
EXTENDS ApinfoEnv, TLC

LOCAL INSTANCE SequencesExt
LOCAL INSTANCE FiniteSetsExt

Sections == <<"comm", "cmd", "pe", "node", "nic", "dist", "status">>

sizeofHeader == 160

sizeofElement ==
  ("comm" :> 36) @@ ("cmd" :> 12) @@ ("pe" :> 12) @@ ("node" :> 68) @@ ("nic" :> 112)
    @@ ("dist" :> 2) @@ ("status" :> 4)

set_sizes(hdr) == [hdr EXCEPT !.size = sizeofElement]

(* Each section starts where the one before it ends; 0 stands for an unused
   one of the last two. *)
set_offsets(ap) ==
  LET Start(acc, s) ==
        IF s \in {"dist", "status"} /\ ap.hdr.count[s] = 0 THEN 0 ELSE acc.end
      Place(acc, s) == [offset |-> acc.offset @@ (s :> Start(acc, s)),
                        end |-> acc.end + ap.hdr.size[s] * ap.hdr.count[s]]
      all == FoldLeft(Place, [offset |-> <<>>, end |-> sizeofHeader], Sections)
  IN  [ap EXCEPT !.hdr.offset = all.offset, !.hdr.total_size = all.end]

(* A setter replaces an array, its count and with it all offsets. *)
Store(ap, s, array) ==
  set_offsets([ap EXCEPT !.data[s] = array, !.hdr.count[s] = Len(array)])

op_create ==
  LET none == [s \in Range(Sections) |-> <<>>]
      hdr  == [version |-> 5, size |-> <<>>, offset |-> <<>>, total_size |-> 0,
               count |-> [s \in Range(Sections) |-> 0]]
  IN  set_offsets([hdr |-> set_sizes(hdr), data |-> none])

(* The whole object; a call that fails is apinfo_put()'s failure. *)
op_write(ap) ==
  FoldLeft(LAMBDA f, s : fwrite(f, ap.data[s], ap.hdr.size[s], ap.hdr.count[s]),
           fwrite(EmptyFile, <<ap.hdr>>, sizeofHeader, 1), Sections)

max_ntasks(map) ==
  Max({0} \cup {Cardinality(taskmap_taskids(map, n)) : n \in taskmap_nodes(map)})

(* mutant: the offsets are not moved behind the new element *)
set_cmd_NoOffsets(ap, map, cpus_per_pe) ==
  [ap EXCEPT !.data["cmd"] = <<[npes |-> taskmap_total_ntasks(map),
                                pes_per_node |-> max_ntasks(map),
                                cpus_per_pe |-> cpus_per_pe]>>,
             !.hdr.count["cmd"] = 1]

set_cmd(ap, map, cpus_per_pe) ==
  Store(ap, "cmd", <<[npes |-> taskmap_total_ntasks(map), pes_per_node |-> max_ntasks(map),
                      cpus_per_pe |-> cpus_per_pe]>>)

(* The position of the task among those of its node. *)
localidx(map, nodeid, taskid) ==
  Cardinality({t \in taskmap_taskids(map, nodeid) : t < taskid})

set_pes(ap, map) ==
  Store(ap, "pe", [i \in 1 .. taskmap_total_ntasks(map) |->
                     LET nodeid == taskmap_nodeid(map, i - 1)
                     IN  [nodeidx |-> nodeid, localidx |-> localidx(map, nodeid, i - 1),
                          cmdidx |-> 0]])

(* set_pes() and then set_cmd(), each after a calloc; done counts the ones  *)
(* that came through.                                                       *)
op_set_taskmap(ap, map, cpus_per_pe, done) ==
  CASE done = 0 -> ap
    [] done = 1 -> set_pes(ap, map)
    [] done = 2 -> set_cmd(set_pes(ap, map), map, cpus_per_pe)

op_set_hostlist(ap, hosts) ==
  Store(ap, "node", [i \in 1 .. Len(hosts) |->
                       [nid |-> i - 1, hostname |-> snprintf(hosts[i])]])

(* No PE refers to a node that is not there, and some PE to every node. *)
op_check(ap) ==
  /\ \A i \in 1 .. ap.hdr.count["pe"] : ap.data["pe"][i].nodeidx < ap.hdr.count["node"]
  /\ \A n \in 1 .. ap.hdr.count["node"] : \E i \in 1 .. ap.hdr.count["pe"] :
       ap.data["pe"][i].nodeidx = ap.data["node"][n].nid

op_get_size(ap) == ap.hdr.total_size
op_get_hostlist(ap) == [n \in 1 .. ap.hdr.count["node"] |-> ap.data["node"][n].hostname]
op_get_taskmap(ap) == [i \in 1 .. ap.hdr.count["pe"] |-> ap.data["pe"][i].nodeidx]
============================================================================
