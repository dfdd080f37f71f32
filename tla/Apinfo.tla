------------------------------ MODULE Apinfo -------------------------------
(***************************************************************************)
(* The file that tells libPALS about the job: libapinfo's objects of both  *)
(* versions in the hands of a client that calls in any order and goes on   *)
(* after errors, and of cray-pals' create_apinfo(); with what cray-pals    *)
(* does for a task.                                                        *)
(***************************************************************************)
EXTENDS ApinfoEnv

LOCAL INSTANCE SequencesExt

CONSTANTS
  Versions,   \* that a client may ask for
  Nodelists,  \* R's nodelists: a sequence of entries that each name hosts
  Taskmaps,
  Jobspecs,   \* [version, nslots, cores_per_slot]
  Paths,      \* LD_LIBRARY_PATH of a task: <<entries>>, or <<>> if unset
  PmiDir      \* the directory of Flux's own libpmi

V1 == INSTANCE Apinfo1
V5 == INSTANCE Apinfo5

VARIABLES
  client,     \* "api", or the stage of a shell: "init", "failed", "ready", "task"
  job,        \* of a shell: [version, nodelist, map, jobspec, edit, path]
  ap,         \* the object, <<>> if there is none
  given,      \* what the object was told: [hosts, map, torn]
  checked,    \* apinfo_check() passed since
  file,       \* the file, if it was put without an error since, else <<>>
  path        \* LD_LIBRARY_PATH of the shell's task

vars == <<client, job, ap, given, checked, file, path>>

---------------------------------------------------------------------------
(* libapinfo's entry points: the implementation of the object's version *)

lookup_impl(version) == version \in {1, 5}

apinfo_create(version) == IF version = 1 THEN V1!op_create ELSE V5!op_create

IsV1(o) == o.hdr.version = 1

apinfo_set_hostlist(o, hosts) ==
  IF IsV1(o) THEN V1!op_set_hostlist(o, hosts) ELSE V5!op_set_hostlist(o, hosts)

apinfo_set_taskmap(o, map, cpus_per_pe, done) ==
  IF IsV1(o) THEN V1!op_set_taskmap(o, map, cpus_per_pe, done)
  ELSE V5!op_set_taskmap(o, map, cpus_per_pe, done)

apinfo_check(o) == IF IsV1(o) THEN V1!op_check(o) ELSE V5!op_check(o)

apinfo_write(o) == IF IsV1(o) THEN V1!op_write(o) ELSE V5!op_write(o)

apinfo_get_size(o) == IF IsV1(o) THEN V1!op_get_size(o) ELSE V5!op_get_size(o)
apinfo_get_hostlist(o) == IF IsV1(o) THEN V1!op_get_hostlist(o) ELSE V5!op_get_hostlist(o)
apinfo_get_taskmap(o) == IF IsV1(o) THEN V1!op_get_taskmap(o) ELSE V5!op_get_taskmap(o)

---------------------------------------------------------------------------
(* cray-pals *)

(* One host list of all entries. *)
hostlist_from_array(nodelist) == FlattenSeq(nodelist)

(* -1 when the jobspec is not of version 1. *)
CoresKnown(jobspec) == jobspec.version = 1
get_cores_per_task(jobspec, ntasks) == (jobspec.nslots * jobspec.cores_per_slot) \div ntasks

(* The object create_apinfo() puts into the file. *)
JobObject(j) ==
  apinfo_set_taskmap(
    apinfo_set_hostlist(apinfo_create(j.version), hostlist_from_array(j.nodelist)),
    j.map, get_cores_per_task(j.jobspec, Len(j.map)), 2)

(* What it can return: nothing, or the file if no step fails. *)
create_apinfo(j) ==
  {<<>>} \cup IF /\ CoresKnown(j.jobspec)
                 /\ lookup_impl(j.version)
                 /\ apinfo_check(JobObject(j))
              THEN {<<apinfo_write(JobObject(j))>>} ELSE {}

(* Splitting at separators drops empty entries, except one at the end.      *)
argz_create_sep(entries) ==
  SelectSeq(entries, LAMBDA e : e # "")
    \o IF Len(entries) > 1 /\ Last(entries) = "" THEN <<"">> ELSE <<>>

(* The first occurrence of dir; a list is only written when it changes, and *)
(* unset when it has nothing but an empty entry left.                       *)
remove_path_from_cmd_env(env, dir) ==
  LET rest == RemoveFirst(argz_create_sep(env[1]), dir)
  IN  IF env = <<>> \/ ~Contains(env[1], dir) THEN env
      ELSE IF rest \in {<<>>, <<"">>} THEN <<>> ELSE <<rest>>

(* mutant: the path is edited once *)
libpals_task_init_Once(env, edit) ==
  IF edit THEN remove_path_from_cmd_env(env, PmiDir) ELSE env

(* Called again while something was removed, so at most once per entry. *)
libpals_task_init(env, edit) ==
  IF ~edit \/ env = <<>> THEN env
  ELSE FoldLeft(LAMBDA e, i : remove_path_from_cmd_env(e, PmiDir), env, env[1])

---------------------------------------------------------------------------
NoJob == [path |-> <<>>]
Untold == [hosts |-> <<>>, map |-> <<>>, torn |-> FALSE]

ShellJobs ==
  [version : Versions, nodelist : Nodelists, map : Taskmaps, jobspec : Jobspecs,
   edit : BOOLEAN, path : Paths]

Init ==
  /\ \/ client = "api" /\ job = NoJob
     \/ client = "init" /\ job \in ShellJobs
  /\ path = job.path
  /\ ap = <<>> /\ given = Untold /\ checked = FALSE /\ file = <<>>

(* The client's first call; a version that does not exist is ENOENT. *)
Create(version) ==
  /\ client = "api" /\ ap = <<>>
  /\ ap' = IF lookup_impl(version) THEN <<apinfo_create(version)>> ELSE <<>>
  /\ given' = Untold /\ checked' = FALSE /\ file' = <<>>
  /\ UNCHANGED <<client, job, path>>

Destroy ==
  /\ client = "api" /\ ap # <<>>
  /\ ap' = <<>> /\ given' = Untold /\ checked' = FALSE /\ file' = <<>>
  /\ UNCHANGED <<client, job, path>>

Told(o, g) ==
  /\ ap' = <<o>> /\ given' = g /\ checked' = FALSE /\ file' = <<>>
  /\ UNCHANGED <<client, job, path>>

SetHostlist(nodelist) ==
  LET hosts == hostlist_from_array(nodelist)
  IN  /\ client = "api" /\ ap # <<>>
      /\ \/ Told(apinfo_set_hostlist(ap[1], hosts), [given EXCEPT !.hosts = hosts])
         \/ UNCHANGED vars   \* no memory

SetTaskmap(map, cpus_per_pe) ==
  /\ client = "api" /\ ap # <<>>
  /\ \E done \in 0 .. 2 :
       Told(apinfo_set_taskmap(ap[1], map, cpus_per_pe, done),
            [given EXCEPT !.map = IF done = 0 THEN @ ELSE map,
                          !.torn = IF done = 0 THEN @ ELSE done = 1])

Check ==
  /\ client = "api" /\ ap # <<>>
  /\ checked' = apinfo_check(ap[1])
  /\ UNCHANGED <<client, job, ap, given, file, path>>

(* apinfo_put(): opening, writing or closing the stream may fail. *)
Put ==
  /\ client = "api" /\ ap # <<>>
  /\ file' \in {<<>>, <<apinfo_write(ap[1])>>}
  /\ UNCHANGED <<client, job, ap, given, checked, path>>

(* A shell with cray-pals. *)
CreateApinfo ==
  /\ client = "init"
  /\ file' \in create_apinfo(job)
  /\ IF file' = <<>> THEN client' = "failed" /\ UNCHANGED <<given, checked>>
     ELSE /\ client' = "ready"
          /\ given' = [hosts |-> hostlist_from_array(job.nodelist), map |-> job.map,
                       torn |-> FALSE]
          /\ checked' = TRUE
  /\ UNCHANGED <<job, ap, path>>

TaskInit ==
  /\ client = "ready"
  /\ client' = "task"
  /\ path' = libpals_task_init(path, job.edit)
  /\ UNCHANGED <<job, ap, given, checked, file>>

Done == client \in {"failed", "task"} /\ UNCHANGED vars

Next ==
  \/ \E v \in Versions : Create(v)
  \/ Destroy
  \/ \E n \in Nodelists : SetHostlist(n)
  \/ \E m \in Taskmaps : SetTaskmap(m, 1)
  \/ Check
  \/ Put
  \/ CreateApinfo
  \/ TaskInit
  \/ Done

Spec == Init /\ [][Next]_vars

---------------------------------------------------------------------------
(* libPALS reads the file through its header. *)
Header(f) == f.at[0]
Offset(f, s, i) == Header(f).offset[s] + Header(f).size[s] * (i - 1)
Elements(f, s) == 1 .. Header(f).count[s]

(* Whatever calls led to it and whichever of them failed, a file that was   *)
(* put is as long as its header and apinfo_get_size() say, and a reader who *)
(* follows the header's offsets finds the hosts, with names of at most 63   *)
(* bytes, and the task map that the object was told, as do the getters.     *)
(* Every setter replaces one section of several and must move the others.   *)
FileDecodes ==
  file # <<>> =>
    LET f == file[1]
    IN  /\ f.len = Header(f).total_size
        /\ \A s \in {"cmd", "pe", "node"} : \A i \in Elements(f, s) :
             Offset(f, s, i) \in DOMAIN f.at
        /\ [i \in Elements(f, "node") |-> f.at[Offset(f, "node", i)].hostname]
             = [i \in DOMAIN given.hosts |-> snprintf(given.hosts[i])]
        /\ [i \in Elements(f, "pe") |-> f.at[Offset(f, "pe", i)].nodeidx] = given.map
        /\ ap # <<>> => /\ apinfo_get_size(ap[1]) = f.len
                        /\ apinfo_get_taskmap(ap[1]) = given.map
                        /\ Len(apinfo_get_hostlist(ap[1])) = Len(given.hosts)

(* A file put after a check describes a job that libPALS can wire up: every *)
(* node has PEs, which are numbered from 0 in the order of their ranks, and *)
(* every PE a node; the one command counts the PEs and those of the fullest *)
(* node.  A set_taskmap that failed half way leaves the old command.        *)
DescribesJob ==
  (file # <<>> /\ checked) =>
    LET f     == file[1]
        Pe(i) == f.at[Offset(f, "pe", i)]
        On(n) == {i \in Elements(f, "pe") : Pe(i).nodeidx = n}
        nodes == 0 .. Header(f).count["node"] - 1
    IN  /\ {Pe(i).nodeidx : i \in Elements(f, "pe")} = nodes
        /\ \A n \in nodes : /\ {Pe(i).localidx : i \in On(n)} = 0 .. Cardinality(On(n)) - 1
                            /\ \A i, k \in On(n) : i < k => Pe(i).localidx < Pe(k).localidx
        /\ (~given.torn /\ given.map # <<>>) =>
             LET cmd == f.at[Offset(f, "cmd", 1)]
             IN  /\ Header(f).count["cmd"] = 1 /\ cmd.npes = Header(f).count["pe"]
                 /\ \A n \in nodes : Cardinality(On(n)) <= cmd.pes_per_node
                 /\ \E n \in nodes : Cardinality(On(n)) = cmd.pes_per_node
                 /\ job # NoJob =>
                      cmd.cpus_per_pe * cmd.npes <= job.jobspec.nslots * job.jobspec.cores_per_slot

(* However often LD_LIBRARY_PATH names the directory of Flux's libpmi, a    *)
(* task does not find that library there, and finds everything else that    *)
(* its path named in the same order.  The current directory, which an empty *)
(* entry stands for, is searched last and only if it was searched last      *)
(* before; a path that is not edited is kept.                               *)
NoFluxPmi ==
  client = "task" =>
    LET kept == SelectSeq(job.path[1], LAMBDA e : e \notin {PmiDir, ""})
    IN  IF job.path = <<>> \/ ~job.edit \/ ~Contains(job.path[1], PmiDir)
        THEN path = job.path
        ELSE /\ path = <<>> <=> kept = <<>>
             /\ path # <<>> =>
                  /\ SelectSeq(path[1], LAMBDA e : e # "") = kept
                  /\ \A i \in DOMAIN path[1] : path[1][i] = "" =>
                       i = Len(path[1]) /\ Last(job.path[1]) = ""
=============================================================================
