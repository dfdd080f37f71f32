----------------------------- MODULE ApinfoEnv -----------------------------
(***************************************************************************)
(* What libapinfo is built on: RFC 34 task maps, host names and C streams. *)
(***************************************************************************)
EXTENDS Naturals, Sequences, FiniteSets

(* A task map is the sequence of the nodes of tasks 0, 1, ... *)
taskmap_total_ntasks(map) == Len(map)
taskmap_nodeid(map, taskid) == map[taskid + 1]
taskmap_taskids(map, nodeid) == {t \in 0 .. Len(map) - 1 : map[t + 1] = nodeid}
taskmap_nodes(map) == {map[i] : i \in DOMAIN map}

(* A host name is its first 63 bytes and the rest; a field of 64 bytes with *)
(* its terminator holds the former.                                         *)
snprintf(host) == [head |-> host.head, tail |-> ""]

(* A file: the elements found at its offsets, and its length in bytes. *)
EmptyFile == [at |-> <<>>, len |-> 0]

(* n elements of an array at the end of the file. *)
fwrite(file, array, size, n) ==
  [at  |-> [o \in DOMAIN file.at \cup {file.len + size * i : i \in 0 .. n - 1} |->
              IF o < file.len THEN file.at[o] ELSE array[(o - file.len) \div size + 1]],
   len |-> file.len + size * n]
=============================================================================
