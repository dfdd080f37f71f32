----------------------------- MODULE MCApinfo ------------------------------
(* A small instance of Apinfo. *)
EXTENDS Apinfo

Host(head, tail) == [head |-> head, tail |-> tail]

(* One host, two in one entry, three in two; one name is too long. *)
MCNodelists ==
  LET a == Host("a", "")  b == Host("b", "")  c == Host("c", "c")
  IN  {<<<<a>>>>, <<<<b, a>>>>, <<<<c>>, <<a, b>>>>}

MCTaskmaps == UNION {[1 .. n -> 0 .. 2] : n \in 1 .. 3} \cup {<<0, 1, 0, 0>>, <<1, 0, 1, 0>>}

MCJobspecs ==
  {[version |-> 1, nslots |-> 2, cores_per_slot |-> 2],
   [version |-> 2, nslots |-> 1, cores_per_slot |-> 1]}

MCPaths ==
  {<<>>, <<<<"">>>>, <<<<"pmi">>>>, <<<<"x", "pmi">>>>, <<<<"pmi", "">>>>,
   <<<<"x", "pmi", "">>>>, <<<<"x", "", "pmi">>>>, <<<<"pmi", "x", "", "pmi", "", "">>>>,
   <<<<"pmi", "x", "", "pmi", "y">>>>, <<<<"", "pmi", "pmi", "">>>>, <<<<"x", "", "y">>>>}
=============================================================================
