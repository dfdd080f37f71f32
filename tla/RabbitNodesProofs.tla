-------------------------- MODULE RabbitNodesProofs --------------------------
(***************************************************************************)
(* What RabbitNodes keeps for any rabbits, nodes and jobs and any number   *)
(* of faults: where rabbit jobs are placed, the alloc_rabbit marks, the    *)
(* systemstatus resource and the allocations on the rabbits of a job.      *)
(***************************************************************************)
EXTENDS RabbitNodes, FiniteSetTheorems, TLAPS

LOCAL INSTANCE SequencesExt
E == INSTANCE EventlogProofs   \* for LeastNatural and UpTo

---------------------------------------------------------------------------
(* Numbers and the loop over the listed rabbits *)

(* A nonempty set of numbers up to N has a greatest one. *)
LEMMA Greatest ==
  ASSUME NEW N \in Nat, NEW I, I \subseteq 1 .. N, I # {}
  PROVE  \E m \in I : \A k \in I : m >= k
<1> DEFINE G(n) == (\A k \in I : k > n) \/ \E m \in I : m <= n /\ \A l \in I : l <= n => m >= l
           S == {n \in 0 .. N : G(n)}
<1>1. 0 \in S
  OBVIOUS
<1>2. ASSUME NEW i \in 0 .. N, i \in S, i < N PROVE i + 1 \in S
  <2>1. CASE i + 1 \in I
    BY <1>2, <2>1
  <2>2. CASE i + 1 \notin I
    <3>1. \A k \in I : k <= i + 1 => k <= i
      BY <1>2, <2>2
    <3> QED BY <1>2, <2>2, <3>1
  <2> QED BY <2>1, <2>2
<1>3. G(N)
  <2> HIDE DEF S
  <2>1. 0 .. N \subseteq S
    BY <1>1, <1>2, E!UpTo
  <2>2. N \in S
    BY <2>1
  <2> QED BY <2>2 DEF S
<1>4. \A k \in I : k \in Nat /\ k <= N
  OBVIOUS
<1>5. \A k \in I : ~(k > N)
  BY <1>4
<1>6. PICK m \in I : \A l \in I : l <= N => m >= l
  BY <1>3, <1>5
<1> QED BY <1>4, <1>6

(* init_rabbits() after some of the rabbits. *)
Listed(s, c, objects) ==
  CHOOSE f : f = [i \in 0 .. Len(RabbitSeq) |->
                    IF i = 0 THEN s
                    ELSE rabbit_state_change_cb(f[i - 1], c, objects[RabbitSeq[i]])]

LEMMA ListedSteps ==
  ASSUME NEW s, NEW c, NEW objects
  PROVE  /\ Listed(s, c, objects)[0] = s
         /\ \A i \in 1 .. Len(RabbitSeq) :
              Listed(s, c, objects)[i] =
                rabbit_state_change_cb(Listed(s, c, objects)[i - 1], c, objects[RabbitSeq[i]])
         /\ init_rabbits(s, c, objects) = Listed(s, c, objects)[Len(RabbitSeq)]
<1> DEFINE Op(v, i) == rabbit_state_change_cb(v, c, objects[RabbitSeq[i]])
           Is(f, n) == f = [i \in 0 .. n |-> IF i = 0 THEN s ELSE Op(f[i - 1], i)]
           N == Len(RabbitSeq)
           T == {n \in 0 .. N : \E f : Is(f, n)}
<1>1. N \in Nat
  BY RabbitsAreListed
<1>2. 0 \in T
  <2>1. Is([i \in 0 .. 0 |-> s], 0)
    BY DEF Is
  <2> HIDE DEF Is
  <2>2. \E f : Is(f, 0)
    BY <2>1, Zenon
  <2> QED BY <1>1, <2>2
<1>3. ASSUME NEW n \in 0 .. N, n \in T, n < N PROVE n + 1 \in T
  <2>1. PICK f : Is(f, n)
    BY <1>3
  <2> HIDE DEF Op
  <2> DEFINE g == [i \in 0 .. n + 1 |-> IF i = n + 1 THEN Op(f[n], n + 1) ELSE f[i]]
  <2>2. \A i \in 0 .. n : f[i] = IF i = 0 THEN s ELSE Op(f[i - 1], i)
    BY <2>1
  <2>3. \A i \in 0 .. n + 1 : g[i] = IF i = 0 THEN s ELSE Op(g[i - 1], i)
    <3> SUFFICES ASSUME NEW i \in 0 .. n + 1
                 PROVE  g[i] = IF i = 0 THEN s ELSE Op(g[i - 1], i)
      OBVIOUS
    <3>1. CASE i = n + 1
      BY <1>1, <3>1
    <3>2. CASE i # n + 1 /\ i # 0
      <4>1. i \in 0 .. n /\ i - 1 \in 0 .. n + 1 /\ i - 1 # n + 1
        BY <1>1, <3>2
      <4>2. g[i] = f[i] /\ g[i - 1] = f[i - 1]
        BY <1>1, <3>2, <4>1
      <4> QED BY <2>2, <3>2, <4>1, <4>2
    <3>3. CASE i = 0
      BY <1>1, <2>2, <3>3
    <3> QED BY <3>1, <3>2, <3>3
  <2>4. Is(g, n + 1)
    <3>1. g = [i \in 0 .. n + 1 |-> g[i]]
      OBVIOUS
    <3> HIDE DEF g
    <3> QED BY <2>3, <3>1
  <2>5. n + 1 \in 0 .. N
    BY <1>1, <1>3
  <2> QED BY <2>4, <2>5
<1>4. \E f : Is(f, N)
  <2> HIDE DEF T
  <2>1. 0 .. N \subseteq T
    BY <1>1, <1>2, <1>3, E!UpTo
  <2> QED BY <1>1, <2>1 DEF T
<1>5. Is(Listed(s, c, objects), N)
  <2>1. Listed(s, c, objects) = CHOOSE f : Is(f, N)
    BY DEF Listed
  <2> HIDE DEF Is
  <2> QED BY <1>4, <2>1
<1>6. init_rabbits(s, c, objects) = Listed(s, c, objects)[N]
  BY DEF init_rabbits, Listed
<1> HIDE DEF Op
<1>7. \A i \in 0 .. N : Listed(s, c, objects)[i]
                          = IF i = 0 THEN s ELSE Op(Listed(s, c, objects)[i - 1], i)
  BY <1>5
<1> QED BY <1>1, <1>6, <1>7 DEF Op

---------------------------------------------------------------------------
(* The managers' handling of one Storage resource *)

SchedStates ==
  [bad : SUBSET Nodes, alloc : SUBSET Nodes, down : SUBSET Rabbits, drained : SUBSET Nodes]

(* The scheduler keeps rabbit jobs off the trouble that o reports. *)
Reflected(s, c, o) ==
  \A n \in HostsOf[o.name] :
    /\ o.status # "Ready" =>
         IF c.fluxion THEN o.name \in s.down ELSE n \in s.bad \cup Excluded
    /\ o.status = "Ready" /\ n \in o.offline =>
         /\ c.drain /\ (c.queue => n \in DrainQueue) => n \in s.drained
         /\ ~c.drain /\ c.soft => n \in s.bad \cup Excluded

(* Going from s to t, nothing that keeps jobs off the nodes of r is undone. *)
Keeps(s, t, r) ==
  /\ s.drained \subseteq t.drained
  /\ r \in s.down => r \in t.down
  /\ \A n \in HostsOf[r] : n \in s.bad => n \in t.bad

LEMMA KeepsReflected ==
  ASSUME NEW s, NEW t, NEW c, NEW o, Reflected(s, c, o), Keeps(s, t, o.name)
  PROVE  Reflected(t, c, o)
BY DEF Reflected, Keeps

(* A node of a rabbit is a node, and has this rabbit. *)
LEMMA RabbitOfHost ==
  /\ \A r \in Rabbits : \A n \in HostsOf[r] : n \in Nodes /\ HOSTNAMES_TO_RABBITS[n] = r
  /\ \A n \in Nodes : HOSTNAMES_TO_RABBITS[n] \in Rabbits /\ n \in HostsOf[HOSTNAMES_TO_RABBITS[n]]
<1>1. \A r \in Rabbits : \A n \in HostsOf[r] : n \in Nodes
  BY DEF Nodes
<1>2. \A n \in Nodes : \E r \in Rabbits : n \in HostsOf[r]
  BY DEF Nodes
<1>3. \A n \in Nodes : HOSTNAMES_TO_RABBITS[n] \in Rabbits /\ n \in HostsOf[HOSTNAMES_TO_RABBITS[n]]
  BY <1>2 DEF HOSTNAMES_TO_RABBITS
<1>4. \A r, s \in Rabbits : \A n : n \in HostsOf[r] /\ n \in HostsOf[s] => r = s
  BY OneRabbitPerNode
<1> QED BY <1>1, <1>3, <1>4

(* The fields of the scheduler's state after remove_property(), set_property(),*)
(* draining and _mark_rabbit().                                                *)
LEMMA PropertyFields ==
  ASSUME NEW s \in SchedStates, NEW c, NEW S
  PROVE  LET t == remove_property(s, c, S)
             u == set_property(s, c, S)
         IN  /\ t \in SchedStates /\ t.bad = s.bad \ (S \cap _get_rpaths(c))
             /\ t.alloc = s.alloc /\ t.down = s.down /\ t.drained = s.drained
             /\ u \in SchedStates /\ u.bad = s.bad \cup (S \cap _get_rpaths(c))
             /\ u.alloc = s.alloc /\ u.down = s.down /\ u.drained = s.drained
<1>1. _get_rpaths(c) \subseteq Nodes
  BY DEF _get_rpaths
<1> QED BY <1>1 DEF SchedStates, remove_property, set_property

LEMMA DrainFields ==
  ASSUME NEW s \in SchedStates, NEW c, NEW o \in Objects, NEW t,
         t = _drain_offline_nodes(s, c, o)
  PROVE  /\ t \in SchedStates /\ t.bad = s.bad /\ t.alloc = s.alloc /\ t.down = s.down
         /\ t.drained = s.drained \cup (_get_offline_nodes(o) \cap
                                          (IF c.queue THEN DrainQueue ELSE Nodes))
<1>1. _get_offline_nodes(o) \subseteq Nodes
  BY DEF _get_offline_nodes, Objects
<1> QED BY <1>1 DEF SchedStates, _drain_offline_nodes

LEMMA MarkFields ==
  ASSUME NEW s \in SchedStates, NEW o \in Objects, NEW t, t = _mark_rabbit(s, o)
  PROVE  /\ t \in SchedStates /\ t.bad = s.bad /\ t.alloc = s.alloc /\ t.drained = s.drained
         /\ t.down = IF o.status = "Ready" THEN s.down \ {o.name} ELSE s.down \cup {o.name}
<1>1. o.name \in Rabbits
  BY DEF Objects
<1> QED BY <1>1 DEF SchedStates, _mark_rabbit

(* rabbit_state_change_cb() takes notice of the resource, and leaves other    *)
(* rabbits and the alloc_rabbit marks alone.                                  *)
LEMMA StateChangeReflects ==
  ASSUME NEW s \in SchedStates, NEW c, NEW o \in Objects
  PROVE  LET t == rabbit_state_change_cb(s, c, o)
         IN  /\ t \in SchedStates /\ t.alloc = s.alloc /\ s.drained \subseteq t.drained
             /\ Reflected(t, c, o)
             /\ \A r \in Rabbits \ {o.name} : Keeps(s, t, r)
<1> DEFINE d == IF c.drain THEN _drain_offline_nodes(s, c, o) ELSE s
           down == _down_nodes(c, o)
           e == remove_property(d, c, HostsOf[o.name] \ down)
           f == set_property(e, c, down)
           t == rabbit_state_change_cb(s, c, o)
<1>1. t = IF c.fluxion THEN _mark_rabbit(f, o) ELSE f
  BY DEF rabbit_state_change_cb, _set_or_remove_property
<1>2. /\ d \in SchedStates /\ d.bad = s.bad /\ d.alloc = s.alloc /\ d.down = s.down
      /\ s.drained \subseteq d.drained
      /\ c.drain => d.drained = s.drained \cup (_get_offline_nodes(o) \cap
                                             (IF c.queue THEN DrainQueue ELSE Nodes))
  <2>1. CASE c.drain
    <3>1. d = _drain_offline_nodes(s, c, o)
      BY <2>1
    <3> HIDE DEF d
    <3>2. /\ d \in SchedStates /\ d.bad = s.bad /\ d.alloc = s.alloc /\ d.down = s.down
          /\ d.drained = s.drained \cup (_get_offline_nodes(o) \cap
                                            (IF c.queue THEN DrainQueue ELSE Nodes))
      BY <3>1, DrainFields
    <3>3. s.drained \subseteq d.drained
      BY <3>2
    <3> QED BY <3>2, <3>3, Zenon
  <2>2. CASE ~c.drain
    BY <2>2
  <2> QED BY <2>1, <2>2
<1> HIDE DEF d, down
<1>3. /\ e \in SchedStates /\ e.bad = d.bad \ ((HostsOf[o.name] \ down) \cap _get_rpaths(c))
      /\ e.alloc = d.alloc /\ e.down = d.down /\ e.drained = d.drained
  BY <1>2, PropertyFields
<1> HIDE DEF e
<1>4. /\ f \in SchedStates /\ f.bad = e.bad \cup (down \cap _get_rpaths(c))
      /\ f.alloc = e.alloc /\ f.down = e.down /\ f.drained = e.drained
  BY <1>3, PropertyFields
<1> HIDE DEF f
<1>5. /\ t \in SchedStates /\ t.bad = f.bad /\ t.alloc = f.alloc /\ t.drained = f.drained
      /\ c.fluxion => t.down = IF o.status = "Ready" THEN f.down \ {o.name}
                               ELSE f.down \cup {o.name}
      /\ ~c.fluxion => t.down = f.down
  <2> HIDE DEF t
  <2>1. CASE c.fluxion
    <3>1. t = _mark_rabbit(f, o)
      BY <1>1, <2>1
    <3> QED BY <1>4, <2>1, <3>1, MarkFields
  <2>2. CASE ~c.fluxion
    BY <1>1, <1>4, <2>2
  <2> QED BY <2>1, <2>2
<1> HIDE DEF t
<1>6. o.name \in Rabbits /\ o.status \in {"Ready", "Disabled", "none"} /\ o.offline \subseteq Nodes
  BY DEF Objects
<1>7. Reflected(t, c, o)
  <2> SUFFICES ASSUME NEW n \in HostsOf[o.name]
               PROVE  /\ o.status # "Ready" =>
                           IF c.fluxion THEN o.name \in t.down ELSE n \in t.bad \cup Excluded
                      /\ o.status = "Ready" /\ n \in o.offline =>
                           /\ c.drain /\ (c.queue => n \in DrainQueue) => n \in t.drained
                           /\ ~c.drain /\ c.soft => n \in t.bad \cup Excluded
    BY DEF Reflected
  <2>1. n \in Nodes
    BY <1>6, RabbitOfHost
  <2>2. n \in Excluded \/ n \in _get_rpaths(c)
    BY <2>1 DEF _get_rpaths
  <2>3. n \in down => n \in t.bad \cup Excluded
    BY <1>4, <1>5, <2>2
  <2>4. o.status # "Ready" => IF c.fluxion THEN o.name \in t.down ELSE n \in down
    BY <1>5 DEF down, _down_nodes
  <2>5. ASSUME o.status = "Ready", n \in o.offline
        PROVE  /\ c.drain /\ (c.queue => n \in DrainQueue) => n \in t.drained
               /\ ~c.drain /\ c.soft => n \in down
    <3>1. n \in _get_offline_nodes(o)
      BY <2>5 DEF _get_offline_nodes
    <3>2. ~c.drain /\ c.soft => n \in down
      BY <2>5, <3>1 DEF down, _down_nodes
    <3>3. c.drain /\ (c.queue => n \in DrainQueue) => n \in d.drained
      BY <1>2, <2>1, <3>1
    <3> QED BY <1>3, <1>4, <1>5, <3>2, <3>3
  <2> QED BY <2>3, <2>4, <2>5
<1>8. ASSUME NEW r \in Rabbits \ {o.name} PROVE Keeps(s, t, r)
  <2>1. \A n \in HostsOf[r] : n \notin HostsOf[o.name]
    BY <1>6, OneRabbitPerNode
  <2>2. \A n \in HostsOf[r] : n \in s.bad => n \in t.bad
    BY <1>2, <1>3, <1>4, <1>5, <2>1
  <2>3. r \in s.down => r \in t.down
    BY <1>2, <1>3, <1>4, <1>5
  <2> QED BY <1>2, <1>3, <1>4, <1>5, <2>2, <2>3 DEF Keeps
<1> QED BY <1>2, <1>3, <1>4, <1>5, <1>7, <1>8 DEF t

(* A started service takes notice of every rabbit. *)
LEMMA InitReflects ==
  ASSUME NEW s \in SchedStates, NEW c, NEW objects,
         \A r \in Rabbits : objects[r] \in Objects /\ objects[r].name = r
  PROVE  LET t == init_rabbits(s, c, objects)
         IN  /\ t \in SchedStates /\ t.alloc = s.alloc /\ s.drained \subseteq t.drained
             /\ \A r \in Rabbits : Reflected(t, c, objects[r])
<1> DEFINE N == Len(RabbitSeq)
           At(i) == Listed(s, c, objects)[i]
           P(i) == /\ At(i) \in SchedStates /\ At(i).alloc = s.alloc
                   /\ s.drained \subseteq At(i).drained
                   /\ \A k \in 1 .. i : Reflected(At(i), c, objects[RabbitSeq[k]])
           T == {i \in 0 .. N : P(i)}
<1>1. /\ N \in Nat /\ \A i \in 1 .. N : RabbitSeq[i] \in Rabbits
      /\ \A r \in Rabbits : \E i \in 1 .. N : r = RabbitSeq[i]
  BY RabbitsAreListed DEF Rabbits
<1>2. /\ At(0) = s
      /\ \A i \in 1 .. N : At(i) = rabbit_state_change_cb(At(i - 1), c, objects[RabbitSeq[i]])
      /\ init_rabbits(s, c, objects) = At(N)
  BY ListedSteps
<1> HIDE DEF At, N
<1>3. P(0)
  BY <1>2
<1>4. ASSUME NEW i \in 0 .. N, P(i), i < N PROVE P(i + 1)
  <2> DEFINE o == objects[RabbitSeq[i + 1]]
  <2>1. i + 1 \in 1 .. N /\ (i + 1) - 1 = i
    BY <1>1, <1>4
  <2>2. At(i + 1) = rabbit_state_change_cb(At(i), c, o)
    BY <1>2, <2>1
  <2>3. o \in Objects /\ o.name = RabbitSeq[i + 1]
    BY <1>1, <2>1
  <2> HIDE DEF o
  <2>4. /\ At(i + 1) \in SchedStates /\ At(i + 1).alloc = At(i).alloc
        /\ At(i).drained \subseteq At(i + 1).drained
        /\ Reflected(At(i + 1), c, o)
        /\ \A r \in Rabbits \ {o.name} : Keeps(At(i), At(i + 1), r)
    BY <1>4, <2>2, <2>3, StateChangeReflects
  <2>5. ASSUME NEW k \in 1 .. i + 1 PROVE Reflected(At(i + 1), c, objects[RabbitSeq[k]])
    <3>1. k \in 1 .. N
      BY <1>1, <1>4
    <3>2. CASE RabbitSeq[k] = RabbitSeq[i + 1]
      BY <2>4, <3>2 DEF o
    <3>3. CASE RabbitSeq[k] # RabbitSeq[i + 1]
      <4>1. k # i + 1
        BY <3>3
      <4>2. k \in 1 .. i
        BY <1>1, <1>4, <4>1
      <4>3. Reflected(At(i), c, objects[RabbitSeq[k]])
        BY <1>4, <4>2
      <4>4. RabbitSeq[k] \in Rabbits \ {o.name} /\ objects[RabbitSeq[k]].name = RabbitSeq[k]
        BY <1>1, <2>3, <3>1, <3>3
      <4>5. Keeps(At(i), At(i + 1), objects[RabbitSeq[k]].name)
        BY <2>4, <4>4
      <4> QED BY <4>3, <4>5, KeepsReflected
    <3> QED BY <3>2, <3>3
  <2> QED BY <1>4, <2>4, <2>5
<1>5. P(N)
  <2> HIDE DEF P
  <2>1. 0 \in T
    BY <1>1, <1>3
  <2>2. \A i \in 0 .. N : i \in T /\ i < N => i + 1 \in T
    BY <1>1, <1>4
  <2> HIDE DEF T
  <2>3. 0 .. N \subseteq T
    BY <1>1, <2>1, <2>2, E!UpTo
  <2> QED BY <1>1, <2>3 DEF T
<1> QED BY <1>1, <1>2, <1>5

(* mark_rabbits_allocated() and mark_rabbits_free() only touch alloc_rabbit.  *)
LEMMA AllocFields ==
  ASSUME NEW s \in SchedStates, NEW c, NEW rabbits, NEW known0, NEW t,
         \/ t = mark_rabbits_allocated(s, c, rabbits)
         \/ t = mark_rabbits_free(s, c, known0)
         \/ t = s
  PROVE  t \in SchedStates /\ t.bad = s.bad /\ t.down = s.down /\ t.drained = s.drained
<1>1. \A x : Chassis(c, x) \subseteq Nodes
  <2>1. _get_rpaths(c) \subseteq Nodes
    BY DEF _get_rpaths
  <2> QED BY <2>1 DEF Chassis
<1>2. CASE t = s
  BY <1>2
<1>3. CASE t = mark_rabbits_allocated(s, c, rabbits)
  BY <1>1, <1>3 DEF mark_rabbits_allocated, SchedStates
<1>4. CASE t = mark_rabbits_free(s, c, known0)
  BY <1>1, <1>4 DEF mark_rabbits_free, SchedStates
<1> QED BY <1>2, <1>3, <1>4

---------------------------------------------------------------------------
(* The versions of a Storage resource *)

LastOf(h, r) == SelectLastInSeq(h, LAMBDA o : o.name = r)

LEMMA LastIs ==
  ASSUME NEW S, NEW h \in Seq(S), NEW r, \E i \in 1 .. Len(h) : h[i].name = r
  PROVE  /\ LastOf(h, r) \in 1 .. Len(h) /\ h[LastOf(h, r)].name = r
         /\ \A k \in 1 .. Len(h) : h[k].name = r => k <= LastOf(h, r)
<1> DEFINE I == {i \in 1 .. Len(h) : h[i].name = r}
<1>1. Len(h) \in Nat /\ I # {} /\ I \subseteq 1 .. Len(h)
  OBVIOUS
<1>2. LastOf(h, r) = CHOOSE x \in I : \A y \in I : x >= y
  BY <1>1 DEF LastOf, SelectLastInSeq, Max
<1>3. LastOf(h, r) \in I /\ \A y \in I : LastOf(h, r) >= y
  <2> HIDE DEF I
  <2>1. \E x \in I : \A y \in I : x >= y
    BY <1>1, Greatest
  <2> QED BY <1>2, <2>1
<1> QED BY <1>1, <1>3

LEMMA LastAppend ==
  ASSUME NEW S, NEW h \in Seq(S), NEW o \in S, NEW r, \E i \in 1 .. Len(h) : h[i].name = r
  PROVE  /\ Append(h, o) \in Seq(S)
         /\ \E i \in 1 .. Len(Append(h, o)) : Append(h, o)[i].name = r
         /\ LastOf(Append(h, o), r) = IF o.name = r THEN Len(h) + 1 ELSE LastOf(h, r)
<1> DEFINE g == Append(h, o)
           L == LastOf(g, r)
           K == LastOf(h, r)
<1>1. /\ g \in Seq(S) /\ Len(h) \in Nat /\ Len(g) = Len(h) + 1 /\ g[Len(h) + 1] = o
      /\ \A i \in 1 .. Len(h) : g[i] = h[i]
  OBVIOUS
<1> HIDE DEF g
<1>2. \E i \in 1 .. Len(g) : g[i].name = r
  BY <1>1
<1>3. L \in 1 .. Len(g) /\ g[L].name = r /\ \A k \in 1 .. Len(g) : g[k].name = r => k <= L
  BY <1>1, <1>2, LastIs
<1>4. K \in 1 .. Len(h) /\ h[K].name = r /\ \A k \in 1 .. Len(h) : h[k].name = r => k <= K
  BY LastIs
<1> HIDE DEF L, K
<1>5. L = IF o.name = r THEN Len(h) + 1 ELSE K
  <2>1. CASE o.name = r
    BY <1>1, <1>3, <2>1
  <2>2. CASE o.name # r
    <3>1. L # Len(h) + 1
      BY <1>1, <1>3, <2>2
    <3>2. L \in 1 .. Len(h)
      BY <1>1, <1>3, <3>1
    <3>3. L <= K
      BY <1>1, <1>3, <1>4, <3>2
    <3>4. K <= L
      BY <1>1, <1>3, <1>4
    <3> QED BY <1>1, <1>3, <1>4, <2>2, <3>3, <3>4
  <2> QED BY <2>1, <2>2
<1> QED BY <1>1, <1>2, <1>5 DEF g, L, K

---------------------------------------------------------------------------
(* Where rabbit jobs are placed *)

StorageTypes ==
  /\ history \in Seq(Objects)
  /\ \A r \in Rabbits : \E i \in 1 .. Len(history) : history[i].name = r
  /\ version \in Nat /\ version <= Len(history)
  /\ sched \in SchedStates

(* Either a rabbit's last version is still to come, or it is taken notice of: *)
(* a restarted watch may replay older versions after newer ones were listed.  *)
InStep(r) == Current(r) > version \/ Reflected(sched, conf, Object(r))

StorageInv == StorageTypes /\ (up => \A r \in Rabbits : InStep(r))

LEMMA CurrentNext ==
  ASSUME NEW r
  PROVE  /\ Current(r)' = LastOf(history', r) /\ Object(r)' = history'[LastOf(history', r)]
         /\ history' = history => Current(r)' = Current(r) /\ Object(r)' = Object(r)
<1>1. /\ Current(r)' = LastOf(history', r) /\ Object(r)' = history'[LastOf(history', r)]
      /\ Current(r) = LastOf(history, r) /\ Object(r) = history[LastOf(history, r)]
  BY DEF Current, Object, LastOf, SelectLastInSeq
<1> QED BY <1>1

LEMMA CurrentFacts ==
  ASSUME StorageTypes, NEW r \in Rabbits
  PROVE  /\ Current(r) = LastOf(history, r) /\ Object(r) = history[LastOf(history, r)]
         /\ Current(r) \in 1 .. Len(history)
         /\ Object(r) \in Objects /\ Object(r).name = r
         /\ \A k \in 1 .. Len(history) : history[k].name = r => k <= Current(r)
<1>1. Current(r) = LastOf(history, r) /\ Object(r) = history[LastOf(history, r)]
  BY DEF Current, Object, LastOf
<1>2. /\ LastOf(history, r) \in 1 .. Len(history) /\ history[LastOf(history, r)].name = r
      /\ \A k \in 1 .. Len(history) : history[k].name = r => k <= LastOf(history, r)
  BY LastIs DEF StorageTypes
<1>3. history[LastOf(history, r)] \in Objects
  BY <1>2 DEF StorageTypes
<1> QED BY <1>1, <1>2, <1>3

LEMMA StorageFrame ==
  ASSUME StorageInv, UNCHANGED <<conf, history, version>>, up' => up,
         sched' \in SchedStates, \A r \in Rabbits : Keeps(sched, sched', r)
  PROVE  StorageInv'
<1>1. StorageTypes'
  BY DEF StorageInv, StorageTypes
<1>2. ASSUME up', NEW r \in Rabbits PROVE InStep(r)'
  <2>1. Current(r)' = Current(r) /\ Object(r)' = Object(r)
    BY CurrentNext
  <2>2. Object(r).name = r
    BY CurrentFacts DEF StorageInv
  <2>3. CASE Current(r) > version
    BY <2>1, <2>3 DEF InStep
  <2>4. CASE Reflected(sched, conf, Object(r))
    <3>1. Reflected(sched', conf, Object(r))
      BY <2>2, <2>4, KeepsReflected
    <3>2. Reflected(sched, conf, Object(r))'
      BY <2>1, <3>1 DEF Reflected
    <3> QED BY <3>2 DEF InStep
  <2> QED BY <1>2, <2>3, <2>4 DEF InStep, StorageInv
<1> QED BY <1>1, <1>2 DEF StorageInv

LEMMA StorageInit == Init => StorageInv
<1> SUFFICES ASSUME Init PROVE StorageInv
  OBVIOUS
<1> DEFINE N == Len(RabbitSeq)
           First(i) == [name |-> RabbitSeq[i], status |-> "Ready", offline |-> {}]
<1>1. /\ N \in Nat /\ DOMAIN RabbitSeq = 1 .. N /\ \A i \in 1 .. N : RabbitSeq[i] \in Rabbits
      /\ \A r \in Rabbits : \E i \in 1 .. N : r = RabbitSeq[i]
  BY RabbitsAreListed DEF Rabbits
<1>2. history = [i \in 1 .. N |-> First(i)]
  BY <1>1 DEF Init
<1>3. \A i \in 1 .. N : First(i) \in Objects
  BY <1>1 DEF Objects
<1>4. history \in Seq(Objects) /\ Len(history) = N /\ \A i \in 1 .. N : history[i] = First(i)
  <2> HIDE DEF First, N
  <2> QED BY <1>1, <1>2, <1>3
<1>5. \A i \in 1 .. N : /\ history[i].name = RabbitSeq[i] /\ history[i].status = "Ready"
                        /\ history[i].offline = {}
  <2> HIDE DEF N
  <2>1. \A i : First(i).name = RabbitSeq[i] /\ First(i).status = "Ready" /\ First(i).offline = {}
    OBVIOUS
  <2> HIDE DEF First
  <2> QED BY <1>4, <2>1
<1>6. sched \in SchedStates
  BY DEF Init, SchedStates
<1>7. StorageTypes
  <2>1. \A r \in Rabbits : \E i \in 1 .. Len(history) : history[i].name = r
    BY <1>1, <1>4, <1>5
  <2>2. version = N
    BY <1>4 DEF Init
  <2> HIDE DEF N
  <2> QED BY <1>1, <1>4, <1>6, <2>1, <2>2 DEF StorageTypes
<1>8. ASSUME NEW r \in Rabbits PROVE InStep(r)
  <2>1. Current(r) \in 1 .. N /\ Object(r) = history[Current(r)]
    BY <1>4, <1>7, CurrentFacts
  <2>2. Object(r).status = "Ready" /\ Object(r).offline = {}
    BY <1>5, <2>1
  <2> QED BY <2>2 DEF InStep, Reflected
<1> QED BY <1>7, <1>8 DEF StorageInv

LEMMA StorageChangeStep ==
  ASSUME StorageInv, NEW r \in Rabbits, NEW o \in Objects, StorageChange(r, o)
  PROVE  StorageInv'
<1>1. history' = Append(history, o) /\ UNCHANGED <<conf, sched, up, version>> /\ StorageTypes
  BY DEF StorageChange, StorageInv
<1>2. \A q \in Rabbits :
        /\ history' \in Seq(Objects) /\ \E i \in 1 .. Len(history') : history'[i].name = q
        /\ LastOf(history', q) = IF o.name = q THEN Len(history) + 1 ELSE LastOf(history, q)
  BY <1>1, LastAppend DEF StorageTypes
<1>3. /\ history \in Seq(Objects) /\ Len(history) \in Nat /\ Len(history') = Len(history) + 1
      /\ \A i \in 1 .. Len(history) : history'[i] = history[i]
  BY <1>1 DEF StorageTypes
<1>4. history' \in Seq(Objects)
  BY <1>1, <1>3
<1>5. version \in Nat /\ version <= Len(history)
  BY <1>1 DEF StorageTypes
<1>6. StorageTypes'
  <2>1. version' \in Nat /\ version' <= Len(history')
    BY <1>1, <1>3, <1>5
  <2> QED BY <1>1, <1>2, <1>4, <2>1 DEF StorageTypes
<1>7. ASSUME up', NEW q \in Rabbits PROVE InStep(q)'
  <2>1. CASE o.name = q
    <3>1. Current(q)' = Len(history) + 1
      BY <1>2, <2>1, CurrentNext
    <3> QED BY <1>1, <1>3, <1>5, <3>1 DEF InStep
  <2>2. CASE o.name # q
    <3>1. /\ Current(q) = LastOf(history, q) /\ Object(q) = history[LastOf(history, q)]
          /\ Current(q) \in 1 .. Len(history)
      BY <1>1, CurrentFacts
    <3>2. Current(q)' = Current(q) /\ Object(q)' = Object(q)
      BY <1>2, <1>3, <2>2, <3>1, CurrentNext
    <3>3. InStep(q)
      BY <1>1, <1>7 DEF StorageInv
    <3> QED BY <1>1, <3>2, <3>3 DEF InStep, Reflected
  <2> QED BY <2>1, <2>2
<1> QED BY <1>6, <1>7 DEF StorageInv

LEMMA WatchStep ==
  ASSUME StorageInv, RabbitStateChange
  PROVE  StorageInv'
<1> DEFINE o == history[version + 1]
<1>1. /\ up /\ version < Len(history) /\ version' = version + 1
      /\ sched' = rabbit_state_change_cb(sched, conf, o) /\ UNCHANGED <<conf, history, up>>
      /\ StorageTypes
  BY DEF RabbitStateChange, StorageInv
<1>2. /\ history \in Seq(Objects) /\ Len(history) \in Nat /\ version \in Nat
      /\ version + 1 \in 1 .. Len(history) /\ sched \in SchedStates
  BY <1>1 DEF StorageTypes
<1>3. o \in Objects
  BY <1>2
<1> HIDE DEF o
<1>4. /\ sched' \in SchedStates /\ Reflected(sched', conf, o)
      /\ \A r \in Rabbits \ {o.name} : Keeps(sched, sched', r)
  BY <1>1, <1>2, <1>3, StateChangeReflects
<1>5. StorageTypes'
  BY <1>1, <1>2, <1>4 DEF StorageTypes
<1>6. ASSUME NEW r \in Rabbits PROVE InStep(r)'
  <2>1. Current(r)' = Current(r) /\ Object(r)' = Object(r)
    BY <1>1, CurrentNext
  <2>2. /\ Current(r) \in 1 .. Len(history) /\ Object(r).name = r
        /\ Object(r) = history[Current(r)]
        /\ \A k \in 1 .. Len(history) : history[k].name = r => k <= Current(r)
    BY <1>1, CurrentFacts
  <2>3. CASE Current(r) > version + 1
    BY <1>1, <2>1, <2>3 DEF InStep
  <2>4. CASE Current(r) = version + 1
    <3>1. Object(r) = o
      BY <2>2, <2>4 DEF o
    <3>2. Reflected(sched, conf, Object(r))'
      BY <1>1, <1>4, <2>1, <3>1 DEF Reflected
    <3> QED BY <3>2 DEF InStep
  <2>5. CASE Current(r) <= version
    <3>1. o.name # r
      BY <1>2, <2>2, <2>5 DEF o
    <3>2. Reflected(sched, conf, Object(r))
      BY <1>1, <1>2, <2>2, <2>5 DEF StorageInv, InStep
    <3>3. Keeps(sched, sched', Object(r).name)
      BY <1>4, <2>2, <3>1
    <3>4. Reflected(sched', conf, Object(r))
      BY <3>2, <3>3, KeepsReflected
    <3>5. Reflected(sched, conf, Object(r))'
      BY <1>1, <2>1, <3>4 DEF Reflected
    <3> QED BY <3>5 DEF InStep
  <2> QED BY <1>2, <2>2, <2>3, <2>4, <2>5
<1> QED BY <1>5, <1>6 DEF StorageInv

LEMMA UndrainStep ==
  ASSUME StorageInv, NEW n \in Nodes, Undrain(n)
  PROVE  StorageInv'
<1>1. /\ sched' = [sched EXCEPT !.drained = @ \ {n}] /\ UNCHANGED <<conf, history, up, version>>
      /\ n \notin Object(HOSTNAMES_TO_RABBITS[n]).offline /\ StorageTypes
  BY DEF Undrain, storageVars, StorageInv
<1>2. /\ sched \in SchedStates /\ sched' \in SchedStates /\ sched'.bad = sched.bad
      /\ sched'.down = sched.down /\ sched'.drained = sched.drained \ {n}
  BY <1>1 DEF StorageTypes, SchedStates
<1>3. StorageTypes'
  BY <1>1, <1>2 DEF StorageTypes
<1>4. ASSUME up', NEW r \in Rabbits PROVE InStep(r)'
  <2>1. Current(r)' = Current(r) /\ Object(r)' = Object(r)
    BY <1>1, CurrentNext
  <2>2. InStep(r) /\ Object(r).name = r
    BY <1>1, <1>4, CurrentFacts DEF StorageInv
  <2>3. n \in HostsOf[r] => n \notin Object(r).offline
    BY <1>1, RabbitOfHost
  <2>4. Reflected(sched, conf, Object(r)) => Reflected(sched', conf, Object(r))
    BY <1>2, <2>2, <2>3 DEF Reflected
  <2> QED BY <1>1, <2>1, <2>2, <2>4 DEF InStep, Reflected
<1> QED BY <1>3, <1>4 DEF StorageInv

LEMMA StartStep ==
  ASSUME StorageInv, Start
  PROVE  StorageInv'
<1>1. /\ sched' = init_rabbits(sched, conf, AllObjects) /\ UNCHANGED <<conf, history>>
      /\ version' = Current(RabbitSeq[Len(RabbitSeq)]) /\ StorageTypes
  BY DEF Start, StorageInv
<1>2. \A r \in Rabbits : AllObjects[r] = Object(r) /\ Object(r) \in Objects /\ Object(r).name = r
  BY <1>1, CurrentFacts DEF AllObjects
<1>3. sched' \in SchedStates /\ \A r \in Rabbits : Reflected(sched', conf, Object(r))
  <2>1. sched \in SchedStates
    BY <1>1 DEF StorageTypes
  <2> QED BY <1>1, <1>2, <2>1, InitReflects
<1>4. RabbitSeq[Len(RabbitSeq)] \in Rabbits
  BY RabbitsAreListed
<1>5. version' \in 1 .. Len(history) /\ Len(history) \in Nat
  BY <1>1, <1>4, CurrentFacts DEF StorageTypes
<1>6. StorageTypes'
  BY <1>1, <1>3, <1>5 DEF StorageTypes
<1>7. ASSUME NEW r \in Rabbits PROVE InStep(r)'
  <2>1. Object(r)' = Object(r)
    BY <1>1, CurrentNext
  <2> QED BY <1>1, <1>3, <2>1 DEF InStep, Reflected
<1> QED BY <1>6, <1>7 DEF StorageInv

(* What the remaining operations do to the scheduler's state. *)
LEMMA SchedGrows ==
  ASSUME NEW s \in SchedStates, NEW t,
         \/ \E n \in Nodes : \E c : t = set_property(s, c, {n})
         \/ \E n \in Nodes : t = [s EXCEPT !.drained = @ \cup {n}]
         \/ \E c, rabbits : t = mark_rabbits_allocated(s, c, rabbits)
         \/ \E c, known0 : t = mark_rabbits_free(s, c, known0)
         \/ t = s
  PROVE  t \in SchedStates /\ \A r \in Rabbits : Keeps(s, t, r)
<1>1. ASSUME NEW n \in Nodes, NEW c, t = set_property(s, c, {n})
      PROVE  t \in SchedStates /\ \A r \in Rabbits : Keeps(s, t, r)
  BY <1>1, PropertyFields DEF Keeps
<1>2. ASSUME NEW n \in Nodes, t = [s EXCEPT !.drained = @ \cup {n}]
      PROVE  t \in SchedStates /\ \A r \in Rabbits : Keeps(s, t, r)
  BY <1>2 DEF Keeps, SchedStates
<1>3. ASSUME NEW c, NEW rabbits, t = mark_rabbits_allocated(s, c, rabbits)
      PROVE  t \in SchedStates /\ \A r \in Rabbits : Keeps(s, t, r)
  BY <1>3, AllocFields DEF Keeps
<1>4. ASSUME NEW c, NEW known0, t = mark_rabbits_free(s, c, known0)
      PROVE  t \in SchedStates /\ \A r \in Rabbits : Keeps(s, t, r)
  BY <1>4, AllocFields DEF Keeps
<1>5. CASE t = s
  BY <1>5 DEF Keeps
<1> QED BY <1>1, <1>2, <1>3, <1>4, <1>5

LEMMA StorageNext ==
  ASSUME StorageInv, [Next]_vars
  PROVE  StorageInv'
<1> USE DEF storageVars, statusVars, jobVars
<1>0. sched \in SchedStates
  BY DEF StorageInv, StorageTypes
<1>1. ASSUME NEW r \in Rabbits, NEW o \in Objects, StorageChange(r, o) PROVE StorageInv'
  BY <1>1, StorageChangeStep
<1>2. CASE RabbitStateChange
  BY <1>2, WatchStep
<1>3. ASSUME NEW n \in Nodes, prerun_timeout_cb(n) PROVE StorageInv'
  <2>1. sched' = set_property(sched, conf, {n}) /\ UNCHANGED <<conf, history, version, up>>
    BY <1>3 DEF prerun_timeout_cb
  <2> QED BY <1>0, <2>1, SchedGrows, StorageFrame
<1>4. ASSUME NEW n \in Nodes, BrokerChange(n) PROVE StorageInv'
  <2>1. sched' = sched /\ UNCHANGED <<conf, history, version, up>>
    BY <1>4 DEF BrokerChange
  <2> QED BY <1>0, <2>1, SchedGrows, StorageFrame
<1>5. CASE _update_offline
  <2>1. sched' = sched /\ UNCHANGED <<conf, history, version, up>>
    BY <1>5 DEF _update_offline
  <2> QED BY <1>0, <2>1, SchedGrows, StorageFrame
<1>6. ASSUME NEW n \in Nodes, disable_until_undrained(n) PROVE StorageInv'
  <2>1. /\ sched' = [sched EXCEPT !.drained = @ \cup {n}]
        /\ UNCHANGED <<conf, history, version, up>>
    BY <1>6 DEF disable_until_undrained
  <2> QED BY <1>0, <2>1, SchedGrows, StorageFrame
<1>7. ASSUME NEW n \in Nodes, Undrain(n) PROVE StorageInv'
  BY <1>7, UndrainStep
<1>8. CASE _journal_callback
  <2>1. sched' = sched /\ UNCHANGED <<conf, history, version, up>>
    BY <1>8 DEF _journal_callback
  <2> QED BY <1>0, <2>1, SchedGrows, StorageFrame
<1>9. ASSUME NEW j \in Jobs, NEW nodes \in SUBSET Nodes, Place(j, nodes) PROVE StorageInv'
  <2>1. sched' = sched /\ UNCHANGED <<conf, history, version, up>>
    BY <1>9 DEF Place
  <2> QED BY <1>0, <2>1, SchedGrows, StorageFrame
<1>10. ASSUME NEW j \in Jobs, setup_cb(j) PROVE StorageInv'
  <2>1. /\ sched' = mark_rabbits_allocated(sched, conf, RabbitsOf(job[j].nodes))
        /\ UNCHANGED <<conf, history, version, up>>
    BY <1>10 DEF setup_cb
  <2> QED BY <1>0, <2>1, SchedGrows, StorageFrame
<1>11. ASSUME NEW j \in Jobs, SetupFails(j) \/ TeardownCompletes(j) \/ WorkflowDeleted(j)
       PROVE  StorageInv'
  <2>1. sched' = sched /\ UNCHANGED <<conf, history, version, up>>
    BY <1>11 DEF SetupFails, TeardownCompletes, WorkflowDeleted
  <2> QED BY <1>0, <2>1, SchedGrows, StorageFrame
<1>12. ASSUME NEW j \in Jobs, WorkflowTornDown(j) PROVE StorageInv'
  <2>1. /\ sched' = mark_rabbits_free(sched, conf, known[j])
        /\ UNCHANGED <<conf, history, version, up>>
    BY <1>12 DEF WorkflowTornDown
  <2> QED BY <1>0, <2>1, SchedGrows, StorageFrame
<1>13. CASE Crash
  <2>1. sched' = sched /\ UNCHANGED <<conf, history, version>> /\ up' = FALSE
    BY <1>13 DEF Crash
  <2> QED BY <1>0, <2>1, SchedGrows, StorageFrame
<1>14. CASE Start
  BY <1>14, StartStep
<1>15. CASE UNCHANGED vars
  <2>1. sched' = sched /\ UNCHANGED <<conf, history, version, up>>
    BY <1>15 DEF vars
  <2> QED BY <1>0, <2>1, SchedGrows, StorageFrame
<1> QED BY <1>1, <1>2, <1>3, <1>4, <1>5, <1>6, <1>7, <1>8, <1>9, <1>10, <1>11, <1>12,
           <1>13, <1>14, <1>15 DEF Next

(* However the service dies and is restarted and whatever versions the watch  *)
(* replays, under every combination of options, no rabbit job is placed where *)
(* the rabbit is not Ready or the link to it is lost, once the watch has      *)
(* caught up: rabbit_state_change_cb() and init_rabbits() mark, drain or take *)
(* down what the constraint of handle_proposal_state() leaves out.            *)
THEOREM JobsAvoidTrouble == Spec => []AvoidsTrouble
<1>1. Init => StorageInv
  BY StorageInit
<1>2. StorageInv /\ [Next]_vars => StorageInv'
  BY StorageNext
<1>3. StorageInv => AvoidsTrouble
  <2> SUFFICES ASSUME StorageInv, up, version = Len(history), NEW n \in Eligible(sched, conf)
               PROVE  LET o == Object(HOSTNAMES_TO_RABBITS[n])
                      IN  o.status = "Ready" /\ (LinksMatter(n) => n \notin o.offline)
    BY DEF AvoidsTrouble
  <2> DEFINE r == HOSTNAMES_TO_RABBITS[n]
             o == Object(r)
  <2>1. n \in Nodes /\ n \notin Excluded /\ n \notin sched.drained
        /\ n \notin Avoided(sched, conf) /\ (conf.fluxion => r \notin sched.down)
    BY DEF Eligible
  <2>2. r \in Rabbits /\ n \in HostsOf[r]
    BY <2>1, RabbitOfHost
  <2> HIDE DEF r
  <2>3. o.name = r /\ Current(r) \in 1 .. Len(history) /\ StorageTypes
    BY <2>2, CurrentFacts DEF StorageInv
  <2>4. ~(Current(r) > version)
    BY <2>3 DEF StorageTypes
  <2>5. Reflected(sched, conf, o)
    BY <2>2, <2>4 DEF StorageInv, InStep
  <2> HIDE DEF o
  <2>6. o.status = "Ready"
    BY <2>1, <2>2, <2>3, <2>5 DEF Reflected, Avoided
  <2>7. LinksMatter(n) => n \notin o.offline
    <3>1. CASE conf.drain
      BY <2>1, <2>2, <2>3, <2>5, <2>6, <3>1 DEF Reflected, LinksMatter
    <3>2. CASE ~conf.drain
      <4>1. n \notin sched.bad
        BY <2>1, <3>2 DEF Avoided
      <4> QED BY <2>1, <2>2, <2>3, <2>5, <2>6, <3>2, <4>1 DEF Reflected, LinksMatter
    <3> QED BY <3>1, <3>2
  <2> QED BY <2>6, <2>7 DEF o, r
<1> QED BY <1>1, <1>2, <1>3, PTL DEF Spec

---------------------------------------------------------------------------
(* The alloc_rabbit marks *)

Stages == {"none", "placed", "setup", "ending", "torn", "deleting", "listed", "gone"}

JobStates == [stage : Stages, nodes : SUBSET Nodes, alone : BOOLEAN, forgotten : BOOLEAN]

KeepsWorkflow(jb, j) == jb[j].stage \notin {"none", "gone"}
RabbitsOfJob(jb, j) == RabbitsOf(jb[j].nodes)

(* Every mark belongs to a job that the service remembers or has forgotten. *)
Owns(jb, kn, j) == jb[j].forgotten \/ kn[j] # {}

MarksNeeded(alloc, jb, kn) ==
  \A n \in alloc : \E j \in Jobs :
    Owns(jb, kn, j) /\ HOSTNAMES_TO_RABBITS[n] \in RabbitsOfJob(jb, j)

(* A job that is said to be alone shares its rabbits with no other one, ended *)
(* ones included whose Workflow is still there: it may be torn down again.    *)
AloneMeans(jb) ==
  \A j, k \in Jobs : jb[j].alone /\ j # k /\ KeepsWorkflow(jb, j) /\ KeepsWorkflow(jb, k) =>
    RabbitsOfJob(jb, j) \cap RabbitsOfJob(jb, k) = {}

MarksSet(c, alloc, jb) ==
  \A j \in Jobs : ~c.fluxion /\ jb[j].stage = "setup" /\ jb[j].alone =>
    Chassis(c, RabbitsOfJob(jb, j)) \subseteq alloc

(* What the service remembers is right, and of a job that has its nodes.      *)
KnownRight(jb, kn) ==
  \A j \in Jobs :
    /\ kn[j] # {} => kn[j] = RabbitsOfJob(jb, j) /\ jb[j].stage \in {"setup", "torn"}
    /\ jb[j].stage = "none" => ~jb[j].forgotten

MarksState(c, alloc, jb, kn) ==
  /\ jb \in [Jobs -> JobStates] /\ kn \in [Jobs -> SUBSET Rabbits]
  /\ alloc \subseteq _get_rpaths(c) /\ (c.fluxion => alloc = {})
  /\ KnownRight(jb, kn) /\ AloneMeans(jb)
  /\ MarksNeeded(alloc, jb, kn) /\ MarksSet(c, alloc, jb)

MarksInv == MarksState(conf, sched.alloc, job, known)

(* The state after a job's stage has changed. *)
StageChanged(jb, jb2, j, stage) ==
  /\ jb2 \in [Jobs -> JobStates]
  /\ jb2[j].stage = stage /\ jb2[j].nodes = jb[j].nodes /\ jb2[j].alone = jb[j].alone
  /\ jb2[j].forgotten = jb[j].forgotten
  /\ \A k \in Jobs \ {j} : jb2[k] = jb[k]

LEMMA StageOfJob ==
  ASSUME NEW jb \in JobStates, NEW stage \in Stages
  PROVE  /\ [jb EXCEPT !.stage = stage] \in JobStates
         /\ [jb EXCEPT !.stage = stage].stage = stage
         /\ [jb EXCEPT !.stage = stage].nodes = jb.nodes
         /\ [jb EXCEPT !.stage = stage].alone = jb.alone
         /\ [jb EXCEPT !.stage = stage].forgotten = jb.forgotten
BY DEF JobStates

LEMMA StageChange ==
  ASSUME NEW jb \in [Jobs -> JobStates], NEW j \in Jobs, NEW stage \in Stages, NEW jb2,
         jb2 = [jb EXCEPT ![j].stage = stage]
  PROVE  StageChanged(jb, jb2, j, stage)
<1>1. jb2 = [jb EXCEPT ![j] = [jb[j] EXCEPT !.stage = stage]]
  OBVIOUS
<1>2. jb[j] \in JobStates
  OBVIOUS
<1>3. /\ [jb[j] EXCEPT !.stage = stage] \in JobStates
      /\ [jb[j] EXCEPT !.stage = stage].stage = stage
      /\ [jb[j] EXCEPT !.stage = stage].nodes = jb[j].nodes
      /\ [jb[j] EXCEPT !.stage = stage].alone = jb[j].alone
      /\ [jb[j] EXCEPT !.stage = stage].forgotten = jb[j].forgotten
  BY <1>2, StageOfJob
<1>4. jb2[j] = [jb[j] EXCEPT !.stage = stage] /\ jb2 \in [Jobs -> JobStates]
      /\ \A k \in Jobs \ {j} : jb2[k] = jb[k]
  BY <1>1, <1>3
<1> QED BY <1>3, <1>4 DEF StageChanged

(* Whichever stage a live job goes to, no pair of jobs begins to share. *)
LEMMA AloneStays ==
  ASSUME NEW jb, NEW jb2, NEW j \in Jobs, NEW stage, StageChanged(jb, jb2, j, stage),
         KeepsWorkflow(jb, j), AloneMeans(jb)
  PROVE  AloneMeans(jb2) /\ \A k \in Jobs : RabbitsOfJob(jb2, k) = RabbitsOfJob(jb, k)
<1>1. \A k \in Jobs : /\ RabbitsOfJob(jb2, k) = RabbitsOfJob(jb, k)
                      /\ jb2[k].alone = jb[k].alone
                      /\ KeepsWorkflow(jb2, k) => KeepsWorkflow(jb, k)
  <2> SUFFICES ASSUME NEW k \in Jobs
               PROVE  /\ RabbitsOfJob(jb2, k) = RabbitsOfJob(jb, k)
                      /\ jb2[k].alone = jb[k].alone
                      /\ KeepsWorkflow(jb2, k) => KeepsWorkflow(jb, k)
    OBVIOUS
  <2>1. CASE k = j
    BY <2>1 DEF StageChanged, RabbitsOfJob
  <2>2. CASE k # j
    BY <2>2 DEF StageChanged, RabbitsOfJob, KeepsWorkflow
  <2> QED BY <2>1, <2>2
<1>2. AloneMeans(jb2)
  BY <1>1 DEF AloneMeans
<1> QED BY <1>1, <1>2

(* Teardown completes, a Workflow is deleted, or dws.setup fails. *)
LEMMA MarksWhenStageChanges ==
  ASSUME NEW c, NEW a, NEW jb, NEW kn, MarksState(c, a, jb, kn), NEW j \in Jobs,
         NEW stage \in Stages, NEW jb2, StageChanged(jb, jb2, j, stage),
         KeepsWorkflow(jb, j), stage \notin {"none", "setup"},
         kn[j] # {} => stage = "torn"
  PROVE  MarksState(c, a, jb2, kn)
<1>1. AloneMeans(jb2) /\ \A k \in Jobs : RabbitsOfJob(jb2, k) = RabbitsOfJob(jb, k)
  BY AloneStays DEF MarksState
<1>2. \A k \in Jobs : Owns(jb, kn, k) => Owns(jb2, kn, k)
  BY DEF StageChanged, Owns
<1>3. MarksNeeded(a, jb2, kn)
  BY <1>1, <1>2 DEF MarksState, MarksNeeded
<1>4. KnownRight(jb2, kn)
  <2> SUFFICES ASSUME NEW k \in Jobs
               PROVE  /\ kn[k] # {} => /\ kn[k] = RabbitsOfJob(jb2, k)
                                       /\ jb2[k].stage \in {"setup", "torn"}
                      /\ jb2[k].stage = "none" => ~jb2[k].forgotten
    BY DEF KnownRight
  <2>1. /\ kn[k] # {} => kn[k] = RabbitsOfJob(jb, k) /\ jb[k].stage \in {"setup", "torn"}
        /\ jb[k].stage = "none" => ~jb[k].forgotten
    BY DEF MarksState, KnownRight
  <2>2. /\ kn[k] # {} => jb2[k].stage \in {"setup", "torn"}
        /\ jb2[k].stage = "none" => ~jb2[k].forgotten
    BY <2>1 DEF StageChanged
  <2> QED BY <1>1, <2>1, <2>2
<1>5. MarksSet(c, a, jb2)
  <2> SUFFICES ASSUME NEW k \in Jobs, ~c.fluxion, jb2[k].stage = "setup", jb2[k].alone
               PROVE  Chassis(c, RabbitsOfJob(jb2, k)) \subseteq a
    BY DEF MarksSet
  <2>1. jb2[k] = jb[k]
    BY DEF StageChanged
  <2>2. Chassis(c, RabbitsOfJob(jb, k)) \subseteq a
    BY <2>1 DEF MarksState, MarksSet
  <2> QED BY <1>1, <2>2
<1> QED BY <1>1, <1>3, <1>4, <1>5 DEF MarksState, StageChanged

(* The nodes of a chassis are those whose rabbit it is. *)
LEMMA ChassisNodes ==
  ASSUME NEW c, NEW rabbits \in SUBSET Rabbits
  PROVE  /\ Chassis(c, rabbits) \subseteq _get_rpaths(c)
         /\ \A n \in _get_rpaths(c) :
              n \in Chassis(c, rabbits) <=> HOSTNAMES_TO_RABBITS[n] \in rabbits
<1>1. _get_rpaths(c) \subseteq Nodes
  BY DEF _get_rpaths
<1>2. \A n : n \in Chassis(c, rabbits) <=>
               n \in _get_rpaths(c) /\ \E r \in rabbits : n \in HostsOf[r]
  BY DEF Chassis
<1> QED BY <1>1, <1>2, RabbitOfHost

LEMMA RabbitsOfNodes == \A nodes \in SUBSET Nodes : RabbitsOf(nodes) \in SUBSET Rabbits
BY RabbitOfHost DEF RabbitsOf

(* setup_cb() marks the chassis of the job. *)
LEMMA MarksAtSetup ==
  ASSUME NEW c, NEW a, NEW jb, NEW kn, MarksState(c, a, jb, kn), NEW j \in Jobs,
         NEW jb2, StageChanged(jb, jb2, j, "setup"), jb[j].stage = "placed",
         NEW a2, a2 = IF c.fluxion THEN a ELSE a \cup Chassis(c, RabbitsOfJob(jb, j)),
         NEW kn2 \in [Jobs -> SUBSET Rabbits], kn2[j] \in {{}, RabbitsOfJob(jb, j)},
         ~c.fluxion => kn2[j] = RabbitsOfJob(jb, j),
         \A k \in Jobs \ {j} : kn2[k] = kn[k]
  PROVE  MarksState(c, a2, jb2, kn2)
<1>0. /\ jb \in [Jobs -> JobStates] /\ kn \in [Jobs -> SUBSET Rabbits]
      /\ a \subseteq _get_rpaths(c) /\ (c.fluxion => a = {})
  BY DEF MarksState
<1>1. AloneMeans(jb2) /\ \A k \in Jobs : RabbitsOfJob(jb2, k) = RabbitsOfJob(jb, k)
  BY AloneStays DEF MarksState, KeepsWorkflow
<1>2. RabbitsOfJob(jb, j) \in SUBSET Rabbits
  BY <1>0, RabbitsOfNodes DEF JobStates, RabbitsOfJob
<1>3. \A k \in Jobs \ {j} : kn2[k] = kn[k]
  OBVIOUS
<1>4. a2 \subseteq _get_rpaths(c) /\ a \subseteq a2 /\ (c.fluxion => a2 = {})
  BY <1>0, <1>2, ChassisNodes
<1>5. KnownRight(jb2, kn2)
  <2> SUFFICES ASSUME NEW k \in Jobs
               PROVE  /\ kn2[k] # {} => /\ kn2[k] = RabbitsOfJob(jb2, k)
                                        /\ jb2[k].stage \in {"setup", "torn"}
                      /\ jb2[k].stage = "none" => ~jb2[k].forgotten
    BY DEF KnownRight
  <2>1. CASE k = j
    BY <1>1, <1>3, <2>1 DEF StageChanged
  <2>2. CASE k # j
    BY <1>1, <1>3, <2>2 DEF StageChanged, MarksState, KnownRight
  <2> QED BY <2>1, <2>2
<1>6. MarksNeeded(a2, jb2, kn2)
  <2>1. \A k \in Jobs : Owns(jb, kn, k) => Owns(jb2, kn2, k)
    <3>1. kn[j] = {}
      BY DEF MarksState, KnownRight
    <3> QED BY <3>1 DEF StageChanged, Owns
  <2> SUFFICES ASSUME NEW n \in a2
               PROVE  \E k \in Jobs : Owns(jb2, kn2, k)
                                      /\ HOSTNAMES_TO_RABBITS[n] \in RabbitsOfJob(jb2, k)
    BY DEF MarksNeeded
  <2>3. CASE n \in a
    BY <1>1, <2>1, <2>3 DEF MarksState, MarksNeeded
  <2>4. CASE n \notin a
    <3>1. n \in Chassis(c, RabbitsOfJob(jb, j)) /\ n \in _get_rpaths(c)
      BY <1>4, <2>4
    <3>2. HOSTNAMES_TO_RABBITS[n] \in RabbitsOfJob(jb2, j)
      BY <1>1, <1>2, <3>1, ChassisNodes
    <3>3. ~c.fluxion /\ kn2[j] = RabbitsOfJob(jb2, j)
      BY <1>1, <2>4
    <3> QED BY <3>2, <3>3 DEF Owns
  <2> QED BY <2>3, <2>4
<1>7. MarksSet(c, a2, jb2)
  <2> SUFFICES ASSUME NEW k \in Jobs, ~c.fluxion, jb2[k].stage = "setup", jb2[k].alone
               PROVE  Chassis(c, RabbitsOfJob(jb2, k)) \subseteq a2
    BY DEF MarksSet
  <2>1. CASE k = j
    BY <1>1, <2>1
  <2>2. CASE k # j
    <3>1. jb2[k] = jb[k]
      BY <2>2 DEF StageChanged
    <3>2. Chassis(c, RabbitsOfJob(jb, k)) \subseteq a
      BY <3>1 DEF MarksState, MarksSet
    <3> QED BY <1>1, <1>4, <3>2
  <2> QED BY <2>1, <2>2
<1> QED BY <1>1, <1>3, <1>4, <1>5, <1>6, <1>7 DEF MarksState, StageChanged

(* The watch callback frees the chassis of the job when it is torn down. *)
LEMMA MarksAtTeardown ==
  ASSUME NEW c, NEW a, NEW jb, NEW kn, MarksState(c, a, jb, kn), NEW j \in Jobs,
         NEW jb2, StageChanged(jb, jb2, j, "deleting"), jb[j].stage \in {"torn", "listed"},
         NEW a2, a2 = IF c.fluxion THEN a ELSE a \ Chassis(c, kn[j]),
         NEW kn2, kn2 = [kn EXCEPT ![j] = {}]
  PROVE  MarksState(c, a2, jb2, kn2)
<1>0. /\ jb \in [Jobs -> JobStates] /\ kn \in [Jobs -> SUBSET Rabbits]
      /\ a \subseteq _get_rpaths(c) /\ (c.fluxion => a = {})
  BY DEF MarksState
<1>1. AloneMeans(jb2) /\ \A k \in Jobs : RabbitsOfJob(jb2, k) = RabbitsOfJob(jb, k)
  BY AloneStays DEF MarksState, KeepsWorkflow
<1>2. \A k \in Jobs : RabbitsOfJob(jb, k) \in SUBSET Rabbits
  BY <1>0, RabbitsOfNodes DEF JobStates, RabbitsOfJob
<1>3. /\ kn2 \in [Jobs -> SUBSET Rabbits] /\ kn2[j] = {}
      /\ \A k \in Jobs \ {j} : kn2[k] = kn[k]
  BY <1>0
<1>4. a2 \subseteq a /\ a2 \subseteq _get_rpaths(c) /\ (c.fluxion => a2 = {})
  BY <1>0
<1>5. KnownRight(jb2, kn2)
  BY <1>1, <1>3 DEF KnownRight, StageChanged, MarksState
<1>6. ASSUME NEW n \in a2, HOSTNAMES_TO_RABBITS[n] \in RabbitsOfJob(jb, j) PROVE kn[j] = {}
  <2> SUFFICES ASSUME kn[j] # {} PROVE FALSE
    OBVIOUS
  <2>1. kn[j] = RabbitsOfJob(jb, j)
    BY DEF MarksState, KnownRight
  <2>2. ~c.fluxion
    BY <1>4, <1>6
  <2> QED BY <1>2, <1>4, <1>6, <2>1, <2>2, ChassisNodes
<1>7. MarksNeeded(a2, jb2, kn2)
  <2> SUFFICES ASSUME NEW n \in a2
               PROVE  \E k \in Jobs : Owns(jb2, kn2, k)
                                      /\ HOSTNAMES_TO_RABBITS[n] \in RabbitsOfJob(jb2, k)
    BY DEF MarksNeeded
  <2>1. PICK k \in Jobs : Owns(jb, kn, k) /\ HOSTNAMES_TO_RABBITS[n] \in RabbitsOfJob(jb, k)
    BY <1>4 DEF MarksState, MarksNeeded
  <2>2. CASE k = j
    <3>1. jb2[j].forgotten
      BY <1>6, <2>1, <2>2 DEF Owns, StageChanged
    <3> QED BY <1>1, <2>1, <2>2, <3>1 DEF Owns
  <2>3. CASE k # j
    <3>1. Owns(jb2, kn2, k)
      BY <1>3, <2>1, <2>3 DEF StageChanged, Owns
    <3> QED BY <1>1, <2>1, <3>1
  <2> QED BY <2>2, <2>3
<1>8. MarksSet(c, a2, jb2)
  <2> SUFFICES ASSUME NEW k \in Jobs, ~c.fluxion, jb2[k].stage = "setup", jb2[k].alone
               PROVE  Chassis(c, RabbitsOfJob(jb2, k)) \subseteq a2
    BY DEF MarksSet
  <2>1. k # j /\ jb2[k] = jb[k]
    BY DEF StageChanged
  <2>2. Chassis(c, RabbitsOfJob(jb, k)) \subseteq a
    BY <2>1 DEF MarksState, MarksSet
  <2>3. KeepsWorkflow(jb, k) /\ KeepsWorkflow(jb, j)
    BY <2>1 DEF KeepsWorkflow
  <2>4. RabbitsOfJob(jb, k) \cap RabbitsOfJob(jb, j) = {}
    BY <2>1, <2>3 DEF MarksState, AloneMeans
  <2>5. kn[j] \in {{}, RabbitsOfJob(jb, j)}
    BY DEF MarksState, KnownRight
  <2>6. kn[j] \in SUBSET Rabbits /\ RabbitsOfJob(jb, k) \cap kn[j] = {}
    BY <1>0, <2>4, <2>5
  <2>7. \A n \in Chassis(c, RabbitsOfJob(jb, k)) : n \notin Chassis(c, kn[j])
    BY <1>2, <2>6, ChassisNodes
  <2> QED BY <1>1, <2>2, <2>7
<1> QED BY <1>1, <1>3, <1>4, <1>5, <1>7, <1>8 DEF MarksState, StageChanged

(* Fluxion places a job. *)
LEMMA MarksAtPlacement ==
  ASSUME NEW c, NEW a, NEW jb, NEW kn, MarksState(c, a, jb, kn), NEW j \in Jobs,
         jb[j].stage = "none", NEW nodes \in SUBSET Nodes,
         NEW jb2 \in [Jobs -> JobStates], jb2[j].stage = "placed", jb2[j].nodes = nodes,
         ~jb2[j].forgotten,
         \A k \in Jobs \ {j} : /\ jb2[k].stage = jb[k].stage /\ jb2[k].nodes = jb[k].nodes
                                /\ jb2[k].forgotten = jb[k].forgotten,
         \A k \in Jobs \ {j} : jb2[k].alone => jb[k].alone,
         \A k \in Jobs \ {j} : (jb2[k].alone \/ jb2[j].alone) /\ KeepsWorkflow(jb, k) =>
           RabbitsOfJob(jb, k) \cap RabbitsOf(nodes) = {}
  PROVE  MarksState(c, a, jb2, kn)
<1>1. \A k \in Jobs \ {j} : RabbitsOfJob(jb2, k) = RabbitsOfJob(jb, k)
  BY DEF RabbitsOfJob
<1>2. RabbitsOfJob(jb2, j) = RabbitsOf(nodes)
  BY DEF RabbitsOfJob
<1>3. \A k \in Jobs \ {j} : /\ Owns(jb2, kn, k) <=> Owns(jb, kn, k)
                            /\ KeepsWorkflow(jb2, k) <=> KeepsWorkflow(jb, k)
  BY DEF Owns, KeepsWorkflow
<1>4. kn[j] = {} /\ ~Owns(jb, kn, j)
  BY DEF MarksState, KnownRight, Owns
<1>5. MarksNeeded(a, jb2, kn)
  BY <1>1, <1>3, <1>4 DEF MarksState, MarksNeeded
<1>6. KnownRight(jb2, kn)
  <2> SUFFICES ASSUME NEW k \in Jobs
               PROVE  /\ kn[k] # {} => /\ kn[k] = RabbitsOfJob(jb2, k)
                                       /\ jb2[k].stage \in {"setup", "torn"}
                      /\ jb2[k].stage = "none" => ~jb2[k].forgotten
    BY DEF KnownRight
  <2>1. CASE k = j
    BY <1>4, <2>1
  <2>2. CASE k # j
    BY <1>1, <2>2 DEF MarksState, KnownRight
  <2> QED BY <2>1, <2>2
<1>7. AloneMeans(jb2)
  <2> SUFFICES ASSUME NEW i \in Jobs, NEW k \in Jobs, jb2[i].alone, i # k,
                      KeepsWorkflow(jb2, i), KeepsWorkflow(jb2, k)
               PROVE  RabbitsOfJob(jb2, i) \cap RabbitsOfJob(jb2, k) = {}
    BY DEF AloneMeans
  <2>1. CASE i = j
    BY <1>1, <1>2, <1>3, <2>1
  <2>2. CASE k = j
    BY <1>1, <1>2, <1>3, <2>2
  <2>3. CASE i # j /\ k # j
    <3>1. jb[i].alone /\ KeepsWorkflow(jb, i) /\ KeepsWorkflow(jb, k)
      BY <1>3, <2>3
    <3> QED BY <1>1, <2>3, <3>1 DEF MarksState, AloneMeans
  <2> QED BY <2>1, <2>2, <2>3
<1>8. MarksSet(c, a, jb2)
  <2> SUFFICES ASSUME NEW k \in Jobs, ~c.fluxion, jb2[k].stage = "setup", jb2[k].alone
               PROVE  Chassis(c, RabbitsOfJob(jb2, k)) \subseteq a
    BY DEF MarksSet
  <2>1. k # j /\ jb[k].stage = "setup" /\ jb[k].alone
    OBVIOUS
  <2>2. Chassis(c, RabbitsOfJob(jb, k)) \subseteq a
    BY <2>1 DEF MarksState, MarksSet
  <2> QED BY <1>1, <2>1, <2>2
<1> QED BY <1>5, <1>6, <1>7, <1>8 DEF MarksState

(* The service forgets, and deleted Workflows are listed again. *)
AtCrash(jb, kn, j) ==
  [jb[j] EXCEPT !.stage = IF @ = "deleting" THEN "listed" ELSE @,
                !.forgotten = @ \/ kn[j] # {}]

LEMMA MarksAtCrash ==
  ASSUME NEW c, NEW a, NEW jb, NEW kn, MarksState(c, a, jb, kn),
         NEW kn2, kn2 = [j \in Jobs |-> {}],
         NEW jb2, jb2 = [j \in Jobs |-> AtCrash(jb, kn, j)]
  PROVE  MarksState(c, a, jb2, kn2)
<1>0. jb \in [Jobs -> JobStates]
  BY DEF MarksState
<1>1. ASSUME NEW j \in Jobs
      PROVE  /\ jb2[j] \in JobStates /\ jb2[j].nodes = jb[j].nodes /\ jb2[j].alone = jb[j].alone
             /\ jb2[j].stage = IF jb[j].stage = "deleting" THEN "listed" ELSE jb[j].stage
             /\ jb2[j].forgotten = (jb[j].forgotten \/ kn[j] # {})
  <2> DEFINE stage == IF jb[j].stage = "deleting" THEN "listed" ELSE jb[j].stage
             forgotten == (jb[j].forgotten \/ kn[j] # {})
             s1 == [jb[j] EXCEPT !.stage = stage]
  <2>1. jb[j] \in JobStates
    BY <1>0
  <2>2. stage \in Stages
    BY <2>1 DEF JobStates, Stages
  <2>3. forgotten \in BOOLEAN
    BY Zenon
  <2>4. jb2[j] = [[jb[j] EXCEPT !.stage = stage] EXCEPT !.forgotten = forgotten]
    <3>1. jb2[j] = AtCrash(jb, kn, j)
      OBVIOUS
    <3>2. AtCrash(jb, kn, j) = [jb[j] EXCEPT !.stage = stage, !.forgotten = forgotten]
      <4>1. jb[j] = [stage |-> jb[j].stage, nodes |-> jb[j].nodes, alone |-> jb[j].alone,
                     forgotten |-> jb[j].forgotten]
        BY <2>1 DEF JobStates
      <4> QED BY <4>1, Zenon DEF AtCrash
    <3>3. [jb[j] EXCEPT !.stage = stage, !.forgotten = forgotten]
            = [[jb[j] EXCEPT !.stage = stage] EXCEPT !.forgotten = forgotten]
      OBVIOUS
    <3> QED BY <3>1, <3>2, <3>3
  <2> HIDE DEF stage, forgotten
  <2>5. /\ s1 \in JobStates /\ s1.stage = stage /\ s1.nodes = jb[j].nodes
        /\ s1.alone = jb[j].alone
    BY <2>1, <2>2, StageOfJob
  <2> HIDE DEF s1
  <2>6. /\ [s1 EXCEPT !.forgotten = forgotten] \in JobStates
        /\ [s1 EXCEPT !.forgotten = forgotten].stage = s1.stage
        /\ [s1 EXCEPT !.forgotten = forgotten].nodes = s1.nodes
        /\ [s1 EXCEPT !.forgotten = forgotten].alone = s1.alone
        /\ [s1 EXCEPT !.forgotten = forgotten].forgotten = forgotten
    BY <2>3, <2>5 DEF JobStates
  <2>7. jb2[j] = [s1 EXCEPT !.forgotten = forgotten]
    BY <2>4 DEF s1
  <2> QED BY <2>5, <2>6, <2>7, Zenon DEF stage, forgotten
<1>2. jb2 \in [Jobs -> JobStates] /\ kn2 \in [Jobs -> SUBSET Rabbits]
  BY <1>1
<1>3. \A j \in Jobs : /\ RabbitsOfJob(jb2, j) = RabbitsOfJob(jb, j)
                      /\ Owns(jb, kn, j) => Owns(jb2, kn2, j)
                      /\ KeepsWorkflow(jb2, j) => KeepsWorkflow(jb, j)
                      /\ jb2[j].stage = "setup" => jb[j].stage = "setup"
  <2> HIDE DEF RabbitsOfJob
  <2>1. \A j \in Jobs : RabbitsOfJob(jb2, j) = RabbitsOfJob(jb, j)
    BY <1>1 DEF RabbitsOfJob
  <2> QED BY <1>1, <2>1, Zenon DEF Owns, KeepsWorkflow
<1>4. \A j \in Jobs : jb2[j].alone = jb[j].alone
  BY <1>1
<1>5. KnownRight(jb2, kn2)
  BY <1>1 DEF KnownRight, MarksState
<1>6. MarksNeeded(a, jb2, kn2)
  BY <1>3 DEF MarksState, MarksNeeded
<1>7. AloneMeans(jb2)
  BY <1>3, <1>4 DEF MarksState, AloneMeans
<1>8. MarksSet(c, a, jb2)
  BY <1>3, <1>4 DEF MarksState, MarksSet
<1> QED BY <1>2, <1>5, <1>6, <1>7, <1>8 DEF MarksState

LEMMA MarksPrimed ==
  ASSUME MarksState(conf', sched'.alloc, job', known')
  PROVE  MarksInv'
BY DEF MarksInv, MarksState, KnownRight, AloneMeans, MarksNeeded, MarksSet, Owns,
       KeepsWorkflow, RabbitsOfJob, RabbitsOf, Chassis, _get_rpaths

LEMMA MarksFrame ==
  ASSUME MarksInv, UNCHANGED <<conf, job, known>>, sched'.alloc = sched.alloc
  PROVE  MarksInv'
<1>1. MarksState(conf', sched'.alloc, job', known')
  BY DEF MarksInv
<1> QED BY <1>1, MarksPrimed

LEMMA MarksInit == Init => MarksInv
<1> SUFFICES ASSUME Init PROVE MarksInv
  OBVIOUS
<1>1. /\ sched.alloc = {} /\ job = [j \in Jobs |-> Idle] /\ known = [j \in Jobs |-> {}]
  BY DEF Init
<1>2. Idle \in JobStates /\ Idle.stage = "none" /\ ~Idle.forgotten
  BY DEF Idle, JobStates, Stages
<1>3. job \in [Jobs -> JobStates] /\ known \in [Jobs -> SUBSET Rabbits]
  BY <1>1, <1>2
<1>4. \A j \in Jobs : job[j].stage = "none" /\ known[j] = {} /\ ~job[j].forgotten
  BY <1>1, <1>2
<1>5. KnownRight(job, known) /\ AloneMeans(job)
  BY <1>4 DEF KnownRight, AloneMeans, KeepsWorkflow
<1>6. MarksNeeded({}, job, known) /\ MarksSet(conf, {}, job)
  BY <1>4 DEF MarksNeeded, MarksSet
<1> QED BY <1>1, <1>3, <1>5, <1>6 DEF MarksInv, MarksState

LEMMA PlaceMarks ==
  ASSUME MarksInv, NEW j \in Jobs, NEW nodes \in SUBSET Nodes, Place(j, nodes)
  PROVE  MarksInv'
<1> DEFINE Shared(k) == SharesRabbit(k, nodes)
           None == \A i \in Jobs : ~Shared(i)
           other(k) == [job[k] EXCEPT !.alone = @ /\ ~Shared(k)]
<1>1. /\ job[j].stage = "none" /\ UNCHANGED <<conf, sched, known>>
      /\ job' = [k \in Jobs |->
                   IF k = j THEN [stage |-> "placed", nodes |-> nodes, alone |-> None,
                                  forgotten |-> FALSE]
                   ELSE other(k)]
  BY DEF Place
<1>2. job \in [Jobs -> JobStates] /\ MarksState(conf, sched.alloc, job, known)
  BY DEF MarksInv, MarksState
<1>3. None \in BOOLEAN /\ \A k : Shared(k) \in BOOLEAN
  BY Zenon DEF SharesRabbit
<1>4. \A k \in Jobs : Shared(k) <=>
        KeepsWorkflow(job, k) /\ RabbitsOfJob(job, k) \cap RabbitsOf(nodes) # {}
  BY DEF SharesRabbit, Live, KeepsWorkflow, RabbitsOfJob
<1> HIDE DEF Shared, None
<1>5. /\ job'[j] = [stage |-> "placed", nodes |-> nodes, alone |-> None,
                    forgotten |-> FALSE]
      /\ \A k \in Jobs \ {j} : job'[k] = other(k)
  BY <1>1
<1>6. /\ job'[j].stage = "placed" /\ job'[j].nodes = nodes /\ job'[j].alone = None
      /\ job'[j] \in JobStates /\ ~job'[j].forgotten
  BY <1>3, <1>5 DEF JobStates, Stages
<1>7. ASSUME NEW k \in Jobs \ {j}
      PROVE  /\ job'[k].stage = job[k].stage /\ job'[k].nodes = job[k].nodes
             /\ job'[k].alone = (job[k].alone /\ ~Shared(k))
             /\ job'[k] \in JobStates /\ job'[k].forgotten = job[k].forgotten
  <2> DEFINE b == (job[k].alone /\ ~Shared(k))
  <2>1. job[k] \in JobStates
    BY <1>2
  <2>2. b \in BOOLEAN
    BY Zenon
  <2>3. other(k) = [job[k] EXCEPT !.alone = b]
    OBVIOUS
  <2> HIDE DEF b, other
  <2>4. /\ other(k).stage = job[k].stage /\ other(k).nodes = job[k].nodes
        /\ other(k).alone = b /\ other(k) \in JobStates
        /\ other(k).forgotten = job[k].forgotten
    BY <2>1, <2>2, <2>3 DEF JobStates
  <2> QED BY <1>5, <2>4 DEF b
<1>8. job' \in [Jobs -> JobStates]
  <2>1. \A k \in Jobs : job'[k] \in JobStates
    BY <1>6, <1>7
  <2>2. job' = [k \in Jobs |-> job'[k]]
    BY <1>1
  <2> QED BY <2>1, <2>2
<1>9. \A k \in Jobs \ {j} : job'[k].alone => job[k].alone /\ ~Shared(k)
  BY <1>7, Zenon
<1>10. \A k \in Jobs \ {j} : job'[j].alone => ~Shared(k)
  BY <1>6, Zenon DEF None
<1>11. \A k \in Jobs \ {j} : (job'[k].alone \/ job'[j].alone) /\ KeepsWorkflow(job, k) =>
         RabbitsOfJob(job, k) \cap RabbitsOf(nodes) = {}
  BY <1>4, <1>9, <1>10
<1>12. /\ \A k \in Jobs \ {j} : /\ job'[k].stage = job[k].stage /\ job'[k].nodes = job[k].nodes
                                 /\ job'[k].forgotten = job[k].forgotten
       /\ \A k \in Jobs \ {j} : job'[k].alone => job[k].alone
  BY <1>7, <1>9, Zenon
<1>13. /\ job[j].stage = "none" /\ job'[j].stage = "placed" /\ job'[j].nodes = nodes
       /\ ~job'[j].forgotten
  BY <1>1, <1>6
<1>14. MarksState(conf, sched.alloc, job', known)
  BY <1>2, <1>8, <1>11, <1>12, <1>13, MarksAtPlacement, ZenonT(60)
<1> QED BY <1>1, <1>14, MarksPrimed

LEMMA SetupMarks ==
  ASSUME MarksInv, sched \in SchedStates, NEW j \in Jobs, setup_cb(j)
  PROVE  MarksInv'
<1>1. /\ job[j].stage = "placed" /\ job' = [job EXCEPT ![j].stage = "setup"]
      /\ known' = [known EXCEPT ![j] = IF conf.fluxion THEN {} ELSE RabbitsOf(job[j].nodes)]
      /\ sched' = mark_rabbits_allocated(sched, conf, RabbitsOf(job[j].nodes))
      /\ UNCHANGED conf
  BY DEF setup_cb, Becomes
<1>2. job \in [Jobs -> JobStates] /\ MarksState(conf, sched.alloc, job, known)
  BY DEF MarksInv, MarksState
<1>3. StageChanged(job, job', j, "setup")
  BY <1>1, <1>2, StageChange DEF Stages
<1>4. sched'.alloc = IF conf.fluxion THEN sched.alloc
                     ELSE sched.alloc \cup Chassis(conf, RabbitsOfJob(job, j))
  BY <1>1 DEF mark_rabbits_allocated, SchedStates, RabbitsOfJob
<1>5. /\ known' \in [Jobs -> SUBSET Rabbits]
      /\ known'[j] \in {{}, RabbitsOfJob(job, j)}
      /\ ~conf.fluxion => known'[j] = RabbitsOfJob(job, j)
      /\ \A k \in Jobs \ {j} : known'[k] = known[k]
  <2> DEFINE v == IF conf.fluxion THEN {} ELSE RabbitsOfJob(job, j)
  <2>1. known' = [known EXCEPT ![j] = v] /\ v \in {{}, RabbitsOfJob(job, j)}
    BY <1>1 DEF RabbitsOfJob
  <2>2. RabbitsOfJob(job, j) \in SUBSET Rabbits /\ known \in [Jobs -> SUBSET Rabbits]
    BY <1>2, RabbitsOfNodes DEF JobStates, RabbitsOfJob, MarksState
  <2>3. ~conf.fluxion => v = RabbitsOfJob(job, j)
    OBVIOUS
  <2> HIDE DEF v
  <2> QED BY <2>1, <2>2, <2>3
<1>6. MarksState(conf, sched'.alloc, job', known')
  <2>1. job[j].stage = "placed"
    BY <1>1
  <2> QED BY <1>2, <1>3, <1>4, <1>5, <2>1, MarksAtSetup, ZenonT(60)
<1> QED BY <1>1, <1>6, MarksPrimed

LEMMA TeardownMarks ==
  ASSUME MarksInv, sched \in SchedStates, NEW j \in Jobs, WorkflowTornDown(j)
  PROVE  MarksInv'
<1>1. /\ job[j].stage \in {"torn", "listed"} /\ job' = [job EXCEPT ![j].stage = "deleting"]
      /\ known' = [known EXCEPT ![j] = {}]
      /\ sched' = mark_rabbits_free(sched, conf, known[j])
      /\ UNCHANGED conf
  BY DEF WorkflowTornDown, Becomes
<1>2. job \in [Jobs -> JobStates] /\ MarksState(conf, sched.alloc, job, known)
  BY DEF MarksInv, MarksState
<1>3. StageChanged(job, job', j, "deleting")
  BY <1>1, <1>2, StageChange DEF Stages
<1>5. sched'.alloc = IF conf.fluxion THEN sched.alloc
                     ELSE sched.alloc \ Chassis(conf, known[j])
  BY <1>1 DEF mark_rabbits_free, SchedStates
<1>6. MarksState(conf, sched'.alloc, job', known')
  BY <1>1, <1>2, <1>3, <1>5, MarksAtTeardown
<1> QED BY <1>1, <1>6, MarksPrimed

LEMMA EndingMarks ==
  ASSUME MarksInv, NEW j \in Jobs, SetupFails(j) \/ TeardownCompletes(j) \/ WorkflowDeleted(j)
  PROVE  MarksInv'
<1>1. UNCHANGED <<conf, sched, known>>
  BY DEF SetupFails, TeardownCompletes, WorkflowDeleted
<1>2. job \in [Jobs -> JobStates] /\ MarksState(conf, sched.alloc, job, known)
  BY DEF MarksInv, MarksState
<1>3. PICK stage \in {"ending", "torn", "gone"} :
        /\ job' = [job EXCEPT ![j].stage = stage]
        /\ KeepsWorkflow(job, j)
        /\ known[j] # {} => stage = "torn"
  <2>1. CASE SetupFails(j)
    <3>1. job[j].stage = "placed" /\ job' = [job EXCEPT ![j].stage = "ending"]
      BY <2>1 DEF SetupFails, Becomes
    <3> QED BY <1>2, <3>1 DEF MarksState, KnownRight, KeepsWorkflow
  <2>2. CASE TeardownCompletes(j)
    BY <2>2 DEF TeardownCompletes, Becomes, KeepsWorkflow
  <2>3. CASE WorkflowDeleted(j)
    <3>1. job[j].stage = "deleting" /\ job' = [job EXCEPT ![j].stage = "gone"]
      BY <2>3 DEF WorkflowDeleted, Becomes
    <3> QED BY <1>2, <3>1 DEF MarksState, KnownRight, KeepsWorkflow
  <2> QED BY <2>1, <2>2, <2>3
<1>4. stage \in Stages /\ stage \notin {"none", "setup"}
  BY <1>3 DEF Stages
<1>5. StageChanged(job, job', j, stage)
  BY <1>2, <1>3, <1>4, StageChange
<1>7. MarksState(conf, sched.alloc, job', known)
  BY <1>2, <1>3, <1>4, <1>5, MarksWhenStageChanges
<1> QED BY <1>1, <1>7, MarksPrimed

LEMMA CrashMarks ==
  ASSUME MarksInv, Crash
  PROVE  MarksInv'
<1>1. /\ UNCHANGED <<conf, sched>> /\ known' = [j \in Jobs |-> {}]
      /\ job' = [j \in Jobs |-> AtCrash(job, known, j)]
  BY DEF Crash, AtCrash
<1>2. MarksState(conf, sched.alloc, job, known)
  BY DEF MarksInv
<1>3. MarksState(conf, sched.alloc, job', known')
  BY <1>1, <1>2, MarksAtCrash
<1> QED BY <1>1, <1>3, MarksPrimed

(* Nothing else touches the marks. *)
LEMMA OthersKeepMarks ==
  ASSUME StorageInv,
         \/ RabbitStateChange \/ _update_offline \/ _journal_callback \/ Start \/ UNCHANGED vars
         \/ \E r \in Rabbits, o \in Objects : StorageChange(r, o)
         \/ \E n \in Nodes : \/ prerun_timeout_cb(n) \/ BrokerChange(n)
                             \/ disable_until_undrained(n) \/ Undrain(n)
  PROVE  UNCHANGED <<conf, job, known>> /\ sched'.alloc = sched.alloc
<1> USE DEF storageVars, statusVars, jobVars
<1>0. sched \in SchedStates /\ StorageTypes
  BY DEF StorageInv, StorageTypes
<1>1. CASE RabbitStateChange
  <2>1. history[version + 1] \in Objects
    BY <1>0, <1>1 DEF RabbitStateChange, StorageTypes
  <2>2. sched' = rabbit_state_change_cb(sched, conf, history[version + 1])
        /\ UNCHANGED <<conf, job, known>>
    BY <1>1 DEF RabbitStateChange
  <2> QED BY <1>0, <2>1, <2>2, StateChangeReflects
<1>2. CASE _update_offline \/ _journal_callback
  BY <1>2 DEF _update_offline, _journal_callback
<1>3. CASE Start
  <2>1. sched' = init_rabbits(sched, conf, AllObjects) /\ UNCHANGED <<conf, job, known>>
    BY <1>3 DEF Start
  <2>2. \A r \in Rabbits : AllObjects[r] \in Objects /\ AllObjects[r].name = r
    BY <1>0, CurrentFacts DEF AllObjects
  <2> QED BY <1>0, <2>1, <2>2, InitReflects
<1>4. CASE UNCHANGED vars
  BY <1>4 DEF vars
<1>5. ASSUME NEW r \in Rabbits, NEW o \in Objects, StorageChange(r, o)
      PROVE  UNCHANGED <<conf, job, known>> /\ sched'.alloc = sched.alloc
  BY <1>5 DEF StorageChange
<1>6. ASSUME NEW n \in Nodes, prerun_timeout_cb(n)
      PROVE  UNCHANGED <<conf, job, known>> /\ sched'.alloc = sched.alloc
  <2>1. sched' = set_property(sched, conf, {n}) /\ UNCHANGED <<conf, job, known>>
    BY <1>6 DEF prerun_timeout_cb
  <2> QED BY <1>0, <2>1, PropertyFields
<1>7. ASSUME NEW n \in Nodes, BrokerChange(n)
      PROVE  UNCHANGED <<conf, job, known>> /\ sched'.alloc = sched.alloc
  BY <1>7 DEF BrokerChange
<1>8. ASSUME NEW n \in Nodes, disable_until_undrained(n) \/ Undrain(n)
      PROVE  UNCHANGED <<conf, job, known>> /\ sched'.alloc = sched.alloc
  <2>1. UNCHANGED <<conf, job, known>> /\ \E D : sched' = [sched EXCEPT !.drained = D]
    BY <1>8 DEF disable_until_undrained, Undrain
  <2> QED BY <1>0, <2>1 DEF SchedStates
<1> QED BY <1>1, <1>2, <1>3, <1>4, <1>5, <1>6, <1>7, <1>8

LEMMA MarksNext ==
  ASSUME StorageInv, MarksInv, [Next]_vars
  PROVE  MarksInv'
<1>0. sched \in SchedStates
  BY DEF StorageInv, StorageTypes
<1>1. ASSUME NEW j \in Jobs, NEW nodes \in SUBSET Nodes, Place(j, nodes) PROVE MarksInv'
  BY <1>1, PlaceMarks
<1>2. ASSUME NEW j \in Jobs, setup_cb(j) PROVE MarksInv'
  BY <1>0, <1>2, SetupMarks
<1>3. ASSUME NEW j \in Jobs, WorkflowTornDown(j) PROVE MarksInv'
  BY <1>0, <1>3, TeardownMarks
<1>4. ASSUME NEW j \in Jobs, SetupFails(j) \/ TeardownCompletes(j) \/ WorkflowDeleted(j)
      PROVE  MarksInv'
  BY <1>4, EndingMarks
<1>5. CASE Crash
  BY <1>5, CrashMarks
<1>6. ASSUME \/ RabbitStateChange \/ _update_offline \/ _journal_callback \/ Start
             \/ UNCHANGED vars
             \/ \E r \in Rabbits, o \in Objects : StorageChange(r, o)
             \/ \E n \in Nodes : \/ prerun_timeout_cb(n) \/ BrokerChange(n)
                                 \/ disable_until_undrained(n) \/ Undrain(n)
      PROVE  MarksInv'
  <2>1. UNCHANGED <<conf, job, known>> /\ sched'.alloc = sched.alloc
    BY <1>6, OthersKeepMarks
  <2> QED BY <2>1, MarksFrame
<1> QED BY <1>1, <1>2, <1>3, <1>4, <1>5, <1>6 DEF Next

(* However jobs come, go and race for rabbits, mark_rabbits_free() removes    *)
(* every alloc_rabbit mark of a job by the time its nodes are free, unless a  *)
(* service had forgotten the job by dying; and a job that shares no rabbit    *)
(* with another one has its whole chassis marked by mark_rabbits_allocated()  *)
(* until it is torn down, although Workflows of earlier jobs may be torn down *)
(* once more by a restarted service.                                          *)
THEOREM MarksAreExact == Spec => []AllocMarks
<1>1. Init => StorageInv /\ MarksInv
  BY StorageInit, MarksInit
<1>2. StorageInv /\ MarksInv /\ [Next]_vars => (StorageInv /\ MarksInv)'
  BY StorageNext, MarksNext
<1>3. MarksInv => AllocMarks
  <2> SUFFICES ASSUME MarksInv PROVE AllocMarks
    OBVIOUS
  <2>1. /\ KnownRight(job, known) /\ MarksNeeded(sched.alloc, job, known)
        /\ MarksSet(conf, sched.alloc, job)
    BY DEF MarksInv, MarksState
  <2>2. \A j \in Jobs : Owns(job, known, j) => HasNodes(j) \/ job[j].forgotten
    BY <2>1 DEF KnownRight, Owns, HasNodes
  <2> QED BY <2>1, <2>2 DEF MarksNeeded, MarksSet, RabbitsOfJob, AllocMarks
<1> QED BY <1>1, <1>2, <1>3, PTL DEF Spec

---------------------------------------------------------------------------
(* The systemstatus resource *)

Ghosts == [undrained : SUBSET Nodes, patched : BOOLEAN, update : BOOLEAN, enabled : BOOLEAN]
Managers == [last_online : SUBSET Nodes, drained : SUBSET Nodes]

(* The resource says what the manager knows, as far as patches arrived. *)
Recorded(st, m, g) ==
  /\ st \in [Nodes -> {"Enabled", "Disabled"}] /\ m \in Managers /\ g \in Ghosts
  /\ g.patched => \A n \in m.drained : st[n] = "Disabled"
  /\ g.update => \A n \in Nodes \ (m.last_online \cup g.undrained) : st[n] = "Disabled"
  /\ g.enabled => \A n \in m.last_online \ m.drained : st[n] = "Enabled"

(* What the manager has yet to read makes up for what it does not know. *)
Pending(gr, jo, m, on, drained) ==
  /\ gr \in Seq(SUBSET Nodes) /\ jo \in Seq(Nodes)
  /\ IF gr = <<>> THEN m.last_online = on ELSE gr[Len(gr)] = on
  /\ \A n \in m.drained : n \in drained \/ \E i \in 1 .. Len(jo) : jo[i] = n

StatusInv ==
  /\ up \in BOOLEAN /\ online \subseteq Nodes
  /\ Recorded(status, mgr, ghost)
  /\ IF up THEN Pending(groups, journal, mgr, online, sched.drained)
     ELSE groups = <<>> /\ journal = <<>> /\ mgr = NoManager

LEMMA Ghost_patched ==
  ASSUME NEW g \in Ghosts, NEW b \in BOOLEAN, NEW h, h = [g EXCEPT !.patched = b]
  PROVE  /\ h \in Ghosts /\ h.patched = b /\ h.undrained = g.undrained
         /\ h.update = g.update /\ h.enabled = g.enabled
BY DEF Ghosts

LEMMA Ghost_update ==
  ASSUME NEW g \in Ghosts, NEW b \in BOOLEAN, NEW h, h = [g EXCEPT !.update = b]
  PROVE  /\ h \in Ghosts /\ h.update = b /\ h.undrained = g.undrained
         /\ h.patched = g.patched /\ h.enabled = g.enabled
BY DEF Ghosts

LEMMA Ghost_enabled ==
  ASSUME NEW g \in Ghosts, NEW b \in BOOLEAN, NEW h, h = [g EXCEPT !.enabled = b]
  PROVE  /\ h \in Ghosts /\ h.enabled = b /\ h.undrained = g.undrained
         /\ h.patched = g.patched /\ h.update = g.update
BY DEF Ghosts

LEMMA Ghost_undrained ==
  ASSUME NEW g \in Ghosts, NEW U \in SUBSET Nodes, NEW h, h = [g EXCEPT !.undrained = U]
  PROVE  /\ h \in Ghosts /\ h.undrained = U /\ h.patched = g.patched
         /\ h.update = g.update /\ h.enabled = g.enabled
BY DEF Ghosts

LEMMA ManagerField ==
  ASSUME NEW m \in Managers, NEW S \in SUBSET Nodes
  PROVE  /\ LET l == [m EXCEPT !.last_online = S]
            IN  l \in Managers /\ l.last_online = S /\ l.drained = m.drained
         /\ LET l == [m EXCEPT !.drained = S]
            IN  l \in Managers /\ l.last_online = m.last_online /\ l.drained = S
BY DEF Managers

(* broker.online was read. *)
LEMMA UpdateRecorded ==
  ASSUME NEW st, NEW m, NEW g, Recorded(st, m, g), NEW members \in SUBSET Nodes,
         NEW m2 \in Managers, m2.last_online = members, m2.drained = m.drained,
         NEW st2, NEW g2 \in Ghosts,
         \/ /\ st2 = _patch_resource(st, m2, members \ m.last_online, Nodes \ members)
            /\ g2.enabled => g.enabled
         \/ st2 = st /\ ~g2.patched /\ ~g2.update /\ ~g2.enabled
  PROVE  Recorded(st2, m2, g2)
<1>1. st \in [Nodes -> {"Enabled", "Disabled"}] /\ m \in Managers
  BY DEF Recorded
<1>2. m2 \in Managers /\ m2.last_online = members /\ m2.drained = m.drained
  OBVIOUS
<1>3. CASE st2 = st /\ ~g2.patched /\ ~g2.update /\ ~g2.enabled
  BY <1>1, <1>2, <1>3 DEF Recorded
<1>4. ASSUME st2 = _patch_resource(st, m2, members \ m.last_online, Nodes \ members),
             g2.enabled => g.enabled
      PROVE  Recorded(st2, m2, g2)
  <2>1. /\ st2 \in [Nodes -> {"Enabled", "Disabled"}]
        /\ \A n \in Nodes :
             st2[n] = IF n \in Nodes \ members \/ n \in m2.drained THEN "Disabled"
                      ELSE IF n \in members \ m.last_online THEN "Enabled" ELSE st[n]
    BY <1>1, <1>4 DEF _patch_resource
  <2>2. m2.drained \subseteq Nodes /\ m2.last_online \subseteq Nodes
    BY <1>2 DEF Managers
  <2>3. \A n \in m2.drained : st2[n] = "Disabled"
    BY <2>1, <2>2
  <2>4. \A n \in Nodes \ (m2.last_online \cup g2.undrained) : st2[n] = "Disabled"
    BY <1>2, <2>1
  <2>5. g2.enabled => \A n \in m2.last_online \ m2.drained : st2[n] = "Enabled"
    BY <1>2, <1>4, <2>1, <2>2 DEF Recorded
  <2> QED BY <1>2, <2>1, <2>3, <2>4, <2>5 DEF Recorded
<1> QED BY <1>3, <1>4

(* A node is disabled until it is undrained. *)
LEMMA DisableRecorded ==
  ASSUME NEW st, NEW m, NEW g, Recorded(st, m, g), NEW n \in Nodes,
         NEW m2, m2 = [m EXCEPT !.drained = @ \cup {n}], NEW st2, NEW g2 \in Ghosts,
         g2.update => g.update, g2.enabled => g.enabled, g2.undrained = g.undrained,
         \/ st2 = _patch_resource(st, m2, {}, {})
         \/ st2 = st /\ ~g2.patched
  PROVE  Recorded(st2, m2, g2)
<1>1. st \in [Nodes -> {"Enabled", "Disabled"}] /\ m \in Managers
  BY DEF Recorded
<1>2. m2 \in Managers /\ m2.last_online = m.last_online /\ m2.drained = m.drained \cup {n}
  BY <1>1 DEF Managers
<1>3. m2.drained \subseteq Nodes /\ m2.last_online \subseteq Nodes
  BY <1>2 DEF Managers
<1>4. CASE st2 = st /\ ~g2.patched
  BY <1>1, <1>2, <1>4 DEF Recorded
<1>5. CASE st2 = _patch_resource(st, m2, {}, {})
  <2>1. /\ st2 \in [Nodes -> {"Enabled", "Disabled"}]
        /\ \A x \in Nodes : st2[x] = IF x \in m2.drained THEN "Disabled" ELSE st[x]
    BY <1>1, <1>5 DEF _patch_resource
  <2>2. \A x \in m2.drained : st2[x] = "Disabled"
    BY <1>3, <2>1
  <2>3. g2.update =>
          \A x \in Nodes \ (m2.last_online \cup g2.undrained) : st2[x] = "Disabled"
    BY <1>2, <2>1 DEF Recorded
  <2>4. g2.enabled => \A x \in m2.last_online \ m2.drained : st2[x] = "Enabled"
    BY <1>2, <1>3, <2>1 DEF Recorded
  <2> QED BY <1>2, <2>1, <2>2, <2>3, <2>4 DEF Recorded
<1> QED BY <1>4, <1>5

(* The undraining of a node was read. *)
LEMMA UndrainRecorded ==
  ASSUME NEW st, NEW m, NEW g, Recorded(st, m, g), NEW n \in Nodes,
         NEW m2, m2 = [m EXCEPT !.drained = @ \ {n}], NEW st2, NEW g2 \in Ghosts,
         g2.update => g.update, g2.enabled => g.enabled,
         \/ st2 = _patch_resource(st, m2, {n}, {}) /\ g2.undrained = g.undrained \cup {n}
         \/ st2 = st /\ ~g2.patched /\ ~g2.enabled /\ g2.undrained = g.undrained
  PROVE  Recorded(st2, m2, g2)
<1>1. st \in [Nodes -> {"Enabled", "Disabled"}] /\ m \in Managers
  BY DEF Recorded
<1>2. m2 \in Managers /\ m2.last_online = m.last_online /\ m2.drained = m.drained \ {n}
  BY <1>1 DEF Managers
<1>3. m2.drained \subseteq Nodes /\ m2.last_online \subseteq Nodes
  BY <1>2 DEF Managers
<1>4. CASE st2 = st /\ ~g2.patched /\ ~g2.enabled /\ g2.undrained = g.undrained
  BY <1>1, <1>2, <1>4 DEF Recorded
<1>5. CASE st2 = _patch_resource(st, m2, {n}, {}) /\ g2.undrained = g.undrained \cup {n}
  <2>1. /\ st2 \in [Nodes -> {"Enabled", "Disabled"}]
        /\ \A x \in Nodes : st2[x] = IF x \in m2.drained THEN "Disabled"
                                     ELSE IF x = n THEN "Enabled" ELSE st[x]
    BY <1>1, <1>5 DEF _patch_resource
  <2>2. \A x \in m2.drained : st2[x] = "Disabled"
    BY <1>3, <2>1
  <2>3. g2.update =>
          \A x \in Nodes \ (m2.last_online \cup g2.undrained) : st2[x] = "Disabled"
    BY <1>2, <1>5, <2>1 DEF Recorded
  <2>4. g2.enabled => \A x \in m2.last_online \ m2.drained : st2[x] = "Enabled"
    BY <1>2, <1>3, <2>1 DEF Recorded
  <2> QED BY <1>2, <2>1, <2>2, <2>3, <2>4 DEF Recorded
<1> QED BY <1>4, <1>5

LEMMA StatusPrimed ==
  ASSUME up' \in BOOLEAN, online' \subseteq Nodes, Recorded(status', mgr', ghost'),
         IF up' THEN Pending(groups', journal', mgr', online', sched'.drained)
         ELSE groups' = <<>> /\ journal' = <<>> /\ mgr' = NoManager
  PROVE  StatusInv'
BY DEF StatusInv, Recorded, Pending, NoManager

LEMMA StatusFacts ==
  ASSUME StatusInv
  PROVE  /\ up \in BOOLEAN /\ online \subseteq Nodes /\ Recorded(status, mgr, ghost)
         /\ up => Pending(groups, journal, mgr, online, sched.drained)
         /\ ~up => groups = <<>> /\ journal = <<>> /\ mgr = NoManager
         /\ mgr \in Managers /\ ghost \in Ghosts
BY DEF StatusInv, Recorded

LEMMA StatusFrame ==
  ASSUME StatusInv, UNCHANGED <<up, online, status, mgr, groups, journal, ghost>>,
         sched.drained \subseteq sched'.drained
  PROVE  StatusInv'
<1>1. up => Pending(groups', journal', mgr', online', sched'.drained)
  BY StatusFacts DEF Pending
<1>2. up \in BOOLEAN
  BY StatusFacts
<1> QED BY <1>1, <1>2, StatusFacts, StatusPrimed

LEMMA StatusInit == Init => StatusInv
<1> SUFFICES ASSUME Init PROVE StatusInv
  OBVIOUS
<1>1. /\ up = TRUE /\ online = Nodes /\ status = [n \in Nodes |-> "Enabled"]
      /\ mgr = [last_online |-> Nodes, drained |-> {}] /\ groups = <<>> /\ journal = <<>>
      /\ ghost = [undrained |-> {}, patched |-> TRUE, update |-> TRUE, enabled |-> TRUE]
  BY DEF Init
<1>2. mgr \in Managers /\ mgr.last_online = Nodes /\ mgr.drained = {} /\ ghost \in Ghosts
  BY <1>1 DEF Managers, Ghosts
<1>3. Recorded(status, mgr, ghost)
  BY <1>1, <1>2 DEF Recorded
<1>4. Pending(groups, journal, mgr, online, sched.drained)
  BY <1>1, <1>2 DEF Pending
<1> QED BY <1>1, <1>3, <1>4 DEF StatusInv

LEMMA BrokerStatus ==
  ASSUME StatusInv, NEW n \in Nodes, BrokerChange(n)
  PROVE  StatusInv'
<1>1. /\ online' = IF n \in online THEN online \ {n} ELSE online \cup {n}
      /\ groups' = IF up THEN Append(groups, online') ELSE groups
      /\ UNCHANGED <<up, sched, status, mgr, journal, ghost>>
  BY DEF BrokerChange
<1>2. online' \in SUBSET Nodes
  BY <1>1, StatusFacts
<1>3. ASSUME up PROVE Pending(groups', journal', mgr', online', sched'.drained)
  <2>1. groups \in Seq(SUBSET Nodes) /\ groups' = Append(groups, online')
    BY <1>1, <1>3, StatusFacts DEF Pending
  <2>2. groups' \in Seq(SUBSET Nodes) /\ groups' # <<>> /\ groups'[Len(groups')] = online'
    BY <1>2, <2>1
  <2> QED BY <1>1, <1>3, <2>2, StatusFacts DEF Pending
<1>4. up \in BOOLEAN /\ (~up => groups' = groups)
  BY <1>1, StatusFacts
<1> QED BY <1>1, <1>2, <1>3, <1>4, StatusFacts, StatusPrimed

LEMMA UpdateStatus ==
  ASSUME StatusInv, _update_offline
  PROVE  StatusInv'
<1> DEFINE members == Head(groups)
<1>1. /\ up /\ groups # <<>> /\ groups' = Tail(groups)
      /\ mgr' = [mgr EXCEPT !.last_online = members]
      /\ UNCHANGED <<up, sched, online, journal>>
  BY DEF _update_offline, Patch, storageVars, jobVars
<1>2. \/ /\ status' = _patch_resource(status, mgr', members \ mgr.last_online, Nodes \ members)
         /\ ghost' = [[ghost EXCEPT !.undrained = {}, !.update = TRUE] EXCEPT !.patched = TRUE]
      \/ /\ status' = status
         /\ ghost' = [[ghost EXCEPT !.update = FALSE, !.enabled = FALSE] EXCEPT !.patched = FALSE]
  BY DEF _update_offline, Patch
<1>3. /\ groups \in Seq(SUBSET Nodes) /\ groups[Len(groups)] = online
      /\ journal \in Seq(Nodes)
      /\ \A n \in mgr.drained : n \in sched.drained \/ \E i \in 1 .. Len(journal) : journal[i] = n
  BY <1>1, StatusFacts DEF Pending
<1>4. members \in SUBSET Nodes /\ groups' \in Seq(SUBSET Nodes)
  BY <1>1, <1>3
<1>5. mgr' \in Managers /\ mgr'.last_online = members /\ mgr'.drained = mgr.drained
  BY <1>1, <1>4, StatusFacts, ManagerField
<1>6. IF groups' = <<>> THEN mgr'.last_online = online ELSE groups'[Len(groups')] = online
  BY <1>1, <1>3, <1>5
<1> HIDE DEF members
<1>7. Recorded(status', mgr', ghost')
  <2>1. CASE /\ status' = _patch_resource(status, mgr', members \ mgr.last_online, Nodes \ members)
             /\ ghost' = [[ghost EXCEPT !.undrained = {}, !.update = TRUE]
                            EXCEPT !.patched = TRUE]
    <3> DEFINE g1 == [ghost EXCEPT !.undrained = {}]
               g2 == [g1 EXCEPT !.update = TRUE]
    <3>1. ghost' = [g2 EXCEPT !.patched = TRUE]
      BY <2>1
    <3>2. g1 \in Ghosts /\ g1.enabled = ghost.enabled
      BY StatusFacts, Ghost_undrained
    <3> HIDE DEF g1
    <3>3. g2 \in Ghosts /\ g2.enabled = g1.enabled
      BY <3>2, Ghost_update, Zenon
    <3> HIDE DEF g2
    <3>4. ghost' \in Ghosts /\ ghost'.enabled = g2.enabled
      BY <3>1, <3>3, Ghost_patched, Zenon
    <3>5. ghost'.enabled => ghost.enabled
      BY <3>2, <3>3, <3>4
    <3>6. status' = _patch_resource(status, mgr', members \ mgr.last_online, Nodes \ members)
      BY <2>1
    <3>7. Recorded(status, mgr, ghost)
      BY StatusFacts
    <3> QED BY <1>4, <1>5, <3>4, <3>5, <3>6, <3>7, UpdateRecorded
  <2>2. CASE /\ status' = status
             /\ ghost' = [[ghost EXCEPT !.update = FALSE, !.enabled = FALSE]
                            EXCEPT !.patched = FALSE]
    <3> DEFINE g1 == [ghost EXCEPT !.update = FALSE]
               g2 == [g1 EXCEPT !.enabled = FALSE]
    <3>1. ghost' = [g2 EXCEPT !.patched = FALSE]
      BY <2>2
    <3>2. g1 \in Ghosts /\ g1.update = FALSE
      BY StatusFacts, Ghost_update, Zenon
    <3> HIDE DEF g1
    <3>3. g2 \in Ghosts /\ g2.update = g1.update /\ g2.enabled = FALSE
      BY <3>2, Ghost_enabled, Zenon
    <3> HIDE DEF g2
    <3>4. /\ ghost' \in Ghosts /\ ghost'.patched = FALSE
          /\ ghost'.update = g2.update /\ ghost'.enabled = g2.enabled
      BY <3>1, <3>3, Ghost_patched, Zenon
    <3>5. ~ghost'.patched /\ ~ghost'.update /\ ~ghost'.enabled
      BY <3>2, <3>3, <3>4
    <3>6. status' = status /\ Recorded(status, mgr, ghost)
      BY <2>2, StatusFacts
    <3> QED BY <1>4, <1>5, <3>4, <3>5, <3>6, UpdateRecorded
  <2> QED BY <1>2, <2>1, <2>2
<1>8. Pending(groups', journal', mgr', online', sched'.drained)
  BY <1>1, <1>3, <1>4, <1>5, <1>6 DEF Pending
<1> QED BY <1>1, <1>7, <1>8, StatusFacts, StatusPrimed

LEMMA DisableStatus ==
  ASSUME StatusInv, sched \in SchedStates, NEW n \in Nodes, disable_until_undrained(n)
  PROVE  StatusInv'
<1>1. /\ up /\ sched' = [sched EXCEPT !.drained = @ \cup {n}]
      /\ mgr' = [mgr EXCEPT !.drained = @ \cup {n}]
      /\ UNCHANGED <<up, online, groups, journal>>
  BY DEF disable_until_undrained, Patch
<1>2. \/ /\ status' = _patch_resource(status, mgr', {}, {})
         /\ ghost' = [ghost EXCEPT !.patched = TRUE]
      \/ status' = status /\ ghost' = [ghost EXCEPT !.patched = FALSE]
  BY DEF disable_until_undrained, Patch
<1>3. sched'.drained = sched.drained \cup {n}
  BY <1>1 DEF SchedStates
<1>4. mgr \in Managers /\ mgr'.last_online = mgr.last_online /\ mgr'.drained = mgr.drained \cup {n}
  BY <1>1, StatusFacts DEF Managers
<1>5. /\ ghost' \in Ghosts /\ ghost'.undrained = ghost.undrained
      /\ ghost'.update = ghost.update /\ ghost'.enabled = ghost.enabled
  BY <1>2, StatusFacts, Ghost_patched, Zenon
<1>6. (ghost'.update => ghost.update) /\ (ghost'.enabled => ghost.enabled)
  BY <1>5
<1>7. \/ status' = _patch_resource(status, mgr', {}, {})
      \/ status' = status /\ ~ghost'.patched
  <2>1. [ghost EXCEPT !.patched = FALSE].patched = FALSE
    BY StatusFacts, Ghost_patched, Zenon
  <2> QED BY <1>2, <2>1
<1>8. Recorded(status', mgr', ghost')
  BY <1>1, <1>5, <1>6, <1>7, StatusFacts, DisableRecorded
<1>9. Pending(groups', journal', mgr', online', sched'.drained)
  BY <1>1, <1>3, <1>4, StatusFacts DEF Pending
<1> QED BY <1>1, <1>8, <1>9, StatusFacts, StatusPrimed

LEMMA UndrainStatus ==
  ASSUME StatusInv, sched \in SchedStates, NEW n \in Nodes, Undrain(n)
  PROVE  StatusInv'
<1>1. /\ sched' = [sched EXCEPT !.drained = @ \ {n}]
      /\ journal' = IF up THEN Append(journal, n) ELSE journal
      /\ UNCHANGED <<up, online, status, mgr, groups, ghost>>
  BY DEF Undrain
<1>2. sched'.drained = sched.drained \ {n}
  BY <1>1 DEF SchedStates
<1>3. ASSUME up PROVE Pending(groups', journal', mgr', online', sched'.drained)
  <2>1. /\ journal \in Seq(Nodes) /\ journal' = Append(journal, n)
        /\ \A x \in mgr.drained :
             x \in sched.drained \/ \E i \in 1 .. Len(journal) : journal[i] = x
    BY <1>1, <1>3, StatusFacts DEF Pending
  <2>2. /\ journal' \in Seq(Nodes) /\ Len(journal') = Len(journal) + 1 /\ Len(journal) \in Nat
        /\ journal'[Len(journal) + 1] = n /\ \A i \in 1 .. Len(journal) : journal'[i] = journal[i]
    BY <2>1
  <2>3. ASSUME NEW x \in mgr.drained
        PROVE  x \in sched'.drained \/ \E i \in 1 .. Len(journal') : journal'[i] = x
    <3>1. CASE x = n
      <4>1. Len(journal) + 1 \in 1 .. Len(journal')
        BY <2>2
      <4> QED BY <2>2, <3>1, <4>1
    <3>2. CASE x # n /\ x \in sched.drained
      BY <1>2, <3>2
    <3>3. ASSUME NEW i \in 1 .. Len(journal), journal[i] = x
          PROVE  \E k \in 1 .. Len(journal') : journal'[k] = x
      <4>1. i \in 1 .. Len(journal') /\ journal'[i] = x
        BY <2>2, <3>3
      <4> QED BY <4>1
    <3> QED BY <2>1, <3>1, <3>2, <3>3
  <2> QED BY <1>1, <1>3, <2>2, <2>3, StatusFacts DEF Pending
<1>4. up \in BOOLEAN /\ (~up => journal' = journal)
  BY <1>1, StatusFacts
<1> QED BY <1>1, <1>3, <1>4, StatusFacts, StatusPrimed

LEMMA JournalStatus ==
  ASSUME StatusInv, _journal_callback
  PROVE  StatusInv'
<1> DEFINE n == Head(journal)
           m == [mgr EXCEPT !.drained = @ \ {n}]
<1>1. /\ up /\ journal # <<>> /\ journal' = Tail(journal)
      /\ UNCHANGED <<up, sched, online, groups>>
  BY DEF _journal_callback
<1>2. \/ /\ n \in mgr.drained /\ mgr' = m
         /\ \/ /\ status' = _patch_resource(status, m, {n}, {})
               /\ ghost' = [[ghost EXCEPT !.undrained = @ \cup {n}] EXCEPT !.patched = TRUE]
            \/ /\ status' = status
               /\ ghost' = [[ghost EXCEPT !.enabled = FALSE] EXCEPT !.patched = FALSE]
      \/ n \notin mgr.drained /\ UNCHANGED <<status, mgr, ghost>>
  BY DEF _journal_callback, Patch
<1>3. /\ journal \in Seq(Nodes) /\ groups \in Seq(SUBSET Nodes)
      /\ IF groups = <<>> THEN mgr.last_online = online ELSE groups[Len(groups)] = online
      /\ \A x \in mgr.drained : x \in sched.drained \/ \E i \in 1 .. Len(journal) : journal[i] = x
  BY <1>1, StatusFacts DEF Pending
<1>4. /\ n \in Nodes /\ n = journal[1] /\ journal' \in Seq(Nodes) /\ Len(journal) \in Nat
      /\ Len(journal') = Len(journal) - 1
      /\ \A i \in 1 .. Len(journal') : journal'[i] = journal[i + 1]
  BY <1>1, <1>3
<1> HIDE DEF n
<1>5. m \in Managers /\ m.last_online = mgr.last_online /\ m.drained = mgr.drained \ {n}
  BY StatusFacts DEF Managers
<1>6. ASSUME NEW x \in mgr.drained, x # n
      PROVE  x \in sched.drained \/ \E i \in 1 .. Len(journal') : journal'[i] = x
  <2>1. CASE x \in sched.drained
    BY <2>1
  <2>2. ASSUME NEW i \in 1 .. Len(journal), journal[i] = x
        PROVE  \E k \in 1 .. Len(journal') : journal'[k] = x
    <3>1. i # 1
      BY <1>4, <1>6, <2>2
    <3>2. i - 1 \in 1 .. Len(journal') /\ (i - 1) + 1 = i
      BY <1>4, <2>2, <3>1
    <3>3. journal'[i - 1] = x
      BY <1>4, <2>2, <3>2
    <3> QED BY <3>2, <3>3
  <2> QED BY <1>3, <2>1, <2>2
<1>7. /\ mgr'.last_online = mgr.last_online
      /\ \A x \in mgr'.drained : x \in mgr.drained /\ x # n
  BY <1>2, <1>5
<1>8. Pending(groups', journal', mgr', online', sched'.drained)
  BY <1>1, <1>3, <1>4, <1>6, <1>7 DEF Pending
<1>9. Recorded(status, mgr, ghost) /\ ghost \in Ghosts
  BY StatusFacts
<1>10. Recorded(status', mgr', ghost')
  <2>1. CASE n \notin mgr.drained
    BY <1>2, <1>9, <2>1
  <2>2. ASSUME mgr' = m, status' = _patch_resource(status, m, {n}, {}),
               ghost' = [[ghost EXCEPT !.undrained = @ \cup {n}] EXCEPT !.patched = TRUE]
        PROVE  Recorded(status', mgr', ghost')
    <3> DEFINE U == ghost.undrained \cup {n}
               g1 == [ghost EXCEPT !.undrained = U]
    <3>1. U \in SUBSET Nodes /\ ghost' = [g1 EXCEPT !.patched = TRUE]
      BY <1>4, <1>9, <2>2 DEF Ghosts
    <3> HIDE DEF U
    <3>2. /\ g1 \in Ghosts /\ g1.undrained = U /\ g1.update = ghost.update
          /\ g1.enabled = ghost.enabled
      BY <1>9, <3>1, Ghost_undrained, ZenonT(40)
    <3> HIDE DEF g1
    <3>3. /\ ghost' \in Ghosts /\ ghost'.undrained = g1.undrained
          /\ ghost'.update = g1.update /\ ghost'.enabled = g1.enabled
      BY <3>1, <3>2, Ghost_patched, Zenon
    <3>4. /\ ghost'.update => ghost.update
          /\ ghost'.enabled => ghost.enabled
          /\ ghost'.undrained = ghost.undrained \cup {n}
      BY <3>2, <3>3 DEF U
    <3>5. /\ m = [mgr EXCEPT !.drained = @ \ {n}]
          /\ status' = _patch_resource(status, m, {n}, {})
      BY <2>2
    <3> HIDE DEF m
    <3>6. Recorded(status', m, ghost')
      BY <1>4, <1>9, <3>3, <3>4, <3>5, UndrainRecorded
    <3> QED BY <2>2, <3>6
  <2>3. ASSUME mgr' = m, status' = status,
               ghost' = [[ghost EXCEPT !.enabled = FALSE] EXCEPT !.patched = FALSE]
        PROVE  Recorded(status', mgr', ghost')
    <3> DEFINE g1 == [ghost EXCEPT !.enabled = FALSE]
    <3>1. ghost' = [g1 EXCEPT !.patched = FALSE]
      BY <2>3
    <3>2. /\ g1 \in Ghosts /\ g1.undrained = ghost.undrained /\ g1.update = ghost.update
          /\ g1.enabled = FALSE
      BY <1>9, Ghost_enabled, Zenon
    <3> HIDE DEF g1
    <3>3. /\ ghost' \in Ghosts /\ ghost'.undrained = g1.undrained /\ ghost'.patched = FALSE
          /\ ghost'.update = g1.update /\ ghost'.enabled = g1.enabled
      BY <3>1, <3>2, Ghost_patched, Zenon
    <3>4. /\ ghost'.update => ghost.update
          /\ ~ghost'.enabled /\ ~ghost'.patched
          /\ ghost'.undrained = ghost.undrained
      BY <3>2, <3>3
    <3>5. Recorded(status', m, ghost')
      BY <1>4, <1>9, <2>3, <3>3, <3>4, UndrainRecorded, Zenon
    <3> QED BY <2>3, <3>5
  <2> QED BY <1>2, <2>1, <2>2, <2>3
<1> QED BY <1>1, <1>8, <1>10, StatusFacts, StatusPrimed

LEMMA CrashStatus ==
  ASSUME StatusInv, Crash
  PROVE  StatusInv'
<1>1. /\ up' = FALSE /\ mgr' = NoManager /\ groups' = <<>> /\ journal' = <<>>
      /\ ghost' = [ghost EXCEPT !.update = FALSE, !.enabled = TRUE]
      /\ UNCHANGED <<online, status>>
  BY DEF Crash
<1> DEFINE g1 == [ghost EXCEPT !.update = FALSE]
<1>2. ghost' = [g1 EXCEPT !.enabled = TRUE] /\ ghost \in Ghosts
  BY <1>1, StatusFacts
<1>3. g1 \in Ghosts /\ g1.update = FALSE
  BY <1>2, Ghost_update, Zenon
<1> HIDE DEF g1
<1>4. ghost' \in Ghosts /\ ghost'.update = g1.update
  BY <1>2, <1>3, Ghost_enabled, Zenon
<1>5. ~ghost'.update
  BY <1>3, <1>4
<1>6. mgr' \in Managers /\ mgr'.last_online = {} /\ mgr'.drained = {}
  BY <1>1 DEF NoManager, Managers
<1>7. status' \in [Nodes -> {"Enabled", "Disabled"}]
  BY <1>1, StatusFacts DEF Recorded
<1>8. Recorded(status', mgr', ghost')
  BY <1>4, <1>5, <1>6, <1>7 DEF Recorded
<1> QED BY <1>1, <1>8, StatusFacts, StatusPrimed

LEMMA StartStatus ==
  ASSUME StatusInv, Start
  PROVE  StatusInv'
<1>1. /\ up' = TRUE /\ ~up /\ groups' = <<online>>
      /\ UNCHANGED <<online, status, mgr, journal, ghost>>
  BY DEF Start
<1>2. journal = <<>> /\ mgr.drained = {} /\ online \in SUBSET Nodes
  BY <1>1, StatusFacts DEF NoManager
<1>3. Pending(groups', journal', mgr', online', sched'.drained)
  BY <1>1, <1>2 DEF Pending
<1> QED BY <1>1, <1>3, StatusFacts, StatusPrimed

(* Only an administrator undrains nodes. *)
LEMMA DrainedGrows ==
  ASSUME StorageInv,
         \/ RabbitStateChange \/ Start \/ UNCHANGED vars
         \/ \E r \in Rabbits, o \in Objects : StorageChange(r, o)
         \/ \E n \in Nodes : prerun_timeout_cb(n)
         \/ \E j \in Jobs, nodes \in SUBSET Nodes : Place(j, nodes)
         \/ \E j \in Jobs : \/ setup_cb(j) \/ SetupFails(j) \/ TeardownCompletes(j)
                            \/ WorkflowTornDown(j) \/ WorkflowDeleted(j)
  PROVE  sched.drained \subseteq sched'.drained
<1>0. sched \in SchedStates /\ StorageTypes
  BY DEF StorageInv, StorageTypes
<1>1. CASE RabbitStateChange
  <2>1. history[version + 1] \in Objects
    BY <1>0, <1>1 DEF RabbitStateChange, StorageTypes
  <2>2. sched' = rabbit_state_change_cb(sched, conf, history[version + 1])
    BY <1>1 DEF RabbitStateChange
  <2> QED BY <1>0, <2>1, <2>2, StateChangeReflects
<1>2. CASE Start
  <2>1. sched' = init_rabbits(sched, conf, AllObjects)
    BY <1>2 DEF Start
  <2>2. \A r \in Rabbits : AllObjects[r] \in Objects /\ AllObjects[r].name = r
    BY <1>0, CurrentFacts DEF AllObjects
  <2> QED BY <1>0, <2>1, <2>2, InitReflects
<1>3. CASE UNCHANGED vars
  BY <1>3 DEF vars
<1>4. ASSUME NEW r \in Rabbits, NEW o \in Objects, StorageChange(r, o)
      PROVE  sched.drained \subseteq sched'.drained
  BY <1>4 DEF StorageChange
<1>5. ASSUME NEW n \in Nodes, prerun_timeout_cb(n) PROVE sched.drained \subseteq sched'.drained
  <2>1. sched' = set_property(sched, conf, {n})
    BY <1>5 DEF prerun_timeout_cb
  <2> QED BY <1>0, <2>1, PropertyFields
<1>6. ASSUME NEW j \in Jobs, NEW nodes \in SUBSET Nodes, Place(j, nodes)
      PROVE  sched.drained \subseteq sched'.drained
  BY <1>6 DEF Place
<1>7. ASSUME NEW j \in Jobs, setup_cb(j) PROVE sched.drained \subseteq sched'.drained
  BY <1>0, <1>7, AllocFields DEF setup_cb
<1>8. ASSUME NEW j \in Jobs, WorkflowTornDown(j) PROVE sched.drained \subseteq sched'.drained
  BY <1>0, <1>8, AllocFields DEF WorkflowTornDown
<1>9. ASSUME NEW j \in Jobs, SetupFails(j) \/ TeardownCompletes(j) \/ WorkflowDeleted(j)
      PROVE  sched.drained \subseteq sched'.drained
  BY <1>9 DEF SetupFails, TeardownCompletes, WorkflowDeleted
<1> QED BY <1>1, <1>2, <1>3, <1>4, <1>5, <1>6, <1>7, <1>8, <1>9

LEMMA StatusNext ==
  ASSUME StorageInv, StatusInv, [Next]_vars
  PROVE  StatusInv'
<1>0. sched \in SchedStates
  BY DEF StorageInv, StorageTypes
<1>1. ASSUME NEW n \in Nodes, BrokerChange(n) PROVE StatusInv'
  BY <1>1, BrokerStatus
<1>2. CASE _update_offline
  BY <1>2, UpdateStatus
<1>3. ASSUME NEW n \in Nodes, disable_until_undrained(n) PROVE StatusInv'
  BY <1>0, <1>3, DisableStatus
<1>4. ASSUME NEW n \in Nodes, Undrain(n) PROVE StatusInv'
  BY <1>0, <1>4, UndrainStatus
<1>5. CASE _journal_callback
  BY <1>5, JournalStatus
<1>6. CASE Crash
  BY <1>6, CrashStatus
<1>7. CASE Start
  BY <1>7, StartStatus
<1>8. ASSUME \/ RabbitStateChange \/ UNCHANGED vars
             \/ \E r \in Rabbits, o \in Objects : StorageChange(r, o)
             \/ \E n \in Nodes : prerun_timeout_cb(n)
             \/ \E j \in Jobs, nodes \in SUBSET Nodes : Place(j, nodes)
             \/ \E j \in Jobs : \/ setup_cb(j) \/ SetupFails(j) \/ TeardownCompletes(j)
                                \/ WorkflowTornDown(j) \/ WorkflowDeleted(j)
      PROVE  StatusInv'
  <2>1. sched.drained \subseteq sched'.drained
    BY <1>8, DrainedGrows
  <2>2. UNCHANGED <<up, online, status, mgr, groups, journal, ghost>>
    BY <1>8 DEF RabbitStateChange, vars, StorageChange, prerun_timeout_cb, Place, setup_cb,
                SetupFails, TeardownCompletes, WorkflowTornDown, WorkflowDeleted, statusVars
  <2> QED BY <2>1, <2>2, StatusFrame
<1> QED BY <1>1, <1>2, <1>3, <1>4, <1>5, <1>6, <1>7, <1>8 DEF Next

(* Once the SystemStatusManager has read every update of broker.online and    *)
(* every undrain event, the systemstatus resource says Disabled of the nodes  *)
(* that failed to unmount and of those whose broker is offline and Enabled of *)
(* the others, but for what lost patches and undrain events left behind: for  *)
(* any number of nodes, restarts of the service and failed patches.           *)
THEOREM StatusIsExact == Spec => []StatusExact
<1>1. Init => StorageInv /\ StatusInv
  BY StorageInit, StatusInit
<1>2. StorageInv /\ StatusInv /\ [Next]_vars => (StorageInv /\ StatusInv)'
  BY StorageNext, StatusNext
<1>3. StatusInv => StatusExact
  <2> SUFFICES ASSUME StatusInv, up, groups = <<>>, journal = <<>>, ghost.patched
               PROVE  /\ mgr.drained \subseteq sched.drained
                      /\ \A n \in Nodes :
                           /\ n \in mgr.drained => status[n] = "Disabled"
                           /\ (n \notin online \cup ghost.undrained /\ ghost.update) =>
                                status[n] = "Disabled"
                           /\ (n \in online \ mgr.drained /\ ghost.enabled) =>
                                status[n] = "Enabled"
    BY DEF StatusExact
  <2>1. mgr.last_online = online /\ mgr.drained \subseteq sched.drained
    BY StatusFacts DEF Pending
  <2> QED BY <2>1, StatusFacts DEF Recorded
<1> QED BY <1>1, <1>2, <1>3, PTL DEF Spec

---------------------------------------------------------------------------
(* Sums over finite sets *)

(* A set that has {} and, with each subset of R, those with one element more *)
(* has R.                                                                    *)
LEMMA SetUpTo ==
  ASSUME NEW R, IsFiniteSet(R), NEW T, {} \in T,
         \A S \in SUBSET R, x \in R : S \in T /\ x \notin S => S \cup {x} \in T
  PROVE  R \in T
<1> DEFINE N == Cardinality(R)
           D == {n \in 0 .. N : \A S \in SUBSET R : Cardinality(S) = n => S \in T}
<1>1. N \in Nat /\ \A S \in SUBSET R : IsFiniteSet(S)
  BY FS_CardinalityType, FS_Subset
<1>2. 0 \in D
  <2>1. \A S \in SUBSET R : Cardinality(S) = 0 => S = {}
    BY <1>1, FS_EmptySet
  <2> QED BY <1>1, <2>1
<1>3. ASSUME NEW n \in 0 .. N, n \in D, n < N PROVE n + 1 \in D
  <2>1. ASSUME NEW S \in SUBSET R, Cardinality(S) = n + 1 PROVE S \in T
    <3>1. IsFiniteSet(S)
      BY <1>1
    <3>2. PICK x \in S : TRUE
      BY <2>1, <3>1, FS_EmptySet
    <3>3. Cardinality(S \ {x}) = (n + 1) - 1
      BY <2>1, <3>1, <3>2, FS_RemoveElement
    <3>4. S \ {x} \in T
      BY <1>3, <3>3
    <3>5. S = (S \ {x}) \cup {x} /\ x \notin S \ {x} /\ S \ {x} \in SUBSET R
      BY <3>2
    <3> QED BY <3>2, <3>4, <3>5
  <2>2. n + 1 \in 0 .. N
    BY <1>1, <1>3
  <2> QED BY <2>1, <2>2
<1>4. R \in T
  <2> HIDE DEF D
  <2>1. 0 .. N \subseteq D
    BY <1>1, <1>2, <1>3, E!UpTo
  <2>2. N \in D
    BY <1>1, <2>1
  <2> QED BY <2>2 DEF D
<1> QED BY <1>4

(* The recursive function behind SumFunction(). *)
Some(S) == CHOOSE x \in S : TRUE

SumOn(f, R) ==
  CHOOSE s : s = [S \in SUBSET R |-> IF S = {} THEN 0 ELSE f[Some(S)] + s[S \ {Some(S)}]]

LEMMA SumIsSum ==
  ASSUME NEW f
  PROVE  SumFunction(f) = SumOn(f, DOMAIN f)[DOMAIN f]
BY DEF SumFunction, SumFunctionOnSet, FoldFunctionOnSet, MapThenFoldSet, SumOn, Some

(* There is such a function. *)
LEMMA SumDefined ==
  ASSUME NEW R, IsFiniteSet(R), NEW f \in [R -> Nat]
  PROVE  /\ SumOn(f, R) \in [SUBSET R -> Nat]
         /\ SumOn(f, R)[{}] = 0
         /\ \A S \in SUBSET R : S # {} =>
              SumOn(f, R)[S] = f[Some(S)] + SumOn(f, R)[S \ {Some(S)}]
<1> DEFINE Upto(n) == {S \in SUBSET R : Cardinality(S) <= n}
           Is(s, D) == s = [S \in D |-> IF S = {} THEN 0 ELSE f[Some(S)] + s[S \ {Some(S)}]]
           N == Cardinality(R)
           T == {n \in 0 .. N : \E s \in [Upto(n) -> Nat] : Is(s, Upto(n))}
<1>1. /\ N \in Nat
      /\ \A S \in SUBSET R : IsFiniteSet(S) /\ Cardinality(S) \in 0 .. N
  BY FS_CardinalityType, FS_Subset
<1>2. \A S \in SUBSET R : S # {} =>
        /\ Some(S) \in S /\ Some(S) \in R /\ S \ {Some(S)} \in SUBSET R
        /\ Cardinality(S \ {Some(S)}) = Cardinality(S) - 1
  BY <1>1, FS_RemoveElement DEF Some
<1>3. 0 \in T
  <2>1. Upto(0) = {{}}
    BY <1>1, FS_EmptySet
  <2>2. [S \in {{}} |-> 0] \in [Upto(0) -> Nat]
    BY <2>1
  <2>3. Is([S \in {{}} |-> 0], Upto(0))
    BY <2>1
  <2> HIDE DEF Is, Upto
  <2>4. \E s \in [Upto(0) -> Nat] : Is(s, Upto(0))
    BY <2>2, <2>3, Zenon
  <2> QED BY <1>1, <2>4
<1>4. ASSUME NEW n \in 0 .. N, n \in T, n < N PROVE n + 1 \in T
  <2>1. PICK s \in [Upto(n) -> Nat] : Is(s, Upto(n))
    BY <1>4
  <2> DEFINE t == [S \in Upto(n + 1) |->
                     IF S = {} THEN 0 ELSE f[Some(S)] + s[S \ {Some(S)}]]
  <2>2. \A S \in Upto(n) : s[S] = IF S = {} THEN 0 ELSE f[Some(S)] + s[S \ {Some(S)}]
    BY <2>1
  <2>3. \A S \in Upto(n + 1) : S # {} => S \ {Some(S)} \in Upto(n) /\ Some(S) \in R
    BY <1>1, <1>2
  <2>4. Upto(n) \subseteq Upto(n + 1) /\ n + 1 \in 0 .. N
    BY <1>1, <1>4
  <2> HIDE DEF Upto
  <2>5. \A S \in Upto(n) : t[S] = s[S]
    BY <2>2, <2>4
  <2>6. t \in [Upto(n + 1) -> Nat]
    BY <2>3
  <2>7. t = [S \in Upto(n + 1) |-> IF S = {} THEN 0 ELSE f[Some(S)] + t[S \ {Some(S)}]]
    <3>1. \A S \in Upto(n + 1) : t[S] = IF S = {} THEN 0 ELSE f[Some(S)] + t[S \ {Some(S)}]
      BY <2>3, <2>5
    <3>2. t = [S \in Upto(n + 1) |-> t[S]]
      OBVIOUS
    <3> HIDE DEF t
    <3> QED BY <3>1, <3>2
  <2> HIDE DEF t
  <2> QED BY <2>4, <2>6, <2>7
<1>5. \E s \in [SUBSET R -> Nat] : Is(s, SUBSET R)
  <2>1. Upto(N) = SUBSET R
    BY <1>1
  <2> HIDE DEF T, Upto
  <2>2. 0 .. N \subseteq T
    BY <1>1, <1>3, <1>4, E!UpTo
  <2>3. N \in T
    BY <1>1, <2>2
  <2> HIDE DEF Is
  <2>4. \E s \in [Upto(N) -> Nat] : Is(s, Upto(N))
    BY <2>3 DEF T
  <2> QED BY <2>1, <2>4
<1>6. Is(SumOn(f, R), SUBSET R)
  <2>1. SumOn(f, R) = CHOOSE s : Is(s, SUBSET R)
    BY DEF SumOn
  <2> HIDE DEF Is
  <2> QED BY <1>5, <2>1
<1> DEFINE u == SumOn(f, R)
<1>7. /\ DOMAIN u = SUBSET R
      /\ \A S \in SUBSET R : u[S] = IF S = {} THEN 0 ELSE f[Some(S)] + u[S \ {Some(S)}]
      /\ u = [S \in SUBSET R |-> u[S]]
  BY <1>6
<1> HIDE DEF u
<1>8. \A S \in SUBSET R : u[S] \in Nat
  <2> DEFINE D == {n \in 0 .. N : \A S \in Upto(n) : u[S] \in Nat}
  <2>1. 0 \in D
    <3>1. Upto(0) = {{}}
      BY <1>1, FS_EmptySet
    <3>2. \A S \in Upto(0) : u[S] \in Nat
      <4>1. u[{}] = 0
        BY <1>7
      <4> HIDE DEF Upto
      <4> QED BY <3>1, <4>1
    <3> QED BY <1>1, <3>2
  <2>2. ASSUME NEW n \in 0 .. N, n \in D, n < N PROVE n + 1 \in D
    <3>1. \A S \in Upto(n + 1) : S # {} => S \ {Some(S)} \in Upto(n) /\ Some(S) \in R
      BY <1>1, <1>2
    <3>2. n + 1 \in 0 .. N /\ Upto(n + 1) \subseteq SUBSET R
      BY <1>1, <2>2
    <3> HIDE DEF Upto
    <3>3. ASSUME NEW S \in Upto(n + 1) PROVE u[S] \in Nat
      <4>1. S \in SUBSET R /\ \A A \in Upto(n) : u[A] \in Nat
        BY <2>2, <3>2
      <4>2. u[S] = IF S = {} THEN 0 ELSE f[Some(S)] + u[S \ {Some(S)}]
        BY <1>7, <4>1
      <4>3. S # {} => f[Some(S)] \in Nat /\ u[S \ {Some(S)}] \in Nat
        BY <3>1, <4>1
      <4> QED BY <4>2, <4>3
    <3> QED BY <3>2, <3>3
  <2> HIDE DEF D
  <2>3. 0 .. N \subseteq D
    BY <1>1, <2>1, <2>2, E!UpTo
  <2>4. Upto(N) = SUBSET R
    BY <1>1
  <2> QED BY <1>1, <2>3, <2>4 DEF D
<1>9. u \in [SUBSET R -> Nat]
  BY <1>7, <1>8
<1> QED BY <1>7, <1>9 DEF u

(* s has the sums of f over the subsets of R. *)
Sums(s, f, R) ==
  /\ s \in [SUBSET R -> Nat]
  /\ s[{}] = 0
  /\ \A S \in SUBSET R, x \in R : x \notin S => s[S \cup {x}] = s[S] + f[x]

(* The order in which elements are taken makes no difference. *)
LEMMA SumSteps ==
  ASSUME NEW R, IsFiniteSet(R), NEW f \in [R -> Nat]
  PROVE  \E s : Sums(s, f, R) /\ SumFunction(f) = s[R]
<1> DEFINE s == SumOn(f, R)
           N == Cardinality(R)
           Out(S) == \A x \in S : s[S] = s[S \ {x}] + f[x]
           D == {n \in 0 .. N : \A S \in SUBSET R : Cardinality(S) = n => Out(S)}
<1>1. /\ N \in Nat
      /\ \A S \in SUBSET R : IsFiniteSet(S) /\ Cardinality(S) \in 0 .. N
  BY FS_CardinalityType, FS_Subset
<1>2. /\ s \in [SUBSET R -> Nat] /\ s[{}] = 0
      /\ \A S \in SUBSET R : S # {} => s[S] = f[Some(S)] + s[S \ {Some(S)}]
  BY SumDefined
<1> HIDE DEF s
<1>3. 0 \in D
  BY <1>1, FS_EmptySet
<1>4. ASSUME NEW n \in 0 .. N, n \in D, n < N PROVE n + 1 \in D
  <2>1. ASSUME NEW S \in SUBSET R, Cardinality(S) = n + 1, NEW x \in S
        PROVE  s[S] = s[S \ {x}] + f[x]
    <3> DEFINE c == Some(S)
               A == S \ {c}
               B == S \ {x}
    <3>1. c \in S /\ S # {}
      BY DEF Some
    <3> HIDE DEF c
    <3>2. s[S] = f[c] + s[A]
      BY <1>2, <3>1 DEF c
    <3>3. CASE c = x
      BY <1>2, <3>2, <3>3
    <3>4. CASE c # x
      <4>1. Cardinality(A) = n /\ Cardinality(B) = n
        <5>1. IsFiniteSet(S) /\ (n + 1) - 1 = n
          BY <1>1
        <5> QED BY <2>1, <3>1, <5>1, FS_RemoveElement
      <4>2. Out(A) /\ Out(B)
        BY <1>4, <4>1
      <4>3. x \in A /\ c \in B /\ A \ {x} = B \ {c}
        BY <3>1, <3>4
      <4>4. s[A] = s[A \ {x}] + f[x] /\ s[B] = s[B \ {c}] + f[c]
        BY <4>2, <4>3
      <4>5. s[A \ {x}] \in Nat /\ f[x] \in Nat /\ f[c] \in Nat
        BY <1>2, <3>1
      <4> QED BY <3>2, <4>3, <4>4, <4>5
    <3> QED BY <3>3, <3>4
  <2>2. n + 1 \in 0 .. N
    BY <1>1, <1>4
  <2> QED BY <2>1, <2>2
<1>5. \A S \in SUBSET R : Out(S)
  <2> HIDE DEF D, Out
  <2>1. 0 .. N \subseteq D
    BY <1>1, <1>3, <1>4, E!UpTo
  <2> QED BY <1>1, <2>1 DEF D
<1>6. ASSUME NEW S \in SUBSET R, NEW x \in R, x \notin S
      PROVE  s[S \cup {x}] = s[S] + f[x]
  <2>1. (S \cup {x}) \ {x} = S /\ x \in S \cup {x} /\ S \cup {x} \in SUBSET R
    BY <1>6
  <2> QED BY <1>5, <2>1
<1>7. SumFunction(f) = s[R]
  <2>1. DOMAIN f = R
    OBVIOUS
  <2> QED BY <2>1, SumIsSum DEF s
<1>8. Sums(s, f, R)
  BY <1>2, <1>6 DEF Sums
<1> QED BY <1>7, <1>8, Zenon

---------------------------------------------------------------------------
(* The parts of build_allocation_sets() *)

LEMMA DivMod ==
  ASSUME NEW a \in Nat, NEW b \in Nat \ {0}
  PROVE  /\ a \div b \in Nat /\ a % b \in 0 .. b - 1
         /\ a = b * (a \div b) + (a % b)
OBVIOUS

(* math.ceil() of a quotient. *)
LEMMA CeilCovers ==
  ASSUME NEW a \in Nat, NEW b \in Nat \ {0}
  PROVE  Ceil(a, b) \in Nat /\ Ceil(a, b) * b >= a
<1> DEFINE c == a + b - 1
           q == c \div b
<1>1. c \in Nat /\ c = a + b - 1
  OBVIOUS
<1> HIDE DEF c
<1>2. q \in Nat /\ c % b \in 0 .. b - 1 /\ c = b * q + (c % b)
  BY <1>1, DivMod
<1> HIDE DEF q
<1>3. b * q = q * b /\ b * q \in Nat
  BY <1>2
<1>4. q * b >= a
  BY <1>1, <1>2, <1>3
<1> QED BY <1>2, <1>4 DEF Ceil, q, c

(* most_common() has an order to return. *)
LEMMA SortedOrder ==
  ASSUME NEW R, IsFiniteSet(R), NEW f \in [R -> Nat]
  PROVE  \E g \in Bijection(1 .. Cardinality(R), R) :
           \A i, k \in 1 .. Cardinality(R) : i < k => f[g[i]] >= f[g[k]]
<1> DEFINE Orders(g, n, S) ==
             /\ g \in [1 .. n -> S]
             /\ \A i, k \in 1 .. n : g[i] = g[k] => i = k
             /\ \A x \in S : \E i \in 1 .. n : g[i] = x
             /\ \A i, k \in 1 .. n : i < k => f[g[i]] >= f[g[k]]
           N == Cardinality(R)
           D == {n \in 0 .. N : \A S \in SUBSET R : Cardinality(S) = n => \E g : Orders(g, n, S)}
<1>1. /\ N \in Nat
      /\ \A S \in SUBSET R : IsFiniteSet(S) /\ Cardinality(S) \in 0 .. N
  BY FS_CardinalityType, FS_Subset
<1>2. 0 \in D
  <2>1. \A S \in SUBSET R : Cardinality(S) = 0 => S = {}
    BY <1>1, FS_EmptySet
  <2>2. Orders([i \in 1 .. 0 |-> {}], 0, {})
    OBVIOUS
  <2> HIDE DEF Orders
  <2>3. \E g : Orders(g, 0, {})
    BY <2>2, Zenon
  <2> QED BY <1>1, <2>1, <2>3
<1>3. ASSUME NEW n \in 0 .. N, n \in D, n < N PROVE n + 1 \in D
  <2>1. ASSUME NEW S \in SUBSET R, Cardinality(S) = n + 1 PROVE \E g : Orders(g, n + 1, S)
    <3>1. IsFiniteSet(S) /\ (n + 1) - 1 = n /\ n \in Nat
      BY <1>1
    <3>2. S # {}
      BY <2>1, <3>1, FS_EmptySet
    <3>3. PICK r \in S : \A x \in S : f[r] <= f[x]
      <4> DEFINE V == {f[x] : x \in S}
      <4>1. V # {} /\ V \subseteq Nat
        BY <3>2
      <4> HIDE DEF V
      <4>2. PICK m \in V : \A k \in V : m <= k
        BY <4>1, E!LeastNatural
      <4> QED BY <4>2 DEF V
    <3>4. Cardinality(S \ {r}) = n
      BY <2>1, <3>1, FS_RemoveElement
    <3>5. PICK g : Orders(g, n, S \ {r})
      BY <1>3, <3>4
    <3> DEFINE h == [i \in 1 .. n + 1 |-> IF i = n + 1 THEN r ELSE g[i]]
    <3>6. /\ \A i \in 1 .. n + 1 : i = n + 1 \/ i \in 1 .. n
          /\ \A i \in 1 .. n : i \in 1 .. n + 1 /\ i # n + 1 /\ g[i] \in S \ {r}
          /\ n + 1 \in 1 .. n + 1 /\ \A x \in S : f[x] \in Nat
      BY <3>1, <3>5
    <3>7. h \in [1 .. n + 1 -> S]
      BY <3>6
    <3>8. h[n + 1] = r /\ \A i \in 1 .. n : h[i] = g[i]
      BY <3>6
    <3> HIDE DEF h
    <3>9. \A i, k \in 1 .. n + 1 : h[i] = h[k] => i = k
      BY <3>5, <3>6, <3>8
    <3>10. \A x \in S : \E i \in 1 .. n + 1 : h[i] = x
      BY <3>5, <3>6, <3>8
    <3>11. ASSUME NEW i \in 1 .. n + 1, NEW k \in 1 .. n + 1, i < k
           PROVE  f[h[i]] >= f[h[k]]
      <4>1. i \in 1 .. n
        BY <3>1, <3>11
      <4>2. CASE k = n + 1
        BY <3>3, <3>6, <3>8, <4>1, <4>2
      <4>3. CASE k # n + 1
        BY <3>5, <3>6, <3>8, <3>11, <4>1, <4>3
      <4> QED BY <4>2, <4>3
    <3>12. Orders(h, n + 1, S)
      BY <3>7, <3>9, <3>10, <3>11
    <3> HIDE DEF Orders
    <3> QED BY <3>12
  <2>2. n + 1 \in 0 .. N
    BY <1>1, <1>3
  <2> QED BY <2>1, <2>2
<1>4. \E g : Orders(g, N, R)
  <2> HIDE DEF D, Orders
  <2>1. 0 .. N \subseteq D
    BY <1>1, <1>2, <1>3, E!UpTo
  <2>2. N \in D
    BY <1>1, <2>1
  <2> QED BY <2>2 DEF D
<1>5. PICK g : Orders(g, N, R)
  BY <1>4
<1>6. g \in Bijection(1 .. N, R)
  BY <1>5 DEF Bijection, Injection, Surjection, IsInjective
<1> QED BY <1>5, <1>6

(* functools.reduce(math.gcd, ...) *)
LEMMA GcdDivides ==
  ASSUME NEW S, S \subseteq Nat \ {0}, S # {}
  PROVE  Gcd(S) \in Nat \ {0} /\ \A n \in S : Divides(Gcd(S), n)
<1> DEFINE D == {d \in 1 .. Min(S) : \A n \in S : Divides(d, n)}
<1>1. Min(S) \in S
  <2>1. \E m \in S : \A k \in S : m <= k
    BY E!LeastNatural
  <2> QED BY <2>1 DEF Min
<1>2. 1 \in D
  <2>1. \A n \in S : n % 1 = 0
    OBVIOUS
  <2>2. Min(S) \in Nat \ {0}
    BY <1>1, Zenon
  <2>3. 1 \in 1 .. Min(S)
    BY <2>2
  <2> QED BY <2>1, <2>3 DEF Divides
<1>3. D \subseteq 1 .. Min(S) /\ Min(S) \in Nat
  BY <1>1
<1>4. Gcd(S) = CHOOSE x \in D : \A y \in D : x >= y
  BY DEF Gcd, Max, Min
<1>5. Gcd(S) \in D
  <2> HIDE DEF D
  <2>1. \E x \in D : \A y \in D : x >= y
    BY <1>2, <1>3, Greatest
  <2> QED BY <1>4, <2>1
<1> QED BY <1>3, <1>5

(* Numbers that are divided without remainder add up to as many times less. *)
LEMMA SumOfQuotients ==
  ASSUME NEW R, IsFiniteSet(R), NEW f \in [R -> Nat], NEW g \in Nat \ {0},
         \A r \in R : Divides(g, f[r])
  PROVE  LET q == [r \in R |-> f[r] \div g]
         IN  /\ q \in [R -> Nat] /\ SumFunction(q) \in Nat
             /\ SumFunction(f) = g * SumFunction(q)
<1> DEFINE q == [r \in R |-> f[r] \div g]
<1>1. \A r \in R : f[r] \div g \in Nat /\ f[r] = g * (f[r] \div g)
  <2> SUFFICES ASSUME NEW r \in R PROVE f[r] \div g \in Nat /\ f[r] = g * (f[r] \div g)
    OBVIOUS
  <2>1. /\ f[r] \div g \in Nat /\ f[r] % g = 0
        /\ f[r] = g * (f[r] \div g) + (f[r] % g)
    BY DivMod DEF Divides
  <2> QED BY <2>1
<1>2. q \in [R -> Nat] /\ \A r \in R : f[r] = g * q[r]
  BY <1>1
<1> HIDE DEF q
<1>3. PICK s : Sums(s, f, R) /\ SumFunction(f) = s[R]
  BY SumSteps
<1>4. PICK t : Sums(t, q, R) /\ SumFunction(q) = t[R]
  BY <1>2, SumSteps
<1> DEFINE T == {S \in SUBSET R : s[S] = g * t[S]}
<1>5. {} \in T
  BY <1>3, <1>4 DEF Sums
<1>6. ASSUME NEW S \in SUBSET R, NEW x \in R, S \in T, x \notin S PROVE S \cup {x} \in T
  <2>1. s[S \cup {x}] = g * t[S] + g * q[x] /\ t[S \cup {x}] = t[S] + q[x]
    BY <1>2, <1>3, <1>4, <1>6 DEF Sums
  <2>2. t[S] \in Nat /\ q[x] \in Nat
    BY <1>2, <1>4 DEF Sums
  <2>3. \A a, b \in Nat : g * a + g * b = g * (a + b)
    OBVIOUS
  <2>4. s[S \cup {x}] = g * t[S \cup {x}]
    BY <2>1, <2>2, <2>3
  <2> QED BY <2>4
<1>7. R \in T
  <2> HIDE DEF T
  <2> QED BY <1>5, <1>6, SetUpTo
<1> QED BY <1>2, <1>3, <1>4, <1>7 DEF q, Sums

(* The nodes of a job are those at its rabbits, one rabbit per node. *)
LEMMA NodesOfRabbits ==
  ASSUME NEW nodes \in SUBSET Nodes,
         NEW npn, npn = [r \in RabbitsOf(nodes) |-> Cardinality(nodes \cap HostsOf[r])]
  PROVE  /\ IsFiniteSet(RabbitsOf(nodes)) /\ IsFiniteSet(nodes)
         /\ npn \in [RabbitsOf(nodes) -> Nat \ {0}]
         /\ SumFunction(npn) = Cardinality(nodes)
<1> DEFINE own == RabbitsOf(nodes)
           At(S) == {n \in nodes : HOSTNAMES_TO_RABBITS[n] \in S}
<1>1. own \in SUBSET Rabbits
  BY RabbitsOfNodes
<1>2. IsFiniteSet(Rabbits)
  <2> DEFINE N == Len(RabbitSeq)
             Upto(i) == {RabbitSeq[k] : k \in 1 .. i}
             D == {i \in 0 .. N : IsFiniteSet(Upto(i))}
  <2>1. N \in Nat /\ Rabbits = Upto(N)
    BY RabbitsAreListed DEF Rabbits
  <2>2. 0 \in D
    <3>1. Upto(0) = {}
      OBVIOUS
    <3> HIDE DEF Upto
    <3> QED BY <2>1, <3>1, FS_EmptySet
  <2>3. ASSUME NEW i \in 0 .. N, i \in D, i < N PROVE i + 1 \in D
    <3>1. Upto(i + 1) = Upto(i) \cup {RabbitSeq[i + 1]}
      <4>1. \A k : k \in 1 .. i + 1 <=> k \in 1 .. i \/ k = i + 1
        BY <2>1
      <4> QED BY <4>1
    <3> HIDE DEF Upto
    <3>2. IsFiniteSet(Upto(i + 1))
      BY <2>3, <3>1, FS_AddElement
    <3> QED BY <2>1, <2>3, <3>2
  <2> HIDE DEF D
  <2>4. 0 .. N \subseteq D
    BY <2>1, <2>2, <2>3, E!UpTo
  <2> QED BY <2>1, <2>4 DEF D
<1>3. IsFiniteSet(own)
  BY <1>1, <1>2, FS_Subset
<1>4. \A r \in own : /\ IsFiniteSet(nodes \cap HostsOf[r])
                     /\ Cardinality(nodes \cap HostsOf[r]) \in Nat \ {0}
                     /\ nodes \cap HostsOf[r] = {n \in nodes : HOSTNAMES_TO_RABBITS[n] = r}
  <2> SUFFICES ASSUME NEW r \in own
               PROVE  /\ IsFiniteSet(nodes \cap HostsOf[r])
                      /\ Cardinality(nodes \cap HostsOf[r]) \in Nat \ {0}
                      /\ nodes \cap HostsOf[r] = {n \in nodes : HOSTNAMES_TO_RABBITS[n] = r}
    OBVIOUS
  <2>1. r \in Rabbits /\ IsFiniteSet(HostsOf[r])
    <3>1. r \in Rabbits
      BY <1>1
    <3> QED BY <3>1, HostlistsAreFinite
  <2>2. IsFiniteSet(nodes \cap HostsOf[r])
    BY <2>1, FS_Subset
  <2>3. nodes \cap HostsOf[r] = {n \in nodes : HOSTNAMES_TO_RABBITS[n] = r}
    BY <2>1, RabbitOfHost
  <2>4. nodes \cap HostsOf[r] # {}
    BY <2>3 DEF RabbitsOf
  <2> QED BY <2>2, <2>3, <2>4, FS_CardinalityType, FS_EmptySet
<1>5. npn \in [own -> Nat \ {0}] /\ npn \in [own -> Nat]
  BY <1>4
<1>6. PICK s : Sums(s, npn, own) /\ SumFunction(npn) = s[own]
  BY <1>3, <1>5, SumSteps
<1> DEFINE T == {S \in SUBSET own : IsFiniteSet(At(S)) /\ s[S] = Cardinality(At(S))}
<1> HIDE DEF own
<1>7. {} \in T
  <2>1. At({}) = {}
    OBVIOUS
  <2>2. s[{}] = 0
    BY <1>6 DEF Sums
  <2> HIDE DEF At
  <2> QED BY <2>1, <2>2, FS_EmptySet
<1>8. ASSUME NEW S \in SUBSET own, NEW x \in own, S \in T, x \notin S PROVE S \cup {x} \in T
  <2> DEFINE A == At(S)
             B == nodes \cap HostsOf[x]
  <2>1. At(S \cup {x}) = A \cup B /\ A \cap B = {}
    BY <1>4, <1>8
  <2>2. IsFiniteSet(A) /\ IsFiniteSet(B) /\ s[S] = Cardinality(A)
    BY <1>4, <1>8
  <2>3. npn[x] = Cardinality(B)
    BY DEF own
  <2>4. s[S \cup {x}] = s[S] + npn[x]
    BY <1>6, <1>8 DEF Sums
  <2> HIDE DEF A, B, At
  <2>5. /\ IsFiniteSet(A \cup B)
        /\ Cardinality(A \cup B) = Cardinality(A) + Cardinality(B) - Cardinality(A \cap B)
        /\ Cardinality(A) \in Nat /\ Cardinality(B) \in Nat
    BY <2>2, FS_Union, FS_CardinalityType
  <2>6. Cardinality(A \cap B) = 0
    BY <2>1, FS_EmptySet
  <2>7. IsFiniteSet(At(S \cup {x})) /\ s[S \cup {x}] = Cardinality(At(S \cup {x}))
    <3>1. Cardinality(A \cup B) = Cardinality(A) + Cardinality(B)
      BY <2>5, <2>6
    <3> QED BY <2>1, <2>2, <2>3, <2>4, <2>5, <3>1
  <2> QED BY <2>7
<1>9. own \in T
  <2> HIDE DEF T
  <2> QED BY <1>3, <1>7, <1>8, SetUpTo
<1>10. At(own) = nodes
  BY DEF own, RabbitsOf
<1> QED BY <1>3, <1>5, <1>6, <1>9, <1>10 DEF own
(* The number of allocations on each rabbit. *)
Pieces(R, storage) == [r \in R |-> IF r \in DOMAIN storage THEN storage[r] ELSE 0]

(* The loop over most_common() gives away exactly count allocations, in     *)
(* turns.                                                                   *)
LEMMA CountsAreEven ==
  ASSUME NEW R, IsFiniteSet(R), R # {}, NEW npn \in [R -> Nat], NEW count \in Nat \ {0}
  PROVE  LET c == CountsPerRabbit(npn, count)
             p == Pieces(R, c)
         IN  /\ DOMAIN c \subseteq R /\ SumFunction(p) = count
             /\ \A r, s \in R : p[r] <= p[s] + 1 /\ (npn[r] > npn[s] => p[r] >= p[s])
<1> DEFINE n == Cardinality(R)
           Sorted(g) == \A i, k \in 1 .. n : i < k => npn[g[i]] >= npn[g[k]]
           g == CHOOSE h \in Bijection(1 .. n, R) : Sorted(h)
           q == count \div n
           m == count % n
           Given(i) == q + (IF i <= m THEN 1 ELSE 0)
           c == CountsPerRabbit(npn, count)
           p == Pieces(R, c)
<1>1. n \in Nat \ {0}
  BY FS_CardinalityType, FS_EmptySet
<1>2. g \in Bijection(1 .. n, R) /\ Sorted(g)
  <2>1. \E h \in Bijection(1 .. n, R) : Sorted(h)
    BY SortedOrder
  <2> HIDE DEF Sorted, n
  <2> QED BY <2>1
<1>3. c = [r \in {g[i] : i \in {k \in 1 .. n : Given(k) > 0}} |->
             Given(CHOOSE i \in 1 .. n : g[i] = r)]
  <2>1. DOMAIN npn = R
    OBVIOUS
  <2> QED BY <2>1 DEF CountsPerRabbit, Bijection, Injection, Surjection, IsInjective
<1>4. /\ g \in [1 .. n -> R]
      /\ \A i, k \in 1 .. n : g[i] = g[k] => i = k
      /\ \A r \in R : \E i \in 1 .. n : g[i] = r
      /\ \A i, k \in 1 .. n : i < k => npn[g[i]] >= npn[g[k]]
  BY <1>2 DEF Bijection, Injection, Surjection, IsInjective
<1>5. q \in Nat /\ m \in 0 .. n - 1 /\ count = n * q + m
  BY <1>1, DivMod
<1> HIDE DEF g, q, m, n, c, p
<1>6. \A i \in 1 .. n : Given(i) \in Nat /\ (Given(i) = 0 \/ Given(i) > 0)
  BY <1>1, <1>5
<1>7. \A i \in 1 .. n : (CHOOSE k \in 1 .. n : g[k] = g[i]) = i
  BY <1>4
<1>8. DOMAIN c \subseteq R
  BY <1>3, <1>4
<1>9. ASSUME NEW i \in 1 .. n PROVE g[i] \in R /\ p[g[i]] = Given(i)
  <2> HIDE DEF Given
  <2>1. g[i] \in R /\ p[g[i]] = IF g[i] \in DOMAIN c THEN c[g[i]] ELSE 0
    BY <1>4 DEF p, Pieces
  <2>2. g[i] \in DOMAIN c <=> Given(i) > 0
    BY <1>3, <1>4
  <2>3. g[i] \in DOMAIN c => c[g[i]] = Given(i)
    BY <1>3, <1>7
  <2> QED BY <1>6, <2>1, <2>2, <2>3
<1>10. p \in [R -> Nat]
  <2>1. ASSUME NEW r \in R PROVE p[r] \in Nat
    <3> HIDE DEF Given
    <3>1. PICK i \in 1 .. n : g[i] = r
      BY <1>4
    <3> QED BY <1>6, <1>9, <3>1
  <2> QED BY <2>1 DEF p, Pieces
<1>11. ASSUME NEW r \in R, NEW s \in R
       PROVE  p[r] <= p[s] + 1 /\ (npn[r] > npn[s] => p[r] >= p[s])
  <2>1. PICK i \in 1 .. n : g[i] = r
    BY <1>4
  <2>2. PICK k \in 1 .. n : g[k] = s
    BY <1>4
  <2>3. p[r] = Given(i) /\ p[s] = Given(k)
    BY <1>9, <2>1, <2>2
  <2>4. npn[r] > npn[s] => i < k
    <3>1. npn[r] \in Nat /\ npn[s] \in Nat
      OBVIOUS
    <3>2. k < i => npn[s] >= npn[r]
      BY <1>4, <2>1, <2>2
    <3>3. i = k => r = s
      BY <2>1, <2>2
    <3> QED BY <1>1, <3>1, <3>2, <3>3
  <2> QED BY <1>1, <1>5, <2>3, <2>4
<1>12. SumFunction(p) = count
  <2>1. PICK t : Sums(t, p, R) /\ SumFunction(p) = t[R]
    BY <1>10, SumSteps
  <2> DEFINE Upto(i) == {g[k] : k \in 1 .. i}
             D == {i \in 0 .. n : t[Upto(i)] = q * i + (IF i <= m THEN i ELSE m)}
  <2>2. 0 \in D
    <3>1. Upto(0) = {}
      OBVIOUS
    <3>2. t[{}] = 0
      BY <2>1 DEF Sums
    <3> HIDE DEF Upto
    <3>3. q * 0 = 0 /\ 0 <= m
      BY <1>5
    <3>4. q * 0 + (IF 0 <= m THEN 0 ELSE m) = 0
      BY <3>3
    <3>5. t[Upto(0)] = q * 0 + (IF 0 <= m THEN 0 ELSE m)
      BY <3>1, <3>2, <3>4, Zenon
    <3> QED BY <1>1, <3>5
  <2>3. ASSUME NEW i \in 0 .. n, i \in D, i < n PROVE i + 1 \in D
    <3>1. i + 1 \in 1 .. n /\ i + 1 \in 0 .. n /\ \A k : k \in 1 .. i + 1 <=> k \in 1 .. i \/ k = i + 1
      BY <1>1, <2>3
    <3>2. Upto(i + 1) = Upto(i) \cup {g[i + 1]}
      BY <3>1
    <3>3. Upto(i) \in SUBSET R /\ g[i + 1] \notin Upto(i) /\ g[i + 1] \in R
      BY <1>1, <1>4, <2>3
    <3> HIDE DEF Upto
    <3>4. t[Upto(i + 1)] = t[Upto(i)] + p[g[i + 1]]
      BY <2>1, <3>2, <3>3 DEF Sums
    <3>5. p[g[i + 1]] = Given(i + 1)
      BY <1>9, <3>1
    <3>6. q * (i + 1) = q * i + q /\ q * i \in Nat /\ i \in Nat
      BY <1>5
    <3>7. t[Upto(i)] = q * i + (IF i <= m THEN i ELSE m)
      BY <2>3
    <3>8. t[Upto(i + 1)] = q * (i + 1) + (IF i + 1 <= m THEN i + 1 ELSE m)
      BY <1>1, <1>5, <3>4, <3>5, <3>6, <3>7
    <3> QED BY <3>1, <3>8
  <2>4. Upto(n) = R
    BY <1>4
  <2> HIDE DEF D, Upto
  <2>5. 0 .. n \subseteq D
    BY <1>1, <2>2, <2>3, E!UpTo
  <2>6. t[R] = q * n + (IF n <= m THEN n ELSE m)
    BY <1>1, <2>4, <2>5 DEF D
  <2>7. q * n = n * q
    BY <1>1, <1>5
  <2> QED BY <1>1, <1>5, <2>1, <2>6, <2>7
<1> QED BY <1>8, <1>11, <1>12 DEF c, p

(* max() with the minimum, for a size that is a number. *)
LEMMA MaxOfTwo ==
  ASSUME NEW a \in Nat, NEW b \in Nat
  PROVE  Max({a, b}) \in Nat /\ Max({a, b}) >= a /\ Max({a, b}) >= b
<1>1. \E x \in {a, b} : \A y \in {a, b} : x >= y
  OBVIOUS
<1>2. Max({a, b}) \in {a, b} /\ \A y \in {a, b} : Max({a, b}) >= y
  BY <1>1 DEF Max
<1> QED BY <1>2

(* The allocations in proportion to the nodes. *)
NodeGcd(npn) == Gcd({npn[r] : r \in DOMAIN npn})
Shares(npn, gcd) == [r \in DOMAIN npn |-> npn[r] \div gcd]

(* What build_allocation_sets() returns in its three branches. *)
LEMMA BuiltSets ==
  ASSUME NEW set \in Breakdowns, NEW npn, NEW total
  PROVE  LET v == build_allocation_sets(set, npn, total, MinAlloc)
             gcd == NodeGcd(npn)
         IN  /\ set.strategy = "AllocatePerCompute" =>
                  v = [size |-> Max({set.capacity, MinAlloc}), storage |-> npn]
             /\ Wanted(set) > 0 =>
                  v = [size |-> Max({Ceil(set.capacity, Wanted(set)), MinAlloc}),
                       storage |-> CountsPerRabbit(npn, Wanted(set))]
             /\ set.strategy # "AllocatePerCompute" /\ ~(Wanted(set) > 0) =>
                  v = [size |-> Max({Ceil(gcd * set.capacity, total), MinAlloc}),
                       storage |-> Shares(npn, gcd)]
<1> DEFINE v == build_allocation_sets(set, npn, total, MinAlloc)
           gcd == NodeGcd(npn)
           count == IF set.strategy = "AllocateSingleServer" THEN 1 ELSE set.count
           asked == CASE set.strategy = "AllocatePerCompute" ->
                           [size |-> set.capacity, storage |-> npn]
                      [] set.strategy # "AllocatePerCompute" /\ count > 0 ->
                           [size |-> Ceil(set.capacity, count),
                            storage |-> CountsPerRabbit(npn, count)]
                      [] OTHER ->
                           [size |-> Ceil(gcd * set.capacity, total),
                            storage |-> Shares(npn, gcd)]
<1>0. v = [asked EXCEPT !.size = Max({asked.size, MinAlloc})]
  BY DEF build_allocation_sets, Shares, NodeGcd
<1>1. set.strategy \in Strategies /\ set.count \in Nat
  BY BreakdownsAreSets
<1> HIDE DEF v, gcd
<1>a. ASSUME NEW x, NEW y, asked = [size |-> x, storage |-> y]
      PROVE  v = [size |-> Max({x, MinAlloc}), storage |-> y]
  <2> HIDE DEF asked
  <2>1. asked.size = x
    BY <1>a
  <2>2. v = [[size |-> x, storage |-> y] EXCEPT !.size = Max({x, MinAlloc})]
    BY <1>0, <1>a, <2>1, Zenon
  <2> QED BY <2>2
<1>2. ASSUME set.strategy = "AllocatePerCompute"
      PROVE  v = [size |-> Max({set.capacity, MinAlloc}), storage |-> npn] /\ Wanted(set) = 0
  <2>1. asked = [size |-> set.capacity, storage |-> npn] /\ Wanted(set) = 0
    BY <1>2 DEF Wanted
  <2> HIDE DEF asked
  <2> QED BY <1>a, <2>1
<1>3. ASSUME set.strategy = "AllocateSingleServer"
      PROVE  /\ v = [size |-> Max({Ceil(set.capacity, 1), MinAlloc}),
                     storage |-> CountsPerRabbit(npn, 1)]
             /\ Wanted(set) = 1
  <2>1. count = 1 /\ Wanted(set) = 1
    BY <1>3 DEF Wanted
  <2> HIDE DEF count
  <2>2. asked = [size |-> Ceil(set.capacity, 1), storage |-> CountsPerRabbit(npn, 1)]
    BY <1>3, <2>1
  <2> HIDE DEF asked
  <2> QED BY <1>a, <2>1, <2>2
<1>4. ASSUME set.strategy = "AllocateAcrossServers", set.count > 0
      PROVE  /\ v = [size |-> Max({Ceil(set.capacity, set.count), MinAlloc}),
                     storage |-> CountsPerRabbit(npn, set.count)]
             /\ Wanted(set) = set.count
  <2>1. count = set.count /\ Wanted(set) = set.count
    BY <1>4 DEF Wanted
  <2> HIDE DEF count
  <2>2. asked = [size |-> Ceil(set.capacity, set.count), storage |-> CountsPerRabbit(npn, set.count)]
    BY <1>4, <2>1
  <2> HIDE DEF asked
  <2> QED BY <1>a, <2>1, <2>2
<1>5. ASSUME set.strategy = "AllocateAcrossServers", ~(set.count > 0)
      PROVE  /\ v = [size |-> Max({Ceil(gcd * set.capacity, total), MinAlloc}),
                     storage |-> Shares(npn, gcd)]
             /\ Wanted(set) = set.count
  <2>1. count = set.count /\ Wanted(set) = set.count
    BY <1>5 DEF Wanted
  <2> HIDE DEF count
  <2>2. asked = [size |-> Ceil(gcd * set.capacity, total),
                 storage |-> Shares(npn, gcd)]
    BY <1>5, <2>1
  <2> HIDE DEF asked
  <2> QED BY <1>a, <2>1, <2>2
<1> HIDE DEF asked, count
<1>6. /\ set.strategy = "AllocatePerCompute" =>
           v = [size |-> Max({set.capacity, MinAlloc}), storage |-> npn]
      /\ Wanted(set) > 0 =>
           v = [size |-> Max({Ceil(set.capacity, Wanted(set)), MinAlloc}),
                storage |-> CountsPerRabbit(npn, Wanted(set))]
      /\ set.strategy # "AllocatePerCompute" /\ ~(Wanted(set) > 0) =>
           v = [size |-> Max({Ceil(gcd * set.capacity, total), MinAlloc}),
                storage |-> Shares(npn, gcd)]
  <2>1. CASE set.strategy = "AllocatePerCompute"
    BY <1>2, <2>1
  <2>2. CASE set.strategy = "AllocateSingleServer"
    BY <1>3, <2>2
  <2>3. CASE set.strategy = "AllocateAcrossServers"
    <3>1. CASE set.count > 0
      BY <1>4, <2>3, <3>1
    <3>2. CASE ~(set.count > 0)
      BY <1>5, <2>3, <3>2
    <3> QED BY <3>1, <3>2
  <2> QED BY <1>1, <2>1, <2>2, <2>3 DEF Strategies
<1> QED BY <1>6 DEF v, gcd

(* BreakdownsFit of the allocations v of a job that has npn[r] nodes at r. *)
Fits(set, npn, v) ==
  LET pieces == Pieces(DOMAIN npn, v.storage)
  IN  /\ DOMAIN v.storage \subseteq DOMAIN npn /\ v.size >= MinAlloc
      /\ IF set.strategy = "AllocatePerCompute"
         THEN v.size >= set.capacity /\ pieces = npn
         ELSE v.size * SumFunction(pieces) >= set.capacity
      /\ Wanted(set) > 0 =>
           /\ SumFunction(pieces) = Wanted(set)
           /\ \A r, s \in DOMAIN npn : /\ pieces[r] <= pieces[s] + 1
                                       /\ npn[r] > npn[s] => pieces[r] >= pieces[s]

(* With a fixed number of allocations, or one for every gcd nodes, rounding *)
(* up the size covers the capacity.                                         *)
LEMMA AllocationsFit ==
  ASSUME NEW R, IsFiniteSet(R), R # {}, NEW npn \in [R -> Nat \ {0}],
         NEW N \in Nat \ {0}, SumFunction(npn) = N, NEW set \in Breakdowns
  PROVE  Fits(set, npn, build_allocation_sets(set, npn, N, MinAlloc))
<1> DEFINE W == Wanted(set)
           v == build_allocation_sets(set, npn, N, MinAlloc)
           pieces == Pieces(R, v.storage)
<1>1. DOMAIN npn = R /\ npn \in [R -> Nat]
  OBVIOUS
<1>2. set.capacity \in Nat /\ MinAlloc \in Nat /\ set.strategy \in Strategies /\ W \in Nat
  <2>1. set.capacity \in Nat /\ MinAlloc \in Nat /\ set.strategy \in Strategies /\ set.count \in Nat
    BY BreakdownsAreSets
  <2> QED BY <2>1 DEF Wanted, Strategies
<1> HIDE DEF v
<1>3. CASE set.strategy = "AllocatePerCompute"
  <2>1. v = [size |-> Max({set.capacity, MinAlloc}), storage |-> npn]
    BY <1>3, BuiltSets DEF v
  <2>2. v.size >= set.capacity /\ v.size >= MinAlloc /\ v.storage = npn
    <3>1. v.size = Max({set.capacity, MinAlloc}) /\ v.storage = npn
      BY <2>1
    <3> QED BY <1>2, <3>1, MaxOfTwo, Zenon
  <2>3. pieces = npn
    BY <1>1, <2>2 DEF Pieces
  <2>4. W = 0
    BY <1>3 DEF Wanted
  <2>5. ~(W > 0)
    BY <2>4
  <2> QED BY <1>1, <1>3, <2>2, <2>3, <2>5 DEF Fits, v
<1>4. CASE W > 0
  <2>1. v = [size |-> Max({Ceil(set.capacity, W), MinAlloc}), storage |-> CountsPerRabbit(npn, W)]
    BY <1>4, BuiltSets DEF v
  <2>2. Ceil(set.capacity, W) \in Nat /\ Ceil(set.capacity, W) * W >= set.capacity
    BY <1>2, <1>4, CeilCovers
  <2>3. /\ v.size \in Nat /\ v.size >= Ceil(set.capacity, W) /\ v.size >= MinAlloc
        /\ v.storage = CountsPerRabbit(npn, W)
    BY <1>2, <2>1, <2>2, MaxOfTwo
  <2>4. pieces = Pieces(R, CountsPerRabbit(npn, W))
    BY <2>3
  <2>5. /\ DOMAIN v.storage \subseteq R /\ SumFunction(pieces) = W
        /\ \A r, s \in R : pieces[r] <= pieces[s] + 1 /\ (npn[r] > npn[s] => pieces[r] >= pieces[s])
    <3>1. W \in Nat \ {0}
      BY <1>2, <1>4
    <3> HIDE DEF W, pieces
    <3> QED BY <1>1, <2>3, <2>4, <3>1, CountsAreEven
  <2>6. \A a, b, w \in Nat : a >= b => a * w >= b * w
    OBVIOUS
  <2>7. v.size * W >= Ceil(set.capacity, W) * W
    BY <1>2, <2>2, <2>3, <2>6
  <2>8. v.size * W >= set.capacity
    BY <1>2, <2>2, <2>3, <2>7
  <2>9. set.strategy # "AllocatePerCompute"
    BY <1>4 DEF Wanted
  <2> QED BY <1>1, <2>3, <2>5, <2>8, <2>9 DEF Fits, v
<1>5. CASE set.strategy # "AllocatePerCompute" /\ ~(W > 0)
  <2> DEFINE g == NodeGcd(npn)
             st == [r \in R |-> npn[r] \div g]
             cap == set.capacity
             size == Ceil(g * cap, N)
  <2>1. v = [size |-> Max({size, MinAlloc}), storage |-> st]
    <3>1. v = [size |-> Max({size, MinAlloc}), storage |-> Shares(npn, g)]
      BY <1>5, BuiltSets DEF v
    <3> QED BY <1>1, <3>1 DEF Shares
  <2>2. g \in Nat \ {0} /\ \A r \in R : Divides(g, npn[r])
    <3> DEFINE V == {npn[r] : r \in DOMAIN npn}
    <3>1. V \subseteq Nat \ {0} /\ V # {} /\ \A r \in R : npn[r] \in V
      BY <1>1
    <3> HIDE DEF V
    <3>2. Gcd(V) \in Nat \ {0} /\ \A n \in V : Divides(Gcd(V), n)
      BY <3>1, GcdDivides
    <3> QED BY <3>1, <3>2 DEF V, NodeGcd
  <2> HIDE DEF g
  <2>3. st \in [R -> Nat] /\ SumFunction(st) \in Nat /\ N = g * SumFunction(st)
    <3>1. /\ st \in [R -> Nat] /\ SumFunction(st) \in Nat
          /\ SumFunction(npn) = g * SumFunction(st)
      BY <1>1, <2>2, SumOfQuotients
    <3> QED BY <1>1, <3>1
  <2>4. g * cap \in Nat
    BY <1>2, <2>2
  <2>5. size \in Nat /\ size * N >= g * cap
    BY <1>1, <2>4, CeilCovers
  <2> HIDE DEF st, size, cap
  <2>6. v.size \in Nat /\ v.size >= size /\ v.size >= MinAlloc /\ v.storage = st
    BY <1>2, <2>1, <2>5, MaxOfTwo
  <2>7. pieces = st /\ DOMAIN v.storage = R
    BY <1>1, <2>3, <2>6 DEF Pieces, st
  <2>8. v.size * SumFunction(st) >= cap
    <3> DEFINE a == SumFunction(st)
               z == v.size
    <3>1. a \in Nat /\ z \in Nat /\ z >= size /\ cap \in Nat /\ N = g * a
      BY <1>2, <2>3, <2>6 DEF cap
    <3> HIDE DEF a, z
    <3>2. \A x, y, w \in Nat : x >= y => x * w >= y * w
      OBVIOUS
    <3>3. z * N >= size * N /\ z * N \in Nat /\ size * N \in Nat
      BY <1>1, <2>5, <3>1, <3>2
    <3>4. z * (g * a) >= g * cap
      BY <2>2, <2>4, <2>5, <3>1, <3>3
    <3>5. z * (g * a) = g * (z * a) /\ z * a \in Nat
      BY <2>2, <3>1
    <3>6. ASSUME NEW x \in Nat, NEW y \in Nat, g * x >= g * y PROVE x >= y
      <4>1. ASSUME x < y PROVE FALSE
        <5>1. x + 1 <= y
          BY <4>1
        <5>2. y * g >= (x + 1) * g
          BY <2>2, <3>2, <5>1
        <5>3. (x + 1) * g = g * x + g /\ y * g = g * y /\ g * x \in Nat /\ g * y \in Nat
          BY <2>2
        <5> QED BY <2>2, <3>6, <5>2, <5>3
      <4> QED BY <4>1
    <3>7. z * a >= cap
      BY <3>1, <3>4, <3>5, <3>6
    <3> QED BY <3>7 DEF a, z
  <2> QED BY <1>1, <1>5, <2>6, <2>7, <2>8 DEF Fits, cap, v
<1> QED BY <1>3, <1>4, <1>5

(* A job that was placed has nodes. *)
Placed == \A j \in Jobs : job[j].stage # "none" => job[j].nodes # {}

LEMMA PlacedNext ==
  ASSUME MarksInv, Placed, [Next]_vars
  PROVE  Placed'
<1> USE DEF Placed
<1>1. job \in [Jobs -> JobStates]
  BY DEF MarksInv, MarksState
<1>2. ASSUME NEW j \in Jobs, NEW nodes \in SUBSET Nodes, nodes # {}, Place(j, nodes)
      PROVE  Placed'
  <2>1. \A k \in Jobs : IF k = j THEN job'[k].nodes = nodes
                        ELSE job'[k].stage = job[k].stage /\ job'[k].nodes = job[k].nodes
    BY <1>1, <1>2 DEF Place, JobStates
  <2> QED BY <1>2, <2>1
<1>3. ASSUME NEW j \in Jobs, NEW stage \in Stages, job[j].stage # "none", Becomes(j, stage)
      PROVE  Placed'
  <2>1. StageChanged(job, job', j, stage)
    BY <1>1, <1>3, StageChange DEF Becomes
  <2> QED BY <1>3, <2>1 DEF StageChanged
<1>4. ASSUME NEW j \in Jobs, \/ setup_cb(j) \/ SetupFails(j) \/ TeardownCompletes(j)
                             \/ WorkflowTornDown(j) \/ WorkflowDeleted(j)
      PROVE  Placed'
  <2>1. job[j].stage # "none" /\ \E stage \in Stages : Becomes(j, stage)
    BY <1>4 DEF setup_cb, SetupFails, TeardownCompletes, WorkflowTornDown, WorkflowDeleted, Stages
  <2> QED BY <1>3, <2>1
<1>5. CASE Crash
  <2>1. \A k \in Jobs : /\ job'[k].nodes = job[k].nodes
                        /\ job'[k].stage = job[k].stage \/ job[k].stage = "deleting"
    BY <1>1, <1>5 DEF Crash, JobStates
  <2> QED BY <2>1
<1>6. ASSUME \/ RabbitStateChange \/ _update_offline \/ _journal_callback \/ Start
             \/ UNCHANGED vars
             \/ \E r \in Rabbits, o \in Objects : StorageChange(r, o)
             \/ \E n \in Nodes : \/ prerun_timeout_cb(n) \/ BrokerChange(n)
                                 \/ disable_until_undrained(n) \/ Undrain(n)
      PROVE  Placed'
  <2>1. UNCHANGED job
    BY <1>6 DEF RabbitStateChange, _update_offline, _journal_callback, Start, vars, StorageChange,
       prerun_timeout_cb, BrokerChange, disable_until_undrained, Undrain, jobVars
  <2> QED BY <2>1
<1> QED BY <1>2, <1>4, <1>5, <1>6 DEF Next

(* build_allocation_sets() gives every job what its directives ask for, for *)
(* any nodes it is placed on, any breakdown and any minimal size: within    *)
(* its own rabbits, never less than the capacity for all the rounding, and  *)
(* a fixed number of allocations spread as evenly as it goes, with the most *)
(* on the rabbits that have most of the nodes.                              *)
THEOREM AllocationsSuffice == Spec => []BreakdownsFit
<1> DEFINE PlacedInv == StorageInv /\ MarksInv /\ Placed
<1>1. Init => PlacedInv
  <2>1. Init => Placed
    BY DEF Init, Placed, Idle
  <2> QED BY <2>1, StorageInit, MarksInit
<1>2. PlacedInv /\ [Next]_vars => PlacedInv'
  BY StorageNext, MarksNext, PlacedNext
<1>3. PlacedInv => BreakdownsFit
  <2> SUFFICES ASSUME PlacedInv, NEW j \in Jobs, NEW set \in Breakdowns, job[j].stage = "setup"
               PROVE  Fits(set, NodesPerNnf(j), Servers(j, set))
    BY DEF BreakdownsFit, Fits, Pieces
  <2> DEFINE nodes == job[j].nodes
             npn == NodesPerNnf(j)
  <2>1. nodes \in SUBSET Nodes /\ nodes # {}
    <3>1. job[j] \in JobStates
      BY DEF MarksInv, MarksState
    <3> QED BY <3>1 DEF JobStates, Placed
  <2>2. npn = [r \in RabbitsOf(nodes) |-> Cardinality(nodes \cap HostsOf[r])]
    BY DEF NodesPerNnf
  <2> HIDE DEF nodes, npn
  <2>3. /\ IsFiniteSet(RabbitsOf(nodes)) /\ IsFiniteSet(nodes)
        /\ npn \in [RabbitsOf(nodes) -> Nat \ {0}] /\ SumFunction(npn) = Cardinality(nodes)
    BY <2>1, <2>2, NodesOfRabbits
  <2>4. RabbitsOf(nodes) # {} /\ Cardinality(nodes) \in Nat \ {0}
    BY <2>1, <2>3, FS_CardinalityType, FS_EmptySet DEF RabbitsOf
  <2>5. Fits(set, npn, build_allocation_sets(set, npn, Cardinality(nodes), MinAlloc))
    BY <2>3, <2>4, AllocationsFit
  <2> QED BY <2>5 DEF Servers, nodes, npn
<1> QED BY <1>1, <1>2, <1>3, PTL DEF Spec
=============================================================================
