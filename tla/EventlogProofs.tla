--------------------------- MODULE EventlogProofs ---------------------------
(***************************************************************************)
(* What eventlog_wait_for() returns, for any log and any name: lemmas for  *)
(* the proofs about the shell plugins that wait for an event, and the two  *)
(* facts about numbers that every induction in these proofs comes down to. *)
(***************************************************************************)
EXTENDS Eventlog, WellFoundedInduction, TLAPS

(* An entry at which a reader who waits for name stops. *)
Stops(e, name) == Surpasses(e) \/ e.name = name

(* The answer to whoever waits for name is found, <<value>> of the event    *)
(* that comes before everything else a reader would stop at, or is <<>>     *)
(* because there is no such event.                                          *)
Finds(log, name, found) ==
  IF found = <<>> THEN \A i \in DOMAIN log : log[i].name # name
  ELSE \E i \in DOMAIN log :
         /\ log[i] = EventWith(name, found[1])
         /\ \A k \in 1 .. i - 1 : ~Stops(log[k], name)

(* A set of natural numbers has a least one. *)
LEMMA LeastNatural ==
  ASSUME NEW T, T \subseteq Nat, T # {}
  PROVE  \E m \in T : \A k \in T : m <= k
<1> DEFINE R == OpToRel(<, Nat)
<1>1. IsWellFoundedOn(R, Nat)
  BY NatLessThanWellFounded
<1>2. \A x, y \in Nat : <<x, y>> \in R <=> x < y
  BY DEF OpToRel
<1> HIDE DEF R
<1>3. PICK m \in T : \A y \in T : ~(<<y, m>> \in R)
  BY <1>1, WFMin
<1>4. ASSUME NEW k \in T PROVE m <= k
  <2>1. m \in Nat /\ k \in Nat
    OBVIOUS
  <2>2. ~(k < m)
    BY <1>2, <1>3, <2>1
  <2> QED BY <2>1, <2>2
<1> QED BY <1>4

(* A set that has 0 and with each number below N the next one has them all. *)
LEMMA UpTo ==
  ASSUME NEW N \in Nat, NEW T, 0 \in T,
         \A i \in 0 .. N : i \in T /\ i < N => i + 1 \in T
  PROVE  0 .. N \subseteq T
<1> DEFINE Missing == {i \in 0 .. N : i \notin T}
<1>1. ASSUME Missing # {} PROVE FALSE
  <2>1. Missing \subseteq Nat
    OBVIOUS
  <2>2. PICK m \in Missing : \A k \in Missing : m <= k
    <3> HIDE DEF Missing
    <3> QED BY <1>1, <2>1, LeastNatural
  <2>3. m \in Nat /\ m # 0 /\ m <= N /\ m \notin T
    BY <2>2
  <2>4. m - 1 \in 0 .. N /\ ~(m <= m - 1)
    BY <2>3
  <2>5. m - 1 \notin Missing
    <3> HIDE DEF Missing
    <3> QED BY <2>2, <2>4
  <2>6. m - 1 \in T /\ m - 1 < N
    BY <2>3, <2>4, <2>5
  <2>7. (m - 1) + 1 \in T
    BY <2>4, <2>6
  <2> QED BY <2>3, <2>7
<1> QED BY <1>1

(* The entries and whether they end a wait. *)
LEMMA EntryNames ==
  /\ EventStart.name = "start" /\ Surpasses(EventStart)
  /\ EventException(0).name = "exception" /\ Surpasses(EventException(0))
  /\ EventException(1).name = "exception" /\ ~Surpasses(EventException(1))
  /\ \A name, value : /\ EventWith(name, value).name = name
                      /\ EventWith(name, value).context = <<value>>
  /\ \A name, value : name # "start" /\ name # "exception" =>
                        ~Surpasses(EventWith(name, value))
BY DEF EventStart, EventException, EventWith, Entry, Surpasses

(* eventlog_wait_for() returns what is there to be found. *)
LEMMA WaitFinds ==
  ASSUME NEW S, NEW log \in Seq(S), NEW name, NEW found,
         Finds(log, name, found), ~Waits(log, name)
  PROVE  eventlog_wait_for(log, name) = IF found = <<>> THEN <<>> ELSE <<found[1]>>
<1> DEFINE D == Decisive(log, name)
           Least(i) == i \in D /\ \A k \in D : i <= k
           first == CHOOSE i \in D : \A k \in D : i <= k
<1>1. /\ D # {} /\ D \subseteq DOMAIN log
      /\ \A i \in D : Stops(log[i], name)
      /\ \A i \in DOMAIN log : Stops(log[i], name) => i \in D
  BY DEF Waits, Decisive, Stops
<1>2. DOMAIN log = 1 .. Len(log) /\ Len(log) \in Nat
  OBVIOUS
<1>3. D \subseteq Nat
  BY <1>1, <1>2
<1>4. eventlog_wait_for(log, name) =
        IF log[first].name = name THEN log[first].context ELSE <<>>
  BY DEF eventlog_wait_for
<1> HIDE DEF D
<1>5. \E m \in D : \A k \in D : m <= k
  BY <1>1, <1>3, LeastNatural
<1>6. Least(first)
  BY <1>5
<1> HIDE DEF first
<1>7. CASE found = <<>>
  <2>1. log[first].name # name
    BY <1>1, <1>6, <1>7 DEF Finds
  <2> QED BY <1>4, <1>7, <2>1
<1>8. CASE found # <<>>
  <2>1. PICK i \in DOMAIN log :
          /\ log[i] = EventWith(name, found[1])
          /\ \A k \in 1 .. i - 1 : ~Stops(log[k], name)
    BY <1>8 DEF Finds
  <2>2. i \in D
    BY <1>1, <2>1, EntryNames DEF Stops
  <2>3. first <= i /\ first \in Nat /\ i \in Nat /\ first \in 1 .. Len(log)
    BY <1>1, <1>2, <1>3, <1>6, <2>2
  <2>4. ~(first \in 1 .. i - 1)
    BY <1>1, <1>6, <2>1
  <2>5. first = i
    BY <2>3, <2>4
  <2>6. /\ log[first].name = name
        /\ log[first].context = <<found[1]>>
    BY <2>1, <2>5, EntryNames
  <2> QED BY <1>4, <1>8, <2>6
<1> QED BY <1>7, <1>8

(* Append() as the proofs use it. *)
LEMMA LogAppend ==
  ASSUME NEW S, NEW log \in Seq(S), NEW e \in S
  PROVE  LET new == Append(log, e)
         IN  /\ new \in Seq(S)
             /\ Len(log) \in Nat
             /\ DOMAIN log = 1 .. Len(log) /\ DOMAIN new = 1 .. Len(log) + 1
             /\ \A i \in 1 .. Len(log) : new[i] = log[i]
             /\ new[Len(log) + 1] = e
             /\ \A i \in DOMAIN new : (i \in DOMAIN log /\ new[i] = log[i]) \/ new[i] = e
OBVIOUS

(* Another entry behind it does not change what is found. *)
LEMMA FindsStill ==
  ASSUME NEW S, NEW log \in Seq(S), NEW e \in S, NEW name, NEW found,
         e.name # name, Finds(log, name, found)
  PROVE  Finds(Append(log, e), name, found)
<1> DEFINE new == Append(log, e)
<1>1. /\ Len(log) \in Nat
      /\ DOMAIN log = 1 .. Len(log) /\ DOMAIN new = 1 .. Len(log) + 1
      /\ \A i \in 1 .. Len(log) : new[i] = log[i]
      /\ \A i \in DOMAIN new : (i \in DOMAIN log /\ new[i] = log[i]) \/ new[i] = e
  BY LogAppend
<1> HIDE DEF new
<1>2. CASE found = <<>>
  <2>1. \A i \in DOMAIN new : new[i].name # name
    BY <1>1, <1>2 DEF Finds
  <2> QED BY <1>2, <2>1 DEF Finds, new
<1>3. CASE found # <<>>
  <2>1. PICK i \in DOMAIN log :
          /\ log[i] = EventWith(name, found[1])
          /\ \A k \in 1 .. i - 1 : ~Stops(log[k], name)
    BY <1>3 DEF Finds
  <2>2. i \in DOMAIN new /\ \A k \in 1 .. i - 1 : k \in 1 .. Len(log)
    BY <1>1
  <2>3. /\ new[i] = EventWith(name, found[1])
        /\ \A k \in 1 .. i - 1 : ~Stops(new[k], name)
    BY <1>1, <2>1, <2>2
  <2> QED BY <1>3, <2>2, <2>3 DEF Finds, new
<1> QED BY <1>2, <1>3

(* An event posted before anything a reader stops at is found. *)
LEMMA FindsNew ==
  ASSUME NEW S, NEW log \in Seq(S), NEW name, NEW value, EventWith(name, value) \in S,
         \A i \in DOMAIN log : ~Stops(log[i], name)
  PROVE  Finds(Append(log, EventWith(name, value)), name, <<value>>)
<1> DEFINE e == EventWith(name, value)
           new == Append(log, e)
           found == <<value>>
<1> HIDE DEF e
<1>1. /\ Len(log) \in Nat
      /\ DOMAIN log = 1 .. Len(log) /\ DOMAIN new = 1 .. Len(log) + 1
      /\ \A i \in 1 .. Len(log) : new[i] = log[i]
      /\ new[Len(log) + 1] = e
  BY LogAppend DEF e
<1>2. found # <<>> /\ found[1] = value
  OBVIOUS
<1> HIDE DEF new, found
<1>3. 1 .. (Len(log) + 1) - 1 = 1 .. Len(log) /\ Len(log) + 1 \in DOMAIN new
  BY <1>1
<1>4. /\ new[Len(log) + 1] = EventWith(name, found[1])
      /\ \A k \in 1 .. (Len(log) + 1) - 1 : ~Stops(new[k], name)
  BY <1>1, <1>2, <1>3 DEF e
<1>5. Finds(new, name, found)
  BY <1>2, <1>3, <1>4 DEF Finds
<1> QED BY <1>5 DEF new, found, e
=============================================================================
