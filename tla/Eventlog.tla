------------------------------ MODULE Eventlog ------------------------------
(***************************************************************************)
(* The eventlog of a job as its readers see it (src/common/libutil/        *)
(* eventlog.c).  An entry is [name, severity, context]; the context is     *)
(* <<>> when there is none and <<v>> otherwise.                            *)
(* The shell plugins set no timeout; flux-slingshot gives up after 30      *)
(* seconds (Slingshot!LookupTimesOut).                                     *)
(***************************************************************************)
EXTENDS Integers, Sequences, SequencesExt

(* eventlog_entry_parse(): a context is optional, severity is meaningful in *)
(* an exception.                                                            *)
Entry(name, severity, context) ==
  [name |-> name, severity |-> severity, context |-> context]

EventStart == Entry("start", 0, <<>>)
EventException(severity) == Entry("exception", severity, <<>>)
EventWith(name, value) == Entry(name, 0, <<value>>)

(* mutant: only an exception rules the named event out *)
Surpasses_NotStart(e) == e.name = "exception" /\ e.severity = 0

(* mutant: any exception rules the named event out *)
Surpasses_AnyException(e) == e.name \in {"start", "exception"}

(* An entry after which the optional event will not come any more. *)
Surpasses(e) ==
  e.name = "start" \/ (e.name = "exception" /\ e.severity = 0)

Decisive(log, name) ==
  {i \in DOMAIN log : Surpasses(log[i]) \/ log[i].name = name}

(* eventlog_wait_for() has not returned yet. *)
Waits(log, name) == Decisive(log, name) = {}

(* What eventlog_wait_for() returns in *obj. *)
eventlog_wait_for(log, name) ==
  LET first == CHOOSE i \in Decisive(log, name) :
                 \A k \in Decisive(log, name) : i <= k
  IN  IF log[first].name = name THEN log[first].context ELSE <<>>
=============================================================================
