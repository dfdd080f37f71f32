------------------------- MODULE RabbitStorageProofs -------------------------
(***************************************************************************)
(* What RabbitJob promises about storage, for every mix of faults and      *)
(* every configuration of timers, with the webhook that DWS has: tasks run *)
(* on mounted file systems, an epilog that ends well means that the        *)
(* storage is torn down, the finalizer stays until Teardown is asked for.  *)
(*                                                                         *)
(* The three share one invariant.  Its first part says that dws.create     *)
(* comes first and only once, so that a Workflow that is gone stays gone.  *)
(* Its second part ties what is under way about a teardown (snapshots,     *)
(* dws.epilog-remove, the deletion) to the Workflow itself.  Its third     *)
(* part is about jobs before CLEANUP: whoever takes the storage away has   *)
(* told the job.                                                           *)
(*                                                                         *)
(* The rest is about the cache of WorkflowInfo objects, which a crash, a    *)
(* late snapshot or the 404 branch of a handler may leave behind.  Three    *)
(* more facts make its invariant: the order of the requests; the order of   *)
(* the snapshots, the newest of which is the Workflow; and that a job which *)
(* is still to send its dws.post_run has its Workflow on the way to PreRun. *)
(***************************************************************************)
EXTENDS RabbitJobProofs

Has(q, m) == \E i \in DOMAIN q : q[i] = m

(* Appending, joining and taking from the front of a stream of messages.   *)
LEMMA HasAppend ==
  ASSUME NEW S, NEW q \in Seq(S), NEW x \in S, NEW m
  PROVE  Has(Append(q, x), m) <=> Has(q, m) \/ x = m
<1> DEFINE r == Append(q, x)
<1>1. /\ DOMAIN r = 1 .. Len(q) + 1 /\ DOMAIN q = 1 .. Len(q) /\ Len(q) \in Nat
      /\ r[Len(q) + 1] = x /\ \A i \in 1 .. Len(q) : r[i] = q[i]
  OBVIOUS
<1> HIDE DEF r
<1> QED BY <1>1 DEF Has, r

LEMMA HasJoin ==
  ASSUME NEW S, NEW q \in Seq(S), NEW p \in Seq(S), NEW m
  PROVE  Has(q \o p, m) <=> Has(q, m) \/ Has(p, m)
<1> DEFINE r == q \o p
<1>1. /\ DOMAIN r = 1 .. Len(q) + Len(p) /\ Len(q) \in Nat /\ Len(p) \in Nat
      /\ DOMAIN q = 1 .. Len(q) /\ DOMAIN p = 1 .. Len(p)
      /\ \A i \in 1 .. Len(q) : r[i] = q[i]
      /\ \A i \in 1 .. Len(p) : r[Len(q) + i] = p[i]
  OBVIOUS
<1> HIDE DEF r
<1>2. ASSUME Has(r, m) PROVE Has(q, m) \/ Has(p, m)
  <2>1. PICK i \in DOMAIN r : r[i] = m
    BY <1>2 DEF Has
  <2>2. CASE i <= Len(q)
    BY <1>1, <2>1, <2>2 DEF Has
  <2>3. CASE i > Len(q)
    <3>1. i - Len(q) \in 1 .. Len(p) /\ Len(q) + (i - Len(q)) = i
      BY <1>1, <2>1, <2>3
    <3> QED BY <1>1, <2>1, <3>1 DEF Has
  <2> QED BY <1>1, <2>1, <2>2, <2>3
<1>3. ASSUME Has(q, m) PROVE Has(r, m)
  BY <1>1, <1>3 DEF Has
<1>4. ASSUME Has(p, m) PROVE Has(r, m)
  <2>1. PICK i \in DOMAIN p : p[i] = m
    BY <1>4 DEF Has
  <2>2. Len(q) + i \in DOMAIN r /\ r[Len(q) + i] = m
    BY <1>1, <2>1
  <2> QED BY <2>2 DEF Has
<1> QED BY <1>2, <1>3, <1>4 DEF r

LEMMA HasTail ==
  ASSUME NEW S, NEW q \in Seq(S), q # <<>>, NEW m
  PROVE  Has(q, m) <=> Head(q) = m \/ Has(Tail(q), m)
<1> DEFINE r == Tail(q)
<1>1. /\ Len(q) \in Nat /\ Len(q) >= 1 /\ DOMAIN q = 1 .. Len(q) /\ Head(q) = q[1]
      /\ DOMAIN r = 1 .. Len(q) - 1 /\ \A i \in 1 .. Len(q) - 1 : r[i] = q[i + 1]
  OBVIOUS
<1> HIDE DEF r
<1>2. ASSUME Has(q, m) PROVE Head(q) = m \/ Has(r, m)
  <2>1. PICK i \in DOMAIN q : q[i] = m
    BY <1>2 DEF Has
  <2>2. i = 1 \/ (i - 1 \in 1 .. Len(q) - 1 /\ (i - 1) + 1 = i)
    BY <1>1, <2>1
  <2> QED BY <1>1, <2>1, <2>2 DEF Has
<1>3. ASSUME Has(r, m) PROVE Has(q, m)
  <2>1. PICK i \in DOMAIN r : r[i] = m
    BY <1>3 DEF Has
  <2>2. i + 1 \in DOMAIN q /\ q[i + 1] = m
    BY <1>1, <2>1
  <2> QED BY <2>2 DEF Has
<1>4. ASSUME Head(q) = m PROVE Has(q, m)
  BY <1>1, <1>4 DEF Has
<1> QED BY <1>2, <1>3, <1>4 DEF r

---------------------------------------------------------------------------
(* The plugin *)

Rec == JmRec(SvcMsgs, JmMsgs)
Recs == GoodRec(SvcMsgs, JmMsgs)

(* dws.create can only be the first message. *)
First(q) == \A i \in DOMAIN q : q[i] = "create" => i = 1

(* What callbacks leave as it is: dws.create is not sent, nothing that the  *)
(* service has told the plugin is lost, and no epilog ends well.            *)
Streams(s, t) ==
  /\ First(s.toSvc) => First(t.toSvc)
  /\ Has(t.toSvc, "create") => Has(s.toSvc, "create")
  /\ \A m \in {"epilog-remove", "prolog-remove", "raise"} :
       Has(t.toJm, m) <=> Has(s.toJm, m)

Quiet(s, t) ==
  /\ Streams(s, t)
  /\ t.job.epilogStatus = "ok" => s.job.epilogStatus = "ok"

LEMMA FirstAppend ==
  ASSUME NEW S, NEW q \in Seq(S), NEW x \in S, x # "create" \/ q = <<>>, First(q)
  PROVE  First(Append(q, x))
<1> DEFINE r == Append(q, x)
<1>1. /\ DOMAIN r = 1 .. Len(q) + 1 /\ DOMAIN q = 1 .. Len(q) /\ Len(q) \in Nat
      /\ r[Len(q) + 1] = x /\ (\A i \in 1 .. Len(q) : r[i] = q[i])
      /\ (q = <<>> => Len(q) = 0)
  OBVIOUS
<1> HIDE DEF r
<1>2. ASSUME NEW i \in DOMAIN r, r[i] = "create"
      PROVE  i = 1
  <2>1. CASE i = Len(q) + 1
    BY <1>1, <1>2, <2>1
  <2>2. CASE i # Len(q) + 1
    <3>1. i \in 1 .. Len(q)
      BY <1>1, <1>2, <2>2
    <3> QED BY <1>1, <1>2, <3>1 DEF First
  <2> QED BY <2>1, <2>2
<1> QED BY <1>2 DEF First, r

LEMMA FirstTail ==
  ASSUME NEW S, NEW q \in Seq(S), q # <<>>, First(q)
  PROVE  First(Tail(q)) /\ ~Has(Tail(q), "create")
<1> DEFINE r == Tail(q)
<1>1. /\ Len(q) \in Nat /\ Len(q) >= 1 /\ DOMAIN q = 1 .. Len(q)
      /\ DOMAIN r = 1 .. Len(q) - 1 /\ \A i \in 1 .. Len(q) - 1 : r[i] = q[i + 1]
  OBVIOUS
<1> HIDE DEF r
<1>2. ASSUME NEW i \in DOMAIN r PROVE r[i] # "create"
  <2>1. i + 1 \in DOMAIN q /\ r[i] = q[i + 1] /\ i + 1 # 1
    BY <1>1
  <2> QED BY <2>1 DEF First
<1> QED BY <1>2 DEF First, Has, r

(* A request of the plugin other than dws.create, or the response to it    *)
(* when the service is down.                                               *)
LEMMA SendQuiet ==
  ASSUME svcUp \in BOOLEAN, NEW s \in Rec, NEW msg \in SvcMsgs, msg # "create"
  PROVE  Quiet(s, Send(s, msg))
<1>1. s.toSvc \in Seq(SvcMsgs) /\ s.toJm \in Seq(JmMsgs)
  BY DEF Rec, JmRec
<1>2. CASE svcUp
  <2>1. /\ Send(s, msg).job = s.job /\ Send(s, msg).toJm = s.toJm
        /\ Send(s, msg).toSvc = Append(s.toSvc, msg)
    BY <1>2 DEF Send, Rec, JmRec
  <2>2. First(s.toSvc) => First(Append(s.toSvc, msg))
    BY <1>1, FirstAppend
  <2>3. Has(Append(s.toSvc, msg), "create") => Has(s.toSvc, "create")
    BY <1>1, HasAppend
  <2> QED BY <2>1, <2>2, <2>3 DEF Quiet, Streams
<1>3. CASE ~svcUp
  <2> DEFINE p == FailureOf(msg)
  <2>1. /\ Send(s, msg).job = s.job /\ Send(s, msg).toSvc = s.toSvc
        /\ Send(s, msg).toJm = s.toJm \o p
    BY <1>3 DEF Send, Rec, JmRec
  <2>2. p \in Seq(JmMsgs)
    BY FailureType, Sizes
  <2>3. p \in {<<>>, <<"create-fail">>, <<"setup-fail">>, <<"post_run-fail">>}
    BY DEF FailureOf
  <2>4. \A m \in {"epilog-remove", "prolog-remove", "raise"} : ~Has(p, m)
    <3> HIDE DEF p
    <3> QED BY <2>3 DEF Has
  <2> HIDE DEF p
  <2>5. \A m \in {"epilog-remove", "prolog-remove", "raise"} :
          Has(s.toJm \o p, m) <=> Has(s.toJm, m)
    BY <1>1, <2>2, <2>4, HasJoin
  <2> QED BY <2>1, <2>5 DEF Quiet, Streams
<1> QED BY <1>2, <1>3

LEMMA QuietTwice ==
  ASSUME NEW s, NEW t, NEW u, Quiet(s, t), Quiet(t, u)
  PROVE  Quiet(s, u)
BY DEF Quiet, Streams

(* A change of the job alone that ends no epilog well.                     *)
LEMMA JobQuiet ==
  ASSUME NEW s \in Rec, NEW k, k.epilogStatus = "ok" => s.job.epilogStatus = "ok"
  PROVE  Quiet(s, [s EXCEPT !.job = k])
BY DEF Quiet, Streams, Rec, JmRec

(* exception_cb, cleanup_cb and with them a fatal exception.               *)
LEMMA exception_cbQuiet ==
  ASSUME svcUp \in BOOLEAN, NEW s \in Rec, NEW type
  PROVE  Quiet(s, exception_cb(s, type))
<1> DEFINE j == s.job
           i == [j EXCEPT !.perilogs = OneLess(j.perilogs),
                          !.prologFinishes = j.prologFinishes + 1]
           k == [i EXCEPT !.prolog = "finished"]
<1>1. j \in Jobs /\ k.epilogStatus = j.epilogStatus
  BY DEF Rec, JmRec, Jobs
<1>2. FinishProlog(s) = [s EXCEPT !.job = k]
  BY DEF FinishProlog, PostPrologFinish, Rec, JmRec
<1>3. Quiet(s, FinishProlog(s))
  <2> HIDE DEF k
  <2> QED BY <1>1, <1>2, JobQuiet
<1>4. \A u \in Rec : Quiet(u, FinishEpilog(u, "failed"))
  <2> TAKE u \in Rec
  <2> DEFINE l == u.job
             m == [l EXCEPT !.perilogs = OneLess(l.perilogs),
                            !.taken = l.taken \/ (l.epilogStatus # "open" /\ l.perilogs > 0),
                            !.epilogStatus = IF l.epilogStatus = "open" THEN "failed"
                                             ELSE l.epilogStatus]
  <2>1. m.epilogStatus = "ok" => l.epilogStatus = "ok"
    BY DEF Rec, JmRec, Jobs
  <2>2. FinishEpilog(u, "failed") = [u EXCEPT !.job = m]
    BY DEF FinishEpilog
  <2> HIDE DEF m
  <2> QED BY <2>1, <2>2, JobQuiet
<1>5. /\ Quiet(s, Send(s, "abort")) /\ Quiet(s, Send(s, "teardown"))
      /\ Send(s, "abort") \in Rec
  <2>1. "abort" \in SvcMsgs /\ "teardown" \in SvcMsgs
    BY DEF SvcMsgs
  <2> QED BY <2>1, SendQuiet, SendType, Sizes DEF Rec
<1>6. Quiet(s, FinishEpilog(Send(s, "abort"), "failed"))
  BY <1>4, <1>5, QuietTwice
<1>7. Quiet(s, s)
  BY DEF Quiet, Streams
<1> QED BY <1>3, <1>5, <1>6, <1>7 DEF exception_cb

LEMMA StartEpilogQuiet ==
  ASSUME svcUp \in BOOLEAN, NEW s \in Rec, NEW b \in BOOLEAN
  PROVE  LET u == start_dws_epilog_for_job(s, b)
         IN  u \in Rec /\ u.job.state = s.job.state /\ Quiet(s, u)
<1> DEFINE k == Started(s.job)
           t == [s EXCEPT !.job = k]
           msg == IF b THEN "post_run_1" ELSE "post_run_0"
<1>1. s.job \in Jobs /\ s.job.perilogs + 1 \in Nat /\ s.job.epilogStarts + 1 \in Nat
  BY DEF Rec, JmRec, Jobs
<1>2. k \in Jobs /\ k.epilogStatus = "open" /\ k.state = s.job.state
  BY <1>1, EpilogTimeoutAssumption DEF Jobs, Started
<1>3. start_dws_epilog_for_job(s, b) = Send(t, msg)
  BY DEF start_dws_epilog_for_job, Started
<1>4. t \in Rec /\ t.job.state = s.job.state /\ Quiet(s, t)
  <2> HIDE DEF k
  <2> QED BY <1>2, WithJob, JobQuiet DEF Rec
<1>5. msg \in SvcMsgs /\ msg # "create"
  BY DEF SvcMsgs
<1> HIDE DEF t, msg
<1>6. Send(t, msg) \in Rec /\ Send(t, msg).job = t.job /\ Quiet(t, Send(t, msg))
  BY <1>4, <1>5, SendQuiet, SendType, Sizes DEF Rec
<1> QED BY <1>3, <1>4, <1>6, QuietTwice

LEMMA ToCleanupQuiet ==
  ASSUME svcUp \in BOOLEAN, NEW s \in Rec
  PROVE  LET u == cleanup_cb([s EXCEPT !.job.state = "CLEANUP"])
         IN  u.job.state = "CLEANUP" /\ Quiet(s, u)
<1> DEFINE k == [s.job EXCEPT !.state = "CLEANUP"]
           t == [s EXCEPT !.job = k]
<1>1. k \in Jobs /\ k.epilogStatus = s.job.epilogStatus /\ k.state = "CLEANUP"
  BY DEF Rec, JmRec, Jobs, JobStates
<1>2. [s EXCEPT !.job.state = "CLEANUP"] = t
  BY DEF Rec, JmRec
<1>3. t \in Rec /\ t.job.state = "CLEANUP" /\ Quiet(s, t)
  <2> HIDE DEF k
  <2> QED BY <1>1, WithJob, JobQuiet DEF Rec
<1> HIDE DEF t
<1>4. LET u == start_dws_epilog_for_job(t, FALSE)
      IN  u.job.state = t.job.state /\ Quiet(t, u)
  BY <1>3, StartEpilogQuiet
<1> QED BY <1>2, <1>3, <1>4, QuietTwice DEF cleanup_cb

LEMMA PostExceptionQuiet ==
  ASSUME svcUp \in BOOLEAN, NEW s \in Recs, NEW type
  PROVE  Quiet(s, PostException(s, type))
<1>1. s \in Rec /\ s.job \in Jobs /\ Good(s.job) /\ Quiet(s, s)
  BY DEF Recs, Rec, GoodRec, JmRec, Quiet, Streams
<1>2. CASE ~Active(s.job)
  BY <1>1, <1>2 DEF PostException, Active
<1>3. CASE Active(s.job)
  <2> DEFINE once == exception_cb(s, type)
             both == IF s.job.subs = 2 THEN exception_cb(once, type) ELSE once
  <2>1. s.job.state \notin {"NEW", "INACTIVE"} /\ s.job.subs \in {1, 2}
    BY <1>1, <1>3 DEF Active, Good, Jobs
  <2>2. once \in Recs /\ once.job.state = s.job.state /\ Quiet(s, once)
    BY <1>1, <2>1, exception_cbGood, exception_cbQuiet, Sizes DEF Recs
  <2>3. both \in Rec /\ Quiet(s, both)
    <3> HIDE DEF once
    <3>1. once \in Rec
      BY <2>2 DEF Recs, Rec, GoodRec
    <3>2. exception_cb(once, type) \in Recs /\ Quiet(once, exception_cb(once, type))
      BY <2>1, <2>2, <3>1, exception_cbGood, exception_cbQuiet, Sizes DEF Recs
    <3> QED BY <2>2, <3>1, <3>2, QuietTwice DEF Recs, Rec, GoodRec
  <2>4. PostException(s, type) \in {both, cleanup_cb([both EXCEPT !.job.state = "CLEANUP"])}
    BY <1>3, <2>1 DEF PostException, Active
  <2> HIDE DEF both
  <2>5. Quiet(both, cleanup_cb([both EXCEPT !.job.state = "CLEANUP"]))
    BY <2>3, ToCleanupQuiet
  <2> QED BY <2>3, <2>4, <2>5, QuietTwice
<1> QED BY <1>2, <1>3

LEMMA PostFinishQuiet ==
  ASSUME svcUp \in BOOLEAN, NEW s \in Rec
  PROVE  LET u == PostFinish(s)
         IN  /\ u.job.state = IF s.job.state = "RUN" THEN "CLEANUP" ELSE s.job.state
             /\ Quiet(s, u)
<1> DEFINE k == [s.job EXCEPT !.exec = "done"]
           done == [s EXCEPT !.job = k]
           once == finish_cb(done)
           both == IF s.job.subs = 2 THEN finish_cb(once) ELSE once
<1>1. k \in Jobs /\ k.epilogStatus = s.job.epilogStatus /\ k.state = s.job.state
  BY DEF Rec, JmRec, Jobs
<1>2. [s EXCEPT !.job.exec = "done"] = done
  BY DEF Rec, JmRec
<1>3. done \in Rec /\ done.job.state = s.job.state /\ Quiet(s, done)
  <2> HIDE DEF k
  <2> QED BY <1>1, WithJob, JobQuiet DEF Rec
<1>4. \A u \in Rec : /\ finish_cb(u) \in Rec /\ Quiet(u, finish_cb(u))
                      /\ finish_cb(u).job.state = u.job.state
  <2> TAKE u \in Rec
  <2>1. Quiet(u, u)
    BY DEF Quiet, Streams
  <2>2. LET v == start_dws_epilog_for_job(u, TRUE)
        IN  v \in Rec /\ v.job.state = u.job.state /\ Quiet(u, v)
    BY StartEpilogQuiet
  <2> QED BY <2>1, <2>2 DEF finish_cb
<1>5. once \in Rec /\ once.job.state = s.job.state /\ Quiet(s, once)
  <2> HIDE DEF done
  <2> QED BY <1>3, <1>4, QuietTwice
<1>6. both \in Rec /\ both.job.state = s.job.state /\ Quiet(s, both)
  <2> HIDE DEF once
  <2> QED BY <1>4, <1>5, QuietTwice
<1>7. PostFinish(s) = IF s.job.state = "RUN"
                      THEN cleanup_cb([both EXCEPT !.job.state = "CLEANUP"]) ELSE both
  BY <1>2 DEF PostFinish
<1> HIDE DEF both
<1>8. LET u == cleanup_cb([both EXCEPT !.job.state = "CLEANUP"])
      IN  u.job.state = "CLEANUP" /\ Quiet(both, u)
  BY <1>6, ToCleanupQuiet
<1> QED BY <1>6, <1>7, <1>8, QuietTwice

BeforeCleanup == {"DEPEND", "SCHED", "RUN"}
Released(j) == j.state = "RUN" /\ j.prolog = "finished"

(* What the handling of a message does: only dws.epilog-remove ends an      *)
(* epilog well, only dws.prolog-remove lets a job start, and an exception   *)
(* of the service ends in CLEANUP.                                          *)
Handled(s, t, msg) ==
  /\ Streams(s, t)
  /\ t.job.epilogStatus = "ok" => s.job.epilogStatus = "ok" \/ msg = "epilog-remove"
  /\ t.job.state = "NEW" => s.job.state = "NEW" /\ t.toSvc = s.toSvc
  /\ t.job.state \in BeforeCleanup =>
       /\ s.job.state \in BeforeCleanup /\ t.toSvc = s.toSvc /\ msg # "raise"
       /\ Released(t.job) => Released(s.job) \/ msg = "prolog-remove"

LEMMA ExceptionHandled ==
  ASSUME svcUp \in BOOLEAN, NEW s \in Recs, NEW type, NEW msg
  PROVE  Handled(s, PostException(s, type), msg)
<1> DEFINE t == PostException(s, type)
<1>1. Quiet(s, t) /\ t.job.state = IF Active(s.job) THEN "CLEANUP" ELSE s.job.state
  BY PostExceptionQuiet, PostExceptionGood, Sizes DEF Recs
<1>2. s.job.state \in JobStates
  BY DEF Recs, GoodRec, JmRec, Jobs
<1>3. CASE Active(s.job)
  <2> HIDE DEF t
  <2> QED BY <1>1, <1>3 DEF Handled, Quiet, BeforeCleanup, t
<1>4. CASE ~Active(s.job)
  <2>1. t = s
    BY <1>4 DEF PostException, Active
  <2> HIDE DEF t
  <2> QED BY <1>1, <1>2, <1>4, <2>1 DEF Handled, Quiet, BeforeCleanup, Active, t
<1> QED BY <1>3, <1>4

LEMMA PrologFinishHandled ==
  ASSUME svcUp \in BOOLEAN, NEW s \in Recs, NEW msg \in JmMsgs, msg # "raise"
  PROVE  /\ Handled(s, dws_prolog_finish(s, FALSE), msg)
         /\ msg = "prolog-remove" => Handled(s, dws_prolog_finish(s, TRUE), msg)
<1>1. Handled(s, s, msg)
  BY DEF Handled, Streams
<1>2. ASSUME s.job.prolog = "active"
      PROVE  Handled(s, FinishProlog(s), "prolog-remove")
  <2> DEFINE j == s.job
             i == [j EXCEPT !.perilogs = OneLess(j.perilogs),
                            !.prologFinishes = j.prologFinishes + 1]
             k == [i EXCEPT !.prolog = "finished"]
             t == [s EXCEPT !.job = k]
  <2>1. s \in Rec /\ k.epilogStatus = j.epilogStatus /\ k.state = j.state
    BY DEF Recs, GoodRec, Rec, JmRec, Jobs
  <2>2. FinishProlog(s) = t
    BY <2>1 DEF FinishProlog, PostPrologFinish, Rec, JmRec
  <2> HIDE DEF k
  <2>3. Quiet(s, t)
    BY <2>1, JobQuiet
  <2>4. t.toSvc = s.toSvc /\ t.job = k
    BY <2>1 DEF Rec, JmRec
  <2> HIDE DEF t
  <2> QED BY <2>1, <2>2, <2>3, <2>4 DEF Handled, Quiet
<1>3. Handled(s, PostException(s, "dws-setup"), msg)
  BY ExceptionHandled
<1> QED BY <1>1, <1>2, <1>3 DEF dws_prolog_finish

LEMMA DispatchHandled ==
  ASSUME svcUp \in BOOLEAN, NEW s \in Recs, NEW msg \in JmMsgs,
         msg = "prolog-remove" => s.job.prolog # "unset"
  PROVE  Handled(s, Dispatch(s, msg), msg)
<1>0. /\ s \in Rec /\ s.job.state \in JobStates
      /\ msg # "raise" => Handled(s, s, msg)
  BY DEF Recs, GoodRec, Rec, JmRec, Jobs, Handled, Streams
<1>1. \A type : Handled(s, PostException(s, type), msg)
  BY ExceptionHandled
<1>2. CASE msg = "resource-update"
  <2> DEFINE k == [s.job EXCEPT !.state = "SCHED"]
             t == [s EXCEPT !.job = k]
  <2>1. k.epilogStatus = s.job.epilogStatus /\ k.state = "SCHED"
    BY <1>0 DEF Rec, JmRec, Jobs
  <2>2. [s EXCEPT !.job.state = "SCHED"] = t
    BY <1>0 DEF Rec, JmRec
  <2> HIDE DEF k
  <2>3. Quiet(s, t) /\ t.toSvc = s.toSvc /\ t.job = k
    BY <1>0, <2>1, JobQuiet DEF Rec, JmRec
  <2> HIDE DEF t
  <2>4. s.job.state = "DEPEND" => Handled(s, t, msg)
    BY <2>1, <2>3, <1>2 DEF Handled, Quiet, Released, BeforeCleanup
  <2>5. Dispatch(s, msg) = resource_update_msg_cb(s)
    BY <1>2 DEF Dispatch
  <2> QED BY <1>0, <1>2, <2>2, <2>4, <2>5 DEF resource_update_msg_cb
<1>3. CASE msg = "prolog-remove"
  <2>1. Dispatch(s, msg) = prolog_remove_msg_cb(s, TRUE)
    BY <1>3 DEF Dispatch
  <2> QED BY <1>0, <1>3, <2>1, PrologFinishHandled DEF prolog_remove_msg_cb
<1>4. CASE msg = "epilog-remove"
  <2> DEFINE j == s.job
             k == [j EXCEPT !.perilogs = OneLess(j.perilogs),
                            !.taken = j.taken \/ (j.epilogStatus # "open" /\ j.perilogs > 0),
                            !.epilogStatus = IF j.epilogStatus = "open" THEN "ok"
                                             ELSE j.epilogStatus]
             t == [s EXCEPT !.job = k]
  <2>1. Dispatch(s, msg) = IF s.job.state = "CLEANUP" THEN FinishEpilog(s, "ok") ELSE s
    BY <1>4 DEF Dispatch, epilog_remove_msg_cb, dws_epilog_finish
  <2>2. FinishEpilog(s, "ok") = t
    BY DEF FinishEpilog
  <2>3. k.state = j.state
    BY <1>0 DEF Rec, JmRec, Jobs
  <2> HIDE DEF k
  <2>4. Streams(s, t) /\ t.job = k
    BY <1>0 DEF Rec, JmRec, Streams
  <2> HIDE DEF t
  <2> QED BY <1>0, <1>4, <2>1, <2>2, <2>3, <2>4 DEF Handled, BeforeCleanup
<1>5. CASE msg = "setup-fail"
  <2>1. Dispatch(s, msg) = setup_rpc_cb(s)
    BY <1>5 DEF Dispatch
  <2> QED BY <1>0, <1>5, <2>1, PrologFinishHandled DEF setup_rpc_cb
<1>6. CASE msg = "post_run-fail"
  <2> DEFINE u == PostException(s, "dws-epilog")
             j == u.job
             k == [j EXCEPT !.perilogs = OneLess(j.perilogs),
                            !.taken = j.taken \/ (j.epilogStatus # "open" /\ j.perilogs > 0),
                            !.epilogStatus = IF j.epilogStatus = "open" THEN "failed"
                                             ELSE j.epilogStatus]
             t == [u EXCEPT !.job = k]
  <2>1. Handled(s, u, msg) /\ u \in Rec
    BY <1>1, PostExceptionGood, Sizes DEF Recs, GoodRec, Rec
  <2>2. Dispatch(s, msg) = IF s.job.state = "INACTIVE" THEN s ELSE t
    BY <1>6 DEF Dispatch, post_run_rpc_callback, dws_epilog_finish, FinishEpilog
  <2> HIDE DEF u
  <2>3. /\ k.state = j.state /\ k.prolog = j.prolog
        /\ k.epilogStatus = "ok" => j.epilogStatus = "ok"
    BY <2>1 DEF Rec, JmRec, Jobs
  <2> HIDE DEF k
  <2>4. t.job = k /\ t.toSvc = u.toSvc /\ t.toJm = u.toJm
    BY <2>1 DEF Rec, JmRec
  <2> HIDE DEF t
  <2>5. Handled(s, t, msg)
    BY <2>1, <2>3, <2>4 DEF Handled, Streams, Released
  <2> QED BY <1>0, <1>6, <2>2, <2>5
<1>7. CASE msg \in {"resource-update-err", "raise", "create-fail"}
  BY <1>1, <1>7 DEF Dispatch
<1> QED BY <1>2, <1>3, <1>4, <1>5, <1>6, <1>7 DEF JmMsgs

(* What a step of the plugin and the job manager does to the streams and    *)
(* the job.                                                                 *)
JobEffect ==
  /\ UNCHANGED <<svcUp, wf, events>>
  /\ First(toSvc) /\ (job.state = "NEW" => toSvc = <<>>) => First(toSvc')
  /\ Has(toSvc', "create") => Has(toSvc, "create") \/ job.state = "NEW"
  /\ \A m \in {"epilog-remove", "prolog-remove"} : Has(toJm', m) => Has(toJm, m)
  /\ job'.epilogStatus = "ok" => job.epilogStatus = "ok" \/ Has(toJm, "epilog-remove")
  /\ job'.state = "NEW" => job.state = "NEW" /\ toSvc' = toSvc
  /\ job'.state \in BeforeCleanup =>
       /\ job.state \in BeforeCleanup \cup {"NEW"}
       /\ job.state # "NEW" /\ Has(toJm, "raise") => Has(toJm', "raise")
       /\ \A m : Has(toSvc', m) => Has(toSvc, m) \/ m \in {"create", "setup"}
       /\ Released(job') => Released(job) \/ Has(toJm, "prolog-remove")

(* A callback that handles no message.                                     *)
LEMMA BecomeEffect ==
  ASSUME TypeOK, NEW t, Become(t), Handled(Current, t, "none")
  PROVE  JobEffect
<1>1. Current.job = job /\ Current.toSvc = toSvc /\ Current.toJm = toJm
  BY DEF Current
<1> QED BY <1>1 DEF Handled, Become, JobEffect, Streams

(* A step that changes the job only, and does not release it.              *)
LEMMA JobOnlyEffect ==
  ASSUME TypeOK, NEW k, Become([Current EXCEPT !.job = k]),
         k.epilogStatus = job.epilogStatus, k.state # "NEW",
         k.state \in BeforeCleanup => job.state \in BeforeCleanup,
         Released(k) => Released(job)
  PROVE  JobEffect
<1>1. job' = k /\ toSvc' = toSvc /\ toJm' = toJm /\ UNCHANGED <<svcUp, wf, events>>
  BY DEF Become, Current
<1> QED BY <1>1 DEF JobEffect

LEMMA JobNextEffect ==
  ASSUME Inv, JobNext
  PROVE  JobEffect
<1>1. /\ TypeOK /\ job \in Jobs /\ Good(job) /\ svcUp \in BOOLEAN
      /\ toSvc \in Seq(SvcMsgs) /\ toJm \in Seq(JmMsgs)
  BY DEF Inv, TypeOK, EnvTypeOK, JobTypeOK
<1>2. /\ Current \in Recs /\ Current \in Rec /\ Current.job = job
      /\ Current.toSvc = toSvc /\ Current.toJm = toJm
  BY <1>1 DEF Current, Recs, GoodRec, Rec, JmRec
<1>3. CASE depend_cb
  <2> DEFINE k == [job EXCEPT !.state = "DEPEND", !.subs = 1]
             n == [Current EXCEPT !.job = k]
             t == Send(n, "create")
  <2>1. job.state = "NEW" /\ Become(t)
    <3>1. [Current EXCEPT !.job.state = "DEPEND", !.job.subs = 1] = n
      BY DEF Current
    <3> QED BY <1>3, <3>1 DEF depend_cb
  <2>2. k.epilogStatus = job.epilogStatus /\ k.state = "DEPEND"
    BY <1>1 DEF Jobs
  <2>3. n.job = k /\ n.toSvc = toSvc /\ n.toJm = toJm /\ n = [job |-> k, toSvc |-> toSvc, toJm |-> toJm]
    BY DEF Current
  <2> HIDE DEF k, n
  <2>4. CASE svcUp
    <3>1. t.job = k /\ t.toJm = toJm /\ t.toSvc = Append(toSvc, "create")
      BY <2>3, <2>4 DEF Send
    <3>2. /\ "create" \in SvcMsgs
          /\ \A m : Has(Append(toSvc, "create"), m) <=> Has(toSvc, m) \/ "create" = m
      BY <1>1, HasAppend DEF SvcMsgs
    <3>3. First(toSvc) /\ toSvc = <<>> => First(Append(toSvc, "create"))
      BY <1>1, <3>2, FirstAppend
    <3> HIDE DEF t
    <3> QED BY <2>1, <2>2, <3>1, <3>2, <3>3 DEF Become, JobEffect, Released
  <2>5. CASE ~svcUp
    <3>1. t.job = k /\ t.toSvc = toSvc /\ t.toJm = toJm \o <<"create-fail">>
      BY <2>3, <2>5 DEF Send, FailureOf
    <3>2. <<"create-fail">> \in Seq(JmMsgs)
      BY DEF JmMsgs
    <3>3. \A m \in {"epilog-remove", "prolog-remove", "raise"} : ~Has(<<"create-fail">>, m)
      BY DEF Has
    <3>4. \A m \in {"epilog-remove", "prolog-remove", "raise"} :
             Has(toJm \o <<"create-fail">>, m) <=> Has(toJm, m)
      BY <1>1, <3>2, <3>3, HasJoin
    <3> HIDE DEF t
    <3> QED BY <2>1, <2>2, <3>1, <3>4 DEF Become, JobEffect, Released
  <2> QED BY <2>4, <2>5
<1>4. CASE run_cb
  <2> DEFINE k == [job EXCEPT !.state = "RUN", !.subs = 2, !.prolog = "active",
                              !.perilogs = job.perilogs + 1, !.fetchR = TRUE]
  <2>1. Become([Current EXCEPT !.job = k]) /\ job.state = "SCHED"
    BY <1>4 DEF run_cb
  <2>2. k.epilogStatus = job.epilogStatus /\ k.state = "RUN" /\ k.prolog = "active"
    BY <1>1 DEF Jobs
  <2> HIDE DEF k
  <2> QED BY <1>1, <2>1, <2>2, JobOnlyEffect DEF BeforeCleanup, Released
<1>5. CASE fetch_R_callback
  <2> DEFINE k == [job EXCEPT !.fetchR = FALSE]
             n == [Current EXCEPT !.job = k]
  <2>1. k \in Jobs /\ Good(k) /\ k.epilogStatus = job.epilogStatus
        /\ k.state = job.state /\ k.prolog = job.prolog
    BY <1>1 DEF Jobs, Good, Mine
  <2>2. \/ Become(Send(n, "setup"))
        \/ Become(dws_prolog_finish(n, FALSE))
    <3>1. [Current EXCEPT !.job.fetchR = FALSE] = n
      BY DEF Current
    <3> QED BY <1>5, <3>1 DEF fetch_R_callback
  <2>3. job.state \notin {"NEW", "DEPEND", "SCHED"}
    BY <1>1, <1>5 DEF fetch_R_callback, Good
  <2> HIDE DEF k
  <2>4. n \in Recs /\ n \in Rec /\ n.job = k /\ n.toSvc = toSvc /\ n.toJm = toJm
    <3>1. n \in Rec /\ n.job = k
      BY <1>2, <2>1, WithJob DEF Rec
    <3> QED BY <1>2, <2>1, <3>1 DEF Recs, GoodRec, Rec, JmRec
  <2> HIDE DEF n
  <2>5. CASE Become(Send(n, "setup"))
    <3> DEFINE t == Send(n, "setup")
    <3>1. "setup" \in SvcMsgs
      BY DEF SvcMsgs
    <3>2. t.job = k /\ Quiet(n, t)
      BY <1>1, <2>4, <3>1, SendQuiet, SendType, Sizes DEF Rec
    <3>3. t.toSvc \in {toSvc, Append(toSvc, "setup")}
      BY <1>1, <2>4 DEF Send, Rec, JmRec
    <3>4. \A m : Has(t.toSvc, m) => Has(toSvc, m) \/ m = "setup"
      BY <1>1, <3>1, <3>3, HasAppend
    <3> HIDE DEF t
    <3> QED BY <2>1, <2>3, <2>4, <2>5, <3>2, <3>4
            DEF t, Become, JobEffect, Quiet, Streams, Released, BeforeCleanup
  <2>6. CASE Become(dws_prolog_finish(n, FALSE))
    <3> DEFINE t == dws_prolog_finish(n, FALSE)
    <3>1. Handled(n, t, "setup-fail")
      BY <1>1, <2>4, PrologFinishHandled DEF JmMsgs
    <3> HIDE DEF t
    <3> QED BY <2>1, <2>3, <2>4, <2>6, <3>1
            DEF t, Become, JobEffect, Handled, Streams, Released
  <2> QED BY <2>2, <2>5, <2>6
<1>6. CASE HandleJmMessage
  <2> DEFINE n == [Current EXCEPT !.toJm = Tail(toJm)]
             msg == Head(toJm)
  <2>1. toJm # <<>> /\ msg \in JmMsgs /\ Tail(toJm) \in Seq(JmMsgs)
    BY <1>1, <1>6 DEF HandleJmMessage
  <2>2. n \in Recs /\ n.job = job /\ n.toSvc = toSvc /\ n.toJm = Tail(toJm)
    BY <1>1, <2>1 DEF Current, Recs, GoodRec, JmRec
  <2>3. \/ Become(Dispatch(n, msg))
        \/ msg = "prolog-remove" /\ Become(prolog_remove_msg_cb(n, FALSE))
    <3>1. [Current EXCEPT !.toJm = Tail(@)] = n
      BY DEF Current
    <3> QED BY <1>6, <3>1 DEF HandleJmMessage
  <2>4. \A m : Has(toJm, m) <=> msg = m \/ Has(Tail(toJm), m)
    BY <1>1, <2>1, HasTail
  <2>5. msg = "prolog-remove" => job.prolog # "unset"
    <3>1. Has(toJm, msg)
      BY <2>4
    <3>2. job.prolog = "unset" => \A i \in DOMAIN toJm : toJm[i] # "prolog-remove"
      BY DEF Inv, UnderWay, EarlyJm
    <3> HIDE DEF msg
    <3> QED BY <3>1, <3>2 DEF Has
  <2> HIDE DEF n, msg
  <2>6. ASSUME NEW t, Handled(n, t, msg), Become(t)
        PROVE  JobEffect
    BY <2>2, <2>4, <2>6 DEF Become, JobEffect, Handled, Streams, Released
  <2>7. Handled(n, Dispatch(n, msg), msg)
    BY <1>1, <2>1, <2>2, <2>5, DispatchHandled
  <2>8. msg = "prolog-remove" => Handled(n, prolog_remove_msg_cb(n, FALSE), msg)
    <3>1. Handled(n, n, msg) \/ msg = "raise"
      BY DEF Handled, Streams
    <3> QED BY <1>1, <2>1, <2>2, <2>5, <3>1, PrologFinishHandled DEF prolog_remove_msg_cb
  <2> QED BY <2>3, <2>6, <2>7, <2>8
<1>7. CASE epilog_timeout_cb
  <2> DEFINE k == [job EXCEPT !.timer = FALSE]
             n == [Current EXCEPT !.job = k]
  <2>1. k \in Jobs /\ Good(k) /\ k.epilogStatus = job.epilogStatus
        /\ k.state = job.state /\ k.prolog = job.prolog
    BY <1>1 DEF Jobs, Good, Mine
  <2>2. Become(IF job.state = "CLEANUP" THEN PostException(n, "dws-epilog-timeout") ELSE n)
    <3>1. [Current EXCEPT !.job.timer = FALSE] = n
      BY DEF Current
    <3> QED BY <1>7, <3>1 DEF epilog_timeout_cb
  <2> HIDE DEF k
  <2>3. n \in Recs /\ n.job = k /\ n.toSvc = toSvc /\ n.toJm = toJm
    <3>1. n \in Rec /\ n.job = k
      BY <1>2, <2>1, WithJob DEF Rec
    <3> QED BY <1>2, <2>1, <3>1 DEF Recs, GoodRec, Rec, JmRec
  <2> HIDE DEF n
  <2>4. Handled(n, PostException(n, "dws-epilog-timeout"), "none")
    BY <1>1, <2>3, ExceptionHandled
  <2>5. Handled(n, n, "none")
    BY DEF Handled, Streams
  <2>6. PICK t : Become(t) /\ Handled(n, t, "none")
    BY <2>2, <2>4, <2>5
  <2> QED BY <2>1, <2>3, <2>6 DEF Become, JobEffect, Handled, Streams, Released
<1>8. CASE OtherException
  <2>1. Handled(Current, PostException(Current, "cancel"), "none")
    BY <1>1, <1>2, ExceptionHandled
  <2>2. Become(PostException(Current, "cancel"))
    BY <1>8 DEF OtherException
  <2> QED BY <1>1, <2>1, <2>2, BecomeEffect
<1>9. CASE StartRequest \/ StartEvent \/ StartAbandoned
  <2>1. PICK e \in {"idle", "pending", "running"} :
          Become([Current EXCEPT !.job.exec = e]) /\ job.state \in {"RUN", "CLEANUP"}
    BY <1>9 DEF StartRequest, StartEvent, StartAbandoned
  <2> DEFINE k == [job EXCEPT !.exec = e]
  <2>2. /\ k.epilogStatus = job.epilogStatus /\ k.state = job.state
        /\ k.prolog = job.prolog
    BY <1>1 DEF Jobs
  <2>3. [Current EXCEPT !.job.exec = e] = [Current EXCEPT !.job = k]
    BY DEF Current
  <2> HIDE DEF k
  <2> QED BY <1>1, <2>1, <2>2, <2>3, JobOnlyEffect DEF Released
<1>12. CASE OtherPerilogStart \/ OtherPerilogFinish
  <2>1. PICK a, n : Become([Current EXCEPT !.job =
                             [job EXCEPT !.others = a, !.perilogs = n]])
    BY <1>12 DEF OtherPerilogStart, OtherPerilogFinish
  <2> DEFINE k == [job EXCEPT !.others = a, !.perilogs = n]
  <2>2. job.state \in {"RUN", "CLEANUP"}
    BY <1>12 DEF OtherPerilogStart, OtherPerilogFinish
  <2>3. /\ k.epilogStatus = job.epilogStatus /\ k.state = job.state
        /\ k.prolog = job.prolog
    BY <1>1 DEF Jobs
  <2> HIDE DEF k
  <2> QED BY <1>1, <2>1, <2>2, <2>3, JobOnlyEffect DEF k, Released
<1>10. CASE FinishEvent
  <2> DEFINE t == PostFinish(Current)
  <2>1. Become(t) /\ job.exec = "running"
    BY <1>10 DEF FinishEvent
  <2>2. job.state \in {"RUN", "CLEANUP"}
    BY <1>1, <2>1 DEF Good
  <2>3. Quiet(Current, t) /\ t.job.state = "CLEANUP"
    BY <1>1, <1>2, <2>2, PostFinishQuiet
  <2> HIDE DEF t
  <2> QED BY <1>2, <2>1, <2>3 DEF Become, JobEffect, Quiet, Streams, BeforeCleanup
<1>11. CASE CleanEvent
  <2> DEFINE k == [job EXCEPT !.state = "INACTIVE", !.timer = FALSE]
  <2>1. k.epilogStatus = job.epilogStatus /\ k.state = "INACTIVE"
    BY <1>1 DEF Jobs
  <2>2. Become([Current EXCEPT !.job = k])
    <3>1. [Current EXCEPT !.job.state = "INACTIVE", !.job.timer = FALSE]
            = [Current EXCEPT !.job = k]
      BY DEF Current
    <3> QED BY <1>11, <3>1 DEF CleanEvent
  <2> HIDE DEF k
  <2> QED BY <1>1, <2>1, <2>2, JobOnlyEffect DEF BeforeCleanup, Released
<1> QED BY <1>3, <1>4, <1>5, <1>6, <1>7, <1>8, <1>9, <1>10, <1>11, <1>12 DEF JobNext

---------------------------------------------------------------------------
(* The service *)

SRec == SvcRec(AllStates, JmMsgs)

(* A Workflow whose teardown was asked for, or which is gone. *)
Asked(w) == w.exists => w.desired = "Teardown"

(* The storage is mounted, or the job is about to hear that it fails. *)
Mounted(w, q) == state_complete(w, "PreRun") \/ Has(q, "raise")

(* What the Workflow x.wf, the service x.svc and the messages x.toJm have   *)
(* to do with each other and with the job.                                  *)
Safe(x) ==
  /\ x.wf.exists /\ ~x.wf.finalizer => x.wf.desired = "Teardown"
  /\ x.svc.doDelete => Asked(x.wf)
  /\ Has(x.toJm, "epilog-remove") \/ job.epilogStatus = "ok" => TornDown(x.wf)
  /\ job.state \in BeforeCleanup =>
       /\ ~x.svc.teardownAfter /\ x.svc.stateTimer # "postrun"
       /\ x.wf.desired \notin {"PostRun", "DataOut"}
       /\ x.svc.doTeardown \/ x.wf.desired = "Teardown" => Has(x.toJm, "raise")
       /\ Has(x.toJm, "prolog-remove") \/ Released(job) => Mounted(x.wf, x.toJm)

(* How old a snapshot may be: what it says about a teardown or mounted      *)
(* storage still holds.                                                     *)
SnapshotOK(w, x) ==
  /\ w.desired = "Teardown" => Asked(x.wf)
  /\ state_complete(w, "Teardown") => TornDown(x.wf)
  /\ job.state \in BeforeCleanup =>
       /\ w.desired \notin {"PostRun", "DataOut"}
       /\ state_complete(w, "PreRun") => Mounted(x.wf, x.toJm)

(* A handler takes x to y: nothing comes back that was torn down, and no    *)
(* storage goes away behind the job's back.                                 *)
Fine(x, y) ==
  /\ y \in SRec /\ Safe(y)
  /\ Asked(x.wf) => Asked(y.wf)
  /\ TornDown(x.wf) => TornDown(y.wf)
  /\ job.state \in BeforeCleanup /\ Mounted(x.wf, x.toJm) => Mounted(y.wf, y.toJm)

LEMMA FineTwice ==
  ASSUME NEW x, NEW y, NEW z, Fine(x, y), Fine(y, z)
  PROVE  Fine(x, z)
BY DEF Fine

LEMMA Fields ==
  ASSUME NEW x \in SRec
  PROVE  /\ x.svc \in Services /\ x.wf \in Workflows /\ x.toJm \in Seq(JmMsgs)
         /\ x.ok \in BOOLEAN
BY DEF SRec, SvcRec, WfIn

(* kill_workflows_in_tc changes the entry only, and only makes a new one.  *)
LEMMA OverdueKeeps ==
  ASSUME NEW x \in SRec
  PROVE  LET y == Overdue(x)
         IN  /\ y \in SRec /\ y.wf = x.wf /\ y.toJm = x.toJm /\ y.ok = x.ok
             /\ y.svc.doTeardown = x.svc.doTeardown /\ y.svc.doDelete = x.svc.doDelete
             /\ y.svc.teardownAfter = x.svc.teardownAfter
             /\ y.svc.stateTimer = x.svc.stateTimer /\ y.svc.toredown = x.svc.toredown
             /\ y.svc.known /\ ~y.svc.revived => x.svc.known /\ ~x.svc.revived
<1> DEFINE g == IF x.svc.tc = "prerun" THEN Get(x) ELSE x
           b == g.svc.revived \/ (g.svc.known /\ ~x.svc.known)
           z == [g.svc EXCEPT !.tc = "none", !.revived = b]
           y == Overdue(x)
<1>1. /\ g \in SRec /\ g.wf = x.wf /\ g.toJm = x.toJm /\ g.ok = x.ok
      /\ g.svc.doTeardown = x.svc.doTeardown /\ g.svc.doDelete = x.svc.doDelete
      /\ g.svc.teardownAfter = x.svc.teardownAfter
      /\ g.svc.stateTimer = x.svc.stateTimer /\ g.svc.toredown = x.svc.toredown
      /\ g.svc.revived = x.svc.revived
  <2>1. Get(x) \in SRec
    BY CacheSteps DEF SRec
  <2> QED BY <2>1, Fields DEF Get, SRec, SvcRec, Services
<1>2. y = [g EXCEPT !.svc = z]
  <2> HIDE DEF g
  <2> QED BY DEF Overdue, g
<1>3. y \in SRec
  BY OverdueType DEF SRec
<1>4. b \in BOOLEAN
  OBVIOUS
<1> HIDE DEF g, y
<1>5. y.svc = z /\ y.wf = g.wf /\ y.toJm = g.toJm /\ y.ok = g.ok
  BY <1>1, <1>2 DEF SRec, SvcRec
<1>6. /\ z.doTeardown = g.svc.doTeardown /\ z.doDelete = g.svc.doDelete
      /\ z.teardownAfter = g.svc.teardownAfter /\ z.stateTimer = g.svc.stateTimer
      /\ z.toredown = g.svc.toredown /\ z.known = g.svc.known /\ z.revived = b
  <2> HIDE DEF b
  <2> QED BY <1>1, <1>4, Fields DEF Services
<1> HIDE DEF z
<1> QED BY <1>1, <1>3, <1>5, <1>6 DEF y

(* Changes of the cache and the timers that start no teardown.             *)
LEMMA SvcFine ==
  ASSUME NEW x \in SRec, Safe(x), NEW y \in SRec,
         y.wf = x.wf, y.toJm = x.toJm,
         y.svc.doDelete => x.svc.doDelete, y.svc.doTeardown => x.svc.doTeardown,
         job.state \in BeforeCleanup => /\ y.svc.teardownAfter => x.svc.teardownAfter
                                       /\ y.svc.stateTimer # "postrun"
  PROVE  Fine(x, y)
BY DEF Fine, Safe

LEMMA SmallFine ==
  ASSUME NEW x \in SRec, Safe(x)
  PROVE  /\ Fine(x, x) /\ Fine(x, Get(x)) /\ Fine(x, Forget(x)) /\ Fine(x, StopTimer(x))
         /\ \A kind \in {"setup", "prerun"} : Fine(x, ArmTimer(x, kind))
         /\ job.state \notin BeforeCleanup => Fine(x, ArmTimer(x, "postrun"))
         /\ \A b \in BOOLEAN : Fine(x, [x EXCEPT !.ok = b])
<1>1. /\ Get(x) \in SRec /\ Forget(x) \in SRec /\ StopTimer(x) \in SRec
      /\ \A kind \in {"setup", "prerun", "postrun"} : ArmTimer(x, kind) \in SRec
      /\ \A b \in BOOLEAN : [x EXCEPT !.ok = b] \in SRec
  BY CacheSteps, WithSvc DEF SRec
<1>2. Fine(x, x)
  BY DEF Fine
<1>3. Fine(x, Get(x))
  <2>1. /\ Get(x).wf = x.wf /\ Get(x).toJm = x.toJm
        /\ Get(x).svc.doDelete = x.svc.doDelete /\ Get(x).svc.doTeardown = x.svc.doTeardown
        /\ Get(x).svc.teardownAfter = x.svc.teardownAfter
        /\ Get(x).svc.stateTimer = x.svc.stateTimer
    BY Fields DEF Get, SRec, SvcRec, Services
  <2> HIDE DEF Get
  <2> QED BY <1>1, <2>1, SvcFine DEF Safe
<1>4. Fine(x, Forget(x))
  <2>1. /\ Forget(x).wf = x.wf /\ Forget(x).toJm = x.toJm
        /\ Forget(x).svc.doDelete = x.svc.doDelete
        /\ Forget(x).svc.doTeardown = x.svc.doTeardown
        /\ Forget(x).svc.teardownAfter = x.svc.teardownAfter
        /\ Forget(x).svc.stateTimer = x.svc.stateTimer
    BY Fields DEF Forget, SRec, SvcRec, Services
  <2> QED BY <1>1, <2>1, SvcFine DEF Safe
<1>5. Fine(x, StopTimer(x))
  <2>1. /\ StopTimer(x).wf = x.wf /\ StopTimer(x).toJm = x.toJm
        /\ StopTimer(x).svc.doDelete = x.svc.doDelete
        /\ StopTimer(x).svc.doTeardown = x.svc.doTeardown
        /\ StopTimer(x).svc.teardownAfter = x.svc.teardownAfter
        /\ StopTimer(x).svc.stateTimer = "none"
    BY Fields DEF StopTimer, SRec, SvcRec, Services
  <2> QED BY <1>1, <2>1, SvcFine
<1>6. ASSUME NEW kind \in {"setup", "prerun", "postrun"},
             kind = "postrun" => job.state \notin BeforeCleanup
      PROVE  Fine(x, ArmTimer(x, kind))
  <2> DEFINE y == [x EXCEPT !.svc.stateTimer = kind]
  <2>1. /\ y.wf = x.wf /\ y.toJm = x.toJm /\ y.svc.doDelete = x.svc.doDelete
        /\ y.svc.doTeardown = x.svc.doTeardown
        /\ y.svc.teardownAfter = x.svc.teardownAfter /\ y.svc.stateTimer = kind
    BY Fields DEF SRec, SvcRec, Services
  <2>2. ArmTimer(x, kind) \in {x, y}
    BY DEF ArmTimer
  <2> HIDE DEF y
  <2>3. ArmTimer(x, kind) = y => Fine(x, ArmTimer(x, kind))
    BY <1>1, <1>6, <2>1, SvcFine
  <2> QED BY <1>2, <2>2, <2>3
<1>7. ASSUME NEW b \in BOOLEAN PROVE Fine(x, [x EXCEPT !.ok = b])
  <2> DEFINE y == [x EXCEPT !.ok = b]
  <2>1. y.wf = x.wf /\ y.toJm = x.toJm /\ y.svc = x.svc
    BY DEF SRec, SvcRec
  <2>2. y \in SRec
    BY <1>1
  <2> HIDE DEF y
  <2>3. Fine(x, y)
    BY <2>1, <2>2, SvcFine DEF Safe
  <2> QED BY <2>3 DEF y
<1> QED BY <1>2, <1>3, <1>4, <1>5, <1>6, <1>7

(* What the service may tell the plugin, and when.                         *)
LEMMA TellFine ==
  ASSUME NEW x \in SRec, Safe(x), NEW m \in JmMsgs,
         m = "epilog-remove" => TornDown(x.wf),
         m = "prolog-remove" /\ job.state \in BeforeCleanup => Mounted(x.wf, x.toJm)
  PROVE  Fine(x, Tell(x, m))
<1> DEFINE y == Tell(x, m)
<1>1. y \in SRec
  BY WithSvc DEF SRec
<1>2. y.wf = x.wf /\ y.svc = x.svc /\ y.toJm = Append(x.toJm, m)
  BY DEF Tell, SRec, SvcRec
<1>3. \A n : Has(y.toJm, n) <=> Has(x.toJm, n) \/ m = n
  BY <1>2, Fields, HasAppend
<1> HIDE DEF y
<1> QED BY <1>1, <1>2, <1>3 DEF Fine, Safe, Mounted, y

LEMMA RaiseFine ==
  ASSUME NEW x \in SRec, Safe(x)
  PROVE  Fine(x, Raise(x))
BY TellFine DEF Raise, JmMsgs

(* A teardown of a job that is in CLEANUP or will be.                      *)
LEMMA TeardownFine ==
  ASSUME NEW x \in SRec, Safe(x)
  PROVE  /\ job.state \notin BeforeCleanup => Fine(x, move_to_teardown(x))
         /\ Fine(x, Raise(move_to_teardown(x)))
<1> DEFINE y == move_to_teardown(x)
           z == Raise(y)
<1>1. y \in SRec
  BY CacheSteps DEF SRec
<1>2. /\ y.wf = x.wf /\ y.toJm = x.toJm /\ y.svc.doDelete = x.svc.doDelete
      /\ y.svc.teardownAfter = x.svc.teardownAfter /\ y.svc.stateTimer = "none"
  BY Fields DEF move_to_teardown, StopTimer, SRec, SvcRec, Services
<1> HIDE DEF y
<1>3. z \in SRec
  BY <1>1, WithSvc DEF Raise, SRec, JmMsgs
<1>4. z.wf = x.wf /\ z.svc = y.svc /\ z.toJm = Append(x.toJm, "raise")
  BY <1>1, <1>2 DEF Raise, Tell, SRec, SvcRec
<1>5. \A n : Has(z.toJm, n) <=> Has(x.toJm, n) \/ "raise" = n
  BY <1>4, Fields, HasAppend DEF JmMsgs
<1> HIDE DEF z
<1>6. job.state \notin BeforeCleanup => Fine(x, y)
  BY <1>1, <1>2 DEF Fine, Safe
<1>7. Fine(x, z)
  BY <1>2, <1>3, <1>4, <1>5 DEF Fine, Safe, Mounted
<1> QED BY <1>6, <1>7 DEF y, z

(* The webhook accepts a new desired state only from the one before it.    *)
LEMMA MoveFine ==
  ASSUME StrictWebhook, NEW x \in SRec, Safe(x), NEW outcome,
         NEW state \in {"Setup", "DataIn", "PreRun", "PostRun", "DataOut"},
         job.state \in BeforeCleanup => state \in {"Setup", "DataIn", "PreRun"}
  PROVE  Fine(x, move_desiredstate(x, state, outcome))
<1> DEFINE t == StopTimer(x)
           y == move_desiredstate(x, state, outcome)
           b == (outcome # "late")
           v == [t EXCEPT !.wf.desired = state, !.ok = b]
<1>1. t \in SRec /\ Safe(t) /\ Fine(x, t) /\ Fine(t, [t EXCEPT !.ok = FALSE])
  <2>1. Fine(x, t)
    BY SmallFine
  <2>2. t \in SRec /\ Safe(t)
    BY <2>1 DEF Fine
  <2> HIDE DEF t
  <2> QED BY <2>1, <2>2, SmallFine
<1>2. y \in SRec /\ t.wf = x.wf
  <2>1. state \in AllStates
    BY DEF AllStates, WorkflowStates
  <2> QED BY <2>1, MoveSteps, Sizes DEF SRec, StopTimer, SvcRec
<1>3. CASE outcome = "fault" \/ ~PatchAccepted(x.wf, state)
  <2>1. y = [t EXCEPT !.ok = FALSE]
    BY <1>3 DEF move_desiredstate
  <2> HIDE DEF t
  <2> QED BY <1>1, <2>1, FineTwice
<1>4. CASE ~(outcome = "fault" \/ ~PatchAccepted(x.wf, state))
  <2>1. y = v
    BY <1>4 DEF move_desiredstate
  <2> HIDE DEF t, b
  <2>2. v.svc = t.svc /\ v.toJm = t.toJm /\ v.wf = [t.wf EXCEPT !.desired = state]
    BY <1>1 DEF SRec, SvcRec
  <2>3. t.wf \in Workflows
    BY <1>1, Fields
  <2>4. /\ v.wf.desired = state /\ v.wf.exists = t.wf.exists
        /\ v.wf.finalizer = t.wf.finalizer /\ v.wf.state = t.wf.state
        /\ v.wf.ready = t.wf.ready
    BY <2>2, <2>3 DEF Workflows
  <2> HIDE DEF v
  <2>5. CASE state = t.wf.desired
    BY <1>1, <1>2, <2>1, <2>2, <2>4, <2>5
       DEF Fine, Safe, Asked, TornDown, Mounted, state_complete, state_active
  <2>6. CASE state # t.wf.desired
    <3>1. /\ t.wf.exists /\ t.wf.desired # "Teardown"
          /\ state_complete(t.wf, t.wf.desired) /\ state = NextState[t.wf.desired]
      BY <1>2, <1>4, <2>6 DEF PatchAccepted
    <3>2. t.wf.desired = "PreRun" => state = "PostRun"
      BY <3>1 DEF NextState, WorkflowStates
    <3>3. ~Asked(t.wf) /\ ~TornDown(t.wf)
      BY <3>1 DEF Asked, TornDown, state_complete, state_active
    <3>4. job.state \in BeforeCleanup => t.wf.desired # "PreRun"
      BY <3>2
    <3> HIDE DEF y
    <3>5. Safe(y)
      BY <1>1, <2>1, <2>2, <2>4, <3>1, <3>3, <3>4
         DEF Safe, Mounted, state_complete, state_active
    <3>6. job.state \in BeforeCleanup /\ Mounted(t.wf, t.toJm) => Mounted(y.wf, y.toJm)
      BY <2>1, <2>2, <3>4 DEF Mounted, state_complete, state_active
    <3>7. Fine(t, y)
      BY <1>2, <3>3, <3>5, <3>6 DEF Fine
    <3> QED BY <1>1, <3>7, FineTwice DEF y
  <2> QED BY <2>5, <2>6
<1> QED BY <1>3, <1>4

(* A teardown on behalf of a job in CLEANUP; if there is no Workflow, its  *)
(* epilog is over.                                                         *)
LEMMA CheckFine ==
  ASSUME NEW x \in SRec, Safe(x), NEW outcome, job.state \notin BeforeCleanup
  PROVE  Fine(x, check_existence_and_move_to_teardown(x, outcome))
<1>1. Fine(x, [x EXCEPT !.ok = FALSE]) /\ Fine(x, move_to_teardown(x)) /\ Fine(x, Forget(x))
  BY SmallFine, TeardownFine
<1>2. ~x.wf.exists => Fine(x, Tell(Forget(x), "epilog-remove"))
  <2> DEFINE f == Forget(x)
  <2>1. f \in SRec /\ Safe(f) /\ f.wf = x.wf
    BY <1>1 DEF Fine, Forget, SRec, SvcRec
  <2>2. Fine(x, f)
    BY <1>1
  <2> HIDE DEF f
  <2>3. ~x.wf.exists => Fine(f, Tell(f, "epilog-remove"))
    BY <2>1, TellFine DEF JmMsgs, TornDown
  <2>4. ~x.wf.exists => Fine(x, Tell(f, "epilog-remove"))
    BY <2>2, <2>3, FineTwice
  <2> QED BY <2>4 DEF f
<1> QED BY <1>1, <1>2 DEF check_existence_and_move_to_teardown

(* The finalizer is removed when Teardown was asked for.                   *)
LEMMA FinalizerFine ==
  ASSUME NEW x \in SRec, Safe(x), NEW w, Asked(x.wf), NEW outcome
  PROVE  Fine(x, remove_finalizer(x, w, outcome))
<1> DEFINE y == [x EXCEPT !.wf.finalizer = FALSE]
<1>1. remove_finalizer(x, w, outcome) \in SRec
  BY MoveSteps, Sizes DEF SRec
<1>2. /\ y.svc = x.svc /\ y.toJm = x.toJm /\ y.wf.exists = x.wf.exists
      /\ y.wf.desired = x.wf.desired /\ y.wf.state = x.wf.state /\ y.wf.ready = x.wf.ready
  BY Fields DEF SRec, SvcRec, Workflows
<1>3. remove_finalizer(x, w, outcome) \in {x, y, [x EXCEPT !.ok = FALSE]}
  BY DEF remove_finalizer
<1> HIDE DEF y
<1>4. remove_finalizer(x, w, outcome) = y => Fine(x, y)
  BY <1>1, <1>2 DEF Fine, Safe, Asked, TornDown, Mounted, state_complete, state_active
<1> QED BY <1>3, <1>4, SmallFine

(* A completed Teardown: the epilog is released and the deletion begins.   *)
LEMMA CompleteFine ==
  ASSUME NEW x \in SRec, Safe(x), TornDown(x.wf), NEW outcome
  PROVE  Fine(x, TeardownComplete(x, outcome))
<1> DEFINE t == IF x.svc.epilogRemoved THEN x ELSE Tell(x, "epilog-remove")
           y == [t EXCEPT !.svc.doDelete = TRUE, !.svc.deleted = TRUE]
<1>1. Fine(x, t)
  BY SmallFine, TellFine DEF JmMsgs
<1>2. t \in SRec /\ Safe(t) /\ TornDown(t.wf)
  BY <1>1 DEF Fine
<1>3. TeardownComplete(x, outcome) = IF outcome # "ok" THEN [t EXCEPT !.ok = FALSE] ELSE y
  BY DEF TeardownComplete
<1> HIDE DEF t
<1>4. Fine(t, [t EXCEPT !.ok = FALSE])
  BY <1>2, SmallFine
<1>5. Fine(t, y)
  <2> DEFINE z == [t.svc EXCEPT !.doDelete = TRUE, !.deleted = TRUE]
  <2>1. y = [t EXCEPT !.svc = z]
    BY <1>2 DEF SRec, SvcRec
  <2>2. /\ z \in Services /\ z.doTeardown = t.svc.doTeardown
        /\ z.teardownAfter = t.svc.teardownAfter /\ z.stateTimer = t.svc.stateTimer
    BY <1>2, Fields DEF Services
  <2> HIDE DEF z
  <2>3. y \in SRec /\ y.wf = t.wf /\ y.toJm = t.toJm /\ y.svc = z
    BY <1>2, <2>1, <2>2 DEF SRec, SvcRec
  <2>4. Asked(t.wf)
    BY <1>2 DEF TornDown, Asked, state_complete, state_active
  <2> HIDE DEF y
  <2> QED BY <1>2, <2>2, <2>3, <2>4 DEF Fine, Safe
<1> QED BY <1>1, <1>3, <1>4, <1>5, FineTwice

(* The branches of the watch callback on a snapshot that is not too old.   *)
LEMMA StateChangeFine ==
  ASSUME StrictWebhook, NEW x \in SRec, Safe(x), NEW w, SnapshotOK(w, x), NEW outcome
  PROVE  Fine(x, StateChange(x, w, outcome))
<1>1. /\ Fine(x, x) /\ Fine(x, [x EXCEPT !.ok = FALSE])
      /\ \A state \in {"DataIn", "PreRun"} : Fine(x, move_desiredstate(x, state, outcome))
  BY SmallFine, MoveFine
<1>2. state_complete(w, "Teardown") => Fine(x, TeardownComplete(x, outcome))
  BY CompleteFine DEF SnapshotOK
<1>3. state_active(w, "Teardown") => Fine(x, remove_finalizer(x, w, outcome))
  BY FinalizerFine DEF SnapshotOK, state_active
<1>4. Fine(x, handle_proposal_state(x, outcome))
  BY <1>1, TellFine DEF handle_proposal_state, JmMsgs
<1>5. Fine(x, ArmTimer(move_desiredstate(x, "PreRun", outcome), "prerun"))
  <2> DEFINE y == move_desiredstate(x, "PreRun", outcome)
  <2>1. Fine(x, y) /\ y \in SRec /\ Safe(y)
    BY <1>1 DEF Fine
  <2> HIDE DEF y
  <2>2. Fine(y, ArmTimer(y, "prerun"))
    BY <2>1, SmallFine
  <2>3. Fine(x, ArmTimer(y, "prerun"))
    BY <2>1, <2>2, FineTwice
  <2> QED BY <2>3 DEF y
<1>6. state_complete(w, "PreRun") => Fine(x, StopTimer(Tell(x, "prolog-remove")))
  <2> DEFINE y == Tell(x, "prolog-remove")
  <2> SUFFICES ASSUME state_complete(w, "PreRun") PROVE Fine(x, StopTimer(y))
    OBVIOUS
  <2>1. Fine(x, y)
    BY TellFine DEF JmMsgs, SnapshotOK
  <2> HIDE DEF y
  <2>2. Fine(y, StopTimer(y))
    BY <2>1, SmallFine DEF Fine
  <2> QED BY <2>1, <2>2, FineTwice
<1>7. /\ state_complete(w, "PostRun") => Fine(x, move_desiredstate(x, "DataOut", outcome))
      /\ state_complete(w, "DataOut") => Fine(x, move_to_teardown(x))
  <2>1. state_complete(w, "PostRun") \/ state_complete(w, "DataOut")
          => job.state \notin BeforeCleanup
    BY DEF SnapshotOK, state_complete, state_active
  <2> QED BY <2>1, MoveFine, TeardownFine
<1> QED BY <1>1, <1>2, <1>3, <1>4, <1>5, <1>6, <1>7 DEF StateChange

(* workflow_state_change_cb: whatever it gets wrong ends in a teardown that *)
(* the job is told of.                                                      *)
LEMMA WatchFine ==
  ASSUME StrictWebhook, NEW x \in SRec, Safe(x), NEW w, SnapshotOK(w, x), NEW outcome
  PROVE  Fine(x, workflow_state_change_cb(x, w, outcome))
<1> DEFINE g == Get(x)
           c == StateChange(g, w, outcome)
           t == workflow_state_change_cb_inner(g, w, outcome)
<1>1. Fine(x, g) /\ g \in SRec /\ Safe(g) /\ Fine(x, Forget(x))
  BY SmallFine DEF Fine
<1>2. SnapshotOK(w, g)
  BY DEF SnapshotOK, Get, SRec, SvcRec
<1>3. t = IF Ignored(g, w) THEN g ELSE IF c.ok THEN handle_workflow_errors(c, w) ELSE c
  BY DEF workflow_state_change_cb_inner
<1>4. workflow_state_change_cb(x, w, outcome)
        \in {Forget(x), t, Raise(move_to_teardown(t))}
  BY DEF workflow_state_change_cb
<1> HIDE DEF g
<1>5. Fine(x, c) /\ c \in SRec /\ Safe(c)
  <2>1. Fine(g, c)
    BY <1>1, <1>2, StateChangeFine
  <2> HIDE DEF c
  <2> QED BY <1>1, <2>1, FineTwice DEF Fine
<1> HIDE DEF c
<1>6. Fine(c, handle_workflow_errors(c, w))
  <2> DEFINE b == Condition(w)
             y == [c EXCEPT !.svc.tc = b]
             z == [c.svc EXCEPT !.tc = b]
  <2>1. y = [c EXCEPT !.svc = z]
    BY <1>5 DEF SRec, SvcRec
  <2>2. /\ z \in Services /\ z.doTeardown = c.svc.doTeardown /\ z.doDelete = c.svc.doDelete
        /\ z.teardownAfter = c.svc.teardownAfter /\ z.stateTimer = c.svc.stateTimer
    <3>1. b \in {"none", "prerun", "other"}
      BY DEF Condition
    <3> HIDE DEF b
    <3> QED BY <1>5, <3>1, Fields DEF Services
  <2> HIDE DEF z
  <2>3. y \in SRec /\ y.wf = c.wf /\ y.toJm = c.toJm /\ y.svc = z
    BY <1>5, <2>1, <2>2 DEF SRec, SvcRec
  <2>4. handle_workflow_errors(c, w) \in {Raise(c), y}
    BY DEF handle_workflow_errors
  <2> HIDE DEF y
  <2>5. Fine(c, y)
    BY <1>5, <2>2, <2>3, SvcFine DEF Safe
  <2> QED BY <1>5, <2>4, <2>5, RaiseFine
<1>7. Fine(x, t) /\ t \in SRec /\ Safe(t)
  <2>1. Fine(x, handle_workflow_errors(c, w))
    BY <1>5, <1>6, FineTwice
  <2> QED BY <1>1, <1>3, <1>5, <2>1 DEF Fine
<1> HIDE DEF t
<1>8. Fine(x, Raise(move_to_teardown(t)))
  BY <1>7, TeardownFine, FineTwice
<1> QED BY <1>1, <1>4, <1>7, <1>8

(* A request of the plugin, or the failure response to it.  Before CLEANUP  *)
(* only dws.setup can come (dws.create is treated apart).                   *)
LEMMA RpcFine ==
  ASSUME StrictWebhook, NEW x \in SRec, Safe(x), NEW outcome, NEW msg \in SvcMsgs,
         msg # "create", job.state \in BeforeCleanup => msg = "setup"
  PROVE  LET s == Rpc(x, msg, outcome)
         IN  Fine(x, IF s.ok THEN s ELSE [s EXCEPT !.toJm = @ \o FailureOf(msg)])
<1>1. Fine(x, Get(x)) /\ Fine(x, x) /\ Fine(x, [x EXCEPT !.ok = FALSE])
  BY SmallFine
<1>2. Get(x) \in SRec /\ Safe(Get(x))
  BY <1>1 DEF Fine
<1>3. Fine(x, setup_cb(x, outcome))
  <2> DEFINE g == Get(x)
             y == move_desiredstate(g, "Setup", outcome)
  <2>0. g \in SRec /\ Safe(g) /\ Fine(x, g)
    BY <1>1, <1>2
  <2>1. setup_cb(x, outcome) \in {[x EXCEPT !.ok = FALSE], ArmTimer(y, "setup")}
    BY DEF setup_cb
  <2> HIDE DEF g
  <2>2. Fine(g, y)
    BY <2>0, MoveFine
  <2> HIDE DEF y
  <2>3. Fine(x, y) /\ y \in SRec /\ Safe(y)
    BY <2>0, <2>2, FineTwice DEF Fine
  <2>4. Fine(y, ArmTimer(y, "setup"))
    BY <2>3, SmallFine
  <2>5. Fine(x, ArmTimer(y, "setup"))
    BY <2>3, <2>4, FineTwice
  <2> QED BY <1>1, <2>1, <2>5
<1>4. ASSUME job.state \notin BeforeCleanup
      PROVE  Fine(x, check_existence_and_move_to_teardown(Get(x), outcome))
  <2> HIDE DEF Get
  <2>1. Fine(Get(x), check_existence_and_move_to_teardown(Get(x), outcome))
    BY <1>2, <1>4, CheckFine
  <2> QED BY <1>1, <2>1, FineTwice
<1>5. ASSUME job.state \notin BeforeCleanup
      PROVE  Fine(x, post_run_cb(x, TRUE, outcome))
  <2> DEFINE g == Get(x)
             t == move_desiredstate(g, "PostRun", outcome)
             b == t.svc.teardownAfter \/ (t.ok /\ "teardown_after" \in Timers)
             y == [t EXCEPT !.svc.teardownAfter = @ \/ (t.ok /\ "teardown_after" \in Timers)]
             z == [t.svc EXCEPT !.teardownAfter = b]
  <2>0. g \in SRec /\ Safe(g) /\ Fine(x, g)
    BY <1>1, <1>2
  <2>1. post_run_cb(x, TRUE, outcome) = IF x.svc.toredown THEN x ELSE ArmTimer(y, "postrun")
    BY DEF post_run_cb
  <2> HIDE DEF g
  <2>2. Fine(g, t)
    BY <2>0, <1>5, MoveFine
  <2> HIDE DEF t
  <2>3. Fine(x, t) /\ t \in SRec /\ Safe(t)
    BY <2>0, <2>2, FineTwice DEF Fine
  <2>4. b \in BOOLEAN /\ y = [t EXCEPT !.svc = z]
    BY <2>3, Fields DEF SRec, SvcRec, Services
  <2> HIDE DEF b
  <2>5. /\ z \in Services /\ z.doTeardown = t.svc.doTeardown /\ z.doDelete = t.svc.doDelete
        /\ z.stateTimer = t.svc.stateTimer
    BY <2>3, <2>4, Fields DEF Services
  <2> HIDE DEF z
  <2>6. y \in SRec /\ y.wf = t.wf /\ y.toJm = t.toJm /\ y.svc = z
    BY <2>3, <2>4, <2>5 DEF SRec, SvcRec
  <2> HIDE DEF y
  <2>7. Fine(t, y)
    BY <1>5, <2>3, <2>5, <2>6, SvcFine
  <2>8. Fine(y, ArmTimer(y, "postrun"))
    BY <1>5, <2>7, SmallFine DEF Fine
  <2>9. Fine(x, ArmTimer(y, "postrun"))
    BY <2>3, <2>7, <2>8, FineTwice
  <2> QED BY <1>1, <2>1, <2>9
<1>6. ASSUME job.state \notin BeforeCleanup
      PROVE  Fine(x, abort_cb(x, outcome))
  <2> DEFINE g == Get(x)
             t == [g EXCEPT !.svc.epilogRemoved = TRUE]
             z == [g.svc EXCEPT !.epilogRemoved = TRUE]
  <2>0. g \in SRec /\ Safe(g) /\ Fine(x, g)
    BY <1>1, <1>2
  <2>1. abort_cb(x, outcome) = IF x.svc.toredown THEN t
                               ELSE check_existence_and_move_to_teardown(t, outcome)
    BY DEF abort_cb
  <2> HIDE DEF g
  <2>2. t = [g EXCEPT !.svc = z]
    BY <2>0 DEF SRec, SvcRec
  <2>3. /\ z \in Services /\ z.doTeardown = g.svc.doTeardown /\ z.doDelete = g.svc.doDelete
    BY <2>0, Fields DEF Services
  <2> HIDE DEF z
  <2>4. t \in SRec /\ t.wf = g.wf /\ t.toJm = g.toJm /\ t.svc = z
    BY <2>0, <2>2, <2>3 DEF SRec, SvcRec
  <2> HIDE DEF t
  <2>5. Fine(g, t)
    BY <1>6, <2>0, <2>3, <2>4, SvcFine
  <2>6. Fine(x, t) /\ Safe(t)
    BY <2>0, <2>5, FineTwice DEF Fine
  <2>7. Fine(t, check_existence_and_move_to_teardown(t, outcome))
    BY <1>6, <2>4, <2>6, CheckFine
  <2>8. Fine(x, check_existence_and_move_to_teardown(t, outcome))
    BY <2>6, <2>7, FineTwice
  <2> QED BY <2>1, <2>6, <2>8
<1>7. Fine(x, Rpc(x, msg, outcome))
  <2>1. CASE msg = "setup"
    BY <1>3, <2>1 DEF Rpc
  <2>2. CASE msg = "post_run_0"
    BY <1>1, <1>4, <2>2 DEF Rpc, post_run_cb
  <2>3. CASE msg = "post_run_1"
    BY <1>5, <2>3 DEF Rpc
  <2>4. CASE msg = "teardown"
    BY <1>1, <1>4, <2>4 DEF Rpc, teardown_cb
  <2>5. CASE msg = "abort"
    BY <1>6, <2>5 DEF Rpc
  <2> QED BY <2>1, <2>2, <2>3, <2>4, <2>5 DEF SvcMsgs
<1> DEFINE s == Rpc(x, msg, outcome)
           p == FailureOf(msg)
           f == [s EXCEPT !.toJm = @ \o p]
<1>8. s \in SRec /\ Safe(s) /\ Fine(x, s)
  BY <1>7 DEF Fine
<1>9. p \in Seq(JmMsgs)
  BY FailureType, Sizes
<1>10. \A m \in {"epilog-remove", "prolog-remove", "raise"} : ~Has(p, m)
  <2>1. p \in {<<>>, <<"create-fail">>, <<"setup-fail">>, <<"post_run-fail">>}
    BY DEF FailureOf
  <2> HIDE DEF p
  <2> QED BY <2>1 DEF Has
<1> HIDE DEF s, p
<1>11. f \in SRec /\ f.svc = s.svc /\ f.wf = s.wf /\ f.toJm = s.toJm \o p
  <2>1. s.toJm \o p \in Seq(JmMsgs)
    BY <1>8, <1>9, Fields
  <2> QED BY <1>8, <2>1 DEF SRec, SvcRec
<1>12. \A m \in {"epilog-remove", "prolog-remove", "raise"} :
         Has(f.toJm, m) <=> Has(s.toJm, m)
  BY <1>8, <1>9, <1>10, <1>11, Fields, HasJoin
<1> HIDE DEF f
<1>13. Fine(s, f)
  BY <1>8, <1>11, <1>12 DEF Fine, Safe, Mounted
<1>14. Fine(x, IF s.ok THEN s ELSE f)
  BY <1>8, <1>13, FineTwice
<1> QED BY <1>14 DEF s, p, f

---------------------------------------------------------------------------
(* The invariant *)

(* dws.create has not been handled. *)
Unborn == job.state = "NEW" \/ Has(toSvc, "create")

StorageInv ==
  /\ First(toSvc) /\ (job.state = "NEW" => toSvc = <<>>)
  /\ Unborn => /\ wf = NoWorkflow /\ events = <<>> /\ svc = FreshService
               /\ ~Has(toJm, "epilog-remove") /\ job.epilogStatus # "ok"
  /\ Safe(Now)
  /\ \A i \in DOMAIN events : SnapshotOK(events[i], Now)
  /\ job.state \in BeforeCleanup =>
       \A m \in SvcMsgs : Has(toSvc, m) => m \in {"create", "setup"}

(* No Workflow, no messages, a service that knows of nothing.              *)
LEMMA InitStorage == Init => StorageInv
<1> SUFFICES ASSUME Init PROVE StorageInv
  OBVIOUS
<1>1. /\ toSvc = <<>> /\ toJm = <<>> /\ events = <<>> /\ wf = NoWorkflow
      /\ svc = FreshService /\ job.state = "NEW" /\ job.epilogStatus = "none"
  BY DEF Init, EnvInit, JobInit, SvcInit
<1>2. /\ \A m : ~Has(<<>>, m)
      /\ First(<<>>)
  BY DEF Has, First
<1>3. Safe(Now)
  BY <1>1, <1>2 DEF Safe, Now, FreshService, NoWorkflow, BeforeCleanup
<1> QED BY <1>1, <1>2, <1>3 DEF StorageInv, Unborn, BeforeCleanup

(* A step of the plugin or the job manager.                                *)
LEMMA JobNextStorage ==
  ASSUME Inv, StorageInv, JobNext, UNCHANGED svc
  PROVE  StorageInv'
<1>1. JobEffect
  BY JobNextEffect
<1>2. UNCHANGED <<wf, events, svc>>
  BY <1>1 DEF JobEffect
<1>3. First(toSvc)' /\ (job'.state = "NEW" => toSvc' = <<>>)
  BY <1>1 DEF JobEffect, StorageInv, First
<1>4. Unborn' => Unborn
  BY <1>1 DEF JobEffect, Unborn, Has
<1>5. Unborn' => /\ wf' = NoWorkflow /\ events' = <<>> /\ svc' = FreshService
                 /\ ~Has(toJm', "epilog-remove") /\ job'.epilogStatus # "ok"
  BY <1>1, <1>2, <1>4 DEF StorageInv, JobEffect
<1>6. job.state = "NEW" =>
        /\ svc = FreshService /\ wf = NoWorkflow /\ events = <<>> /\ toSvc = <<>>
        /\ ~Has(toJm, "prolog-remove")
  <2>1. job.state = "NEW" => "prolog-remove" \notin EarlyJm /\ toJm \in Seq(EarlyJm)
    BY DEF Inv, Good, UnderWay, EarlyJm
  <2>2. job.state = "NEW" => ~Has(toJm, "prolog-remove")
    BY <2>1 DEF Has
  <2> QED BY <2>2 DEF StorageInv, Unborn
<1>7. Safe(Now)'
  <2>1. /\ wf.exists /\ ~wf.finalizer => wf.desired = "Teardown"
        /\ svc.doDelete => Asked(wf)
    BY DEF StorageInv, Safe, Now
  <2>2. Has(toJm', "epilog-remove") \/ job'.epilogStatus = "ok" => TornDown(wf)
    BY <1>1 DEF StorageInv, Safe, Now, JobEffect
  <2>3. ASSUME job'.state \in BeforeCleanup
        PROVE  /\ ~svc.teardownAfter /\ svc.stateTimer # "postrun"
               /\ wf.desired \notin {"PostRun", "DataOut"}
               /\ svc.doTeardown \/ wf.desired = "Teardown" => Has(toJm', "raise")
               /\ Has(toJm', "prolog-remove") \/ Released(job') => Mounted(wf, toJm')
    <3>1. CASE job.state = "NEW"
      BY <1>1, <1>6, <2>3, <3>1 DEF JobEffect, Released, FreshService, NoWorkflow
    <3>2. CASE job.state \in BeforeCleanup
      <4>1. job.state # "NEW"
        BY <3>2 DEF BeforeCleanup
      <4> QED BY <1>1, <2>3, <3>2, <4>1 DEF JobEffect, StorageInv, Safe, Now, Mounted
    <3> QED BY <1>1, <2>3, <3>1, <3>2 DEF JobEffect
  <2> QED BY <1>2, <2>1, <2>2, <2>3
          DEF Safe, Now, Asked, TornDown, Mounted, Released, Has, state_complete, state_active
<1>8. ASSUME NEW i \in DOMAIN events
      PROVE  SnapshotOK(events[i], Now)'
  <2>1. SnapshotOK(events[i], Now)
    BY DEF StorageInv
  <2>2. ASSUME job'.state \in BeforeCleanup
        PROVE  /\ job.state \in BeforeCleanup
               /\ Mounted(wf, toJm) => Mounted(wf, toJm')
    <3>1. job.state # "NEW"
      BY <1>6
    <3> QED BY <1>1, <2>2, <3>1 DEF JobEffect, Mounted
  <2> QED BY <1>2, <2>1, <2>2
          DEF SnapshotOK, Now, Asked, TornDown, Mounted, Has, state_complete, state_active
<1>9. ASSUME job'.state \in BeforeCleanup, NEW m \in SvcMsgs, Has(toSvc', m)
      PROVE  m \in {"create", "setup"}
  <2>1. CASE job.state = "NEW"
    <3>1. ~Has(toSvc, m)
      BY <1>6, <2>1 DEF Has
    <3> QED BY <1>1, <1>9, <3>1 DEF JobEffect
  <2>2. CASE job.state \in BeforeCleanup
    BY <1>1, <1>9, <2>2 DEF JobEffect, StorageInv
  <2> QED BY <1>1, <1>9, <2>1, <2>2 DEF JobEffect
<1> QED BY <1>2, <1>3, <1>5, <1>7, <1>8, <1>9 DEF StorageInv, First, Has, Now

(* A write of the service or of the controller: the snapshot of what was    *)
(* written is as good as the Workflow itself.                               *)
LEMMA PutStorage ==
  ASSUME Inv, StorageInv, UNCHANGED job, NEW y \in SRec, Safe(y),
         NEW queue \in Seq(Workflows), Put(y, queue),
         \A i \in DOMAIN queue : SnapshotOK(queue[i], y),
         toSvc' = toSvc \/ (toSvc # <<>> /\ toSvc' = Tail(toSvc)),
         job.state # "NEW", ~Has(toSvc', "create")
  PROVE  StorageInv'
<1>1. /\ svc' = y.svc /\ wf' = y.wf /\ toJm' = y.toJm /\ job' = job
      /\ toSvc \in Seq(SvcMsgs) /\ y.wf \in Workflows
  BY Fields DEF Put, Inv, TypeOK, EnvTypeOK
<1>2. First(toSvc)' /\ \A m : Has(toSvc', m) => Has(toSvc, m)
  <2>1. CASE toSvc' = toSvc
    BY <2>1 DEF StorageInv, First
  <2>2. CASE toSvc # <<>> /\ toSvc' = Tail(toSvc)
    <3>1. First(Tail(toSvc)) /\ \A m : Has(Tail(toSvc), m) => Has(toSvc, m)
      BY <1>1, <2>2, FirstTail, HasTail DEF StorageInv
    <3> QED BY <2>2, <3>1 DEF First
  <2> QED BY <2>1, <2>2
<1>3. Safe(Now)'
  BY <1>1 DEF Safe, Now, Asked, TornDown, Mounted, Released, Has, state_complete, state_active
<1>4. SnapshotOK(y.wf, y)
  BY DEF Safe, SnapshotOK, Asked, TornDown, Mounted, state_complete, state_active
<1>5. \A i \in DOMAIN events' : SnapshotOK(events'[i], y)
  <2>1. CASE events' = queue
    BY <2>1
  <2>2. CASE events' = Append(queue, y.wf)
    <3>1. /\ DOMAIN events' = 1 .. Len(queue) + 1 /\ DOMAIN queue = 1 .. Len(queue)
          /\ events'[Len(queue) + 1] = y.wf /\ Len(queue) \in Nat
          /\ \A i \in 1 .. Len(queue) : events'[i] = queue[i]
      BY <1>1, <2>2
    <3>2. \A i \in 1 .. Len(queue) + 1 : i \in 1 .. Len(queue) \/ i = Len(queue) + 1
      BY <3>1
    <3> QED BY <1>4, <3>1, <3>2
  <2> QED BY <2>1, <2>2 DEF Put, Notify
<1>6. \A i \in DOMAIN events' : SnapshotOK(events[i], Now)'
  BY <1>1, <1>5 DEF SnapshotOK, Now, Asked, TornDown, Mounted, Has, state_complete, state_active
<1>7. ~Unborn'
  BY <1>1 DEF Unborn, Has
<1>8. job'.state \in BeforeCleanup =>
        \A m \in SvcMsgs : Has(toSvc', m) => m \in {"create", "setup"}
  BY <1>1, <1>2 DEF StorageInv
<1> QED BY <1>1, <1>2, <1>3, <1>6, <1>7, <1>8 DEF StorageInv, Has

(* A handler that is Fine, of a job whose Workflow has been asked for.     *)
LEMMA FineStorage ==
  ASSUME Inv, StorageInv, UNCHANGED job, NEW y, Fine(Now, y),
         NEW queue \in Seq(Workflows), Put(y, queue),
         \A i \in DOMAIN queue : SnapshotOK(queue[i], Now),
         toSvc' = toSvc \/ (toSvc # <<>> /\ toSvc' = Tail(toSvc)), ~Unborn
  PROVE  StorageInv'
<1>1. \A i \in DOMAIN queue : SnapshotOK(queue[i], y)
  BY DEF Fine, SnapshotOK
<1>2. job.state # "NEW" /\ ~Has(toSvc', "create")
  <2>1. toSvc \in Seq(SvcMsgs) /\ ~Has(toSvc, "create") /\ job.state # "NEW"
    BY DEF Inv, TypeOK, EnvTypeOK, Unborn
  <2>2. toSvc # <<>> => ~Has(Tail(toSvc), "create")
    BY <2>1, HasTail
  <2> QED BY <2>1, <2>2
<1> QED BY <1>1, <1>2, PutStorage DEF Fine

(* dws.create: there is no Workflow yet, and no snapshot of one.           *)
LEMMA CreateStorage ==
  ASSUME Inv, StorageInv, UNCHANGED job, NEW outcome, Has(toSvc, "create"),
         toSvc # <<>>, toSvc' = Tail(toSvc),
         Put(LET s == Rpc(Now, "create", outcome)
             IN  IF s.ok THEN s ELSE [s EXCEPT !.toJm = @ \o FailureOf("create")], events)
  PROVE  StorageInv'
<1> DEFINE s == Rpc(Now, "create", outcome)
           p == <<"create-fail">>
           f == [s EXCEPT !.toJm = @ \o p]
           y == IF s.ok THEN s ELSE f
<1>1. /\ wf = NoWorkflow /\ events = <<>> /\ svc = FreshService
      /\ ~Has(toJm, "epilog-remove") /\ job.epilogStatus # "ok"
      /\ toJm \in Seq(JmMsgs) /\ toSvc \in Seq(SvcMsgs) /\ svc \in Services /\ wf \in Workflows
  BY DEF StorageInv, Unborn, Inv, TypeOK, EnvTypeOK, SvcTypeOK
<1>2. Now \in SRec
  BY <1>1, Sizes DEF Now, SRec, SvcRec
<1>3. s \in SRec /\ "create" \in SvcMsgs
  BY <1>2, RpcType, Sizes DEF SRec, SvcMsgs
<1>4. /\ s.toJm = toJm /\ s.wf \in {NoWorkflow, NewWorkflow}
      /\ ~s.svc.doDelete /\ ~s.svc.teardownAfter /\ s.svc.stateTimer = "none"
      /\ ~s.svc.doTeardown
  <2>1. s = create_cb(Now, outcome)
    BY DEF Rpc
  <2>2. CASE outcome = "ok"
    <3> DEFINE z == [svc EXCEPT !.known = TRUE, !.toredown = FALSE,
                                !.deleted = FALSE, !.epilogRemoved = FALSE]
    <3>1. s = [Now EXCEPT !.wf = NewWorkflow, !.svc = z]
      BY <2>1, <2>2 DEF create_cb, Now
    <3>2. /\ ~z.doDelete /\ ~z.teardownAfter /\ z.stateTimer = "none" /\ ~z.doTeardown
      BY <1>1 DEF FreshService
    <3> HIDE DEF z, s
    <3> QED BY <3>1, <3>2 DEF Now
  <2>3. CASE outcome # "ok"
    <3>1. s \in {[Now EXCEPT !.wf = NewWorkflow, !.ok = FALSE], [Now EXCEPT !.ok = FALSE]}
      BY <2>1, <2>3 DEF create_cb
    <3>2. Now = [svc |-> FreshService, wf |-> NoWorkflow, toJm |-> toJm, ok |-> TRUE]
      BY <1>1 DEF Now
    <3> HIDE DEF s
    <3>3. s.toJm = toJm /\ s.wf \in {NoWorkflow, NewWorkflow} /\ s.svc = FreshService
      BY <3>1, <3>2
    <3> QED BY <3>3 DEF FreshService
  <2> QED BY <2>2, <2>3
<1>5. Put(y, events)
  BY DEF FailureOf
<1> HIDE DEF s
<1>6. p \in Seq(JmMsgs) /\ \A m : Has(p, m) => m = "create-fail"
  <2>1. "create-fail" \in JmMsgs
    BY DEF JmMsgs
  <2> QED BY <2>1 DEF Has
<1> HIDE DEF p
<1>7. f \in SRec /\ f.svc = s.svc /\ f.wf = s.wf /\ f.toJm = toJm \o p
  <2>1. s.toJm \o p \in Seq(JmMsgs)
    BY <1>1, <1>4, <1>6
  <2> QED BY <1>3, <1>4, <2>1 DEF SRec, SvcRec
<1>8. \A m \in {"epilog-remove", "prolog-remove", "raise"} : Has(f.toJm, m) <=> Has(toJm, m)
  <2>1. \A m : Has(toJm \o p, m) <=> Has(toJm, m) \/ Has(p, m)
    BY <1>1, <1>6, HasJoin
  <2> QED BY <1>6, <1>7, <2>1
<1> HIDE DEF f
<1>9. /\ y \in SRec /\ y.svc = s.svc /\ y.wf = s.wf
      /\ \A m \in {"epilog-remove", "prolog-remove", "raise"} : Has(y.toJm, m) <=> Has(toJm, m)
  BY <1>3, <1>4, <1>7, <1>8
<1> HIDE DEF y
<1>10. Safe(y)
  <2>1. /\ y.wf.exists => y.wf.finalizer
        /\ y.wf.desired \in {"none", "Proposal"}
    <3>1. ~NoWorkflow.exists /\ NoWorkflow.desired = "none"
      BY DEF NoWorkflow
    <3>2. NewWorkflow.finalizer /\ NewWorkflow.desired = "Proposal"
      BY DEF NewWorkflow, NoWorkflow
    <3> QED BY <1>4, <1>9, <3>1, <3>2
  <2>2. ASSUME job.state \in BeforeCleanup, Has(toJm, "prolog-remove") \/ Released(job)
        PROVE  Has(toJm, "raise")
    <3>1. Mounted(NoWorkflow, toJm)
      BY <1>1, <2>2 DEF StorageInv, Safe, Now
    <3> QED BY <3>1 DEF Mounted, state_complete, state_active, NoWorkflow
  <2> QED BY <1>1, <1>4, <1>9, <2>1, <2>2 DEF Safe, Mounted
<1>11. job.state # "NEW" /\ ~Has(toSvc', "create")
  BY <1>1, FirstTail DEF StorageInv
<1>12. <<>> \in Seq(Workflows) /\ DOMAIN events = {}
  BY <1>1
<1> QED BY <1>1, <1>5, <1>9, <1>10, <1>11, <1>12, PutStorage

(* A new listing after a restart of the service or of its watch.           *)
LEMMA ListingStorage ==
  ASSUME StorageInv, events' = Listing(wf), UNCHANGED <<svc, toSvc, toJm, wf, job>>
  PROVE  StorageInv'
<1>1. SnapshotOK(wf, Now)
  BY DEF StorageInv, Now, Safe, SnapshotOK, Asked, TornDown, Mounted, state_complete, state_active
<1>2. \A i \in DOMAIN events' : events'[i] = wf
  BY DEF Listing
<1>3. \A i \in DOMAIN events' : SnapshotOK(events[i], Now)'
  BY <1>1, <1>2 DEF SnapshotOK, Now, Asked, TornDown, Mounted, Has, state_complete, state_active
<1>4. Safe(Now)'
  BY DEF StorageInv, Safe, Now, Asked, TornDown, Mounted, Released, Has, state_complete, state_active
<1>5. Unborn' => Unborn /\ events' = <<>>
  BY DEF StorageInv, Unborn, Has, Listing, NoWorkflow
<1> QED BY <1>3, <1>4, <1>5 DEF StorageInv, First, Has

(* A step of the service.                                                  *)
LEMMA SvcNextStorage ==
  ASSUME StrictWebhook, Inv, StorageInv, SvcNext, UNCHANGED job
  PROVE  StorageInv'
<1>1. /\ Now \in SRec /\ Safe(Now) /\ events \in Seq(Workflows)
      /\ toSvc \in Seq(SvcMsgs) /\ toJm \in Seq(JmMsgs) /\ svc \in Services
      /\ wf \in Workflows /\ svcUp \in BOOLEAN
      /\ \A i \in DOMAIN events : SnapshotOK(events[i], Now)
  BY Sizes DEF Inv, TypeOK, EnvTypeOK, SvcTypeOK, StorageInv, Now, SRec, SvcRec
<1>2. ASSUME Unborn PROVE svc = FreshService /\ events = <<>> /\ wf = NoWorkflow
  BY <1>2 DEF StorageInv
<1>3. ASSUME NEW y, Fine(Now, y), Put(y, events), toSvc' = toSvc, ~Unborn
      PROVE  StorageInv'
  BY <1>1, <1>3, FineStorage
<1>4. Now.svc = svc /\ Now.wf = wf /\ Now.toJm = toJm
  BY DEF Now
<1>5. CASE HandleRpc
  <2> DEFINE msg == Head(toSvc)
  <2>1. PICK outcome : Put(LET s == Rpc(Now, msg, outcome)
                           IN  IF s.ok THEN s ELSE [s EXCEPT !.toJm = @ \o FailureOf(msg)],
                           events)
    BY <1>5 DEF HandleRpc
  <2>2. toSvc # <<>> /\ toSvc' = Tail(toSvc) /\ msg \in SvcMsgs
    BY <1>1, <1>5 DEF HandleRpc
  <2>3. Has(toSvc, msg)
    BY <1>1, <2>2, HasTail
  <2>4. CASE msg = "create"
    <3> HIDE DEF Rpc
    <3> QED BY <2>1, <2>2, <2>3, <2>4, CreateStorage
  <2>5. CASE msg # "create"
    <3>1. ~Has(toSvc, "create")
      BY <1>1, <2>2, <2>5, FirstTail, HasTail DEF StorageInv
    <3>2. ~Unborn
      BY <2>2, <3>1 DEF Unborn, StorageInv
    <3>3. job.state \in BeforeCleanup => msg = "setup"
      BY <2>2, <2>3, <2>5 DEF StorageInv
    <3> DEFINE s == Rpc(Now, msg, outcome)
               y == IF s.ok THEN s ELSE [s EXCEPT !.toJm = @ \o FailureOf(msg)]
    <3> HIDE DEF msg
    <3>4. Fine(Now, y)
      BY <1>1, <2>2, <2>5, <3>3, RpcFine
    <3>5. Put(y, events)
      BY <2>1
    <3> HIDE DEF y
    <3> QED BY <1>1, <2>2, <3>2, <3>4, <3>5, FineStorage
  <2> QED BY <2>4, <2>5
<1>6. CASE HandleWatchEvent
  <2> DEFINE w == Head(events)
             q == Tail(events)
  <2>1. PICK outcome : Put(workflow_state_change_cb(Now, w, outcome), q)
    BY <1>6 DEF HandleWatchEvent
  <2>2. events # <<>> /\ toSvc' = toSvc
    BY <1>6 DEF HandleWatchEvent
  <2>3. /\ SnapshotOK(w, Now) /\ q \in Seq(Workflows)
        /\ \A i \in DOMAIN q : SnapshotOK(q[i], Now)
    <3>1. /\ w = events[1] /\ 1 \in DOMAIN events /\ q \in Seq(Workflows)
          /\ \A i \in DOMAIN q : i + 1 \in DOMAIN events /\ q[i] = events[i + 1]
      BY <1>1, <2>2
    <3> HIDE DEF w, q
    <3> QED BY <1>1, <3>1
  <2> HIDE DEF w, q
  <2>4. Fine(Now, workflow_state_change_cb(Now, w, outcome))
    BY <1>1, <2>3, WatchFine
  <2>5. ~Unborn
    BY <1>2, <2>2
  <2> QED BY <1>1, <2>1, <2>2, <2>3, <2>4, <2>5, FineStorage
<1>7. Fine(Now, StopTimer(Now)) /\ StopTimer(Now) \in SRec /\ Safe(StopTimer(Now))
  BY <1>1, SmallFine DEF Fine
<1>8. CASE StateTimeout
  <2>1. ~Unborn /\ toSvc' = toSvc
    BY <1>2, <1>8 DEF StateTimeout, FreshService
  <2>2. PICK y \in {Raise(StopTimer(Now)), StopTimer(Now)} : Put(y, events)
    BY <1>8 DEF StateTimeout
  <2>3. Fine(Now, Raise(StopTimer(Now)))
    BY <1>7, RaiseFine, FineTwice
  <2> QED BY <1>3, <1>7, <2>1, <2>2, <2>3
<1>9. CASE postrun_timeout_cb
  <2>1. ~Unborn /\ toSvc' = toSvc /\ svc.stateTimer = "postrun"
    BY <1>2, <1>9 DEF postrun_timeout_cb, FreshService
  <2>2. job.state \notin BeforeCleanup
    BY <1>1, <1>4, <2>1 DEF Safe
  <2>3. PICK check : LET s == Raise([check_existence_and_move_to_teardown(StopTimer(Now), check)
                                       EXCEPT !.ok = TRUE])
                     IN  Put(Raise(s), events) \/ Put(s, events)
    BY <1>9 DEF postrun_timeout_cb
  <2> DEFINE c == check_existence_and_move_to_teardown(StopTimer(Now), check)
             d == [c EXCEPT !.ok = TRUE]
  <2>4. Fine(StopTimer(Now), c)
    BY <1>7, <2>2, CheckFine
  <2> HIDE DEF c
  <2>5. Fine(Now, c) /\ c \in SRec /\ Safe(c)
    BY <1>7, <2>4, FineTwice DEF Fine
  <2>6. Fine(c, d)
    BY <2>5, SmallFine
  <2>7. Put(Raise(Raise(d)), events) \/ Put(Raise(d), events)
    BY <2>3 DEF c
  <2> HIDE DEF d
  <2>8. Fine(Now, d) /\ d \in SRec /\ Safe(d)
    BY <2>5, <2>6, FineTwice DEF Fine
  <2>9. Fine(d, Raise(d)) /\ Raise(d) \in SRec /\ Safe(Raise(d))
    BY <2>8, RaiseFine DEF Fine
  <2>10. Fine(Raise(d), Raise(Raise(d)))
    BY <2>9, RaiseFine
  <2>11. Fine(Now, Raise(d)) /\ Fine(Now, Raise(Raise(d)))
    BY <2>8, <2>9, <2>10, FineTwice
  <2> QED BY <1>3, <2>1, <2>7, <2>11
<1>10. CASE teardown_after_timer_cb
  <2> DEFINE n == [Now EXCEPT !.svc.teardownAfter = FALSE]
             z == [svc EXCEPT !.teardownAfter = FALSE]
  <2>1. ~Unborn /\ toSvc' = toSvc /\ svc.teardownAfter
    BY <1>2, <1>10 DEF teardown_after_timer_cb, FreshService
  <2>2. job.state \notin BeforeCleanup
    BY <1>1, <1>4, <2>1 DEF Safe
  <2>3. PICK outcome : Put([check_existence_and_move_to_teardown(n, outcome)
                              EXCEPT !.ok = TRUE], events)
    BY <1>10 DEF teardown_after_timer_cb
  <2>4. n = [Now EXCEPT !.svc = z]
    BY DEF Now
  <2>5. z \in Services /\ z.doTeardown = svc.doTeardown /\ z.doDelete = svc.doDelete
    BY <1>1 DEF Services
  <2> HIDE DEF z
  <2>6. n \in SRec /\ n.wf = Now.wf /\ n.toJm = Now.toJm /\ n.svc = z
    BY <1>1, <2>4, <2>5 DEF SRec, SvcRec
  <2> HIDE DEF n
  <2>7. Fine(Now, n)
    BY <1>1, <1>4, <2>2, <2>5, <2>6, SvcFine
  <2> DEFINE c == check_existence_and_move_to_teardown(n, outcome)
             d == [c EXCEPT !.ok = TRUE]
  <2>8. Fine(n, c)
    BY <2>2, <2>7, CheckFine DEF Fine
  <2>9. Put(d, events)
    BY <2>3
  <2> HIDE DEF c
  <2>10. Fine(Now, c) /\ c \in SRec /\ Safe(c)
    BY <2>7, <2>8, FineTwice DEF Fine
  <2>11. Fine(c, d)
    BY <2>10, SmallFine
  <2> HIDE DEF d
  <2>12. Fine(Now, d)
    BY <2>10, <2>11, FineTwice
  <2> QED BY <1>3, <2>1, <2>9, <2>12
<1>13. CASE ServiceStops
  <2>1. /\ svc' = FreshService /\ toSvc' = <<>> /\ events' = <<>> /\ wf' = wf
        /\ toJm' = toJm /\ job' = job
    BY <1>13 DEF ServiceStops
  <2>2. First(<<>>) /\ \A m : ~Has(<<>>, m)
    BY DEF First, Has
  <2>3. Safe(Now)'
    BY <1>1, <1>4, <2>1
       DEF Safe, Now, Asked, TornDown, Mounted, Released, Has, state_complete, state_active,
           FreshService
  <2>4. Unborn' => Unborn
    BY <2>1, <2>2 DEF Unborn, Has
  <2> QED BY <2>1, <2>2, <2>3, <2>4 DEF StorageInv, First, Has
<1>11. CASE kill_workflows_in_tc
  <2> DEFINE n == Overdue(Now)
  <2>1. ~Unborn
    BY <1>2, <1>11 DEF kill_workflows_in_tc, FreshService
  <2>2. ServiceStops \/ (toSvc' = toSvc /\ (Put(Raise(n), events) \/ Put(n, events)))
    BY <1>11 DEF kill_workflows_in_tc
  <2>5. /\ n \in SRec /\ n.wf = Now.wf /\ n.toJm = Now.toJm
        /\ n.svc.doTeardown = svc.doTeardown /\ n.svc.doDelete = svc.doDelete
        /\ n.svc.teardownAfter = svc.teardownAfter /\ n.svc.stateTimer = svc.stateTimer
    BY <1>1, <1>4, OverdueKeeps
  <2> HIDE DEF n
  <2>6. Fine(Now, n)
    BY <1>1, <1>4, <2>5, SvcFine DEF Safe
  <2>7. Fine(Now, Raise(n))
    BY <2>6, RaiseFine, FineTwice DEF Fine
  <2> QED BY <1>3, <1>13, <2>1, <2>2, <2>6, <2>7
<1>12. CASE teardown_workflow_coro \/ delete_workflow_coro
  <2> DEFINE a == [svc EXCEPT !.doTeardown = FALSE]
             b == [svc EXCEPT !.doDelete = FALSE]
             v == [wf EXCEPT !.desired = "Teardown", !.finalizer = FALSE]
             u == [wf EXCEPT !.finalizer = FALSE, !.deleting = TRUE]
             p == [Now EXCEPT !.svc.doTeardown = FALSE]
             q == [Now EXCEPT !.svc.doDelete = FALSE]
             n == IF wf.exists
                  THEN [p EXCEPT !.wf.desired = "Teardown", !.wf.finalizer = FALSE] ELSE p
             o == IF wf.exists
                  THEN [q EXCEPT !.wf.finalizer = FALSE, !.wf.deleting = TRUE] ELSE q
  <2>1. ~Unborn /\ toSvc' = toSvc
    BY <1>2, <1>12 DEF teardown_workflow_coro, delete_workflow_coro, FreshService
  <2>2. /\ teardown_workflow_coro => svc.doTeardown /\ Put(n, events)
        /\ delete_workflow_coro => svc.doDelete /\ Put(o, events)
    BY DEF teardown_workflow_coro, delete_workflow_coro
  <2>3. /\ a \in Services /\ b \in Services /\ v \in Workflows /\ u \in Workflows
        /\ a.doDelete = svc.doDelete /\ a.teardownAfter = svc.teardownAfter
        /\ a.stateTimer = svc.stateTimer /\ ~a.doTeardown
        /\ b.doTeardown = svc.doTeardown /\ b.teardownAfter = svc.teardownAfter
        /\ b.stateTimer = svc.stateTimer /\ ~b.doDelete
        /\ v.exists = wf.exists /\ v.desired = "Teardown" /\ v.state = wf.state
        /\ v.ready = wf.ready
        /\ u.exists = wf.exists /\ u.desired = wf.desired /\ u.state = wf.state
        /\ u.ready = wf.ready
    BY <1>1 DEF Services, Workflows, WorkflowStates
  <2>4. /\ n \in SRec /\ n.svc = a /\ n.wf = (IF wf.exists THEN v ELSE wf) /\ n.toJm = toJm
        /\ o \in SRec /\ o.svc = b /\ o.wf = (IF wf.exists THEN u ELSE wf) /\ o.toJm = toJm
    <3>1. p = [Now EXCEPT !.svc = a] /\ q = [Now EXCEPT !.svc = b]
      BY DEF Now
    <3> HIDE DEF a, b, p, q
    <3>2. /\ p \in SRec /\ p.svc = a /\ p.wf = wf /\ p.toJm = toJm
          /\ q \in SRec /\ q.svc = b /\ q.wf = wf /\ q.toJm = toJm
      BY <1>1, <1>4, <2>3, <3>1 DEF SRec, SvcRec
    <3>3. /\ [p EXCEPT !.wf.desired = "Teardown", !.wf.finalizer = FALSE]
               = [p EXCEPT !.wf = v]
          /\ [q EXCEPT !.wf.finalizer = FALSE, !.wf.deleting = TRUE]
               = [q EXCEPT !.wf = u]
      BY <3>2 DEF SRec, SvcRec
    <3> HIDE DEF u, v
    <3>4. /\ [p EXCEPT !.wf = v] \in SRec /\ [q EXCEPT !.wf = u] \in SRec
      BY <2>3, <3>2, WithSvc, Sizes DEF SRec
    <3>5. /\ [p EXCEPT !.wf = v].svc = a /\ [p EXCEPT !.wf = v].wf = v
          /\ [p EXCEPT !.wf = v].toJm = toJm
          /\ [q EXCEPT !.wf = u].svc = b /\ [q EXCEPT !.wf = u].wf = u
          /\ [q EXCEPT !.wf = u].toJm = toJm
      BY <3>2 DEF SRec, SvcRec
    <3> QED BY <3>2, <3>3, <3>4, <3>5
  <2> HIDE DEF a, b, u, v, n, o
  <2>5. ASSUME svc.doTeardown PROVE Fine(Now, n)
    <3>1. job.state \in BeforeCleanup => Has(toJm, "raise")
      BY <1>1, <1>4, <2>5 DEF Safe
    <3> QED BY <1>1, <1>4, <2>3, <2>4, <3>1
            DEF Fine, Safe, Asked, TornDown, Mounted, state_complete, state_active
  <2>6. ASSUME svc.doDelete PROVE Fine(Now, o)
    <3>1. wf.exists => wf.desired = "Teardown"
      BY <1>1, <1>4, <2>6 DEF Safe, Asked
    <3> QED BY <1>1, <1>4, <2>3, <2>4, <3>1
            DEF Fine, Safe, Asked, TornDown, Mounted, state_complete, state_active
  <2> QED BY <1>3, <1>12, <2>1, <2>2, <2>5, <2>6
<1>14. CASE Restart
  <2>1. /\ events' = Listing(wf) /\ UNCHANGED <<svc, toSvc, toJm, wf, job>>
    BY <1>14 DEF Restart
  <2> QED BY <1>1, <2>1, ListingStorage
<1> QED BY <1>5, <1>6, <1>8, <1>9, <1>10, <1>11, <1>12, <1>13, <1>14 DEF SvcNext, Crash

(* A step of the DWS controller or of the API server.                      *)
LEMMA EnvNextStorage ==
  ASSUME Inv, StorageInv, EnvNext, UNCHANGED <<job, svc>>
  PROVE  StorageInv'
<1>1. /\ Now \in SRec /\ Safe(Now) /\ events \in Seq(Workflows) /\ wf \in Workflows
      /\ \A i \in DOMAIN events : SnapshotOK(events[i], Now)
      /\ Now.svc = svc /\ Now.wf = wf /\ Now.toJm = toJm
  BY Sizes DEF Inv, TypeOK, EnvTypeOK, SvcTypeOK, StorageInv, Now, SRec, SvcRec
<1>2. wf.exists => ~Unborn
  BY DEF StorageInv, NoWorkflow
<1>3. ASSUME NEW w \in Workflows, Update(w), wf.exists,
             wf.finalizer = w.finalizer \/ ~w.exists, w.exists => w.desired = wf.desired,
             TornDown(wf) => TornDown(w),
             w.desired \in {wf.desired, "none"},
             state_complete(wf, "PreRun") => state_complete(w, "PreRun"),
             ~w.exists => wf.desired = "Teardown"
      PROVE  StorageInv'
  <2> DEFINE y == [svc |-> svc, wf |-> w, toJm |-> toJm, ok |-> TRUE]
  <2>1. Put(y, events) /\ toSvc' = toSvc
    BY <1>3 DEF Update, Put
  <2>2. y.svc = svc /\ y.wf = w /\ y.toJm = toJm /\ y \in SRec
    BY <1>1, <1>3, Sizes DEF SRec, SvcRec, Now
  <2> HIDE DEF y
  <2>3. Asked(wf) => Asked(w)
    BY <1>3 DEF Asked
  <2>4. job.state \in BeforeCleanup /\ Mounted(wf, toJm) => Mounted(w, toJm)
    BY <1>3 DEF Mounted
  <2>5. Safe(y)
    BY <1>1, <1>3, <2>2, <2>3, <2>4 DEF Safe
  <2>6. Fine(Now, y)
    BY <1>1, <1>3, <2>2, <2>3, <2>4, <2>5 DEF Fine
  <2> QED BY <1>1, <1>2, <1>3, <2>1, <2>6, FineStorage
<1> USE DEF TornDown, state_complete, state_active
<1>4. CASE ControllerStart
  <2> DEFINE w == [wf EXCEPT !.state = wf.desired, !.ready = FALSE, !.status = "ok"]
  <2>1. wf.exists /\ wf.state # wf.desired /\ Update(w)
    BY <1>4 DEF ControllerStart
  <2>2. /\ w \in Workflows /\ w.exists = wf.exists /\ w.finalizer = wf.finalizer
        /\ w.desired = wf.desired
    BY <1>1 DEF Workflows, StatusValues
  <2> HIDE DEF w
  <2> QED BY <1>3, <2>1, <2>2
<1>5. CASE \/ ControllerComplete \/ ControllerTransientCondition \/ ControllerError
           \/ OutsideDelete
  <2> DEFINE a == [wf EXCEPT !.ready = TRUE, !.status = "ok"]
             b == [wf EXCEPT !.status = "TransientCondition"]
             c == [wf EXCEPT !.status = "Error"]
             d == [wf EXCEPT !.deleting = TRUE]
  <2>1. PICK w \in {a, b, c, d} : Update(w) /\ wf.exists
    BY <1>5 DEF ControllerComplete, ControllerTransientCondition, ControllerError,
                OutsideDelete
  <2>2. /\ w \in Workflows /\ w.exists = wf.exists /\ w.finalizer = wf.finalizer
        /\ w.desired = wf.desired /\ w.state = wf.state
        /\ wf.ready => w.ready
    <3>1. w = a => w \in Workflows /\ w.exists = wf.exists /\ w.finalizer = wf.finalizer
                     /\ w.desired = wf.desired /\ w.state = wf.state /\ w.ready
      BY <1>1 DEF Workflows, StatusValues
    <3>2. w \in {b, c, d} => w \in Workflows /\ w.exists = wf.exists
                     /\ w.finalizer = wf.finalizer
                     /\ w.desired = wf.desired /\ w.state = wf.state /\ w.ready = wf.ready
      BY <1>1 DEF Workflows, StatusValues
    <3> HIDE DEF a, b, c, d
    <3> QED BY <3>1, <3>2
  <2> QED BY <1>3, <2>1, <2>2
<1>6. CASE ApiServerRemove
  <2>1. wf.exists /\ ~wf.finalizer /\ Update(NoWorkflow)
    BY <1>6 DEF ApiServerRemove
  <2>2. wf.desired = "Teardown"
    BY <1>1, <2>1 DEF Safe
  <2>3. NoWorkflow \in Workflows /\ ~NoWorkflow.exists /\ NoWorkflow.desired = "none"
    BY DEF NoWorkflow, Workflows, WorkflowStates, StatusValues
  <2> QED BY <1>3, <2>1, <2>2, <2>3
<1>7. CASE WatchRestart
  BY <1>7, ListingStorage DEF WatchRestart
<1> QED BY <1>4, <1>5, <1>6, <1>7 DEF EnvNext

LEMMA NextStorage == StrictWebhook /\ Inv /\ StorageInv /\ [Next]_vars => StorageInv'
<1> SUFFICES ASSUME StrictWebhook, Inv, StorageInv, [Next]_vars PROVE StorageInv'
  OBVIOUS
<1>1. CASE UNCHANGED vars
  BY <1>1 DEF vars, StorageInv, Unborn, First, Has, Safe, SnapshotOK, Now, Asked, TornDown,
              Mounted, Released, state_complete, state_active
<1>2. CASE Next
  BY <1>1, <1>2, JobNextStorage, SvcNextStorage, EnvNextStorage DEF Next, Finished
<1> QED BY <1>1, <1>2

---------------------------------------------------------------------------
(* The theorems.  StrictWebhook is their hypothesis: without the webhook's  *)
(* refusals a late dws.setup could move a Workflow in Teardown back to      *)
(* Setup.                                                                   *)

(* The strengthening holds throughout.                                      *)
THEOREM StorageInvariance == StrictWebhook => (Spec => [](Inv /\ StorageInv))
<1> SUFFICES ASSUME StrictWebhook PROVE Spec => [](Inv /\ StorageInv)
  OBVIOUS
<1>1. Inv /\ StorageInv /\ [Next]_vars => Inv' /\ StorageInv'
  BY NextInv, NextStorage
<1>2. Init => Inv /\ StorageInv
  BY InitInv, InitStorage
<1> QED BY <1>1, <1>2, PTL DEF Spec

(* FinalizerUntilTeardown: whoever deletes a Workflow, and whatever fails   *)
(* in the service, the API server cannot drop it under its job: only        *)
(* remove_finalizer, teardown_workflow_coro and delete_workflow_coro take   *)
(* Flux's finalizer off, and none of them acts on a snapshot or a flag that *)
(* is older than the Workflow it meets.                                     *)
THEOREM FinalizerStays == StrictWebhook => (Spec => []FinalizerUntilTeardown)
<1> SUFFICES ASSUME StrictWebhook PROVE Spec => []FinalizerUntilTeardown
  OBVIOUS
<1>1. Inv /\ StorageInv => FinalizerUntilTeardown
  BY DEF StorageInv, Safe, Now, FinalizerUntilTeardown
<1> QED BY StorageInvariance, <1>1, PTL

(* CleanEpilogMeansTornDown: an epilog that ended with success means that   *)
(* the storage is torn down, although three handlers send dws.epilog-remove *)
(* and the message may be read long after the snapshot that caused it.      *)
THEOREM CleanEpilog == StrictWebhook => (Spec => []CleanEpilogMeansTornDown)
<1> SUFFICES ASSUME StrictWebhook PROVE Spec => []CleanEpilogMeansTornDown
  OBVIOUS
<1>1. Inv /\ StorageInv => CleanEpilogMeansTornDown
  BY DEF StorageInv, Safe, Now, CleanEpilogMeansTornDown
<1> QED BY StorageInvariance, <1>1, PTL

(* StorageWhileRunning: tasks run on mounted file systems until a fatal     *)
(* exception is on its way, for every interleaving of cancellations,        *)
(* crashes, watch restarts, timers and late messages.                       *)
THEOREM MountedWhileRunning == StrictWebhook => (Spec => []StorageWhileRunning)
<1> SUFFICES ASSUME StrictWebhook PROVE Spec => []StorageWhileRunning
  OBVIOUS
<1>1. Inv /\ StorageInv => StorageWhileRunning
  <2> SUFFICES ASSUME Inv, StorageInv, job.state = "RUN",
                      job.exec \in {"pending", "running"}
               PROVE  Mounted(wf, toJm)
    BY DEF StorageWhileRunning, Mounted, Has
  <2>1. job.prolog = "finished"
    BY DEF Inv, TypeOK, JobTypeOK, Jobs, Good
  <2> QED BY <2>1 DEF StorageInv, Safe, Now, BeforeCleanup, Released
<1> QED BY StorageInvariance, <1>1, PTL

---------------------------------------------------------------------------
(* What may still move a Workflow that is being torn down *)

(* Timers, the cache, messages and the order for a teardown leave the       *)
(* Workflow alone.                                                          *)
LEMMA WfKept ==
  ASSUME NEW x \in SRec
  PROVE  /\ Get(x).wf = x.wf /\ Forget(x).wf = x.wf /\ StopTimer(x).wf = x.wf
         /\ move_to_teardown(x).wf = x.wf /\ Raise(x).wf = x.wf
         /\ \A m \in JmMsgs : Tell(x, m).wf = x.wf
         /\ \A outcome : check_existence_and_move_to_teardown(x, outcome).wf = x.wf
<1>1. /\ Get(x).wf = x.wf /\ Forget(x).wf = x.wf /\ StopTimer(x).wf = x.wf
      /\ move_to_teardown(x).wf = x.wf
  BY DEF Get, Forget, StopTimer, move_to_teardown, SRec, SvcRec
<1>2. \A y \in SRec : \A m : Tell(y, m).wf = y.wf
  BY DEF Tell, SRec, SvcRec
<1>3. Forget(x) \in SRec /\ [x EXCEPT !.ok = FALSE].wf = x.wf
  BY CacheSteps DEF SRec, SvcRec
<1>4. \A outcome : check_existence_and_move_to_teardown(x, outcome).wf = x.wf
  BY <1>1, <1>2, <1>3 DEF check_existence_and_move_to_teardown
<1> QED BY <1>1, <1>2, <1>4 DEF Raise

(* The early return on toredown: a snapshot of an older state is ignored,   *)
(* and the branches for Teardown do not touch desiredState.                 *)
LEMMA ToredownWatch ==
  ASSUME NEW x \in SRec, x.svc.toredown, NEW w \in Workflows, NEW outcome
  PROVE  workflow_state_change_cb(x, w, outcome).wf.desired = x.wf.desired
<1> DEFINE g == Get(x)
           c == StateChange(g, w, outcome)
           t == workflow_state_change_cb_inner(g, w, outcome)
           r == Raise(move_to_teardown(t))
<1>1. g \in SRec /\ g.wf = x.wf /\ g.svc.toredown
  <2>1. g.svc.toredown = x.svc.toredown
    BY Fields DEF Get, SRec, SvcRec, Services
  <2> QED BY <2>1, CacheSteps, WfKept DEF SRec
<1>2. t = IF Ignored(g, w) THEN g ELSE IF c.ok THEN handle_workflow_errors(c, w) ELSE c
  BY DEF workflow_state_change_cb_inner
<1>3. workflow_state_change_cb(x, w, outcome) \in {Forget(x), t, r}
  BY DEF workflow_state_change_cb
<1>4. w \in WfIn(AllStates)
  BY Sizes
<1> HIDE DEF g
<1>5. c \in SRec /\ t \in SRec
  <2>1. c \in SRec
    BY <1>1, <1>4, StateChangeType, Sizes DEF SRec
  <2> HIDE DEF c
  <2>2. handle_workflow_errors(c, w) \in SRec
    <3> DEFINE b == Condition(w)
               z == [c.svc EXCEPT !.tc = b]
    <3>1. [c EXCEPT !.svc.tc = b] = [c EXCEPT !.svc = z]
      BY <2>1 DEF SRec, SvcRec
    <3>2. z \in Services
      <4>1. b \in {"none", "prerun", "other"}
        BY DEF Condition
      <4> HIDE DEF b
      <4> QED BY <2>1, <4>1, Fields DEF Services
    <3> HIDE DEF z
    <3>3. [c EXCEPT !.svc = z] \in SRec /\ Tell(c, "raise") \in SRec
      BY <2>1, <3>2, WithSvc DEF SRec, JmMsgs
    <3> QED BY <3>1, <3>3 DEF handle_workflow_errors, Raise
  <2> QED BY <1>1, <1>2, <2>1, <2>2
<1>6. ~Ignored(g, w) => c.wf.desired = x.wf.desired
  <2>1. ~Ignored(g, w) => c \in {TeardownComplete(g, outcome), remove_finalizer(g, w, outcome)}
    <3> SUFFICES ASSUME ~Ignored(g, w)
                 PROVE  c \in {TeardownComplete(g, outcome), remove_finalizer(g, w, outcome)}
      OBVIOUS
    <3>1. state_active(w, "Teardown") /\ w.ready \in BOOLEAN
      BY <1>1 DEF Ignored, Workflows
    <3>2. /\ state_complete(w, "Teardown") <=> w.ready
          /\ \A state \in WorkflowStates \ {"Teardown"} : ~state_complete(w, state)
      BY <3>1 DEF state_complete, state_active
    <3>3. CASE w.ready
      BY <3>2, <3>3 DEF StateChange, WorkflowStates
    <3>4. CASE ~w.ready
      BY <3>1, <3>2, <3>4 DEF StateChange, WorkflowStates
    <3> QED BY <3>3, <3>4
  <2>2. TeardownComplete(g, outcome).wf = g.wf
    <3> DEFINE t1 == IF g.svc.epilogRemoved THEN g ELSE Tell(g, "epilog-remove")
    <3>1. t1 \in SRec /\ t1.wf = g.wf
      BY <1>1, WfKept, WithSvc DEF SRec, JmMsgs
    <3>2. TeardownComplete(g, outcome)
            \in {[t1 EXCEPT !.ok = FALSE],
                 [t1 EXCEPT !.svc.doDelete = TRUE, !.svc.deleted = TRUE]}
      BY DEF TeardownComplete
    <3> HIDE DEF t1
    <3>3. /\ [t1 EXCEPT !.ok = FALSE].wf = t1.wf
          /\ [t1 EXCEPT !.svc.doDelete = TRUE, !.svc.deleted = TRUE].wf = t1.wf
      BY <3>1 DEF SRec, SvcRec
    <3> QED BY <3>1, <3>2, <3>3
  <2>3. remove_finalizer(g, w, outcome).wf.desired = g.wf.desired
    <3>1. remove_finalizer(g, w, outcome)
            \in {g, [g EXCEPT !.ok = FALSE], [g EXCEPT !.wf.finalizer = FALSE]}
      BY DEF remove_finalizer
    <3>2. /\ [g EXCEPT !.ok = FALSE].wf = g.wf
          /\ [g EXCEPT !.wf.finalizer = FALSE].wf.desired = g.wf.desired
      BY <1>1, Fields DEF SRec, SvcRec, Workflows
    <3> QED BY <3>1, <3>2
  <2> HIDE DEF c
  <2> QED BY <1>1, <2>1, <2>2, <2>3
<1> HIDE DEF c
<1>7. handle_workflow_errors(c, w).wf = c.wf
  <2>1. \A b \in BOOLEAN : [c EXCEPT !.svc.tc = b].wf = c.wf
    BY <1>5 DEF SRec, SvcRec
  <2> QED BY <1>5, <2>1, WfKept DEF handle_workflow_errors
<1>8. t.wf.desired = x.wf.desired
  BY <1>1, <1>2, <1>6, <1>7
<1> HIDE DEF t
<1>9. r.wf.desired = x.wf.desired
  <2>1. move_to_teardown(t) \in SRec /\ move_to_teardown(t).wf = t.wf
    BY <1>5, CacheSteps, WfKept DEF SRec
  <2> QED BY <1>8, <2>1, WfKept
<1> HIDE DEF r
<1> QED BY <1>3, <1>8, <1>9, WfKept

LEMMA ToredownStep ==
  ASSUME Inv, [Next]_vars, svc.toredown, toSvc' = toSvc
  PROVE  wf'.desired \in {wf.desired, "Teardown", "none"}
<1>1. /\ Now \in SRec /\ events \in Seq(Workflows) /\ wf \in Workflows
      /\ toSvc \in Seq(SvcMsgs) /\ svc \in Services
      /\ Now.svc = svc /\ Now.wf = wf /\ Now.toJm = toJm
  BY Sizes DEF Inv, TypeOK, EnvTypeOK, SvcTypeOK, Now, SRec, SvcRec
<1>2. CASE UNCHANGED vars \/ Finished
  BY <1>2 DEF vars, Finished
<1>3. CASE JobNext
  BY <1>3, JobNextEffect DEF JobEffect
<1>4. CASE HandleRpc
  <2>1. toSvc # <<>> /\ toSvc' = Tail(toSvc)
    BY <1>4 DEF HandleRpc
  <2>2. Len(Tail(toSvc)) = Len(toSvc) - 1 /\ Len(toSvc) \in Nat
    BY <1>1, <2>1
  <2>3. FALSE
    BY <2>1, <2>2
  <2> QED BY <2>3
<1>5. CASE HandleWatchEvent
  <2>1. PICK outcome : Put(workflow_state_change_cb(Now, Head(events), outcome), Tail(events))
    BY <1>5 DEF HandleWatchEvent
  <2>2. Head(events) \in Workflows
    BY <1>1, <1>5 DEF HandleWatchEvent
  <2>3. workflow_state_change_cb(Now, Head(events), outcome).wf.desired = wf.desired
    BY <1>1, <2>2, ToredownWatch
  <2> QED BY <2>1, <2>3 DEF Put
<1>6. StopTimer(Now) \in SRec /\ StopTimer(Now).wf = wf
  BY <1>1, CacheSteps, WfKept DEF SRec
<1>7. CASE StateTimeout
  <2>1. PICK y \in {Raise(StopTimer(Now)), StopTimer(Now)} : wf' = y.wf
    BY <1>7 DEF StateTimeout, Put
  <2> QED BY <1>6, <2>1, WfKept
<1>8. ASSUME NEW x \in SRec, x.wf = wf, NEW outcome
      PROVE  LET d == [check_existence_and_move_to_teardown(x, outcome) EXCEPT !.ok = TRUE]
             IN  d \in SRec /\ d.wf = wf
  <2> DEFINE c == check_existence_and_move_to_teardown(x, outcome)
  <2>1. c \in SRec /\ c.wf = wf
    BY <1>8, MoveSteps, WfKept, Sizes DEF SRec
  <2> HIDE DEF c
  <2>2. [c EXCEPT !.ok = TRUE] \in SRec /\ [c EXCEPT !.ok = TRUE].wf = wf
    BY <2>1 DEF SRec, SvcRec
  <2> QED BY <2>2 DEF c
<1>9. CASE postrun_timeout_cb
  <2>1. PICK check : LET d == [check_existence_and_move_to_teardown(StopTimer(Now), check)
                                 EXCEPT !.ok = TRUE]
                     IN  wf' = Raise(Raise(d)).wf \/ wf' = Raise(d).wf
    BY <1>9 DEF postrun_timeout_cb, Put
  <2> DEFINE d == [check_existence_and_move_to_teardown(StopTimer(Now), check)
                     EXCEPT !.ok = TRUE]
  <2>2. d \in SRec /\ d.wf = wf
    BY <1>6, <1>8
  <2> HIDE DEF d
  <2>3. Raise(d) \in SRec
    BY <2>2, WithSvc DEF SRec, Raise, JmMsgs
  <2>4. Raise(d).wf = wf /\ Raise(Raise(d)).wf = wf
    BY <2>2, <2>3, WfKept
  <2> QED BY <2>1, <2>4 DEF d
<1>10. CASE teardown_after_timer_cb
  <2> DEFINE n == [Now EXCEPT !.svc.teardownAfter = FALSE]
             z == [svc EXCEPT !.teardownAfter = FALSE]
  <2>1. PICK outcome : wf' = [check_existence_and_move_to_teardown(n, outcome)
                                EXCEPT !.ok = TRUE].wf
    BY <1>10 DEF teardown_after_timer_cb, Put
  <2>2. n = [Now EXCEPT !.svc = z] /\ z \in Services
    BY <1>1 DEF Now, Services
  <2> HIDE DEF z
  <2>3. n \in SRec /\ n.wf = wf
    BY <1>1, <2>2 DEF SRec, SvcRec
  <2> HIDE DEF n
  <2> QED BY <1>8, <2>1, <2>3
<1>11. CASE kill_workflows_in_tc
  <2> DEFINE n == Overdue(Now)
  <2>1. Put(Raise(n), events) \/ Put(n, events) \/ UNCHANGED wf
    BY <1>11 DEF kill_workflows_in_tc, ServiceStops
  <2>2. n \in SRec /\ n.wf = wf
    BY <1>1, OverdueKeeps
  <2> HIDE DEF n
  <2>3. Raise(n).wf = wf
    BY <2>2, WfKept
  <2> QED BY <2>1, <2>2, <2>3 DEF Put
<1>12. CASE teardown_workflow_coro \/ delete_workflow_coro
  <2> DEFINE p == [Now EXCEPT !.svc.doTeardown = FALSE]
             q == [Now EXCEPT !.svc.doDelete = FALSE]
             v == [p EXCEPT !.wf.desired = "Teardown", !.wf.finalizer = FALSE]
             u == [q EXCEPT !.wf.finalizer = FALSE, !.wf.deleting = TRUE]
  <2>1. wf' \in {p.wf, q.wf, v.wf, u.wf}
    BY <1>12 DEF teardown_workflow_coro, delete_workflow_coro, Put
  <2>2. p.wf = wf /\ q.wf = wf /\ DOMAIN p = DOMAIN Now /\ DOMAIN q = DOMAIN Now
        /\ DOMAIN Now = {"svc", "wf", "toJm", "ok"}
    BY DEF Now
  <2> HIDE DEF p, q
  <2>3. v.wf.desired = "Teardown" /\ u.wf.desired = wf.desired
    BY <1>1, <2>2 DEF Workflows
  <2> HIDE DEF u, v
  <2> QED BY <2>1, <2>2, <2>3
<1>13. CASE Crash \/ Restart \/ WatchRestart
  BY <1>13 DEF Crash, ServiceStops, Restart, WatchRestart
<1>14. CASE EnvNext
  <2> DEFINE a == [wf EXCEPT !.state = wf.desired, !.ready = FALSE, !.status = "ok"]
             b == [wf EXCEPT !.ready = TRUE, !.status = "ok"]
             c == [wf EXCEPT !.status = "TransientCondition"]
             d == [wf EXCEPT !.status = "Error"]
             e == [wf EXCEPT !.deleting = TRUE]
  <2>1. wf' \in {wf, a, b, c, d, e, NoWorkflow}
    BY <1>14 DEF EnvNext, ControllerStart, ControllerComplete,
         ControllerTransientCondition, ControllerError, OutsideDelete, ApiServerRemove,
         WatchRestart, Update
  <2>2. /\ a.desired = wf.desired /\ b.desired = wf.desired /\ c.desired = wf.desired
        /\ d.desired = wf.desired /\ e.desired = wf.desired
    BY <1>1 DEF Workflows
  <2>3. NoWorkflow.desired = "none"
    BY DEF NoWorkflow
  <2> HIDE DEF a, b, c, d, e
  <2> QED BY <2>1, <2>2, <2>3
<1> QED BY <1>2, <1>3, <1>4, <1>5, <1>7, <1>9, <1>10, <1>11, <1>12, <1>13, <1>14
        DEF Next, SvcNext

(* OnlyTeardownAfterToredown, with any webhook: once move_to_teardown has   *)
(* set toredown, no late snapshot, timer or coroutine moves the Workflow to *)
(* another state than Teardown, for every order of the watch events.        *)
THEOREM ToredownIsFinal == Spec => OnlyTeardownAfterToredown
<1>1. Inv /\ [Next]_vars =>
        [svc.toredown /\ toSvc' = toSvc => wf'.desired \in {wf.desired, "Teardown", "none"}]_vars
  BY ToredownStep
<1> QED BY Invariance, <1>1, PTL DEF Spec, OnlyTeardownAfterToredown

---------------------------------------------------------------------------
(* The order of the requests *)

(* Only dws.create and dws.setup are asked for before the dws.post_run of a *)
(* job that ran.                                                           *)
Leading(q) ==
  \A i, k \in DOMAIN q :
     i < k /\ q[k] = "post_run_1" => q[i] \in {"create", "setup"}

(* A job that has started no epilog has asked for nothing else.            *)
Plain(j, q) ==
  ~j.epilogActive => \A i \in DOMAIN q : q[i] \in {"create", "setup"}

(* What all callbacks but the first finish_cb do to the requests: one that  *)
(* sends any has started the epilog, and dws.post_run of a job that ran is  *)
(* not among them.                                                         *)
Kept(s, t) ==
  /\ s.job.epilogActive => t.job.epilogActive
  /\ ~t.job.epilogActive => t.toSvc = s.toSvc
  /\ Leading(s.toSvc) => Leading(t.toSvc)
  /\ Has(t.toSvc, "post_run_1") => Has(s.toSvc, "post_run_1")
  /\ Has(t.toJm, "resource-update") => Has(s.toJm, "resource-update")

LEMMA KeptTwice ==
  ASSUME NEW s, NEW t, NEW u, Kept(s, t), Kept(t, u)
  PROVE  Kept(s, u)
BY DEF Kept

LEMMA LeadingAppend ==
  ASSUME NEW S, NEW q \in Seq(S), NEW x \in S,
         x = "post_run_1" => \A i \in DOMAIN q : q[i] \in {"create", "setup"},
         Leading(q)
  PROVE  Leading(Append(q, x))
<1> DEFINE r == Append(q, x)
<1>1. /\ DOMAIN r = 1 .. Len(q) + 1 /\ DOMAIN q = 1 .. Len(q) /\ Len(q) \in Nat
      /\ r[Len(q) + 1] = x /\ \A i \in 1 .. Len(q) : r[i] = q[i]
  OBVIOUS
<1> HIDE DEF r
<1>2. ASSUME NEW i \in DOMAIN r, NEW k \in DOMAIN r, i < k, r[k] = "post_run_1"
      PROVE  r[i] \in {"create", "setup"}
  <2>1. i \in 1 .. Len(q)
    BY <1>1, <1>2
  <2>2. CASE k = Len(q) + 1
    BY <1>1, <1>2, <2>1, <2>2
  <2>3. CASE k # Len(q) + 1
    <3>1. k \in 1 .. Len(q)
      BY <1>1, <2>3
    <3> QED BY <1>1, <1>2, <2>1, <3>1 DEF Leading
  <2> QED BY <2>2, <2>3
<1> QED BY <1>2 DEF Leading, r

LEMMA LeadingTail ==
  ASSUME NEW S, NEW q \in Seq(S), q # <<>>, Leading(q)
  PROVE  /\ Leading(Tail(q))
         /\ Has(Tail(q), "post_run_1") => Head(q) \in {"create", "setup"}
         /\ \A j : Plain(j, q) => Plain(j, Tail(q))
<1> DEFINE r == Tail(q)
<1>1. /\ Len(q) \in Nat /\ Len(q) >= 1 /\ DOMAIN q = 1 .. Len(q) /\ Head(q) = q[1]
      /\ DOMAIN r = 1 .. Len(q) - 1 /\ \A i \in 1 .. Len(q) - 1 : r[i] = q[i + 1]
  OBVIOUS
<1> HIDE DEF r
<1>2. \A i \in DOMAIN r : i \in Nat /\ i + 1 \in DOMAIN q /\ 1 < i + 1 /\ r[i] = q[i + 1]
  BY <1>1
<1>3. ASSUME NEW i \in DOMAIN r, NEW k \in DOMAIN r, i < k, r[k] = "post_run_1"
      PROVE  r[i] \in {"create", "setup"}
  <2>1. i + 1 < k + 1
    BY <1>2, <1>3
  <2> QED BY <1>2, <1>3, <2>1 DEF Leading
<1>4. ASSUME NEW k \in DOMAIN r, r[k] = "post_run_1"
      PROVE  Head(q) \in {"create", "setup"}
  <2>1. 1 \in DOMAIN q
    BY <1>1
  <2> QED BY <1>1, <1>2, <1>4, <2>1 DEF Leading
<1>5. \A j : Plain(j, q) => Plain(j, r)
  BY <1>2 DEF Plain
<1> QED BY <1>3, <1>4, <1>5 DEF Leading, Has, r

(* The failure responses are not dws.resource-update.                      *)
LEMMA FailureKept ==
  ASSUME NEW msg \in SvcMsgs, NEW q \in Seq(JmMsgs)
  PROVE  Has(q \o FailureOf(msg), "resource-update") => Has(q, "resource-update")
<1> DEFINE p == FailureOf(msg)
<1>1. p \in Seq(JmMsgs)
  BY FailureType, Sizes
<1>2. p \in {<<>>, <<"create-fail">>, <<"setup-fail">>, <<"post_run-fail">>}
  BY DEF FailureOf
<1> HIDE DEF p
<1>3. ~Has(p, "resource-update")
  BY <1>2 DEF Has
<1>4. Has(q \o p, "resource-update") => Has(q, "resource-update")
  BY <1>1, <1>3, HasJoin
<1> QED BY <1>4 DEF p

(* A request after the epilog has begun.                                   *)
LEMMA SendKept ==
  ASSUME svcUp \in BOOLEAN, NEW s \in Rec, NEW msg \in SvcMsgs, msg # "post_run_1",
         s.job.epilogActive
  PROVE  Kept(s, Send(s, msg))
<1>1. s.toSvc \in Seq(SvcMsgs) /\ s.toJm \in Seq(JmMsgs)
  BY DEF Rec, JmRec
<1>2. CASE svcUp
  <2>1. /\ Send(s, msg).job = s.job /\ Send(s, msg).toJm = s.toJm
        /\ Send(s, msg).toSvc = Append(s.toSvc, msg)
    BY <1>2 DEF Send, Rec, JmRec
  <2>2. Leading(s.toSvc) => Leading(Append(s.toSvc, msg))
    BY <1>1, LeadingAppend
  <2>3. Has(Append(s.toSvc, msg), "post_run_1") => Has(s.toSvc, "post_run_1")
    BY <1>1, HasAppend
  <2> QED BY <2>1, <2>2, <2>3 DEF Kept
<1>3. CASE ~svcUp
  <2>1. /\ Send(s, msg).job = s.job /\ Send(s, msg).toSvc = s.toSvc
        /\ Send(s, msg).toJm = s.toJm \o FailureOf(msg)
    BY <1>3 DEF Send, Rec, JmRec
  <2> QED BY <1>1, <2>1, FailureKept DEF Kept
<1> QED BY <1>2, <1>3

(* A change of the job alone.                                              *)
LEMMA JobKept ==
  ASSUME NEW s \in Rec, NEW k, s.job.epilogActive => k.epilogActive
  PROVE  Kept(s, [s EXCEPT !.job = k])
BY DEF Kept, Rec, JmRec

(* exception_cb *)
LEMMA exception_cbKept ==
  ASSUME svcUp \in BOOLEAN, NEW s \in Rec, NEW type
  PROVE  Kept(s, exception_cb(s, type))
<1> DEFINE j == s.job
           i == [j EXCEPT !.perilogs = OneLess(j.perilogs),
                          !.prologFinishes = j.prologFinishes + 1]
           k == [i EXCEPT !.prolog = "finished"]
<1>1. j \in Jobs /\ k.epilogActive = j.epilogActive
  BY DEF Rec, JmRec, Jobs
<1>2. FinishProlog(s) = [s EXCEPT !.job = k]
  BY DEF FinishProlog, PostPrologFinish, Rec, JmRec
<1>3. Kept(s, FinishProlog(s)) /\ Kept(s, s)
  <2> HIDE DEF k
  <2> QED BY <1>1, <1>2, JobKept DEF Kept
<1>4. \A u \in Rec : Kept(u, FinishEpilog(u, "failed"))
  <2> TAKE u \in Rec
  <2> DEFINE l == u.job
             m == [l EXCEPT !.perilogs = OneLess(l.perilogs),
                            !.taken = l.taken \/ (l.epilogStatus # "open" /\ l.perilogs > 0),
                            !.epilogStatus = IF l.epilogStatus = "open" THEN "failed"
                                             ELSE l.epilogStatus]
  <2>1. m.epilogActive = l.epilogActive
    BY DEF Rec, JmRec, Jobs
  <2>2. FinishEpilog(u, "failed") = [u EXCEPT !.job = m]
    BY DEF FinishEpilog
  <2> HIDE DEF m
  <2> QED BY <2>1, <2>2, JobKept
<1>5. s.job.epilogActive => /\ Kept(s, Send(s, "abort")) /\ Kept(s, Send(s, "teardown"))
                            /\ Send(s, "abort") \in Rec
  <2>1. "abort" \in SvcMsgs /\ "teardown" \in SvcMsgs
    BY DEF SvcMsgs
  <2> QED BY <2>1, SendKept, SendType, Sizes DEF Rec
<1>6. s.job.epilogActive => Kept(s, FinishEpilog(Send(s, "abort"), "failed"))
  BY <1>4, <1>5, KeptTwice
<1> QED BY <1>3, <1>5, <1>6 DEF exception_cb

(* start_dws_epilog_for_job of a job that ran puts its request last.       *)
LEMMA StartEpilogKept ==
  ASSUME svcUp \in BOOLEAN, NEW s \in Rec
  PROVE  /\ Kept(s, start_dws_epilog_for_job(s, FALSE))
         /\ LET u == start_dws_epilog_for_job(s, TRUE)
            IN  /\ u \in Rec /\ u.job.epilogActive /\ u.job.exec = s.job.exec
                /\ u.job.state = s.job.state
                /\ Leading(s.toSvc) /\ Plain(s.job, s.toSvc) /\ ~s.job.epilogActive
                     => Leading(u.toSvc)
                /\ Has(u.toJm, "resource-update") => Has(s.toJm, "resource-update")
<1> DEFINE k == Started(s.job)
           t == [s EXCEPT !.job = k]
<1>1. s.job \in Jobs /\ s.job.perilogs + 1 \in Nat /\ s.job.epilogStarts + 1 \in Nat
  BY DEF Rec, JmRec, Jobs
<1>2. k \in Jobs /\ k.epilogActive /\ k.exec = s.job.exec /\ k.state = s.job.state
  BY <1>1, EpilogTimeoutAssumption DEF Jobs, Started
<1>3. /\ start_dws_epilog_for_job(s, FALSE) = Send(t, "post_run_0")
      /\ start_dws_epilog_for_job(s, TRUE) = Send(t, "post_run_1")
  BY DEF start_dws_epilog_for_job, Started
<1>4. t \in Rec /\ t.job = k /\ t.toSvc = s.toSvc /\ t.toJm = s.toJm /\ Kept(s, t)
  <2> HIDE DEF k
  <2>1. t \in Rec /\ t.job = k /\ Kept(s, t)
    BY <1>2, WithJob, JobKept DEF Rec
  <2> QED BY <2>1 DEF Rec, JmRec
<1>5. "post_run_0" \in SvcMsgs /\ "post_run_1" \in SvcMsgs
  BY DEF SvcMsgs
<1> HIDE DEF k, t
<1>6. Kept(s, Send(t, "post_run_0"))
  BY <1>2, <1>4, <1>5, SendKept, KeptTwice
<1> DEFINE u == Send(t, "post_run_1")
<1>7. u \in Rec /\ u.job = k
  BY <1>4, <1>5, SendType, Sizes DEF Rec
<1>8. u.toSvc \in {s.toSvc, Append(s.toSvc, "post_run_1")}
      /\ u.toJm \in {s.toJm, s.toJm \o FailureOf("post_run_1")}
  BY <1>4 DEF Send, Rec, JmRec
<1>9. s.toSvc \in Seq(SvcMsgs) /\ s.toJm \in Seq(JmMsgs)
  BY DEF Rec, JmRec
<1> HIDE DEF u
<1>10. ASSUME Leading(s.toSvc), Plain(s.job, s.toSvc), ~s.job.epilogActive
       PROVE  Leading(u.toSvc)
  BY <1>5, <1>8, <1>9, <1>10, LeadingAppend DEF Plain
<1>11. Has(u.toJm, "resource-update") => Has(s.toJm, "resource-update")
  BY <1>5, <1>8, <1>9, FailureKept
<1> QED BY <1>2, <1>3, <1>6, <1>7, <1>10, <1>11 DEF u

LEMMA ToCleanupKept ==
  ASSUME svcUp \in BOOLEAN, NEW s \in Rec
  PROVE  Kept(s, cleanup_cb([s EXCEPT !.job.state = "CLEANUP"]))
<1> DEFINE k == [s.job EXCEPT !.state = "CLEANUP"]
           t == [s EXCEPT !.job = k]
<1>1. k \in Jobs /\ k.epilogActive = s.job.epilogActive
  BY DEF Rec, JmRec, Jobs, JobStates
<1>2. [s EXCEPT !.job.state = "CLEANUP"] = t
  BY DEF Rec, JmRec
<1>3. t \in Rec /\ Kept(s, t) /\ Kept(t, t)
  <2> HIDE DEF k
  <2> QED BY <1>1, WithJob, JobKept DEF Rec, Kept
<1> HIDE DEF t
<1>4. Kept(t, cleanup_cb(t))
  BY <1>3, StartEpilogKept DEF cleanup_cb
<1> QED BY <1>2, <1>3, <1>4, KeptTwice

LEMMA PostExceptionKept ==
  ASSUME svcUp \in BOOLEAN, NEW s \in Recs, NEW type
  PROVE  Kept(s, PostException(s, type))
<1>1. s \in Rec /\ s.job \in Jobs /\ Good(s.job) /\ Kept(s, s)
  BY DEF Recs, Rec, GoodRec, JmRec, Kept
<1>2. CASE ~Active(s.job)
  BY <1>1, <1>2 DEF PostException, Active
<1>3. CASE Active(s.job)
  <2> DEFINE once == exception_cb(s, type)
             both == IF s.job.subs = 2 THEN exception_cb(once, type) ELSE once
  <2>1. s.job.state \notin {"NEW", "INACTIVE"} /\ s.job.subs \in {1, 2}
    BY <1>1, <1>3 DEF Active, Good, Jobs
  <2>2. once \in Recs /\ once.job.state = s.job.state /\ Kept(s, once)
    BY <1>1, <2>1, exception_cbGood, exception_cbKept, Sizes DEF Recs
  <2>3. both \in Rec /\ Kept(s, both)
    <3> HIDE DEF once
    <3>1. once \in Rec
      BY <2>2 DEF Recs, Rec, GoodRec
    <3>2. exception_cb(once, type) \in Recs /\ Kept(once, exception_cb(once, type))
      BY <2>1, <2>2, <3>1, exception_cbGood, exception_cbKept, Sizes DEF Recs
    <3> QED BY <2>2, <3>1, <3>2, KeptTwice DEF Recs, Rec, GoodRec
  <2>4. PostException(s, type) \in {both, cleanup_cb([both EXCEPT !.job.state = "CLEANUP"])}
    BY <1>3, <2>1 DEF PostException, Active
  <2> HIDE DEF both
  <2>5. Kept(both, cleanup_cb([both EXCEPT !.job.state = "CLEANUP"]))
    BY <2>3, ToCleanupKept
  <2> QED BY <2>3, <2>4, <2>5, KeptTwice
<1> QED BY <1>2, <1>3

(* The first finish_cb puts dws.post_run of a job that ran last; then       *)
(* neither the second one nor cleanup_cb sends anything.                   *)
LEMMA PostFinishOrder ==
  ASSUME svcUp \in BOOLEAN, NEW s \in Rec, s.job.state \in {"RUN", "CLEANUP"},
         Leading(s.toSvc), Plain(s.job, s.toSvc)
  PROVE  LET u == PostFinish(s)
         IN  /\ u.job.epilogActive /\ u.job.exec = "done" /\ u.job.state = "CLEANUP"
             /\ Leading(u.toSvc)
             /\ s.job.epilogActive => u.toSvc = s.toSvc
             /\ Has(u.toJm, "resource-update") => Has(s.toJm, "resource-update")
<1> DEFINE k == [s.job EXCEPT !.exec = "done"]
           done == [s EXCEPT !.job = k]
           once == finish_cb(done)
           both == IF s.job.subs = 2 THEN finish_cb(once) ELSE once
           v == [both EXCEPT !.job.state = "CLEANUP"]
<1>1. /\ k \in Jobs /\ k.epilogActive = s.job.epilogActive /\ k.exec = "done"
      /\ k.state = s.job.state
  BY DEF Rec, JmRec, Jobs
<1>2. [s EXCEPT !.job.exec = "done"] = done
  BY DEF Rec, JmRec
<1>3. done \in Rec /\ done.job = k /\ done.toSvc = s.toSvc /\ done.toJm = s.toJm
  <2> HIDE DEF k
  <2>1. done \in Rec /\ done.job = k
    BY <1>1, WithJob DEF Rec
  <2> QED BY <2>1 DEF Rec, JmRec
<1>4. PostFinish(s) = IF s.job.state = "RUN" THEN cleanup_cb(v) ELSE both
  BY <1>2 DEF PostFinish
<1> HIDE DEF k, done
<1>5. /\ once \in Rec /\ once.job.epilogActive /\ once.job.exec = "done"
      /\ once.job.state = s.job.state /\ Leading(once.toSvc)
      /\ s.job.epilogActive => once.toSvc = s.toSvc
      /\ Has(once.toJm, "resource-update") => Has(s.toJm, "resource-update")
  <2>1. CASE s.job.epilogActive
    BY <1>1, <1>3, <2>1 DEF finish_cb
  <2>2. CASE ~s.job.epilogActive
    <3>1. once = start_dws_epilog_for_job(done, TRUE) /\ Plain(k, s.toSvc)
      BY <1>1, <1>3, <2>2 DEF finish_cb, Plain
    <3> HIDE DEF once
    <3> QED BY <1>1, <1>3, <2>2, <3>1, StartEpilogKept
  <2> QED BY <2>1, <2>2
<1> HIDE DEF once
<1>6. both = once
  BY <1>5 DEF finish_cb
<1> HIDE DEF both
<1>7. s.job.state = "RUN" =>
        /\ cleanup_cb(v) = v /\ v.toSvc = once.toSvc /\ v.toJm = once.toJm
        /\ v.job.epilogActive /\ v.job.exec = "done" /\ v.job.state = "CLEANUP"
  <2>1. /\ v.toSvc = once.toSvc /\ v.toJm = once.toJm
        /\ v.job.epilogActive /\ v.job.exec = "done" /\ v.job.state = "CLEANUP"
    BY <1>5, <1>6 DEF Rec, JmRec, Jobs
  <2> HIDE DEF v
  <2> QED BY <2>1 DEF cleanup_cb, StartPosted
<1> HIDE DEF v
<1> QED BY <1>4, <1>5, <1>6, <1>7

(* What the handling of a message does to the requests and to a job that    *)
(* waits for its resources.                                                *)
Ordered(s, t, msg) ==
  /\ Kept(s, t)
  /\ t.job.state \in {"SCHED", "RUN"} =>
       s.job.state \in {"SCHED", "RUN"} \/ msg = "resource-update"

LEMMA ExceptionOrdered ==
  ASSUME svcUp \in BOOLEAN, NEW s \in Recs, NEW type, NEW msg
  PROVE  Ordered(s, PostException(s, type), msg)
<1>1. /\ Kept(s, PostException(s, type))
      /\ PostException(s, type).job.state = IF Active(s.job) THEN "CLEANUP" ELSE s.job.state
  BY PostExceptionKept, PostExceptionGood, Sizes DEF Recs
<1> QED BY <1>1 DEF Ordered

LEMMA PrologFinishOrdered ==
  ASSUME svcUp \in BOOLEAN, NEW s \in Recs, NEW b \in BOOLEAN, NEW msg
  PROVE  Ordered(s, dws_prolog_finish(s, b), msg)
<1>1. Ordered(s, s, msg)
  BY DEF Ordered, Kept
<1>2. Ordered(s, FinishProlog(s), msg)
  <2> DEFINE j == s.job
             i == [j EXCEPT !.perilogs = OneLess(j.perilogs),
                            !.prologFinishes = j.prologFinishes + 1]
             k == [i EXCEPT !.prolog = "finished"]
             t == [s EXCEPT !.job = k]
  <2>1. s \in Rec /\ k.epilogActive = j.epilogActive /\ k.state = j.state
    BY DEF Recs, GoodRec, Rec, JmRec, Jobs
  <2>2. FinishProlog(s) = t
    BY <2>1 DEF FinishProlog, PostPrologFinish, Rec, JmRec
  <2> HIDE DEF k
  <2>3. Kept(s, t) /\ t.job = k
    BY <2>1, JobKept DEF Rec, JmRec
  <2> HIDE DEF t
  <2> QED BY <2>1, <2>2, <2>3 DEF Ordered
<1>3. Ordered(s, PostException(s, "dws-setup"), msg)
  BY ExceptionOrdered
<1> QED BY <1>1, <1>2, <1>3 DEF dws_prolog_finish

LEMMA DispatchOrdered ==
  ASSUME svcUp \in BOOLEAN, NEW s \in Recs, NEW msg \in JmMsgs,
         msg = "prolog-remove" => s.job.prolog # "unset"
  PROVE  Ordered(s, Dispatch(s, msg), msg)
<1>0. s \in Rec /\ Ordered(s, s, msg) /\ s.job \in Jobs
  BY DEF Recs, GoodRec, Rec, JmRec, Ordered, Kept
<1>1. \A type : Ordered(s, PostException(s, type), msg)
  BY ExceptionOrdered
<1>2. \A b \in BOOLEAN : Ordered(s, dws_prolog_finish(s, b), msg)
  BY PrologFinishOrdered
<1>3. ASSUME NEW u \in Rec, Ordered(s, u, msg), NEW status
      PROVE  Ordered(s, FinishEpilog(u, status), msg)
  <2> DEFINE j == u.job
             k == [j EXCEPT !.perilogs = OneLess(j.perilogs),
                            !.taken = j.taken \/ (j.epilogStatus # "open" /\ j.perilogs > 0),
                            !.epilogStatus = IF j.epilogStatus = "open" THEN status
                                             ELSE j.epilogStatus]
             t == [u EXCEPT !.job = k]
  <2>1. k.epilogActive = j.epilogActive /\ k.state = j.state
    BY DEF Rec, JmRec, Jobs
  <2>2. FinishEpilog(u, status) = t
    BY DEF FinishEpilog
  <2> HIDE DEF k
  <2>3. Kept(u, t) /\ t.job = k
    BY <2>1, JobKept DEF Rec, JmRec
  <2> HIDE DEF t
  <2> QED BY <1>3, <2>1, <2>2, <2>3, KeptTwice DEF Ordered
<1>4. CASE msg = "resource-update"
  <2> DEFINE k == [s.job EXCEPT !.state = "SCHED"]
             t == [s EXCEPT !.job = k]
  <2>1. k.epilogActive = s.job.epilogActive
    BY <1>0 DEF Jobs
  <2>2. [s EXCEPT !.job.state = "SCHED"] = t
    BY <1>0 DEF Rec, JmRec
  <2> HIDE DEF k
  <2>3. Kept(s, t)
    BY <1>0, <2>1, JobKept
  <2> HIDE DEF t
  <2>4. Dispatch(s, msg) \in {t, s}
    BY <1>4, <2>2 DEF Dispatch, resource_update_msg_cb
  <2> QED BY <1>0, <1>4, <2>3, <2>4 DEF Ordered
<1>5. CASE msg = "prolog-remove"
  <2>1. Dispatch(s, msg) = prolog_remove_msg_cb(s, TRUE)
    BY <1>5 DEF Dispatch
  <2> QED BY <1>0, <1>2, <1>5, <2>1 DEF prolog_remove_msg_cb
<1>6. CASE msg = "epilog-remove"
  <2>1. Dispatch(s, msg) \in {s, FinishEpilog(s, "ok")}
    BY <1>6 DEF Dispatch, epilog_remove_msg_cb, dws_epilog_finish
  <2> QED BY <1>0, <1>3, <2>1
<1>7. CASE msg = "setup-fail"
  <2>1. Dispatch(s, msg) = setup_rpc_cb(s)
    BY <1>7 DEF Dispatch
  <2> QED BY <1>0, <1>2, <2>1 DEF setup_rpc_cb
<1>8. CASE msg = "post_run-fail"
  <2> DEFINE u == PostException(s, "dws-epilog")
  <2>1. u \in Rec /\ Ordered(s, u, msg)
    BY <1>1, PostExceptionGood, Sizes DEF Recs, GoodRec, Rec
  <2>2. Dispatch(s, msg) \in {s, FinishEpilog(u, "failed")}
    BY <1>8 DEF Dispatch, post_run_rpc_callback, dws_epilog_finish
  <2> HIDE DEF u
  <2> QED BY <1>0, <1>3, <2>1, <2>2
<1>9. CASE msg \in {"resource-update-err", "raise", "create-fail"}
  BY <1>1, <1>9 DEF Dispatch
<1> QED BY <1>4, <1>5, <1>6, <1>7, <1>8, <1>9 DEF JmMsgs

(* What a step of the plugin or the job manager does to the order of the    *)
(* requests, and when a job comes to need its Workflow.                    *)
JobOrder ==
  /\ job.epilogActive => job'.epilogActive
  /\ Leading(toSvc) /\ Plain(job, toSvc) => Leading(toSvc') /\ Plain(job', toSvc')
  /\ Has(toSvc', "post_run_1") =>
       Has(toSvc, "post_run_1") \/ (~job.epilogActive /\ job.exec = "running")
  /\ Has(toJm', "resource-update") => Has(toJm, "resource-update")
  /\ job'.state \in {"SCHED", "RUN"} =>
       job.state \in {"SCHED", "RUN"} \/ Has(toJm, "resource-update")
  /\ job'.exec = "running" => job.exec \in {"pending", "running"}

LEMMA KeptOrder ==
  ASSUME NEW s, s.job = job, s.toSvc = toSvc, Has(s.toJm, "resource-update") =>
         Has(toJm, "resource-update"), NEW t, Kept(s, t), Become(t),
         t.job.exec = job.exec,
         t.job.state \in {"SCHED", "RUN"} =>
           job.state \in {"SCHED", "RUN"} \/ Has(toJm, "resource-update")
  PROVE  JobOrder
BY DEF Kept, Become, JobOrder, Plain

(* A step that changes the job only.                                       *)
LEMMA JobOnlyOrder ==
  ASSUME TypeOK, NEW k, Become([Current EXCEPT !.job = k]),
         k.epilogActive = job.epilogActive,
         k.state \in {"SCHED", "RUN"} => job.state \in {"SCHED", "RUN"},
         k.exec = "running" => job.exec \in {"pending", "running"}
  PROVE  JobOrder
<1>1. job' = k /\ toSvc' = toSvc /\ toJm' = toJm
  BY DEF Become, Current
<1> QED BY <1>1 DEF JobOrder, Plain

(* dws.create and dws.setup can be sent at any time.                       *)
LEMMA SendOrder ==
  ASSUME TypeOK, NEW k, NEW msg \in {"create", "setup"},
         Become(Send([Current EXCEPT !.job = k], msg)),
         k.epilogActive = job.epilogActive, k.exec = job.exec,
         k.state \in {"SCHED", "RUN"} => job.state \in {"SCHED", "RUN"}
  PROVE  JobOrder
<1> DEFINE n == [Current EXCEPT !.job = k]
           t == Send(n, msg)
<1>1. /\ toSvc \in Seq(SvcMsgs) /\ toJm \in Seq(JmMsgs) /\ svcUp \in BOOLEAN
      /\ msg \in SvcMsgs /\ msg # "post_run_1"
  BY DEF TypeOK, EnvTypeOK, SvcMsgs
<1>2. n = [job |-> k, toSvc |-> toSvc, toJm |-> toJm]
  BY DEF Current
<1> HIDE DEF n
<1>3. /\ t.job = k
      /\ t.toSvc = toSvc \/ t.toSvc = Append(toSvc, msg)
      /\ t.toJm = toJm \/ t.toJm = toJm \o FailureOf(msg)
  BY <1>1, <1>2 DEF Send
<1>4. job' = t.job /\ toSvc' = t.toSvc /\ toJm' = t.toJm
  BY DEF Become, n
<1> HIDE DEF t
<1>5. Has(toJm', "resource-update") => Has(toJm, "resource-update")
  BY <1>1, <1>3, <1>4, FailureKept
<1>6. Has(toSvc', "post_run_1") => Has(toSvc, "post_run_1")
  <2>1. Has(Append(toSvc, msg), "post_run_1") => Has(toSvc, "post_run_1")
    BY <1>1, HasAppend
  <2> QED BY <1>3, <1>4, <2>1
<1>7. Leading(toSvc) => Leading(toSvc')
  BY <1>1, <1>3, <1>4, LeadingAppend
<1>8. Plain(job, toSvc) => Plain(job', toSvc')
  <2> DEFINE r == Append(toSvc, msg)
  <2>1. /\ DOMAIN r = 1 .. Len(toSvc) + 1 /\ DOMAIN toSvc = 1 .. Len(toSvc)
        /\ r[Len(toSvc) + 1] = msg /\ Len(toSvc) \in Nat
        /\ \A i \in 1 .. Len(toSvc) : r[i] = toSvc[i]
    BY <1>1
  <2> HIDE DEF r
  <2>2. \A i \in DOMAIN r : r[i] = msg \/ (i \in DOMAIN toSvc /\ r[i] = toSvc[i])
    BY <2>1
  <2>3. Plain(job, toSvc) => Plain(k, toSvc) /\ Plain(k, r)
    BY <2>2 DEF Plain
  <2> QED BY <1>3, <1>4, <2>3 DEF r
<1> QED BY <1>3, <1>4, <1>5, <1>6, <1>7, <1>8 DEF JobOrder

LEMMA JobNextOrder ==
  ASSUME Inv, JobNext, Leading(toSvc), Plain(job, toSvc)
  PROVE  JobOrder
<1>1. /\ TypeOK /\ job \in Jobs /\ Good(job) /\ svcUp \in BOOLEAN
      /\ toSvc \in Seq(SvcMsgs) /\ toJm \in Seq(JmMsgs)
  BY DEF Inv, TypeOK, EnvTypeOK, JobTypeOK
<1>2. /\ Current \in Recs /\ Current \in Rec /\ Current.job = job
      /\ Current.toSvc = toSvc /\ Current.toJm = toJm
  BY <1>1 DEF Current, Recs, GoodRec, Rec, JmRec
<1>3. CASE depend_cb
  <2> DEFINE k == [job EXCEPT !.state = "DEPEND", !.subs = 1]
  <2>1. Become(Send([Current EXCEPT !.job = k], "create"))
    <3>1. [Current EXCEPT !.job.state = "DEPEND", !.job.subs = 1] = [Current EXCEPT !.job = k]
      BY DEF Current
    <3> QED BY <1>3, <3>1 DEF depend_cb
  <2>2. k.epilogActive = job.epilogActive /\ k.exec = job.exec /\ k.state = "DEPEND"
    BY <1>1 DEF Jobs
  <2> HIDE DEF k
  <2> QED BY <1>1, <2>1, <2>2, SendOrder
<1>4. CASE run_cb
  <2> DEFINE k == [job EXCEPT !.state = "RUN", !.subs = 2, !.prolog = "active",
                              !.perilogs = job.perilogs + 1, !.fetchR = TRUE]
  <2>1. Become([Current EXCEPT !.job = k]) /\ job.state = "SCHED"
    BY <1>4 DEF run_cb
  <2>2. k.epilogActive = job.epilogActive /\ k.exec = job.exec
    BY <1>1 DEF Jobs
  <2> HIDE DEF k
  <2> QED BY <1>1, <2>1, <2>2, JobOnlyOrder
<1>5. CASE fetch_R_callback
  <2> DEFINE k == [job EXCEPT !.fetchR = FALSE]
             n == [Current EXCEPT !.job = k]
  <2>1. k \in Jobs /\ Good(k) /\ k.epilogActive = job.epilogActive
        /\ k.state = job.state /\ k.exec = job.exec
    BY <1>1 DEF Jobs, Good, Mine
  <2>2. \/ Become(Send(n, "setup"))
        \/ Become(dws_prolog_finish(n, FALSE))
    <3>1. [Current EXCEPT !.job.fetchR = FALSE] = n
      BY DEF Current
    <3> QED BY <1>5, <3>1 DEF fetch_R_callback
  <2> HIDE DEF k
  <2>3. CASE Become(Send(n, "setup"))
    BY <1>1, <2>1, <2>3, SendOrder
  <2>4. CASE Become(dws_prolog_finish(n, FALSE))
    <3>1. n \in Recs /\ n.job = k /\ n.toSvc = toSvc /\ n.toJm = toJm
      <4>1. n \in Rec /\ n.job = k
        BY <1>2, <2>1, WithJob DEF Rec
      <4> QED BY <1>2, <2>1, <4>1 DEF Recs, GoodRec, Rec, JmRec
    <3> DEFINE t == dws_prolog_finish(n, FALSE)
    <3> HIDE DEF n
    <3>2. Ordered(n, t, "none") /\ Keeps(n.job, t.job)
      BY <1>1, <3>1, PrologFinishOrdered, PerilogFinishGood, Sizes DEF Recs
    <3> HIDE DEF t
    <3>3. Become(t)
      BY <2>4 DEF t
    <3> QED BY <2>1, <3>1, <3>2, <3>3 DEF Ordered, Keeps, Kept, Become, JobOrder, Plain
  <2> QED BY <2>2, <2>3, <2>4
<1>6. CASE HandleJmMessage
  <2> DEFINE n == [Current EXCEPT !.toJm = Tail(toJm)]
             msg == Head(toJm)
  <2>1. toJm # <<>> /\ msg \in JmMsgs /\ Tail(toJm) \in Seq(JmMsgs)
    BY <1>1, <1>6 DEF HandleJmMessage
  <2>2. n \in Recs /\ n.job = job /\ n.toSvc = toSvc /\ n.toJm = Tail(toJm)
    BY <1>1, <2>1 DEF Current, Recs, GoodRec, JmRec
  <2>3. \/ Become(Dispatch(n, msg))
        \/ msg = "prolog-remove" /\ Become(prolog_remove_msg_cb(n, FALSE))
    <3>1. [Current EXCEPT !.toJm = Tail(@)] = n
      BY DEF Current
    <3> QED BY <1>6, <3>1 DEF HandleJmMessage
  <2>4. \A m : Has(toJm, m) <=> msg = m \/ Has(Tail(toJm), m)
    BY <1>1, <2>1, HasTail
  <2>5. msg = "prolog-remove" => job.prolog # "unset"
    <3>1. Has(toJm, msg)
      BY <2>4
    <3>2. job.prolog = "unset" => \A i \in DOMAIN toJm : toJm[i] # "prolog-remove"
      BY DEF Inv, UnderWay, EarlyJm
    <3> HIDE DEF msg
    <3> QED BY <3>1, <3>2 DEF Has
  <2> HIDE DEF n, msg
  <2>6. ASSUME NEW t, Ordered(n, t, msg), Keeps(n.job, t.job), Become(t)
        PROVE  JobOrder
    BY <2>2, <2>4, <2>6, KeptOrder DEF Ordered, Keeps
  <2>7. Ordered(n, Dispatch(n, msg), msg) /\ Keeps(n.job, Dispatch(n, msg).job)
    BY <1>1, <2>1, <2>2, <2>5, DispatchOrdered, DispatchGood, Sizes DEF Recs
  <2>8. msg = "prolog-remove" =>
          /\ Ordered(n, prolog_remove_msg_cb(n, FALSE), msg)
          /\ Keeps(n.job, prolog_remove_msg_cb(n, FALSE).job)
    <3>1. Ordered(n, n, msg)
      BY DEF Ordered, Kept
    <3>2. Ordered(n, dws_prolog_finish(n, FALSE), msg)
      BY <1>1, <2>2, PrologFinishOrdered
    <3>3. msg = "prolog-remove" => Keeps(n.job, prolog_remove_msg_cb(n, FALSE).job)
      BY <1>1, <2>2, <2>5, PrologRemoveGood, Sizes DEF Recs
    <3> QED BY <2>2, <2>5, <3>1, <3>2, <3>3 DEF prolog_remove_msg_cb
  <2> QED BY <2>3, <2>6, <2>7, <2>8
<1>7. CASE epilog_timeout_cb
  <2> DEFINE k == [job EXCEPT !.timer = FALSE]
             n == [Current EXCEPT !.job = k]
  <2>1. k \in Jobs /\ Good(k) /\ k.epilogActive = job.epilogActive
        /\ k.state = job.state /\ k.exec = job.exec
    BY <1>1 DEF Jobs, Good, Mine
  <2>2. Become(IF job.state = "CLEANUP" THEN PostException(n, "dws-epilog-timeout") ELSE n)
    <3>1. [Current EXCEPT !.job.timer = FALSE] = n
      BY DEF Current
    <3> QED BY <1>7, <3>1 DEF epilog_timeout_cb
  <2> HIDE DEF k
  <2>3. n \in Recs /\ n.job = k /\ n.toSvc = toSvc /\ n.toJm = toJm
    <3>1. n \in Rec /\ n.job = k
      BY <1>2, <2>1, WithJob DEF Rec
    <3> QED BY <1>2, <2>1, <3>1 DEF Recs, GoodRec, Rec, JmRec
  <2> HIDE DEF n
  <2>4. /\ Ordered(n, PostException(n, "dws-epilog-timeout"), "none")
        /\ Keeps(n.job, PostException(n, "dws-epilog-timeout").job)
    BY <1>1, <2>3, ExceptionOrdered, PostExceptionGood, Sizes DEF Recs
  <2>5. Ordered(n, n, "none") /\ Keeps(n.job, n.job)
    BY DEF Ordered, Kept, Keeps
  <2>6. PICK t : Become(t) /\ Ordered(n, t, "none") /\ Keeps(n.job, t.job)
    BY <2>2, <2>4, <2>5
  <2> QED BY <2>1, <2>3, <2>6 DEF Ordered, Keeps, Kept, Become, JobOrder, Plain
<1>8. CASE OtherException
  <2> DEFINE t == PostException(Current, "cancel")
  <2>1. Ordered(Current, t, "none") /\ Keeps(job, t.job)
    BY <1>1, <1>2, ExceptionOrdered, PostExceptionGood, Sizes DEF Recs
  <2>2. Become(t)
    BY <1>8 DEF OtherException
  <2> HIDE DEF t
  <2> QED BY <1>1, <1>2, <2>1, <2>2, KeptOrder DEF Ordered, Keeps
<1>9. CASE StartRequest \/ StartEvent \/ StartAbandoned
  <2>1. PICK e \in {"idle", "pending", "running"} :
          /\ Become([Current EXCEPT !.job.exec = e])
          /\ e = "running" => job.exec = "pending"
    BY <1>9 DEF StartRequest, StartEvent, StartAbandoned
  <2> DEFINE k == [job EXCEPT !.exec = e]
  <2>2. k.epilogActive = job.epilogActive /\ k.state = job.state /\ k.exec = e
    BY <1>1 DEF Jobs
  <2>3. [Current EXCEPT !.job.exec = e] = [Current EXCEPT !.job = k]
    BY DEF Current
  <2> HIDE DEF k
  <2> QED BY <1>1, <2>1, <2>2, <2>3, JobOnlyOrder
<1>12. CASE OtherPerilogStart \/ OtherPerilogFinish
  <2>1. PICK a, n : Become([Current EXCEPT !.job =
                             [job EXCEPT !.others = a, !.perilogs = n]])
    BY <1>12 DEF OtherPerilogStart, OtherPerilogFinish
  <2> DEFINE k == [job EXCEPT !.others = a, !.perilogs = n]
  <2>2. k.epilogActive = job.epilogActive /\ k.state = job.state /\ k.exec = job.exec
    BY <1>1 DEF Jobs
  <2> HIDE DEF k
  <2> QED BY <1>1, <2>1, <2>2, JobOnlyOrder DEF k
<1>10. CASE FinishEvent
  <2> DEFINE t == PostFinish(Current)
  <2>1. Become(t) /\ job.exec = "running"
    BY <1>10 DEF FinishEvent
  <2>2. job.state \in {"RUN", "CLEANUP"}
    BY <1>1, <2>1 DEF Good
  <2>3. Leading(toSvc) /\ Plain(job, toSvc) =>
          /\ t.job.epilogActive /\ t.job.exec = "done" /\ t.job.state = "CLEANUP"
          /\ Leading(t.toSvc)
          /\ job.epilogActive => t.toSvc = toSvc
          /\ Has(t.toJm, "resource-update") => Has(toJm, "resource-update")
    BY <1>1, <1>2, <2>2, PostFinishOrder
  <2> HIDE DEF t
  <2> QED BY <2>1, <2>3 DEF Become, JobOrder, Plain
<1>11. CASE CleanEvent
  <2> DEFINE k == [job EXCEPT !.state = "INACTIVE", !.timer = FALSE]
  <2>1. k.epilogActive = job.epilogActive /\ k.state = "INACTIVE" /\ k.exec = job.exec
    BY <1>1 DEF Jobs
  <2>2. Become([Current EXCEPT !.job = k])
    <3>1. [Current EXCEPT !.job.state = "INACTIVE", !.job.timer = FALSE]
            = [Current EXCEPT !.job = k]
      BY DEF Current
    <3> QED BY <1>11, <3>1 DEF CleanEvent
  <2> HIDE DEF k
  <2> QED BY <1>1, <2>1, <2>2, JobOnlyOrder
<1> QED BY <1>3, <1>4, <1>5, <1>6, <1>7, <1>8, <1>9, <1>10, <1>11, <1>12 DEF JobNext

(* The service takes requests from the front, or loses them all.           *)
LEMMA SvcNextLeading ==
  ASSUME Inv, Leading(toSvc), Plain(job, toSvc), SvcNext, UNCHANGED job
  PROVE  Leading(toSvc') /\ Plain(job', toSvc')
<1>1. toSvc \in Seq(SvcMsgs)
  BY DEF Inv, TypeOK, EnvTypeOK
<1>2. toSvc' = toSvc \/ (toSvc # <<>> /\ toSvc' = Tail(toSvc)) \/ toSvc' = <<>>
  BY DEF SvcNext, HandleRpc, HandleWatchEvent, StateTimeout,
     postrun_timeout_cb, teardown_after_timer_cb, kill_workflows_in_tc,
     teardown_workflow_coro, delete_workflow_coro, Crash, ServiceStops, Restart
<1>3. CASE toSvc' = toSvc
  BY <1>3 DEF Plain
<1>4. CASE toSvc # <<>> /\ toSvc' = Tail(toSvc)
  BY <1>1, <1>4, LeadingTail
<1>5. CASE toSvc' = <<>>
  BY <1>5 DEF Leading, Plain
<1> QED BY <1>2, <1>3, <1>4, <1>5

(* The requests of a job: until it starts its epilog it asks for dws.create *)
(* and dws.setup only, and if it ran, nothing but these two is waiting      *)
(* before its dws.post_run.  So a cancellation, an abort or a teardown that *)
(* overlaps the end of the last task (finish_cb runs once per subscription, *)
(* exception_cb at any time) is handled after it.                          *)
THEOREM RequestsInOrder == Spec => [](Leading(toSvc) /\ Plain(job, toSvc))
<1> DEFINE Order == Leading(toSvc) /\ Plain(job, toSvc)
<1>1. Init => Order
  BY DEF Init, EnvInit, Leading, Plain
<1>2. Inv /\ Order /\ [Next]_vars => Order'
  <2> SUFFICES ASSUME Inv, Order, [Next]_vars PROVE Order'
    OBVIOUS
  <2>1. CASE UNCHANGED vars
    BY <2>1 DEF vars, Leading, Plain
  <2>2. CASE JobNext
    BY <2>2, JobNextOrder DEF JobOrder
  <2>3. CASE SvcNext /\ UNCHANGED job
    BY <2>3, SvcNextLeading
  <2>4. CASE EnvNext /\ UNCHANGED job
    BY <2>4 DEF EnvNext, ControllerStart, ControllerComplete, ControllerTransientCondition,
       ControllerError, OutsideDelete, ApiServerRemove, WatchRestart, Update, Leading, Plain
  <2> QED BY <2>1, <2>2, <2>3, <2>4 DEF Next, Finished
<1> HIDE DEF Order
<1>3. Spec => []Order
  BY <1>1, <1>2, Invariance, PTL DEF Spec
<1> QED BY <1>3 DEF Order

---------------------------------------------------------------------------
(* The stream of snapshots, when no call fails and no watch starts over *)

(* What the service has not seen yet ends with the Workflow as it is.      *)
Latest(q, w) == q # <<>> => q[Len(q)] = w

LEMMA LatestTail ==
  ASSUME NEW q \in Seq(Workflows), q # <<>>, NEW w, Latest(q, w)
  PROVE  Latest(Tail(q), w)
<1> DEFINE r == Tail(q)
<1>1. /\ Len(q) \in Nat /\ Len(q) >= 1 /\ Len(r) = Len(q) - 1 /\ r \in Seq(Workflows)
      /\ \A i \in 1 .. Len(r) : r[i] = q[i + 1]
      /\ r # <<>> => Len(r) \in 1 .. Len(r)
  OBVIOUS
<1> HIDE DEF r
<1>2. r # <<>> => r[Len(r)] = q[Len(q)]
  <2>1. r # <<>> => r[Len(r)] = q[Len(r) + 1]
    BY <1>1
  <2>2. Len(r) + 1 = Len(q)
    BY <1>1
  <2> QED BY <2>1, <2>2
<1> QED BY <1>2 DEF Latest, r

LEMMA LatestNotify ==
  ASSUME svcUp, NEW q \in Seq(Workflows), Latest(q, wf), NEW w \in Workflows
  PROVE  Latest(Notify(q, w), w)
<1> DEFINE r == Append(q, w)
<1>1. r # <<>> /\ r[Len(r)] = w
  OBVIOUS
<1> HIDE DEF r
<1>2. w # wf => Latest(Notify(q, w), w)
  BY <1>1 DEF Notify, Latest, r
<1>3. w = wf => Latest(Notify(q, w), w)
  BY DEF Notify
<1> QED BY <1>2, <1>3

(* So far no call of the service has failed and no watch event was lost.   *)
Faultless == faults["api"] = 0 /\ faults["relist"] = 0

(* A fault is counted when it happens, and no count goes down.             *)
LEMMA Counted ==
  ASSUME Next
  PROVE  UNCHANGED faults \/ \E kind \in FaultKinds : Spend(kind)
<1>1. \A kind \in {"api", "crash", "cancel", "tc", "error", "delete", "relist", "perilog"} :
        kind \in FaultKinds
  BY DEF FaultKinds
<1>2. \A b : Charge(b) => UNCHANGED faults \/ Spend("api")
  BY DEF Charge
<1>3. CASE JobNext
  BY <1>1, <1>3 DEF JobNext, depend_cb, run_cb, fetch_R_callback, HandleJmMessage,
     epilog_timeout_cb, OtherException, OtherPerilogStart, OtherPerilogFinish, StartRequest,
     StartEvent, StartAbandoned, FinishEvent, CleanEvent
<1>4. CASE SvcNext
  BY <1>1, <1>2, <1>4 DEF SvcNext, HandleRpc, HandleWatchEvent, StateTimeout,
     postrun_timeout_cb, teardown_after_timer_cb, kill_workflows_in_tc,
     teardown_workflow_coro, delete_workflow_coro, Crash, Restart
<1>5. CASE EnvNext
  BY <1>1, <1>5 DEF EnvNext, ControllerStart, ControllerComplete,
     ControllerTransientCondition, ControllerError, OutsideDelete, ApiServerRemove,
     WatchRestart
<1> QED BY <1>3, <1>4, <1>5 DEF Next, Finished, vars

LEMMA NotCharged ==
  ASSUME TypeOK, Faultless'
  PROVE  ~Spend("api") /\ ~Spend("relist")
<1>1. faults \in [FaultKinds -> Nat] /\ "api" \in FaultKinds /\ "relist" \in FaultKinds
  BY DEF TypeOK, EnvTypeOK, FaultKinds
<1> QED BY <1>1 DEF Spend, Faultless

LEMMA FaultlessBefore ==
  ASSUME TypeOK, Faultless', [Next]_vars
  PROVE  Faultless
<1>1. faults \in [FaultKinds -> Nat] /\ "api" \in FaultKinds /\ "relist" \in FaultKinds
  BY DEF TypeOK, EnvTypeOK, FaultKinds
<1>2. \A kind \in FaultKinds : Spend(kind) => Faultless
  BY <1>1 DEF Spend, Faultless
<1> QED BY <1>2, Counted DEF vars, Faultless

(* What all actions of the service have in common.                         *)
LEMMA SvcShape ==
  ASSUME SvcNext
  PROVE  \/ ServiceStops \/ Restart
         \/ /\ svcUp /\ svcUp' = svcUp
            /\ \E y : \/ Put(y, events)
                      \/ events # <<>> /\ Put(y, Tail(events))
BY DEF SvcNext, HandleRpc, HandleWatchEvent, StateTimeout,
     postrun_timeout_cb, teardown_after_timer_cb, kill_workflows_in_tc,
     teardown_workflow_coro, delete_workflow_coro, Crash, Put

(* The order of the requests and the stream of snapshots.                  *)
OrderInv ==
  /\ Leading(toSvc) /\ Plain(job, toSvc)
  /\ Latest(events, wf) /\ (events # <<>> => svcUp)
  /\ ~svcUp => svc = FreshService

LEMMA InitOrder == Init => OrderInv
<1> SUFFICES ASSUME Init PROVE OrderInv
  OBVIOUS
<1>1. toSvc = <<>> /\ events = <<>> /\ svcUp
  BY DEF Init, EnvInit
<1> QED BY <1>1 DEF OrderInv, Leading, Plain, Latest

LEMMA NextOrder ==
  ASSUME Inv, Inv', OrderInv, [Next]_vars, Faultless'
  PROVE  OrderInv'
<1>1. /\ TypeOK /\ toSvc \in Seq(SvcMsgs) /\ events \in Seq(Workflows) /\ wf \in Workflows
      /\ wf' \in Workflows /\ svcUp \in BOOLEAN
  BY DEF Inv, TypeOK, EnvTypeOK
<1>2. ~Spend("relist")
  BY <1>1, NotCharged
<1>3. CASE UNCHANGED vars
  BY <1>2, <1>3 DEF vars, OrderInv, Leading, Plain, Latest
<1>4. CASE JobNext /\ UNCHANGED svc
  <2>1. JobOrder /\ UNCHANGED <<svcUp, wf, events>>
    BY <1>4, JobNextOrder, JobNextEffect DEF OrderInv, JobEffect
  <2> QED BY <1>2, <1>4, <2>1 DEF OrderInv, JobOrder, Leading, Plain, Latest
<1>5. CASE SvcNext /\ UNCHANGED job
  <2>2. Leading(toSvc') /\ Plain(job', toSvc')
    BY <1>5, SvcNextLeading DEF OrderInv
  <2>3. CASE ServiceStops \/ Restart
    <3>1. Latest(Listing(wf), wf)
      BY DEF Listing, Latest
    <3> QED BY <1>2, <2>2, <2>3, <3>1 DEF ServiceStops, Restart, OrderInv, Latest, Leading, Plain
  <2>4. ASSUME NEW y, NEW q \in Seq(Workflows), Latest(q, wf), Put(y, q), svcUp, svcUp' = svcUp
        PROVE  OrderInv'
    <3>1. Latest(events', wf')
      BY <1>1, <2>4, LatestNotify DEF Put
    <3> QED BY <1>2, <2>2, <2>4, <3>1 DEF OrderInv, Latest, Leading, Plain
  <2>5. Latest(events, wf) /\ (events # <<>> =>
           Tail(events) \in Seq(Workflows) /\ Latest(Tail(events), wf))
    BY <1>1, LatestTail DEF OrderInv
  <2> QED BY <1>1, <1>5, <2>3, <2>4, <2>5, SvcShape
<1>6. CASE EnvNext /\ UNCHANGED <<job, svc>>
  <2>1. \E w : Update(w)
    BY <1>2, <1>6 DEF EnvNext, ControllerStart, ControllerComplete,
       ControllerTransientCondition, ControllerError, OutsideDelete, ApiServerRemove,
       WatchRestart
  <2>2. PICK w : Update(w)
    BY <2>1
  <2>3. wf' = w /\ events' = Notify(events, w) /\ UNCHANGED <<toSvc, svcUp>>
    BY <2>2 DEF Update
  <2>4. Latest(events', wf') /\ (events' # <<>> => svcUp)
    <3>1. CASE svcUp
      BY <1>1, <2>3, <3>1, LatestNotify DEF OrderInv
    <3>2. CASE ~svcUp
      BY <2>3, <3>2 DEF OrderInv, Notify, Latest
    <3> QED BY <3>1, <3>2
  <2> QED BY <1>2, <1>6, <2>3, <2>4 DEF OrderInv, Latest, Leading, Plain
<1> QED BY <1>3, <1>4, <1>5, <1>6 DEF Next, Finished

---------------------------------------------------------------------------
(* The way to PreRun *)

ToPreRun == {"none", "Proposal", "Setup", "DataIn", "PreRun"}

(* The move that a snapshot w of a completed Setup or DataIn asks for is    *)
(* acceptable to the webhook, or already made.                             *)
Followed(w, v) ==
  /\ w.desired \in ToPreRun
  /\ state_complete(w, "Setup") => v.desired = "DataIn" \/ state_complete(v, "Setup")
  /\ state_complete(w, "DataIn") => v.desired = "PreRun" \/ state_complete(v, "DataIn")

(* That holds of all snapshots still to be seen, and they are in the order  *)
(* of the states.                                                          *)
Chain(q, v) ==
  /\ \A i \in DOMAIN q : Followed(q[i], v)
  /\ \A i, k \in DOMAIN q :
       i < k /\ state_complete(q[i], "DataIn") => ~state_complete(q[k], "Setup")

LEMMA ChainTail ==
  ASSUME NEW q \in Seq(Workflows), q # <<>>, NEW v, Chain(q, v)
  PROVE  /\ Chain(Tail(q), v) /\ Followed(Head(q), v)
         /\ state_complete(Head(q), "DataIn") =>
              \A i \in DOMAIN Tail(q) : ~state_complete(Tail(q)[i], "Setup")
<1> DEFINE r == Tail(q)
<1>1. /\ Len(q) \in Nat /\ Len(q) >= 1 /\ DOMAIN q = 1 .. Len(q) /\ Head(q) = q[1]
      /\ DOMAIN r = 1 .. Len(q) - 1 /\ \A i \in 1 .. Len(q) - 1 : r[i] = q[i + 1]
  OBVIOUS
<1> HIDE DEF r
<1>2. /\ 1 \in DOMAIN q
      /\ \A i \in DOMAIN r : i \in Nat /\ i + 1 \in DOMAIN q /\ 1 < i + 1 /\ r[i] = q[i + 1]
  BY <1>1
<1>3. \A i \in DOMAIN r : Followed(r[i], v)
  BY <1>2 DEF Chain
<1>4. ASSUME NEW i \in DOMAIN r, NEW k \in DOMAIN r, i < k, state_complete(r[i], "DataIn")
      PROVE  ~state_complete(r[k], "Setup")
  <2>1. i + 1 < k + 1
    BY <1>2, <1>4
  <2> QED BY <1>2, <1>4, <2>1 DEF Chain
<1>5. state_complete(q[1], "DataIn") => \A i \in DOMAIN r : ~state_complete(r[i], "Setup")
  BY <1>2 DEF Chain
<1>6. Followed(q[1], v)
  BY <1>2 DEF Chain
<1> QED BY <1>1, <1>3, <1>4, <1>5, <1>6 DEF Chain, r

(* What the Workflow has become is its own newest snapshot.                *)
LEMMA ChainNotify ==
  ASSUME NEW q \in Seq(Workflows), NEW v \in Workflows, v.desired \in ToPreRun, Chain(q, v)
  PROVE  Chain(Notify(q, v), v)
<1> DEFINE r == Append(q, v)
<1>1. /\ DOMAIN r = 1 .. Len(q) + 1 /\ DOMAIN q = 1 .. Len(q) /\ Len(q) \in Nat
      /\ r[Len(q) + 1] = v /\ \A i \in 1 .. Len(q) : r[i] = q[i]
  OBVIOUS
<1> HIDE DEF r
<1>2. \A i \in DOMAIN r : r[i] = v \/ (i \in DOMAIN q /\ r[i] = q[i])
  BY <1>1
<1>3. Followed(v, v)
  BY DEF Followed
<1>4. \A i \in DOMAIN r : Followed(r[i], v)
  BY <1>2, <1>3 DEF Chain
<1>5. ASSUME NEW i \in DOMAIN r, NEW k \in DOMAIN r, i < k, state_complete(r[i], "DataIn")
      PROVE  ~state_complete(r[k], "Setup")
  <2>1. i \in DOMAIN q /\ r[i] = q[i]
    BY <1>1, <1>5
  <2>2. CASE k = Len(q) + 1
    <3>1. v.desired \in {"PreRun", "DataIn"}
      BY <1>5, <2>1 DEF Chain, Followed, state_complete, state_active
    <3> QED BY <1>1, <2>2, <3>1 DEF state_complete, state_active
  <2>3. CASE k # Len(q) + 1
    <3>1. k \in DOMAIN q /\ r[k] = q[k]
      BY <1>1, <2>3
    <3> QED BY <1>5, <2>1, <3>1 DEF Chain
  <2> QED BY <2>2, <2>3
<1> QED BY <1>4, <1>5 DEF Chain, Notify, r

(* A Workflow that is where it was, or further.                            *)
LEMMA ChainKept ==
  ASSUME NEW q, NEW w, NEW v, Chain(q, w), v.desired = w.desired,
         \A state \in {"Setup", "DataIn"} : state_complete(w, state) => state_complete(v, state)
  PROVE  Chain(q, v)
BY DEF Chain, Followed

(* The moves to DataIn and PreRun, on the first snapshot.                  *)
LEMMA ChainMove ==
  ASSUME NEW q \in Seq(Workflows), q # <<>>, NEW w \in Workflows, Chain(q, w)
  PROVE  /\ state_complete(Head(q), "Setup")
              => /\ w.desired = "DataIn" \/ state_complete(w, "Setup")
                 /\ Chain(Tail(q), [w EXCEPT !.desired = "DataIn"])
         /\ state_complete(Head(q), "DataIn")
              => /\ w.desired = "PreRun" \/ state_complete(w, "DataIn")
                 /\ Chain(Tail(q), [w EXCEPT !.desired = "PreRun"])
<1> DEFINE r == Tail(q)
           a == [w EXCEPT !.desired = "DataIn"]
           b == [w EXCEPT !.desired = "PreRun"]
<1>1. /\ Chain(r, w) /\ Followed(Head(q), w)
      /\ state_complete(Head(q), "DataIn") =>
           \A i \in DOMAIN r : ~state_complete(r[i], "Setup")
  BY ChainTail
<1>2. a.desired = "DataIn" /\ b.desired = "PreRun" /\ (w.desired = "DataIn" => a = w)
  BY DEF Workflows
<1> HIDE DEF r, a, b
<1>3. ASSUME state_complete(Head(q), "Setup")
      PROVE  /\ w.desired = "DataIn" \/ state_complete(w, "Setup")
             /\ Chain(r, a)
  <2>1. w.desired = "DataIn" \/ state_complete(w, "Setup")
    BY <1>1, <1>3 DEF Followed
  <2>2. CASE w.desired = "DataIn"
    BY <1>1, <1>2, <2>1, <2>2
  <2>3. CASE state_complete(w, "Setup")
    <3>1. \A i \in DOMAIN r : ~state_complete(r[i], "DataIn")
      BY <1>1, <2>3 DEF Chain, Followed, state_complete, state_active
    <3> QED BY <1>1, <1>2, <2>1, <3>1 DEF Chain, Followed
  <2> QED BY <2>1, <2>2, <2>3
<1>4. ASSUME state_complete(Head(q), "DataIn")
      PROVE  /\ w.desired = "PreRun" \/ state_complete(w, "DataIn")
             /\ Chain(r, b)
  BY <1>1, <1>2, <1>4 DEF Chain, Followed
<1> QED BY <1>3, <1>4 DEF r, a, b

(* dws.setup is accepted in Proposal, when no such snapshot exists.        *)
LEMMA ChainSetup ==
  ASSUME NEW q, NEW w \in Workflows, w.desired # "none", Chain(q, w), StrictWebhook,
         PatchAccepted(w, "Setup")
  PROVE  Chain(q, [w EXCEPT !.desired = "Setup"])
<1> DEFINE a == [w EXCEPT !.desired = "Setup"]
<1>1. a.desired = "Setup" /\ (w.desired = "Setup" => a = w)
  BY DEF Workflows
<1> HIDE DEF a
<1>2. w.desired = "Setup" => Chain(q, a)
  BY <1>1
<1>3. ASSUME w.desired # "Setup" PROVE Chain(q, a)
  <2>1. w.desired \in WorkflowStates /\ NextState[w.desired] = "Setup"
    BY <1>3 DEF PatchAccepted, Workflows, NextState, WorkflowStates, state_complete, state_active
  <2>2. w.desired = "Proposal"
    BY <2>1 DEF NextState, WorkflowStates
  <2>3. \A i \in DOMAIN q : ~state_complete(q[i], "Setup") /\ ~state_complete(q[i], "DataIn")
    BY <2>2 DEF Chain, Followed, state_complete, state_active
  <2> QED BY <1>1, <2>3 DEF Chain, Followed
<1> QED BY <1>2, <1>3 DEF a

(* Handlers that succeed, start no teardown and arm no timer that could.   *)
Calm(x, y) ==
  /\ y \in SRec /\ y.ok
  /\ y.svc.doTeardown = x.svc.doTeardown /\ y.svc.teardownAfter = x.svc.teardownAfter
  /\ y.svc.stateTimer \in {"none", "setup", "prerun", x.svc.stateTimer}

LEMMA CalmTwice ==
  ASSUME NEW x, NEW y, NEW z, Calm(x, y), Calm(y, z)
  PROVE  Calm(x, z)
BY DEF Calm

LEMMA CalmSteps ==
  ASSUME NEW x \in SRec, x.ok
  PROVE  /\ Calm(x, x)
         /\ Calm(x, Get(x)) /\ Get(x).wf = x.wf
         /\ Calm(x, Forget(x)) /\ Forget(x).wf = x.wf
         /\ Calm(x, StopTimer(x)) /\ StopTimer(x).wf = x.wf
         /\ \A kind \in {"setup", "prerun"} : /\ Calm(x, ArmTimer(x, kind))
                                              /\ ArmTimer(x, kind).wf = x.wf
         /\ \A m \in JmMsgs : Calm(x, Tell(x, m)) /\ Tell(x, m).wf = x.wf
         /\ \A b \in {"none", "prerun", "other"} :
              /\ Calm(x, [x EXCEPT !.svc.tc = b])
              /\ [x EXCEPT !.svc.tc = b].wf = x.wf
<1>1. ASSUME NEW z \in Services, z.doTeardown = x.svc.doTeardown,
             z.teardownAfter = x.svc.teardownAfter,
             z.stateTimer \in {"none", "setup", "prerun", x.svc.stateTimer}
      PROVE  Calm(x, [x EXCEPT !.svc = z]) /\ [x EXCEPT !.svc = z].wf = x.wf
  <2>1. [x EXCEPT !.svc = z] \in SRec
    BY WithSvc DEF SRec
  <2>2. /\ [x EXCEPT !.svc = z].svc = z /\ [x EXCEPT !.svc = z].ok = x.ok
        /\ [x EXCEPT !.svc = z].wf = x.wf
    BY DEF SRec, SvcRec
  <2> QED BY <1>1, <2>1, <2>2 DEF Calm
<1>2. x.svc \in Services
  BY Fields
<1>3. Calm(x, x)
  BY DEF Calm
<1>4. Calm(x, Get(x)) /\ Get(x).wf = x.wf
  <2> DEFINE z == [x.svc EXCEPT !.known = TRUE]
  <2>1. /\ z \in Services /\ z.doTeardown = x.svc.doTeardown
        /\ z.teardownAfter = x.svc.teardownAfter /\ z.stateTimer = x.svc.stateTimer
    BY <1>2 DEF Services
  <2>2. Get(x) = [x EXCEPT !.svc = z]
    BY DEF Get
  <2> HIDE DEF z
  <2> QED BY <1>1, <2>1, <2>2
<1>5. Calm(x, Forget(x)) /\ Forget(x).wf = x.wf
  <2> DEFINE z == [x.svc EXCEPT !.known = FALSE, !.toredown = FALSE, !.deleted = FALSE,
                                !.epilogRemoved = FALSE, !.revived = FALSE]
  <2>1. /\ z \in Services /\ z.doTeardown = x.svc.doTeardown
        /\ z.teardownAfter = x.svc.teardownAfter /\ z.stateTimer = x.svc.stateTimer
    BY <1>2 DEF Services
  <2>2. Forget(x) = [x EXCEPT !.svc = z]
    BY DEF Forget
  <2> HIDE DEF z
  <2> QED BY <1>1, <2>1, <2>2
<1>6. ASSUME NEW kind \in {"none", "setup", "prerun"}
      PROVE  /\ Calm(x, [x EXCEPT !.svc.stateTimer = kind])
             /\ [x EXCEPT !.svc.stateTimer = kind].wf = x.wf
  <2> DEFINE z == [x.svc EXCEPT !.stateTimer = kind]
  <2>1. /\ z \in Services /\ z.doTeardown = x.svc.doTeardown
        /\ z.teardownAfter = x.svc.teardownAfter /\ z.stateTimer = kind
    BY <1>2 DEF Services
  <2>2. [x EXCEPT !.svc.stateTimer = kind] = [x EXCEPT !.svc = z]
    OBVIOUS
  <2> HIDE DEF z
  <2> QED BY <1>1, <2>1, <2>2
<1>7. Calm(x, StopTimer(x)) /\ StopTimer(x).wf = x.wf
  BY <1>6 DEF StopTimer
<1>8. \A kind \in {"setup", "prerun"} : /\ Calm(x, ArmTimer(x, kind))
                                        /\ ArmTimer(x, kind).wf = x.wf
  BY <1>3, <1>6 DEF ArmTimer
<1>9. \A m \in JmMsgs : Calm(x, Tell(x, m)) /\ Tell(x, m).wf = x.wf
  <2> TAKE m \in JmMsgs
  <2>1. Tell(x, m) \in SRec
    BY WithSvc DEF SRec
  <2>2. Tell(x, m).svc = x.svc /\ Tell(x, m).ok = x.ok /\ Tell(x, m).wf = x.wf
    BY DEF Tell, SRec, SvcRec
  <2> QED BY <2>1, <2>2 DEF Calm
<1>10. \A b \in {"none", "prerun", "other"} :
              /\ Calm(x, [x EXCEPT !.svc.tc = b])
              /\ [x EXCEPT !.svc.tc = b].wf = x.wf
  <2> TAKE b \in {"none", "prerun", "other"}
  <2> DEFINE z == [x.svc EXCEPT !.tc = b]
  <2>1. /\ z \in Services /\ z.doTeardown = x.svc.doTeardown
        /\ z.teardownAfter = x.svc.teardownAfter /\ z.stateTimer = x.svc.stateTimer
    BY <1>2 DEF Services
  <2>2. [x EXCEPT !.svc.tc = b] = [x EXCEPT !.svc = z]
    OBVIOUS
  <2> HIDE DEF z
  <2> QED BY <1>1, <2>1, <2>2
<1> QED BY <1>3, <1>4, <1>5, <1>7, <1>8, <1>9, <1>10

(* A move that is accepted.                                                *)
LEMMA CalmMove ==
  ASSUME NEW x \in SRec, x.ok, NEW outcome \in {"ok", "invalid"},
         NEW state \in AllStates, PatchAccepted(x.wf, state)
  PROVE  LET y == move_desiredstate(x, state, outcome)
         IN  Calm(x, y) /\ y.wf = [x.wf EXCEPT !.desired = state]
<1> DEFINE t == StopTimer(x)
           y == move_desiredstate(x, state, outcome)
<1>1. t \in SRec /\ t.wf = x.wf /\ Calm(x, t)
  BY CalmSteps DEF Calm
<1>2. y \in SRec
  BY MoveSteps, Sizes DEF SRec
<1>3. y = [t EXCEPT !.wf.desired = state, !.ok = TRUE]
  BY DEF move_desiredstate
<1> HIDE DEF t, y
<1>4. y.svc = t.svc /\ y.ok /\ y.wf = [t.wf EXCEPT !.desired = state]
  BY <1>1, <1>3 DEF SRec, SvcRec
<1>5. Calm(x, y)
  BY <1>1, <1>2, <1>4 DEF Calm
<1> QED BY <1>1, <1>4, <1>5 DEF y

(* The watch callback on the way to PreRun: the two moves are the only      *)
(* writes, and they are accepted.                                          *)
LEMMA WatchCalm ==
  ASSUME NEW x \in SRec, x.ok, x.wf.exists, NEW w \in Workflows, Followed(w, x.wf),
         NEW outcome \in WatchOutcomes(x, w), outcome \notin {"fault", "late"}
  PROVE  LET y == workflow_state_change_cb(x, w, outcome)
         IN  /\ Calm(x, y)
             /\ \/ y.wf = x.wf
                \/ state_complete(w, "Setup") /\ y.wf = [x.wf EXCEPT !.desired = "DataIn"]
                \/ state_complete(w, "DataIn") /\ y.wf = [x.wf EXCEPT !.desired = "PreRun"]
<1> DEFINE g == Get(x)
           c == StateChange(g, w, outcome)
           t == workflow_state_change_cb_inner(g, w, outcome)
           Moved(y) == \/ y.wf = x.wf
                       \/ state_complete(w, "Setup") /\ y.wf = [x.wf EXCEPT !.desired = "DataIn"]
                       \/ state_complete(w, "DataIn") /\ y.wf = [x.wf EXCEPT !.desired = "PreRun"]
<1>1. /\ g \in SRec /\ g.ok /\ g.wf = x.wf /\ Calm(x, g)
      /\ Calm(x, Forget(x)) /\ Forget(x).wf = x.wf
  BY CalmSteps DEF Calm
<1>2. outcome = "ok" \/ (outcome = "invalid" /\ state_complete(w, "Proposal"))
  BY DEF WatchOutcomes
<1>3. w.desired \in ToPreRun
  BY DEF Followed
<1>4. t = IF Ignored(g, w) THEN g ELSE IF c.ok THEN handle_workflow_errors(c, w) ELSE c
  BY DEF workflow_state_change_cb_inner
<1>5. workflow_state_change_cb(x, w, outcome)
        = IF ~w.exists THEN Forget(x) ELSE IF t.ok THEN t ELSE Raise(move_to_teardown(t))
  BY DEF workflow_state_change_cb
<1> HIDE DEF g
<1>6. Calm(g, c) /\ Moved(c)
  <2>1. CASE state_complete(w, "Proposal")
    <3>1. c = handle_proposal_state(g, outcome)
      BY <2>1 DEF StateChange, state_complete, state_active
    <3>2. c \in {Tell(g, "resource-update"), Tell(g, "resource-update-err")}
      BY <1>2, <3>1 DEF handle_proposal_state
    <3> HIDE DEF c
    <3> QED BY <1>1, <3>2, CalmSteps DEF JmMsgs
  <2>2. CASE state_complete(w, "Setup")
    <3>1. c = move_desiredstate(g, "DataIn", outcome)
      BY <2>2 DEF StateChange, state_complete, state_active
    <3>2. PatchAccepted(g.wf, "DataIn") /\ "DataIn" \in AllStates
      BY <1>1, <2>2 DEF Followed, PatchAccepted, NextState, WorkflowStates, AllStates,
                        state_complete, state_active
    <3> HIDE DEF c
    <3> QED BY <1>1, <1>2, <2>2, <3>1, <3>2, CalmMove
  <2>3. CASE state_complete(w, "DataIn")
    <3> DEFINE d == move_desiredstate(g, "PreRun", outcome)
    <3>1. c = ArmTimer(d, "prerun")
      BY <2>3 DEF StateChange, state_complete, state_active
    <3>2. PatchAccepted(g.wf, "PreRun") /\ "PreRun" \in AllStates
      BY <1>1, <2>3 DEF Followed, PatchAccepted, NextState, WorkflowStates, AllStates,
                        state_complete, state_active
    <3>3. Calm(g, d) /\ d.wf = [g.wf EXCEPT !.desired = "PreRun"]
      BY <1>1, <1>2, <3>2, CalmMove
    <3> HIDE DEF c, d
    <3>4. Calm(d, c) /\ c.wf = d.wf
      BY <3>1, <3>3, CalmSteps DEF Calm
    <3> QED BY <1>1, <2>3, <3>3, <3>4, CalmTwice
  <2>4. CASE state_complete(w, "PreRun")
    <3> DEFINE d == Tell(g, "prolog-remove")
    <3>1. c = StopTimer(d)
      BY <1>2, <2>4 DEF StateChange, state_complete, state_active
    <3>2. Calm(g, d) /\ d.wf = g.wf
      BY <1>1, CalmSteps DEF JmMsgs
    <3> HIDE DEF c, d
    <3>3. Calm(d, c) /\ c.wf = d.wf
      BY <3>1, <3>2, CalmSteps DEF Calm
    <3> QED BY <1>1, <3>2, <3>3, CalmTwice
  <2>5. CASE \A state \in {"Proposal", "Setup", "DataIn", "PreRun"} : ~state_complete(w, state)
    <3>1. c = g
      BY <1>3, <2>5 DEF StateChange, ToPreRun, state_complete, state_active
    <3> HIDE DEF c
    <3> QED BY <1>1, <3>1, CalmSteps
  <2> QED BY <2>1, <2>2, <2>3, <2>4, <2>5
<1> HIDE DEF c
<1>7. Calm(c, handle_workflow_errors(c, w)) /\ handle_workflow_errors(c, w).wf = c.wf
  <2>1. c \in SRec /\ c.ok /\ "raise" \in JmMsgs
    BY <1>6 DEF Calm, JmMsgs
  <2> DEFINE b == Condition(w)
  <2>2. handle_workflow_errors(c, w) \in {Tell(c, "raise"), [c EXCEPT !.svc.tc = b]}
    BY DEF handle_workflow_errors, Raise
  <2>3. b \in {"none", "prerun", "other"}
    BY DEF Condition
  <2> HIDE DEF b
  <2> QED BY <2>1, <2>2, <2>3, CalmSteps
<1>8. Calm(g, t) /\ Moved(t)
  <2> DEFINE e == handle_workflow_errors(c, w)
  <2>1. Calm(c, e) /\ e.wf = c.wf
    BY <1>7
  <2> HIDE DEF e
  <2>2. Calm(g, e) /\ Moved(e) /\ Calm(g, g) /\ Moved(g)
    BY <1>1, <1>6, <2>1, CalmTwice, CalmSteps
  <2> QED BY <1>4, <1>6, <2>2 DEF Calm, e
<1> HIDE DEF t
<1>9. Calm(x, t) /\ t.ok
  BY <1>1, <1>8, CalmTwice DEF Calm
<1> QED BY <1>1, <1>5, <1>8, <1>9

(* The dws.post_run of a job that ran has not been handled, nor has any     *)
(* other request that tears the Workflow down.                             *)
Before == ~job.epilogActive \/ Has(toSvc, "post_run_1")

(* The job got beyond dws.resource-update, which only a Workflow causes.   *)
Needed ==
  \/ job.state \in {"SCHED", "RUN"} \/ job.exec = "running"
  \/ Has(toSvc, "post_run_1") \/ Has(toJm, "resource-update")

(* Until then no teardown is under way, and such a job has its Workflow.   *)
Ahead ==
  /\ ~svc.doTeardown /\ ~svc.teardownAfter /\ svc.stateTimer # "postrun"
  /\ wf.desired \in ToPreRun /\ (wf.exists => wf.desired # "none")
  /\ Chain(events, wf)
  /\ events # <<>> \/ Needed => wf.exists

LEMMA JobAhead ==
  ASSUME Inv, OrderInv, Before => Ahead, JobNext, UNCHANGED svc
  PROVE  Before' => Ahead'
<1>1. JobOrder /\ UNCHANGED <<svcUp, wf, events>>
  BY JobNextOrder, JobNextEffect DEF OrderInv, JobEffect
<1>2. job \in Jobs /\ Good(job)
  BY DEF Inv, TypeOK, JobTypeOK
<1>3. SUFFICES ASSUME Before' PROVE Ahead'
  OBVIOUS
<1>4. Before
  BY <1>1, <1>3 DEF Before, JobOrder
<1>5. Needed' => Needed
  <2>1. job'.exec = "running" => Needed
    <3>1. CASE Has(toSvc, "post_run_1")
      BY <3>1 DEF Needed
    <3>2. CASE ~Has(toSvc, "post_run_1")
      <4>1. ~job.epilogActive
        BY <1>4, <3>2 DEF Before
      <4>2. job.exec = "pending" => job.state = "RUN"
        BY <1>2, <4>1 DEF Good
      <4> QED BY <1>1, <4>2 DEF JobOrder, Needed
    <3> QED BY <3>1, <3>2
  <2> QED BY <1>1, <2>1 DEF JobOrder, Needed
<1>6. Chain(events', wf')
  BY <1>1, <1>4 DEF Ahead, Chain
<1> QED BY <1>1, <1>4, <1>5, <1>6 DEF Ahead

(* A step of the service that leaves the Workflow on its way, or finds none *)
(* and causes nothing that would need one.                                 *)
LEMMA AheadPut ==
  ASSUME Inv, Ahead, UNCHANGED job, NEW y \in SRec, NEW q \in Seq(Workflows), Put(y, q),
         ~y.svc.doTeardown, ~y.svc.teardownAfter, y.svc.stateTimer # "postrun",
         y.wf.desired \in ToPreRun, y.wf.exists => y.wf.desired # "none", Chain(q, y.wf),
         \/ y.wf.exists
         \/ /\ y.wf = wf /\ (q # <<>> => events # <<>>)
            /\ Has(y.toJm, "resource-update") => Has(toJm, "resource-update"),
         Has(toSvc', "post_run_1") => Has(toSvc, "post_run_1")
  PROVE  Ahead'
<1>1. /\ svc' = y.svc /\ wf' = y.wf /\ toJm' = y.toJm /\ events' = Notify(q, y.wf)
      /\ y.wf \in Workflows
  BY Fields DEF Put
<1>2. Chain(events', wf')
  BY <1>1, ChainNotify
<1>3. events' # <<>> \/ Needed' => wf'.exists
  <2>1. CASE ~y.wf.exists
    <3>1. events' = q
      BY <1>1, <2>1 DEF Notify
    <3>2. Needed' => Needed
      BY <1>1, <2>1 DEF Needed
    <3> QED BY <1>1, <2>1, <3>1, <3>2 DEF Ahead
  <2> QED BY <1>1, <2>1
<1> QED BY <1>1, <1>2, <1>3 DEF Ahead

LEMMA CalmAhead ==
  ASSUME Inv, Ahead, UNCHANGED job, NEW y, NEW q \in Seq(Workflows), Put(y, q),
         Calm(Now, y),
         y.wf.desired \in ToPreRun, y.wf.exists => y.wf.desired # "none", Chain(q, y.wf),
         \/ y.wf.exists
         \/ /\ y.wf = wf /\ (q # <<>> => events # <<>>)
            /\ Has(y.toJm, "resource-update") => Has(toJm, "resource-update"),
         Has(toSvc', "post_run_1") => Has(toSvc, "post_run_1")
  PROVE  Ahead'
<1>1. /\ y \in SRec /\ ~y.svc.doTeardown /\ ~y.svc.teardownAfter
      /\ y.svc.stateTimer # "postrun"
  BY DEF Calm, Now, Ahead
<1> QED BY <1>1, AheadPut

(* dws.create finds nothing at all.                                        *)
LEMMA CreateAhead ==
  ASSUME Inv, Ahead, StorageInv, UNCHANGED job, Has(toSvc, "create"), NEW outcome,
         Put(LET s == create_cb(Now, outcome)
             IN  IF s.ok THEN s ELSE [s EXCEPT !.toJm = @ \o FailureOf("create")], events),
         Has(toSvc', "post_run_1") => Has(toSvc, "post_run_1")
  PROVE  Ahead'
<1> DEFINE s == create_cb(Now, outcome)
           p == FailureOf("create")
           y == IF s.ok THEN s ELSE [s EXCEPT !.toJm = @ \o p]
<1>1. /\ wf = NoWorkflow /\ events = <<>> /\ svc = FreshService /\ Now \in SRec
      /\ Now.svc = svc /\ Now.wf = wf /\ Now.toJm = toJm /\ toJm \in Seq(JmMsgs) /\ Now.ok
      /\ "create" \in SvcMsgs
  BY Sizes DEF StorageInv, Unborn, Inv, TypeOK, EnvTypeOK, SvcTypeOK, Now, SRec, SvcRec, SvcMsgs
<1>2. p \in Seq(JmMsgs) /\ (Has(toJm \o p, "resource-update") => Has(toJm, "resource-update"))
  BY <1>1, FailureType, FailureKept, Sizes
<1>3. s \in SRec
  <2>1. Rpc(Now, "create", outcome) = s
    BY DEF Rpc
  <2> QED BY <1>1, <2>1, RpcType, Sizes DEF SRec
<1>4. /\ ~s.svc.doTeardown /\ ~s.svc.teardownAfter /\ s.svc.stateTimer # "postrun"
      /\ s.wf \in {NewWorkflow, NoWorkflow} /\ s.toJm = toJm
  <2>1. CASE outcome = "ok"
    <3> DEFINE z == [svc EXCEPT !.known = TRUE, !.toredown = FALSE, !.deleted = FALSE,
                                !.epilogRemoved = FALSE]
    <3>1. s = [Now EXCEPT !.wf = NewWorkflow, !.svc = z]
      BY <1>1, <2>1 DEF create_cb
    <3>2. ~z.doTeardown /\ ~z.teardownAfter /\ z.stateTimer # "postrun"
      BY <1>1 DEF FreshService
    <3> HIDE DEF z
    <3>3. s.svc = z /\ s.wf = NewWorkflow /\ s.toJm = toJm
      BY <1>1, <3>1 DEF SRec, SvcRec
    <3> QED BY <3>2, <3>3
  <2>2. CASE outcome # "ok"
    BY <1>1, <2>2 DEF create_cb, FreshService, SRec, SvcRec, Services
  <2> QED BY <2>1, <2>2
<1> HIDE DEF s, p
<1>5. y \in SRec /\ y.svc = s.svc /\ y.wf = s.wf /\ y.toJm \in {toJm, toJm \o p}
  <2>1. s.toJm \o p \in Seq(JmMsgs)
    BY <1>1, <1>2, <1>4
  <2>2. [s EXCEPT !.toJm = @ \o p] \in SRec
    BY <1>3, <2>1 DEF SRec, SvcRec
  <2>3. /\ [s EXCEPT !.toJm = @ \o p].svc = s.svc /\ [s EXCEPT !.toJm = @ \o p].wf = s.wf
        /\ [s EXCEPT !.toJm = @ \o p].toJm = toJm \o p
    BY <1>3, <1>4 DEF SRec, SvcRec
  <2> QED BY <1>3, <1>4, <2>2, <2>3
<1>6. Put(y, events) /\ events \in Seq(Workflows)
  BY DEF s, p, Inv, TypeOK, EnvTypeOK
<1> HIDE DEF y
<1>7. /\ y.wf.desired \in ToPreRun /\ (y.wf.exists => y.wf.desired # "none")
      /\ y.wf.exists \/ y.wf = wf
  <2>1. /\ NewWorkflow.exists /\ NewWorkflow.desired = "Proposal"
        /\ NoWorkflow.desired = "none" /\ ~NoWorkflow.exists
    BY DEF NewWorkflow, NoWorkflow
  <2> QED BY <1>1, <1>4, <1>5, <2>1 DEF ToPreRun
<1>8. Chain(events, y.wf)
  BY <1>1 DEF Chain
<1> QED BY <1>2, <1>4, <1>5, <1>6, <1>7, <1>8, AheadPut

(* dws.setup is refused or takes the Workflow to Setup.                    *)
LEMMA SetupAhead ==
  ASSUME StrictWebhook, Inv, Ahead, UNCHANGED job,
         Put(LET s == setup_cb(Now, "ok")
             IN  IF s.ok THEN s ELSE [s EXCEPT !.toJm = @ \o FailureOf("setup")], events),
         Has(toSvc', "post_run_1") => Has(toSvc, "post_run_1")
  PROVE  Ahead'
<1> DEFINE g == Get(Now)
           t == StopTimer(g)
           d == move_desiredstate(g, "Setup", "ok")
           s == setup_cb(Now, "ok")
           p == FailureOf("setup")
           y == IF s.ok THEN s ELSE [s EXCEPT !.toJm = @ \o p]
<1>1. /\ Now \in SRec /\ events \in Seq(Workflows) /\ wf \in Workflows
      /\ Now.svc = svc /\ Now.wf = wf /\ Now.toJm = toJm /\ toJm \in Seq(JmMsgs) /\ Now.ok
      /\ "setup" \in SvcMsgs /\ "Setup" \in AllStates
  BY Sizes DEF Inv, TypeOK, EnvTypeOK, SvcTypeOK, Now, SRec, SvcRec, SvcMsgs, AllStates,
               WorkflowStates
<1>2. p \in Seq(JmMsgs) /\ (Has(toJm \o p, "resource-update") => Has(toJm, "resource-update"))
  BY <1>1, FailureType, FailureKept, Sizes
<1>3. Calm(Now, g) /\ g.wf = wf /\ g \in SRec /\ g.ok
  BY <1>1, CalmSteps DEF Calm
<1>4. Calm(Now, t) /\ t.wf = wf /\ t \in SRec
  BY <1>1, <1>3, CalmSteps, CalmTwice DEF Calm
<1>5. t.toJm = toJm
  BY <1>1 DEF Get, StopTimer, SRec, SvcRec
<1>6. s = IF ~wf.exists THEN [Now EXCEPT !.ok = FALSE] ELSE ArmTimer(d, "setup")
  BY <1>1 DEF setup_cb
<1>7. Put(y, events)
  OBVIOUS
<1> HIDE DEF s, p
<1>8. ASSUME NEW x \in SRec, Calm(Now, x), x.wf = wf, x.toJm = toJm,
             s = [x EXCEPT !.ok = FALSE]
      PROVE  Ahead'
  <2> DEFINE z == [s EXCEPT !.toJm = @ \o p]
  <2>1. ~s.ok /\ s \in SRec /\ s.svc = x.svc /\ s.wf = wf /\ s.toJm = toJm
    BY <1>8 DEF SRec, SvcRec
  <2>2. y = z
    BY <2>1
  <2>3. z \in SRec /\ z.svc = x.svc /\ z.wf = wf /\ z.toJm = toJm \o p
    <3>1. toJm \o p \in Seq(JmMsgs)
      BY <1>1, <1>2
    <3> QED BY <2>1, <3>1 DEF SRec, SvcRec
  <2>4. Put(z, events)
    BY <1>7, <2>2
  <2> HIDE DEF z
  <2>5. ~z.svc.doTeardown /\ ~z.svc.teardownAfter /\ z.svc.stateTimer # "postrun"
    BY <1>1, <1>8, <2>3 DEF Calm, Ahead
  <2>6. wf.desired \in ToPreRun /\ (wf.exists => wf.desired # "none") /\ Chain(events, wf)
    BY DEF Ahead
  <2> QED BY <1>1, <1>2, <2>3, <2>4, <2>5, <2>6, AheadPut
<1>9. CASE ~wf.exists
  BY <1>1, <1>6, <1>8, <1>9, CalmSteps
<1>10. CASE wf.exists /\ ~PatchAccepted(wf, "Setup")
  <2>1. d = [t EXCEPT !.ok = FALSE]
    BY <1>3, <1>10 DEF move_desiredstate
  <2> HIDE DEF d, t
  <2>2. ~d.ok
    BY <1>4, <2>1 DEF SRec, SvcRec
  <2>3. s = d
    BY <1>6, <1>10, <2>2 DEF ArmTimer
  <2> QED BY <1>4, <1>5, <1>8, <2>1, <2>3
<1>11. CASE wf.exists /\ PatchAccepted(wf, "Setup")
  <2>1. Calm(g, d) /\ d.wf = [wf EXCEPT !.desired = "Setup"]
    BY <1>1, <1>3, <1>11, CalmMove
  <2> HIDE DEF d, g
  <2>2. Calm(d, s) /\ s.wf = d.wf
    BY <1>6, <1>11, <2>1, CalmSteps DEF Calm
  <2>3. Calm(Now, s) /\ s.ok
    BY <1>3, <2>1, <2>2, CalmTwice DEF Calm
  <2>4. Put(s, events)
    BY <1>7, <2>3
  <2>5. s.wf.desired = "Setup" /\ s.wf.exists
    BY <1>1, <1>11, <2>1, <2>2 DEF Workflows
  <2>6. Chain(events, s.wf)
    BY <1>1, <1>11, <2>1, <2>2, ChainSetup DEF Ahead
  <2> QED BY <1>1, <2>3, <2>4, <2>5, <2>6, CalmAhead DEF ToPreRun
<1> QED BY <1>9, <1>10, <1>11

LEMMA RpcAhead ==
  ASSUME StrictWebhook, Inv, StorageInv, OrderInv, Before => Ahead, HandleRpc, UNCHANGED job,
         Faultless'
  PROVE  Before' => Ahead'
<1> DEFINE msg == Head(toSvc)
<1>1. SUFFICES ASSUME Before' PROVE Ahead'
  OBVIOUS
<1>2. /\ TypeOK /\ toSvc \in Seq(SvcMsgs) /\ toSvc # <<>> /\ toSvc' = Tail(toSvc)
  BY DEF Inv, TypeOK, EnvTypeOK, HandleRpc
<1>3. \A m : Has(toSvc, m) <=> msg = m \/ Has(Tail(toSvc), m)
  BY <1>2, HasTail
<1>4. Before /\ Ahead
  BY <1>1, <1>2, <1>3 DEF Before
<1>5. msg \in {"create", "setup"}
  <2>1. CASE Has(Tail(toSvc), "post_run_1")
    BY <1>2, <2>1, LeadingTail DEF OrderInv
  <2>2. CASE ~Has(Tail(toSvc), "post_run_1")
    <3>1. Plain(job, toSvc) /\ ~job.epilogActive
      BY <1>1, <1>2, <2>2 DEF Before, OrderInv
    <3>2. Has(toSvc, msg)
      BY <1>3
    <3> HIDE DEF msg
    <3> QED BY <3>1, <3>2 DEF Plain, Has
  <2> QED BY <2>1, <2>2
<1>6. PICK outcome \in RpcOutcomes(msg) :
        /\ Charge(outcome # "ok" /\ msg # "create")
        /\ Put(LET s == Rpc(Now, msg, outcome)
               IN  IF s.ok THEN s ELSE [s EXCEPT !.toJm = @ \o FailureOf(msg)], events)
  BY DEF HandleRpc
<1>7. Has(toSvc', "post_run_1") => Has(toSvc, "post_run_1")
  BY <1>2, <1>3
<1>8. CASE msg = "create"
  <2>1. Has(toSvc, "create")
    BY <1>3, <1>8
  <2>2. Rpc(Now, msg, outcome) = create_cb(Now, outcome)
    BY <1>8 DEF Rpc
  <2> HIDE DEF msg
  <2>3. Put(LET s == create_cb(Now, outcome)
            IN  IF s.ok THEN s ELSE [s EXCEPT !.toJm = @ \o FailureOf("create")], events)
    BY <1>6, <1>8, <2>2
  <2> QED BY <1>4, <1>7, <2>1, <2>3, CreateAhead
<1>9. CASE msg = "setup"
  <2>1. outcome = "ok"
    <3>1. Spend("api") => FALSE
      BY <1>2, NotCharged
    <3> QED BY <1>6, <1>9, <3>1 DEF Charge
  <2>2. Rpc(Now, msg, outcome) = setup_cb(Now, "ok")
    BY <1>9, <2>1 DEF Rpc
  <2> HIDE DEF msg
  <2>3. Put(LET s == setup_cb(Now, "ok")
            IN  IF s.ok THEN s ELSE [s EXCEPT !.toJm = @ \o FailureOf("setup")], events)
    BY <1>6, <1>9, <2>2
  <2> QED BY <1>4, <1>7, <2>3, SetupAhead
<1> QED BY <1>5, <1>8, <1>9

LEMMA WatchAhead ==
  ASSUME Inv, Before => Ahead, HandleWatchEvent, UNCHANGED job, Faultless'
  PROVE  Before' => Ahead'
<1> DEFINE w == Head(events)
           q == Tail(events)
<1>1. SUFFICES ASSUME Before' PROVE Ahead'
  OBVIOUS
<1>2. /\ toSvc' = toSvc /\ events # <<>> /\ events \in Seq(Workflows) /\ wf \in Workflows
      /\ w \in Workflows /\ q \in Seq(Workflows)
      /\ Now \in SRec /\ Now.ok /\ Now.wf = wf
  BY Sizes DEF HandleWatchEvent, Inv, TypeOK, EnvTypeOK, SvcTypeOK, Now, SRec, SvcRec
<1>3. Ahead
  BY <1>1, <1>2 DEF Before
<1>4. wf.exists /\ Chain(events, wf)
  BY <1>2, <1>3 DEF Ahead
<1>5. Chain(q, wf) /\ Followed(w, wf)
  BY <1>2, <1>4, ChainTail
<1>6. PICK outcome \in WatchOutcomes(Now, w) :
        /\ Charge(outcome \in {"fault", "late"})
        /\ Put(workflow_state_change_cb(Now, w, outcome), q)
  BY DEF HandleWatchEvent
<1>7. outcome \notin {"fault", "late"}
  <2>1. Spend("api") => FALSE
    BY NotCharged DEF Inv
  <2> QED BY <1>6, <2>1 DEF Charge
<1> DEFINE y == workflow_state_change_cb(Now, w, outcome)
           a == [wf EXCEPT !.desired = "DataIn"]
           b == [wf EXCEPT !.desired = "PreRun"]
<1>8. /\ Calm(Now, y)
      /\ \/ y.wf = wf
         \/ state_complete(w, "Setup") /\ y.wf = a
         \/ state_complete(w, "DataIn") /\ y.wf = b
  <2>1. outcome \in WatchOutcomes(Now, w) /\ Followed(w, Now.wf) /\ Now.wf.exists
    BY <1>2, <1>4, <1>5, <1>6
  <2> HIDE DEF w
  <2> QED BY <1>2, <1>7, <2>1, WatchCalm
<1>9. /\ state_complete(w, "Setup") => Chain(q, a)
      /\ state_complete(w, "DataIn") => Chain(q, b)
  BY <1>2, <1>4, ChainMove
<1>10. Chain(q, y.wf)
  BY <1>5, <1>8, <1>9
<1>11. /\ a.exists /\ a.desired = "DataIn" /\ b.exists /\ b.desired = "PreRun"
  BY <1>2, <1>4 DEF Workflows
<1> HIDE DEF a, b
<1>12. y.wf.exists /\ y.wf.desired \in ToPreRun /\ y.wf.desired # "none"
  <2>1. wf.desired \in ToPreRun /\ wf.desired # "none"
    BY <1>3, <1>4 DEF Ahead
  <2> QED BY <1>4, <1>8, <1>11, <2>1 DEF ToPreRun
<1>13. Put(y, q)
  BY <1>6
<1> HIDE DEF y, q
<1> QED BY <1>2, <1>3, <1>8, <1>10, <1>12, <1>13, CalmAhead

(* The timers before PreRun and kill_workflows_in_tc may raise an          *)
(* exception.                                                              *)
LEMMA RaiseAhead ==
  ASSUME Inv, Before => Ahead, UNCHANGED <<job, toSvc>>, NEW y, y.toJm = toJm,
         Before => Calm(Now, y), y.wf = wf, Put(y, events) \/ Put(Raise(y), events)
  PROVE  Before' => Ahead'
<1>1. SUFFICES ASSUME Before' PROVE Ahead'
  OBVIOUS
<1>2. Ahead /\ Calm(Now, y) /\ events \in Seq(Workflows) /\ toJm \in Seq(JmMsgs)
  BY <1>1 DEF Before, Inv, TypeOK, EnvTypeOK
<1>3. wf.desired \in ToPreRun /\ (wf.exists => wf.desired # "none") /\ Chain(events, wf)
  BY <1>2 DEF Ahead
<1>4. /\ Calm(Now, Raise(y)) /\ Raise(y).wf = wf
  <2>1. y \in SRec /\ y.ok /\ "raise" \in JmMsgs
    BY <1>2 DEF Calm, JmMsgs
  <2> QED BY <1>2, <2>1, CalmSteps, CalmTwice DEF Raise
<1>5. Has(Raise(y).toJm, "resource-update") => Has(toJm, "resource-update")
  <2>1. Raise(y).toJm = Append(toJm, "raise")
    BY <1>2 DEF Raise, Tell, Calm, SRec, SvcRec
  <2>2. "raise" \in JmMsgs
    BY DEF JmMsgs
  <2> QED BY <1>2, <2>1, <2>2, HasAppend
<1>6. CASE Put(y, events)
  BY <1>2, <1>3, <1>6, CalmAhead
<1>7. CASE Put(Raise(y), events)
  BY <1>2, <1>3, <1>4, <1>5, <1>7, CalmAhead
<1> QED BY <1>6, <1>7

LEMMA SvcAhead ==
  ASSUME StrictWebhook, Inv, StorageInv, OrderInv, Before => Ahead, SvcNext, UNCHANGED job,
         Faultless'
  PROVE  Before' => Ahead'
<1>1. /\ Now \in SRec /\ Now.svc = svc /\ Now.wf = wf /\ Now.toJm = toJm /\ Now.ok
      /\ wf \in Workflows /\ svc \in Services /\ events \in Seq(Workflows)
  BY Sizes DEF Inv, TypeOK, EnvTypeOK, SvcTypeOK, Now, SRec, SvcRec
<1>2. CASE HandleRpc
  BY <1>2, RpcAhead
<1>3. CASE HandleWatchEvent
  BY <1>3, WatchAhead
<1>4. CASE StateTimeout
  <2> DEFINE y == StopTimer(Now)
  <2>1. Put(y, events) \/ Put(Raise(y), events)
    BY <1>4 DEF StateTimeout
  <2>2. Calm(Now, y) /\ y.wf = wf
    BY <1>1, CalmSteps
  <2>3. y.toJm = toJm /\ UNCHANGED toSvc
    BY <1>1, <1>4 DEF StopTimer, SRec, SvcRec, StateTimeout
  <2> HIDE DEF y
  <2> QED BY <2>1, <2>2, <2>3, RaiseAhead
<1>8. CASE ServiceStops
  BY <1>8 DEF ServiceStops, Before, Ahead, Needed, Has, FreshService, Chain
<1>5. CASE kill_workflows_in_tc
  <2> DEFINE y == Overdue(Now)
  <2>1. ServiceStops \/ (UNCHANGED toSvc /\ (Put(y, events) \/ Put(Raise(y), events)))
    BY <1>5 DEF kill_workflows_in_tc
  <2>2. /\ y \in SRec /\ y.wf = wf /\ y.toJm = toJm /\ y.ok
        /\ y.svc.doTeardown = svc.doTeardown /\ y.svc.teardownAfter = svc.teardownAfter
        /\ y.svc.stateTimer = svc.stateTimer
    BY <1>1, OverdueKeeps
  <2> HIDE DEF y
  <2>3. Calm(Now, y)
    BY <1>1, <2>2 DEF Calm
  <2> QED BY <1>8, <2>1, <2>2, <2>3, RaiseAhead
<1>6. CASE postrun_timeout_cb \/ teardown_after_timer_cb \/ teardown_workflow_coro
  BY <1>6 DEF postrun_timeout_cb, teardown_after_timer_cb, teardown_workflow_coro, Before, Ahead
<1>7. CASE delete_workflow_coro
  <2> DEFINE z == [svc EXCEPT !.doDelete = FALSE]
             y == [Now EXCEPT !.svc.doDelete = FALSE]
  <2>1. SUFFICES ASSUME Before' PROVE Ahead'
    OBVIOUS
  <2>2. Ahead /\ toSvc' = toSvc
    BY <1>7, <2>1 DEF Before, delete_workflow_coro
  <2>3. ~wf.exists
    BY <1>1, <1>7, <2>2 DEF delete_workflow_coro, StorageInv, Safe, Asked, Ahead, ToPreRun
  <2>4. Put(y, events)
    BY <1>7, <2>3 DEF delete_workflow_coro
  <2>5. /\ z \in Services /\ z.doTeardown = svc.doTeardown
        /\ z.teardownAfter = svc.teardownAfter /\ z.stateTimer = svc.stateTimer
    BY <1>1 DEF Services
  <2>6. y = [Now EXCEPT !.svc = z]
    BY <1>1
  <2> HIDE DEF z
  <2>7. y \in SRec /\ y.svc = z /\ y.wf = wf /\ y.toJm = toJm
    BY <1>1, <2>5, <2>6 DEF SRec, SvcRec
  <2> HIDE DEF y
  <2>8. /\ ~y.svc.doTeardown /\ ~y.svc.teardownAfter /\ y.svc.stateTimer # "postrun"
        /\ wf.desired \in ToPreRun /\ (wf.exists => wf.desired # "none") /\ Chain(events, wf)
    BY <2>2, <2>5, <2>7 DEF Ahead
  <2> QED BY <1>1, <2>2, <2>4, <2>7, <2>8, AheadPut
<1>9. CASE Restart
  <2>1. SUFFICES ASSUME Before' PROVE Ahead'
    OBVIOUS
  <2>2. Ahead /\ events' = Listing(wf) /\ UNCHANGED <<svc, toSvc, toJm, wf>>
    BY <1>9, <2>1 DEF Before, Restart
  <2>3. Needed' => Needed
    BY <2>2 DEF Needed
  <2>4. Chain(events', wf') /\ (events' # <<>> => wf.exists)
    <3>1. wf.desired \in ToPreRun
      BY <2>2 DEF Ahead
    <3> QED BY <2>2, <3>1 DEF Listing, Chain, Followed
  <2> QED BY <2>2, <2>3, <2>4 DEF Ahead
<1> QED BY <1>2, <1>3, <1>4, <1>5, <1>6, <1>7, <1>8, <1>9 DEF SvcNext, Crash

LEMMA EnvAhead ==
  ASSUME Inv, StorageInv, Before => Ahead, EnvNext, UNCHANGED <<job, svc>>, Faultless'
  PROVE  Before' => Ahead'
<1>1. SUFFICES ASSUME Before' PROVE Ahead'
  OBVIOUS
<1>2. /\ wf \in Workflows /\ events \in Seq(Workflows) /\ svcUp \in BOOLEAN
      /\ Safe(Now) /\ Now.wf = wf
  BY DEF Inv, TypeOK, EnvTypeOK, StorageInv, Now
<1>3. ~WatchRestart
  BY NotCharged DEF WatchRestart, Inv
<1>4. Before
  BY <1>1, <1>3 DEF EnvNext, ControllerStart, ControllerComplete,
     ControllerTransientCondition, ControllerError, OutsideDelete, ApiServerRemove,
     Update, Before
<1>5. Ahead
  BY <1>4
<1>6. ASSUME NEW w \in Workflows, Update(w), wf.exists, w.exists, w.desired = wf.desired,
             \A state \in {"Setup", "DataIn"} :
               state_complete(wf, state) => state_complete(w, state)
      PROVE  Ahead'
  <2>1. wf' = w /\ events' = Notify(events, w) /\ UNCHANGED <<toSvc, toJm, svcUp>>
    BY <1>6 DEF Update
  <2>2. w.desired \in ToPreRun /\ w.desired # "none" /\ Chain(events, wf)
    BY <1>5, <1>6 DEF Ahead
  <2>3. Chain(events, w)
    BY <1>6, <2>2, ChainKept
  <2>4. Chain(Notify(events, w), w)
    BY <1>2, <1>6, <2>2, <2>3, ChainNotify
  <2> QED BY <1>5, <1>6, <2>1, <2>2, <2>4 DEF Ahead
<1>7. CASE ControllerStart
  <2> DEFINE w == [wf EXCEPT !.state = wf.desired, !.ready = FALSE, !.status = "ok"]
  <2>1. wf.exists /\ wf.state # wf.desired /\ Update(w)
    BY <1>7 DEF ControllerStart
  <2>2. w \in Workflows /\ w.exists = wf.exists /\ w.desired = wf.desired
    BY <1>2 DEF Workflows, StatusValues
  <2> HIDE DEF w
  <2> QED BY <1>6, <2>1, <2>2 DEF state_complete, state_active
<1>8. CASE \/ ControllerComplete \/ ControllerTransientCondition \/ ControllerError
           \/ OutsideDelete
  <2> DEFINE a == [wf EXCEPT !.ready = TRUE, !.status = "ok"]
             b == [wf EXCEPT !.status = "TransientCondition"]
             c == [wf EXCEPT !.status = "Error"]
             d == [wf EXCEPT !.deleting = TRUE]
  <2>1. PICK w \in {a, b, c, d} : Update(w) /\ wf.exists
    BY <1>8 DEF ControllerComplete, ControllerTransientCondition, ControllerError,
                OutsideDelete
  <2>2. /\ w \in Workflows /\ w.exists = wf.exists /\ w.desired = wf.desired
        /\ w.state = wf.state /\ (wf.ready => w.ready)
    <3>1. w = a => w \in Workflows /\ w.exists = wf.exists
                     /\ w.desired = wf.desired /\ w.state = wf.state /\ w.ready
      BY <1>2 DEF Workflows, StatusValues
    <3>2. w \in {b, c, d} => w \in Workflows /\ w.exists = wf.exists
                     /\ w.desired = wf.desired /\ w.state = wf.state /\ w.ready = wf.ready
      BY <1>2 DEF Workflows, StatusValues
    <3> HIDE DEF a, b, c, d
    <3> QED BY <3>1, <3>2
  <2> QED BY <1>6, <2>1, <2>2 DEF state_complete, state_active
<1>9. CASE ApiServerRemove
  <2>1. wf.exists /\ ~wf.finalizer
    BY <1>9 DEF ApiServerRemove
  <2>2. wf.desired = "Teardown"
    BY <1>2, <2>1 DEF Safe
  <2> QED BY <1>5, <2>2 DEF Ahead, ToPreRun
<1> QED BY <1>3, <1>7, <1>8, <1>9 DEF EnvNext

LEMMA NextAhead ==
  ASSUME StrictWebhook, Inv, StorageInv, OrderInv, Before => Ahead, [Next]_vars,
         Faultless'
  PROVE  Before' => Ahead'
<1>1. CASE UNCHANGED vars
  BY <1>1 DEF vars, Before, Ahead, Needed, Chain
<1>2. CASE Next
  BY <1>1, <1>2, JobAhead, SvcAhead, EnvAhead DEF Next, Finished
<1> QED BY <1>1, <1>2

LEMMA InitAhead == Init => Ahead
<1> SUFFICES ASSUME Init PROVE Ahead
  OBVIOUS
<1>1. /\ toSvc = <<>> /\ toJm = <<>> /\ events = <<>> /\ wf = NoWorkflow
      /\ svc = FreshService /\ job.state = "NEW" /\ job.exec = "idle"
  BY DEF Init, EnvInit, JobInit, SvcInit
<1> QED BY <1>1 DEF Ahead, Needed, Chain, Has, NoWorkflow, FreshService, ToPreRun

---------------------------------------------------------------------------
(* The cache *)

(* A toredown flag, or an entry that kill_workflows_in_tc did not put back. *)
Held(s) == s.toredown \/ (s.known /\ ~s.revived)

(* Neither is there without the Workflow.                                  *)
Settled(x) == x.wf.exists \/ ~Held(x.svc)

(* Handlers that keep it so, and keep the Workflow.                        *)
Tidy(x, y) ==
  /\ y \in SRec
  /\ x.wf.exists => y.wf.exists
  /\ Settled(x) => Settled(y)

LEMMA TidyTwice ==
  ASSUME NEW x, NEW y, NEW z, Tidy(x, y), Tidy(y, z)
  PROVE  Tidy(x, z)
BY DEF Tidy

(* Any change of the cache is tidy that makes no entry.                    *)
LEMMA SvcTidy ==
  ASSUME NEW x \in SRec, NEW z \in Services,
         Held(z) => Held(x.svc)
  PROVE  Tidy(x, [x EXCEPT !.svc = z])
<1> DEFINE y == [x EXCEPT !.svc = z]
<1>1. y \in SRec
  BY WithSvc DEF SRec
<1>2. y.svc = z /\ y.wf = x.wf
  BY DEF SRec, SvcRec
<1> HIDE DEF y
<1>3. Tidy(x, y)
  BY <1>1, <1>2 DEF Tidy, Settled
<1> QED BY <1>3 DEF y

LEMMA TidySteps ==
  ASSUME NEW x \in SRec
  PROVE  /\ Tidy(x, x) /\ Tidy(x, StopTimer(x)) /\ Tidy(x, Forget(x)) /\ Settled(Forget(x))
         /\ \A m \in JmMsgs : Tidy(x, Tell(x, m))
         /\ \A b \in BOOLEAN : Tidy(x, [x EXCEPT !.ok = b])
         /\ \A p \in Seq(JmMsgs) : Tidy(x, [x EXCEPT !.toJm = p])
<1>1. x.svc \in Services /\ Tidy(x, x)
  BY Fields DEF Tidy
<1>2. Tidy(x, StopTimer(x))
  <2> DEFINE z == [x.svc EXCEPT !.stateTimer = "none"]
  <2>1. z \in Services /\ (Held(z) => Held(x.svc))
    BY <1>1 DEF Services, Held
  <2>2. StopTimer(x) = [x EXCEPT !.svc = z]
    BY DEF StopTimer
  <2> HIDE DEF z
  <2> QED BY <2>1, <2>2, SvcTidy
<1>3. Tidy(x, Forget(x)) /\ Settled(Forget(x))
  <2> DEFINE z == [x.svc EXCEPT !.known = FALSE, !.toredown = FALSE, !.deleted = FALSE,
                                !.epilogRemoved = FALSE, !.revived = FALSE]
  <2>1. z \in Services /\ ~Held(z)
    BY <1>1 DEF Services, Held
  <2>2. Forget(x) = [x EXCEPT !.svc = z]
    BY DEF Forget
  <2> HIDE DEF z
  <2>3. [x EXCEPT !.svc = z].svc = z
    BY DEF SRec, SvcRec
  <2> QED BY <2>1, <2>2, <2>3, SvcTidy DEF Settled
<1>4. ASSUME NEW y \in SRec, y.svc = x.svc, y.wf = x.wf
      PROVE  Tidy(x, y)
  BY <1>4 DEF Tidy, Settled
<1>5. \A m \in JmMsgs : Tidy(x, Tell(x, m))
  <2> TAKE m \in JmMsgs
  <2>1. Tell(x, m) \in SRec
    BY WithSvc DEF SRec
  <2>2. Tell(x, m).svc = x.svc /\ Tell(x, m).wf = x.wf
    BY DEF Tell, SRec, SvcRec
  <2> QED BY <1>4, <2>1, <2>2
<1>6. \A b \in BOOLEAN : Tidy(x, [x EXCEPT !.ok = b])
  <2> TAKE b \in BOOLEAN
  <2>1. /\ [x EXCEPT !.ok = b] \in SRec /\ [x EXCEPT !.ok = b].svc = x.svc
        /\ [x EXCEPT !.ok = b].wf = x.wf
    BY DEF SRec, SvcRec
  <2> QED BY <1>4, <2>1
<1>7. \A p \in Seq(JmMsgs) : Tidy(x, [x EXCEPT !.toJm = p])
  <2> TAKE p \in Seq(JmMsgs)
  <2>1. /\ [x EXCEPT !.toJm = p] \in SRec /\ [x EXCEPT !.toJm = p].svc = x.svc
        /\ [x EXCEPT !.toJm = p].wf = x.wf
    BY DEF SRec, SvcRec
  <2> QED BY <1>4, <2>1
<1> QED BY <1>1, <1>2, <1>3, <1>5, <1>6, <1>7

(* Without a Workflow the 404 branch makes no entry, and removes the one    *)
(* the handler has just made.                                              *)
LEMMA TidyCheck ==
  ASSUME NEW x \in SRec, NEW outcome
  PROVE  LET y == check_existence_and_move_to_teardown(x, outcome)
         IN  /\ Tidy(x, y)
             /\ outcome = "ok" /\ x.svc.known => Settled(y)
<1> DEFINE y == check_existence_and_move_to_teardown(x, outcome)
<1>1. y \in SRec /\ y.wf = x.wf
  BY MoveSteps, WfKept, Sizes DEF SRec
<1>2. CASE x.wf.exists
  BY <1>1, <1>2 DEF Tidy, Settled
<1>3. CASE ~x.wf.exists
  <2>1. y = IF outcome = "ok" /\ x.svc.known THEN Tell(Forget(x), "epilog-remove")
            ELSE [x EXCEPT !.ok = FALSE]
    BY <1>3 DEF check_existence_and_move_to_teardown
  <2>2. Tidy(x, Forget(x)) /\ Settled(Forget(x)) /\ Tidy(x, [x EXCEPT !.ok = FALSE])
    BY TidySteps
  <2>3. Tidy(Forget(x), Tell(Forget(x), "epilog-remove"))
    BY <2>2, TidySteps DEF Tidy, JmMsgs
  <2> DEFINE f == Forget(x)
             n == Tell(f, "epilog-remove")
  <2> HIDE DEF y, f, n
  <2>4. Tidy(x, n) /\ Settled(n)
    <3>1. Tidy(x, f) /\ Settled(f) /\ Tidy(f, n)
      BY <2>2, <2>3 DEF f, n
    <3> QED BY <3>1, TidyTwice DEF Tidy
  <2>5. CASE outcome = "ok" /\ x.svc.known
    <3>1. y = n
      BY <2>1, <2>5 DEF f, n
    <3> QED BY <2>4, <3>1 DEF y
  <2>6. CASE ~(outcome = "ok" /\ x.svc.known)
    <3>1. y = [x EXCEPT !.ok = FALSE]
      BY <2>1, <2>6
    <3> QED BY <2>2, <2>6, <3>1 DEF y
  <2> QED BY <2>5, <2>6
<1> QED BY <1>2, <1>3

(* No handler but dws.create's makes the Workflow appear or go.            *)
LEMMA MoveKeeps ==
  ASSUME NEW x \in SRec, NEW outcome
  PROVE  /\ \A state \in AllStates :
              LET y == move_desiredstate(x, state, outcome)
              IN  y \in SRec /\ y.wf.exists = x.wf.exists
         /\ \A w : remove_finalizer(x, w, outcome).wf.exists = x.wf.exists
<1>1. ASSUME NEW state \in AllStates
      PROVE  LET y == move_desiredstate(x, state, outcome)
             IN  y \in SRec /\ y.wf.exists = x.wf.exists
  <2> DEFINE t == StopTimer(x)
             y == move_desiredstate(x, state, outcome)
             b == (outcome # "late")
  <2>1. t \in SRec /\ t.wf = x.wf
    BY CacheSteps, WfKept DEF SRec
  <2>2. y \in SRec
    BY MoveSteps, Sizes DEF SRec
  <2>3. y \in {[t EXCEPT !.ok = FALSE], [t EXCEPT !.wf.desired = state, !.ok = b]}
    BY DEF move_desiredstate
  <2> HIDE DEF t, y, b
  <2>4. /\ [t EXCEPT !.ok = FALSE].wf.exists = t.wf.exists
        /\ [t EXCEPT !.wf.desired = state, !.ok = b].wf.exists = t.wf.exists
    BY <2>1, Fields DEF SRec, SvcRec, Workflows
  <2>5. y \in SRec /\ y.wf.exists = x.wf.exists
    BY <2>1, <2>2, <2>3, <2>4
  <2> QED BY <2>5 DEF y
<1>2. ASSUME NEW w
      PROVE  remove_finalizer(x, w, outcome).wf.exists = x.wf.exists
  <2>1. remove_finalizer(x, w, outcome)
          \in {x, [x EXCEPT !.ok = FALSE], [x EXCEPT !.wf.finalizer = FALSE]}
    BY DEF remove_finalizer
  <2>2. /\ [x EXCEPT !.ok = FALSE].wf = x.wf
        /\ [x EXCEPT !.wf.finalizer = FALSE].wf.exists = x.wf.exists
    BY Fields DEF SRec, SvcRec, Workflows
  <2> QED BY <2>1, <2>2
<1> QED BY <1>1, <1>2

LEMMA ArmKeeps ==
  ASSUME NEW x \in SRec, NEW kind
  PROVE  ArmTimer(x, kind).wf = x.wf
BY DEF ArmTimer, SRec, SvcRec

LEMMA StateChangeKeeps ==
  ASSUME NEW x \in SRec, NEW w, NEW outcome
  PROVE  StateChange(x, w, outcome).wf.exists = x.wf.exists
<1> DEFINE c == StateChange(x, w, outcome)
           d == move_desiredstate(x, "PreRun", outcome)
<1>0. \A state \in WorkflowStates : state \in AllStates
  BY DEF AllStates
<1>1. c \in {TeardownComplete(x, outcome), remove_finalizer(x, w, outcome),
             handle_proposal_state(x, outcome), move_desiredstate(x, "DataIn", outcome),
             ArmTimer(d, "prerun"), [x EXCEPT !.ok = FALSE],
             StopTimer(Tell(x, "prolog-remove")), move_desiredstate(x, "DataOut", outcome),
             move_to_teardown(x), x}
  BY Zenon DEF StateChange
<1>2. TeardownComplete(x, outcome).wf = x.wf
  <2> DEFINE t == IF x.svc.epilogRemoved THEN x ELSE Tell(x, "epilog-remove")
  <2>1. t \in SRec /\ t.wf = x.wf
    BY WfKept, WithSvc DEF SRec, JmMsgs
  <2>2. TeardownComplete(x, outcome)
          \in {[t EXCEPT !.ok = FALSE], [t EXCEPT !.svc.doDelete = TRUE, !.svc.deleted = TRUE]}
    BY DEF TeardownComplete
  <2> HIDE DEF t
  <2>3. /\ [t EXCEPT !.ok = FALSE].wf = t.wf
        /\ [t EXCEPT !.svc.doDelete = TRUE, !.svc.deleted = TRUE].wf = t.wf
    BY <2>1 DEF SRec, SvcRec
  <2> QED BY <2>1, <2>2, <2>3
<1>3. handle_proposal_state(x, outcome).wf = x.wf /\ [x EXCEPT !.ok = FALSE].wf = x.wf
  <2>1. [x EXCEPT !.ok = FALSE].wf = x.wf
    BY DEF SRec, SvcRec
  <2> QED BY <2>1, WfKept DEF handle_proposal_state, JmMsgs
<1>4. /\ move_desiredstate(x, "DataIn", outcome).wf.exists = x.wf.exists
      /\ move_desiredstate(x, "DataOut", outcome).wf.exists = x.wf.exists
      /\ d \in SRec /\ d.wf.exists = x.wf.exists
  BY <1>0, MoveKeeps DEF WorkflowStates
<1>5. ArmTimer(d, "prerun").wf.exists = x.wf.exists
  <2> HIDE DEF d
  <2> QED BY <1>4, ArmKeeps
<1>6. StopTimer(Tell(x, "prolog-remove")).wf = x.wf
  <2>1. Tell(x, "prolog-remove") \in SRec /\ Tell(x, "prolog-remove").wf = x.wf
    BY WfKept, WithSvc DEF SRec, JmMsgs
  <2> QED BY <2>1, WfKept
<1> HIDE DEF c, d
<1>7. remove_finalizer(x, w, outcome).wf.exists = x.wf.exists /\ move_to_teardown(x).wf = x.wf
  BY MoveKeeps, WfKept
<1>8. c.wf.exists = x.wf.exists
  BY <1>1, <1>2, <1>3, <1>4, <1>5, <1>6, <1>7
<1> QED BY <1>8 DEF c

LEMMA WatchKeeps ==
  ASSUME NEW x \in SRec, NEW w \in Workflows, NEW outcome
  PROVE  workflow_state_change_cb(x, w, outcome).wf.exists = x.wf.exists
<1> DEFINE g == Get(x)
           c == StateChange(g, w, outcome)
           h == handle_workflow_errors(c, w)
           t == workflow_state_change_cb_inner(g, w, outcome)
           r == Raise(move_to_teardown(t))
<1>1. g \in SRec /\ g.wf = x.wf
  BY CacheSteps, WfKept DEF SRec
<1>2. t \in {g, h, c}
  BY DEF workflow_state_change_cb_inner
<1>3. workflow_state_change_cb(x, w, outcome) \in {Forget(x), t, r}
  BY DEF workflow_state_change_cb
<1>4. w \in WfIn(AllStates)
  BY Sizes
<1> HIDE DEF g
<1>5. c \in SRec /\ c.wf.exists = x.wf.exists
  BY <1>1, <1>4, StateChangeType, StateChangeKeeps, Sizes DEF SRec
<1> HIDE DEF c
<1>6. h \in SRec /\ h.wf = c.wf
  <2> DEFINE b == Condition(w)
             z == [c.svc EXCEPT !.tc = b]
  <2>1. [c EXCEPT !.svc.tc = b] = [c EXCEPT !.svc = z]
    OBVIOUS
  <2>2. z \in Services
    <3>1. b \in {"none", "prerun", "other"}
      BY DEF Condition
    <3> HIDE DEF b
    <3> QED BY <1>5, <3>1, Fields DEF Services
  <2>3. h \in {Tell(c, "raise"), [c EXCEPT !.svc = z]}
    BY <2>1 DEF handle_workflow_errors, Raise
  <2> HIDE DEF z, h
  <2>4. /\ [c EXCEPT !.svc = z] \in SRec /\ [c EXCEPT !.svc = z].wf = c.wf
        /\ Tell(c, "raise") \in SRec /\ Tell(c, "raise").wf = c.wf
    BY <1>5, <2>2, WithSvc, WfKept DEF SRec, SvcRec, JmMsgs
  <2> QED BY <2>3, <2>4
<1> HIDE DEF h
<1>7. t \in SRec /\ t.wf.exists = x.wf.exists
  BY <1>1, <1>2, <1>5, <1>6
<1> HIDE DEF t
<1>8. r.wf.exists = x.wf.exists
  <2>1. move_to_teardown(t) \in SRec /\ move_to_teardown(t).wf = t.wf
    BY <1>7, CacheSteps, WfKept DEF SRec
  <2> QED BY <1>7, <2>1, WfKept
<1> HIDE DEF r
<1> QED BY <1>3, <1>7, <1>8, WfKept

(* An entry or a toredown flag has its Workflow, or a snapshot is on its    *)
(* way that will remove it.                                                *)
Cached == Held(svc) => wf.exists \/ events # <<>>

LEMMA PutCached ==
  ASSUME Inv, Cached, NEW y, Put(y, events),
         events # <<>> \/ Settled(y)
  PROVE  Cached'
<1>1. /\ svc' = y.svc /\ wf' = y.wf /\ events' = Notify(events, y.wf)
      /\ events \in Seq(Workflows)
  BY DEF Put, Inv, TypeOK, EnvTypeOK
<1>2. events # <<>> => events' # <<>>
  BY <1>1 DEF Notify
<1> QED BY <1>1, <1>2 DEF Cached, Settled

LEMMA RpcCached ==
  ASSUME Inv, StorageInv, Before => Ahead, Cached, HandleRpc, Faultless'
  PROVE  Cached'
<1> DEFINE msg == Head(toSvc)
<1>1. /\ Now \in SRec /\ Now.svc = svc /\ Now.wf = wf /\ Now.toJm = toJm
      /\ toSvc \in Seq(SvcMsgs) /\ toSvc # <<>> /\ msg \in SvcMsgs
      /\ "Setup" \in AllStates /\ "PostRun" \in AllStates
  BY Sizes DEF Inv, TypeOK, EnvTypeOK, SvcTypeOK, Now, SRec, SvcRec, HandleRpc, AllStates,
               WorkflowStates
<1>2. Has(toSvc, msg)
  BY <1>1, HasTail
<1>3. PICK outcome \in RpcOutcomes(msg) :
        /\ Charge(outcome # "ok" /\ msg # "create")
        /\ Put(LET s == Rpc(Now, msg, outcome)
               IN  IF s.ok THEN s ELSE [s EXCEPT !.toJm = @ \o FailureOf(msg)], events)
  BY DEF HandleRpc
<1>4. msg # "create" => outcome = "ok"
  <2>1. Spend("api") => FALSE
    BY NotCharged DEF Inv
  <2> QED BY <1>3, <2>1 DEF Charge
<1>5. CASE events # <<>>
  <2> HIDE DEF msg
  <2> QED BY <1>3, <1>5, PutCached
<1>6. CASE events = <<>>
  <2> HIDE DEF msg
  <2>1. Settled(Now)
    BY <1>1, <1>6 DEF Cached, Settled
  <2> DEFINE g == Get(Now)
             k == check_existence_and_move_to_teardown(g, "ok")
             t == [g EXCEPT !.svc.epilogRemoved = TRUE]
             l == check_existence_and_move_to_teardown(t, "ok")
             s == Rpc(Now, msg, outcome)
  <2>2. g \in SRec /\ g.svc.known /\ g.wf = wf /\ g.svc \in Services
    <3>1. g \in SRec /\ g.wf = wf
      BY <1>1, CacheSteps, WfKept DEF SRec
    <3>2. g.svc.known
      BY <1>1, Fields DEF Get, SRec, SvcRec, Services
    <3> QED BY <3>1, <3>2, Fields
  <2>3. Settled(k)
    BY <2>2, TidyCheck
  <2>4. t \in SRec /\ t.svc.known /\ t.wf = wf
    <3> DEFINE z == [g.svc EXCEPT !.epilogRemoved = TRUE]
    <3>1. t = [g EXCEPT !.svc = z] /\ z \in Services /\ z.known
      BY <2>2 DEF Services
    <3> HIDE DEF z, g, t
    <3> QED BY <2>2, <3>1 DEF SRec, SvcRec
  <2>5. Settled(l)
    BY <2>4, TidyCheck
  <2>6. s \in SRec
    <3>1. "post_run_1" \in SvcMsgs => WorkflowStates \subseteq AllStates
      BY DEF AllStates
    <3> QED BY <1>1, RpcType, Sizes DEF SRec, SvcMsgs, AllStates
  <2>7. Settled(s)
    <3>1. CASE msg = "create"
      <4>1. svc = FreshService
        BY <1>2, <3>1 DEF StorageInv, Unborn
      <4>2. s = create_cb(Now, outcome)
        BY <3>1 DEF Rpc
      <4> DEFINE z == [svc EXCEPT !.known = TRUE, !.toredown = FALSE, !.deleted = FALSE,
                                  !.epilogRemoved = FALSE]
      <4>3. s \in {[Now EXCEPT !.wf = NewWorkflow, !.svc = z],
                   [Now EXCEPT !.wf = NewWorkflow, !.ok = FALSE], [Now EXCEPT !.ok = FALSE]}
        BY <1>1, <4>2 DEF create_cb
      <4> HIDE DEF z, s
      <4>4. s.wf = NewWorkflow \/ (s.svc = svc /\ s.wf = wf)
        BY <1>1, <4>3 DEF SRec, SvcRec
      <4>5. NewWorkflow.exists /\ ~Held(FreshService)
        BY DEF NewWorkflow, NoWorkflow, FreshService, Held
      <4> QED BY <4>1, <4>4, <4>5 DEF Settled
    <3>2. CASE msg = "setup"
      <4> DEFINE d == move_desiredstate(g, "Setup", "ok")
      <4>1. s = IF ~wf.exists THEN [Now EXCEPT !.ok = FALSE] ELSE ArmTimer(d, "setup")
        BY <1>1, <1>4, <3>2 DEF Rpc, setup_cb
      <4>2. d \in SRec /\ d.wf.exists = wf.exists
        BY <1>1, <2>2, MoveKeeps
      <4>3. Tidy(Now, [Now EXCEPT !.ok = FALSE])
        BY <1>1, TidySteps
      <4> HIDE DEF s, d
      <4>4. ArmTimer(d, "setup").wf.exists = wf.exists
        BY <4>2, ArmKeeps
      <4> QED BY <2>1, <4>1, <4>3, <4>4 DEF Settled, Tidy
    <3>3. CASE msg = "post_run_0" \/ msg = "teardown"
      <4>1. s = IF svc.toredown THEN Now ELSE k
        BY <1>1, <1>4, <3>3 DEF Rpc, post_run_cb, teardown_cb
      <4> HIDE DEF s, k
      <4> QED BY <2>1, <2>3, <4>1
    <3>4. CASE msg = "abort"
      <4>1. s = IF svc.toredown THEN t ELSE l
        BY <1>1, <1>4, <3>4 DEF Rpc, abort_cb
      <4>2. svc.toredown => Settled(t)
        BY <1>1, <2>1, <2>4 DEF Settled, Held
      <4> HIDE DEF s, l, t
      <4> QED BY <2>5, <4>1, <4>2
    <3>5. CASE msg = "post_run_1"
      <4>1. wf.exists
        BY <1>2, <3>5 DEF Before, Ahead, Needed
      <4> DEFINE d == move_desiredstate(g, "PostRun", "ok")
                 b == d.svc.teardownAfter \/ (d.ok /\ "teardown_after" \in Timers)
                 e == [d EXCEPT !.svc.teardownAfter = b]
      <4>2. s \in {Now, ArmTimer(e, "postrun")}
        BY <1>1, <1>4, <3>5 DEF Rpc, post_run_cb
      <4>3. d \in SRec /\ d.wf.exists
        BY <1>1, <2>2, <4>1, MoveKeeps
      <4> HIDE DEF s, d, b
      <4>4. e.wf = d.wf /\ ArmTimer(e, "postrun").wf = e.wf
        BY <4>3 DEF ArmTimer, SRec, SvcRec
      <4> HIDE DEF e
      <4> QED BY <1>1, <4>1, <4>2, <4>3, <4>4 DEF Settled
    <3> QED BY <1>1, <3>1, <3>2, <3>3, <3>4, <3>5 DEF SvcMsgs
  <2> DEFINE p == FailureOf(msg)
             y == IF s.ok THEN s ELSE [s EXCEPT !.toJm = @ \o p]
  <2>8. Put(y, events)
    BY <1>3
  <2>9. s.toJm \o p \in Seq(JmMsgs)
    <3>1. p \in Seq(JmMsgs)
      BY <1>1, FailureType, Sizes
    <3> HIDE DEF s, p
    <3> QED BY <2>6, <3>1, Fields
  <2> HIDE DEF s, p
  <2>10. Settled(y)
    <3>1. Tidy(s, [s EXCEPT !.toJm = s.toJm \o p])
      BY <2>6, <2>9, TidySteps
    <3> QED BY <2>7, <3>1 DEF Tidy
  <2> HIDE DEF y
  <2> QED BY <2>8, <2>10, PutCached
<1> QED BY <1>5, <1>6

LEMMA WatchCached ==
  ASSUME Inv, OrderInv, Cached, HandleWatchEvent
  PROVE  Cached'
<1> DEFINE w == Head(events)
           q == Tail(events)
<1>1. /\ events # <<>> /\ events \in Seq(Workflows) /\ wf \in Workflows
      /\ w \in Workflows /\ q \in Seq(Workflows) /\ Latest(events, wf)
      /\ Now \in SRec /\ Now.wf = wf
  BY Sizes DEF HandleWatchEvent, Inv, TypeOK, EnvTypeOK, SvcTypeOK, Now, SRec, SvcRec, OrderInv
<1>2. PICK outcome : Put(workflow_state_change_cb(Now, w, outcome), q)
  BY DEF HandleWatchEvent
<1> DEFINE y == workflow_state_change_cb(Now, w, outcome)
<1>3. y.wf.exists = wf.exists
  <2> HIDE DEF w
  <2> QED BY <1>1, WatchKeeps
<1>4. svc' = y.svc /\ wf' = y.wf /\ events' = Notify(q, y.wf)
  BY <1>2 DEF Put
<1>5. CASE q # <<>>
  <2>1. events' # <<>>
    <3> HIDE DEF q, y
    <3> QED BY <1>1, <1>4, <1>5 DEF Notify
  <2> QED BY <2>1 DEF Cached
<1>6. CASE wf.exists
  <2> HIDE DEF y
  <2> QED BY <1>3, <1>4, <1>6 DEF Cached
<1>7. CASE q = <<>> /\ ~wf.exists
  <2>1. w = wf
    <3>1. Len(events) \in Nat /\ Len(q) = Len(events) - 1 /\ w = events[1]
      BY <1>1
    <3>2. Len(q) = 0
      <4> HIDE DEF q
      <4> QED BY <1>7
    <3> HIDE DEF q, w
    <3>3. Len(events) = 1
      BY <3>1, <3>2
    <3> QED BY <1>1, <3>1, <3>3 DEF Latest
  <2>2. y = Forget(Now)
    BY <1>7, <2>1 DEF workflow_state_change_cb
  <2>3. Settled(y)
    BY <1>1, <2>2, TidySteps
  <2> HIDE DEF y
  <2> QED BY <1>4, <2>3 DEF Cached, Settled
<1> QED BY <1>5, <1>6, <1>7

LEMMA SvcCached ==
  ASSUME Inv, StorageInv, OrderInv, Before => Ahead, Cached, SvcNext, Faultless'
  PROVE  Cached'
<1>1. /\ Now \in SRec /\ Now.svc = svc /\ Now.wf = wf /\ Now.toJm = toJm
      /\ wf \in Workflows /\ svc \in Services /\ events \in Seq(Workflows) /\ "raise" \in JmMsgs
  BY Sizes DEF Inv, TypeOK, EnvTypeOK, SvcTypeOK, Now, SRec, SvcRec, JmMsgs
<1>2. ASSUME NEW y, Put(y, events), Tidy(Now, y)
      PROVE  Cached'
  <2>1. events # <<>> \/ Settled(Now)
    BY <1>1 DEF Cached, Settled
  <2> QED BY <1>2, <2>1, PutCached DEF Tidy
<1>3. \A y : Tidy(Now, y) => Tidy(Now, Raise(y))
  <2> SUFFICES ASSUME NEW y, Tidy(Now, y) PROVE Tidy(Now, Raise(y))
    OBVIOUS
  <2>1. Tidy(y, Raise(y))
    BY <1>1, TidySteps DEF Tidy, Raise
  <2> QED BY <2>1, TidyTwice
<1>4. \A y : Tidy(Now, y) => \A outcome :
         Tidy(Now, [check_existence_and_move_to_teardown(y, outcome) EXCEPT !.ok = TRUE])
  <2> SUFFICES ASSUME NEW y, Tidy(Now, y), NEW outcome
      PROVE  Tidy(Now, [check_existence_and_move_to_teardown(y, outcome) EXCEPT !.ok = TRUE])
    OBVIOUS
  <2> DEFINE c == check_existence_and_move_to_teardown(y, outcome)
  <2>1. Tidy(y, c) /\ c \in SRec
    BY TidyCheck DEF Tidy
  <2> HIDE DEF c
  <2>2. Tidy(c, [c EXCEPT !.ok = TRUE])
    BY <2>1, TidySteps
  <2>3. Tidy(Now, [c EXCEPT !.ok = TRUE])
    BY <2>1, <2>2, TidyTwice
  <2> QED BY <2>3 DEF c
<1>5. Tidy(Now, StopTimer(Now))
  BY <1>1, TidySteps
<1>6. CASE HandleRpc
  BY <1>6, RpcCached
<1>7. CASE HandleWatchEvent
  BY <1>7, WatchCached
<1>8. CASE StateTimeout
  BY <1>2, <1>3, <1>5, <1>8 DEF StateTimeout
<1>9. CASE postrun_timeout_cb
  <2> DEFINE d(check) == [check_existence_and_move_to_teardown(StopTimer(Now), check)
                            EXCEPT !.ok = TRUE]
  <2>1. PICK check : Put(Raise(Raise(d(check))), events) \/ Put(Raise(d(check)), events)
    BY <1>9 DEF postrun_timeout_cb
  <2>2. Tidy(Now, d(check))
    BY <1>4, <1>5
  <2> HIDE DEF d
  <2> QED BY <1>2, <1>3, <2>1, <2>2
<1>10. CASE teardown_after_timer_cb
  <2> DEFINE n == [Now EXCEPT !.svc.teardownAfter = FALSE]
             z == [svc EXCEPT !.teardownAfter = FALSE]
  <2>1. PICK outcome : Put([check_existence_and_move_to_teardown(n, outcome)
                              EXCEPT !.ok = TRUE], events)
    BY <1>10 DEF teardown_after_timer_cb
  <2>2. n = [Now EXCEPT !.svc = z] /\ z \in Services /\ (Held(z) => Held(svc))
    BY <1>1 DEF Services, Held
  <2> HIDE DEF z
  <2>3. Tidy(Now, n)
    BY <1>1, <2>2, SvcTidy
  <2> HIDE DEF n
  <2> QED BY <1>2, <1>4, <2>1, <2>3
<1>13. CASE ServiceStops
  BY <1>13 DEF ServiceStops, Cached, Held, FreshService
<1>11. CASE kill_workflows_in_tc
  <2> DEFINE n == Overdue(Now)
  <2>1. ServiceStops \/ Put(Raise(n), events) \/ Put(n, events)
    BY <1>11 DEF kill_workflows_in_tc
  <2>2. /\ n \in SRec /\ n.wf = wf /\ n.svc.toredown = svc.toredown
        /\ n.svc.known /\ ~n.svc.revived => svc.known /\ ~svc.revived
    BY <1>1, OverdueKeeps
  <2> HIDE DEF n
  <2>3. Tidy(Now, n)
    BY <1>1, <2>2 DEF Tidy, Settled, Held
  <2> QED BY <1>2, <1>3, <1>13, <2>1, <2>3
<1>12. CASE teardown_workflow_coro \/ delete_workflow_coro
  <2> DEFINE a == [svc EXCEPT !.doTeardown = FALSE]
             b == [svc EXCEPT !.doDelete = FALSE]
             p == [Now EXCEPT !.svc.doTeardown = FALSE]
             q == [Now EXCEPT !.svc.doDelete = FALSE]
             v == [wf EXCEPT !.desired = "Teardown", !.finalizer = FALSE]
             u == [wf EXCEPT !.finalizer = FALSE, !.deleting = TRUE]
  <2>1. \E y \in {p, q, [p EXCEPT !.wf.desired = "Teardown", !.wf.finalizer = FALSE],
                  [q EXCEPT !.wf.finalizer = FALSE, !.wf.deleting = TRUE]} : Put(y, events)
    BY <1>12 DEF teardown_workflow_coro, delete_workflow_coro
  <2>2. /\ a \in Services /\ (Held(a) => Held(svc))
        /\ b \in Services /\ (Held(b) => Held(svc))
        /\ v \in Workflows /\ v.exists = wf.exists /\ u \in Workflows /\ u.exists = wf.exists
        /\ p = [Now EXCEPT !.svc = a] /\ q = [Now EXCEPT !.svc = b]
    BY <1>1 DEF Services, Workflows, WorkflowStates, Held
  <2> HIDE DEF a, b
  <2>3. Tidy(Now, p) /\ Tidy(Now, q) /\ p.wf = wf /\ q.wf = wf
    <3>1. Tidy(Now, p) /\ Tidy(Now, q)
      BY <1>1, <2>2, SvcTidy
    <3>2. p.wf = wf /\ q.wf = wf
      BY <1>1, <2>2 DEF SRec, SvcRec
    <3> QED BY <3>1, <3>2
  <2> HIDE DEF p, q
  <2>4. /\ [p EXCEPT !.wf.desired = "Teardown", !.wf.finalizer = FALSE] = [p EXCEPT !.wf = v]
        /\ [q EXCEPT !.wf.finalizer = FALSE, !.wf.deleting = TRUE] = [q EXCEPT !.wf = u]
    BY <2>3 DEF Tidy, SRec, SvcRec
  <2> HIDE DEF u, v
  <2>5. \A x \in {p, q} : \A f \in {u, v} : Tidy(x, [x EXCEPT !.wf = f])
    <3> SUFFICES ASSUME NEW x \in {p, q}, NEW f \in {u, v} PROVE Tidy(x, [x EXCEPT !.wf = f])
      OBVIOUS
    <3> DEFINE y == [x EXCEPT !.wf = f]
    <3>1. x \in SRec /\ f \in Workflows /\ f.exists = x.wf.exists
      BY <2>2, <2>3 DEF Tidy
    <3>2. y \in SRec
      BY <3>1, WithSvc, Sizes DEF SRec
    <3>3. y.svc = x.svc /\ y.wf = f
      BY <3>1 DEF SRec, SvcRec
    <3> HIDE DEF y
    <3>4. Tidy(x, y)
      BY <3>1, <3>2, <3>3 DEF Tidy, Settled
    <3> QED BY <3>4 DEF y
  <2> QED BY <1>2, <2>1, <2>3, <2>4, <2>5, TidyTwice
<1>14. CASE Restart
  BY <1>14 DEF Restart, OrderInv, Cached, Held, FreshService
<1> QED BY <1>6, <1>7, <1>8, <1>9, <1>10, <1>11, <1>12, <1>13, <1>14 DEF SvcNext, Crash

LEMMA EnvCached ==
  ASSUME Inv, OrderInv, Cached, EnvNext, UNCHANGED svc, Faultless'
  PROVE  Cached'
<1>1. /\ wf \in Workflows /\ events \in Seq(Workflows) /\ svcUp \in BOOLEAN
  BY DEF Inv, TypeOK, EnvTypeOK
<1>2. ~WatchRestart
  BY NotCharged DEF WatchRestart, Inv
<1> DEFINE a == [wf EXCEPT !.state = wf.desired, !.ready = FALSE, !.status = "ok"]
           b == [wf EXCEPT !.ready = TRUE, !.status = "ok"]
           c == [wf EXCEPT !.status = "TransientCondition"]
           d == [wf EXCEPT !.status = "Error"]
           e == [wf EXCEPT !.deleting = TRUE]
<1>3. PICK w \in {a, b, c, d, e, NoWorkflow} : Update(w) /\ wf.exists
  BY <1>2 DEF EnvNext, ControllerStart, ControllerComplete,
       ControllerTransientCondition, ControllerError, OutsideDelete, ApiServerRemove
<1>4. wf' = w /\ events' = Notify(events, w)
  BY <1>3 DEF Update
<1>5. w.exists \/ w = NoWorkflow
  <2>1. a.exists /\ b.exists /\ c.exists /\ d.exists /\ e.exists
    BY <1>1, <1>3 DEF Workflows
  <2> HIDE DEF a, b, c, d, e
  <2> QED BY <1>3, <2>1
<1>6. w = NoWorkflow => w # wf
  BY <1>3 DEF NoWorkflow
<1> HIDE DEF a, b, c, d, e
<1>7. CASE svcUp
  <2>1. w # wf => events' # <<>>
    BY <1>1, <1>4, <1>7 DEF Notify
  <2> QED BY <1>4, <1>5, <1>6, <2>1 DEF Cached
<1>8. CASE ~svcUp
  BY <1>8 DEF OrderInv, Cached, Held, FreshService
<1> QED BY <1>1, <1>7, <1>8

LEMMA NextCached ==
  ASSUME Inv, StorageInv, OrderInv, Before => Ahead, Cached, [Next]_vars, Faultless'
  PROVE  Cached'
<1>1. CASE UNCHANGED vars
  BY <1>1 DEF vars, Cached
<1>2. CASE JobNext /\ UNCHANGED svc
  BY <1>2, JobNextEffect DEF JobEffect, Cached
<1>3. CASE Next
  BY <1>1, <1>2, <1>3, SvcCached, EnvCached DEF Next, Finished
<1> QED BY <1>1, <1>3

(* CacheForgotten: as long as no call of the service has failed and its     *)
(* watch has not started over, no entry outlives the job and its Workflow   *)
(* but one that kill_workflows_in_tc put back (a crash loses the cache with *)
(* everything else, so the service may stop as often as it likes).          *)
THEOREM EntriesForgotten == StrictWebhook => (Spec => []CacheForgotten)
<1> SUFFICES ASSUME StrictWebhook PROVE Spec => []CacheForgotten
  OBVIOUS
<1> DEFINE Calls == OrderInv /\ (Before => Ahead) /\ Cached
           CacheInv == Inv /\ StorageInv /\ (Faultless => Calls)
<1>1. Init => CacheInv
  <2> SUFFICES ASSUME Init PROVE CacheInv
    OBVIOUS
  <2>1. svc = FreshService
    BY DEF Init, SvcInit
  <2>2. Cached
    BY <2>1 DEF Cached, Held, FreshService
  <2> QED BY <2>2, InitInv, InitStorage, InitOrder, InitAhead
<1>2. CacheInv /\ [Next]_vars => CacheInv'
  <2> SUFFICES ASSUME CacheInv, [Next]_vars PROVE CacheInv'
    OBVIOUS
  <2>1. Inv' /\ StorageInv'
    BY NextInv, NextStorage
  <2>2. ASSUME Faultless' PROVE Calls'
    <3>1. Faultless
      BY <2>2, FaultlessBefore DEF Inv
    <3> QED BY <2>1, <2>2, <3>1, NextOrder, NextAhead, NextCached
  <2> QED BY <2>1, <2>2
<1>3. CacheInv => CacheForgotten
  BY DEF Cached, Held, Faultless, CacheForgotten
<1> HIDE DEF CacheInv
<1> QED BY <1>1, <1>2, <1>3, PTL DEF Spec
=============================================================================
