--------------------------- MODULE RabbitJobProofs ---------------------------
(***************************************************************************)
(* Type correctness of RabbitJob, and the bookkeeping of prologs and       *)
(* epilogs, for every faults of faults and every configuration.            *)
(*                                                                         *)
(* Whether the count of prologs and epilogs is right depends on the        *)
(* service: dws.prolog-remove for a job without a prolog would be counted  *)
(* against its epilog.  So the invariant also says how far the Workflow,   *)
(* its snapshots and the messages can be while run_cb has not run.  The    *)
(* lemmas take the sets of messages (A to the service, B to the job        *)
(* manager) and of desired states (D) as parameters; they are used once    *)
(* with all of them and once with the early ones.                          *)
(***************************************************************************)
EXTENDS RabbitJob, TLAPS

(* What the callbacks of the plugin work on. *)
JmRec(A, B) == [job : Jobs, toSvc : Seq(A), toJm : Seq(B)]

(* A and B hold the messages that any callback may send. *)
Enough(A, B) ==
  /\ A \subseteq SvcMsgs /\ {"post_run_0", "teardown", "abort"} \subseteq A
  /\ B \subseteq JmMsgs
  /\ {"create-fail", "setup-fail", "post_run-fail"} \subseteq B

(* The strengthening of PerilogsBalanced and OneEpilogPerJob: how the       *)
(* state of the job, its prolog, its epilog and its tasks go together.      *)
Mine(j) ==
  (IF j.prolog = "active" THEN 1 ELSE 0) + (IF j.epilogStatus = "open" THEN 1 ELSE 0)

Good(j) ==
  /\ j.perilogs <= Mine(j) + j.others
  /\ ~j.taken => j.perilogs = Mine(j) + j.others
  /\ j.taken => j.state \in {"CLEANUP", "INACTIVE"}
  /\ j.epilogStarts = (IF j.epilogActive THEN 1 ELSE 0)
  /\ j.epilogActive <=> j.epilogStatus # "none"
  /\ j.epilogActive => j.state \in {"CLEANUP", "INACTIVE"}
  /\ j.state = "INACTIVE" => j.epilogActive
  /\ j.state = "INACTIVE" /\ ~j.taken => j.epilogStatus \in {"ok", "failed"}
  /\ j.state = "CLEANUP" => j.epilogActive \/ j.exec = "running"
  /\ j.prolog = "active" => j.state = "RUN" /\ j.exec = "idle"
  /\ j.state \in {"NEW", "DEPEND", "SCHED"} => j.prolog = "unset" /\ j.others = 0
  /\ j.prolog = "unset" => j.state # "RUN" /\ j.exec = "idle" /\ ~j.fetchR
  /\ j.exec = "done" => j.epilogActive
  /\ j.exec \in {"pending", "running"} => j.state \in {"RUN", "CLEANUP"}
  /\ j.subs = 0 => j.state = "NEW"

(* The response to a failed request is one of the three failure messages.  *)
LEMMA FailureType ==
  ASSUME NEW A, NEW B, Enough(A, B), NEW msg \in SvcMsgs
  PROVE  FailureOf(msg) \in Seq(B)
<1>1. <<>> \in Seq(B)
  OBVIOUS
<1>2. \A m \in B : <<m>> \in Seq(B)
  OBVIOUS
<1>3. {"create-fail", "setup-fail", "post_run-fail"} \subseteq B
  BY DEF Enough
<1>4. FailureOf(msg) \in {<<>>, <<"create-fail">>, <<"setup-fail">>, <<"post_run-fail">>}
  BY DEF FailureOf
<1> QED
  BY <1>1, <1>2, <1>3, <1>4, Zenon

(* Send appends to one of the two streams and leaves the job alone.        *)
LEMMA SendType ==
  ASSUME NEW A, NEW B, Enough(A, B), svcUp \in BOOLEAN,
         NEW s \in JmRec(A, B), NEW msg \in A
  PROVE  Send(s, msg) \in JmRec(A, B) /\ Send(s, msg).job = s.job
<1>1. Append(s.toSvc, msg) \in Seq(A)
  BY DEF JmRec
<1>2. s.toJm \o FailureOf(msg) \in Seq(B)
  BY FailureType DEF JmRec, Enough
<1> QED
  BY <1>1, <1>2 DEF Send, JmRec

(* Replacing the job keeps the record a record of the same kind.           *)
LEMMA WithJob ==
  ASSUME NEW A, NEW B, NEW s \in JmRec(A, B), NEW j \in Jobs
  PROVE  LET t == [s EXCEPT !.job = j]
         IN  t \in JmRec(A, B) /\ t.job = j
BY DEF JmRec

---------------------------------------------------------------------------
(* Changes of the job *)

(* Finishing an active prolog (dws_prolog_finish, exception_cb) keeps a    *)
(* job good.                                                               *)
LEMMA PrologFinishes ==
  ASSUME NEW j \in Jobs, Good(j), j.prolog = "active",
         NEW k, k = [j EXCEPT !.perilogs = OneLess(j.perilogs),
                              !.prologFinishes = j.prologFinishes + 1,
                              !.prolog = "finished"]
  PROVE  k \in Jobs /\ Good(k)
<1>0. j.state = "RUN" /\ ~j.taken /\ ~j.epilogActive /\ j.epilogStatus = "none"
  BY DEF Good, Jobs
<1>1. j.prologFinishes + 1 \in Nat /\ OneLess(j.perilogs) = j.others
      /\ OneLess(j.perilogs) \in Nat
  BY <1>0 DEF Jobs, OneLess, Good, Mine
<1>2. k \in Jobs
  BY <1>1 DEF Jobs
<1>3. k.perilogs = k.others /\ k.prolog = "finished" /\ Mine(k) = 0
  BY <1>0, <1>1 DEF Jobs, Mine
<1>4. k.perilogs <= Mine(k) + k.others /\ k.perilogs = Mine(k) + k.others
  BY <1>2, <1>3 DEF Jobs
<1> QED
  BY <1>0, <1>1, <1>2, <1>3, <1>4 DEF Jobs, Good

(* Finishing an epilog keeps a job good, whether it is open, over or was   *)
(* never started: the count stops at zero, or is taken from others.        *)
LEMMA EpilogFinishes ==
  ASSUME NEW j \in Jobs, Good(j), j.state \in {"NEW", "CLEANUP"}, NEW status \in {"ok", "failed"},
         NEW k, k = [j EXCEPT !.perilogs = OneLess(j.perilogs),
                              !.taken = j.taken \/ (j.epilogStatus # "open"
                                                     /\ j.perilogs > 0),
                              !.epilogStatus = IF j.epilogStatus = "open" THEN status
                                               ELSE j.epilogStatus]
  PROVE  k \in Jobs /\ Good(k)
<1> DEFINE st == IF j.epilogStatus = "open" THEN status ELSE j.epilogStatus
           tk == j.taken \/ (j.epilogStatus # "open" /\ j.perilogs > 0)
<1>1. OneLess(j.perilogs) \in Nat /\ st \in {"none", "open", "ok", "failed"}
      /\ tk \in BOOLEAN
  BY DEF Jobs, OneLess
<1>2. k \in Jobs
  BY <1>1 DEF Jobs
<1>3. j.prolog # "active" /\ j.others \in Nat /\ j.perilogs \in Nat
  BY DEF Jobs, Good
<1>4. /\ k.perilogs = OneLess(j.perilogs) /\ k.others = j.others
      /\ k.prolog = j.prolog /\ k.epilogStatus = st /\ (k.taken <=> tk)
      /\ k.state = j.state
  BY DEF Jobs
<1>5. k.perilogs <= Mine(k) + k.others /\ (~k.taken => k.perilogs = Mine(k) + k.others)
  BY <1>3, <1>4 DEF Good, Mine, OneLess
<1>6. k.taken => k.state \in {"CLEANUP", "INACTIVE"}
  BY <1>3, <1>4 DEF Good, Mine
<1> QED
  BY <1>2, <1>4, <1>5, <1>6 DEF Jobs, Good

(* Moving a job without prolog to CLEANUP and starting its epilog keeps it *)
(* good.                                                                   *)
LEMMA EpilogStarts ==
  ASSUME NEW j \in Jobs, Good(j), j.state \in {"DEPEND", "SCHED", "RUN"},
         j.prolog # "active", j.exec \in {"idle", "pending"},
         NEW k, k = [j EXCEPT !.state = "CLEANUP",
                        !.epilogActive = TRUE,
                        !.perilogs = j.perilogs + 1,
                        !.epilogStarts = j.epilogStarts + 1,
                        !.epilogStatus = "open",
                        !.timer = EpilogTimeout]
  PROVE  k \in Jobs /\ Good(k)
<1>1. /\ j.perilogs = j.others /\ ~j.taken /\ j.epilogStarts = 0 /\ j.others \in Nat
      /\ j.perilogs + 1 \in Nat /\ j.epilogStarts + 1 \in Nat
  BY DEF Jobs, Good, Mine
<1>2. k \in Jobs
  BY <1>1, EpilogTimeoutAssumption DEF Jobs, JobStates
<1>3. k.perilogs = 1 + k.others /\ Mine(k) = 1 /\ ~k.taken
  BY <1>1 DEF Jobs, Mine
<1> QED
  BY <1>1, <1>2, <1>3 DEF Jobs, Good

---------------------------------------------------------------------------
(* Callbacks *)
(* What no callback but run_cb, fetch_R_callback and finish_cb changes. *)
Keeps(j, k) ==
  /\ k.exec = j.exec /\ k.fetchR = j.fetchR /\ k.subs = j.subs
  /\ k.prolog = "unset" <=> j.prolog = "unset"

GoodRec(A, B) == {s \in JmRec(A, B) : Good(s.job)}

(* FinishProlog on a record.                                               *)
LEMMA FinishPrologGood ==
  ASSUME NEW A, NEW B, NEW s \in GoodRec(A, B), s.job.prolog = "active"
  PROVE  /\ FinishProlog(s) \in GoodRec(A, B)
         /\ FinishProlog(s).job.prolog = "finished"
         /\ FinishProlog(s).job.state = s.job.state
         /\ Keeps(s.job, FinishProlog(s).job)
<1> DEFINE j == s.job
           i == [j EXCEPT !.perilogs = OneLess(j.perilogs),
                          !.prologFinishes = j.prologFinishes + 1]
           k == [j EXCEPT !.perilogs = OneLess(j.perilogs),
                          !.prologFinishes = j.prologFinishes + 1,
                          !.prolog = "finished"]
<1>1. j \in Jobs /\ Good(j) /\ s \in JmRec(A, B)
  BY DEF JmRec, GoodRec
<1>2. k \in Jobs /\ Good(k)
  BY <1>1, PrologFinishes
<1>3. PostPrologFinish(s) = [s EXCEPT !.job = i]
  BY DEF PostPrologFinish
<1>4. [i EXCEPT !.prolog = "finished"] = k
  BY <1>1 DEF Jobs
<1>5. FinishProlog(s) = [s EXCEPT !.job = [i EXCEPT !.prolog = "finished"]]
  BY <1>1, <1>3 DEF FinishProlog, JmRec
<1>6. k.prolog = "finished" /\ k.state = j.state /\ Keeps(j, k)
  BY <1>1 DEF Jobs, Keeps
<1>7. [s EXCEPT !.job = k] \in JmRec(A, B) /\ [s EXCEPT !.job = k].job = k
  BY <1>1, <1>2, WithJob
<1> HIDE DEF i, k
<1> QED
  BY <1>2, <1>4, <1>5, <1>6, <1>7 DEF GoodRec

(* FinishEpilog on a record.                                               *)
LEMMA FinishEpilogGood ==
  ASSUME NEW A, NEW B, NEW s \in GoodRec(A, B), s.job.state \in {"NEW", "CLEANUP"},
         NEW status \in {"ok", "failed"}
  PROVE  /\ FinishEpilog(s, status) \in GoodRec(A, B)
         /\ FinishEpilog(s, status).job.prolog = s.job.prolog
         /\ FinishEpilog(s, status).job.state = s.job.state
         /\ Keeps(s.job, FinishEpilog(s, status).job)
<1> DEFINE j == s.job
           k == [j EXCEPT !.perilogs = OneLess(j.perilogs),
                          !.taken = j.taken \/ (j.epilogStatus # "open"
                                                 /\ j.perilogs > 0),
                          !.epilogStatus = IF j.epilogStatus = "open" THEN status
                                           ELSE j.epilogStatus]
<1>1. j \in Jobs /\ Good(j) /\ s \in JmRec(A, B)
  BY DEF JmRec, GoodRec
<1>2. k \in Jobs /\ Good(k)
  BY <1>1, EpilogFinishes
<1>3. FinishEpilog(s, status) = [s EXCEPT !.job = k]
  BY DEF FinishEpilog
<1>4. k.prolog = j.prolog /\ k.state = j.state /\ Keeps(j, k)
  BY <1>1 DEF Jobs, Keeps
<1>5. [s EXCEPT !.job = k] \in JmRec(A, B) /\ [s EXCEPT !.job = k].job = k
  BY <1>1, <1>2, WithJob
<1> HIDE DEF k
<1> QED
  BY <1>2, <1>3, <1>4, <1>5 DEF GoodRec

(* exception_cb keeps a job good however often it runs, and leaves no      *)
(* prolog active behind.                                                   *)
LEMMA exception_cbGood ==
  ASSUME NEW A, NEW B, Enough(A, B), svcUp \in BOOLEAN,
         NEW s \in GoodRec(A, B), s.job.state \notin {"NEW", "INACTIVE"}, NEW type
  PROVE  LET t == exception_cb(s, type)
         IN  /\ t \in GoodRec(A, B) /\ t.job.prolog # "active"
             /\ t.job.state = s.job.state /\ Keeps(s.job, t.job)
<1>1. CASE s.job.prolog = "active"
  BY <1>1, FinishPrologGood DEF exception_cb
<1>2. CASE s.job.prolog # "active" /\ ~s.job.epilogActive
  BY <1>2 DEF exception_cb, Keeps
<1>3. CASE s.job.prolog # "active" /\ s.job.epilogActive
  <2>1. s.job.state = "CLEANUP"
    BY <1>3 DEF GoodRec, Good
  <2>2. \A msg \in A : Send(s, msg) \in GoodRec(A, B) /\ Send(s, msg).job = s.job
    BY SendType DEF GoodRec
  <2>3. "abort" \in A /\ "teardown" \in A
    BY DEF Enough
  <2>4. Keeps(s.job, s.job)
    BY DEF Keeps
  <2>5. CASE type = "dws-epilog-timeout"
    <3>1. exception_cb(s, type) = FinishEpilog(Send(s, "abort"), "failed")
      BY <1>3, <2>5 DEF exception_cb
    <3> QED
      BY <1>3, <2>1, <2>2, <2>3, <3>1, FinishEpilogGood
  <2>6. CASE type # "dws-epilog-timeout"
    BY <1>3, <2>2, <2>3, <2>4, <2>6 DEF exception_cb
  <2> QED
    BY <2>5, <2>6
<1> QED
  BY <1>1, <1>2, <1>3

(* The move to CLEANUP, with cleanup_cb, of a job whose prolog is over.    *)
LEMMA ToCleanupGood ==
  ASSUME NEW A, NEW B, Enough(A, B), svcUp \in BOOLEAN,
         NEW s \in GoodRec(A, B), s.job.state \in {"DEPEND", "SCHED", "RUN"},
         s.job.prolog # "active"
  PROVE  LET t == cleanup_cb([s EXCEPT !.job.state = "CLEANUP"])
         IN  /\ t \in GoodRec(A, B) /\ t.job.prolog # "active"
             /\ t.job.state = "CLEANUP" /\ Keeps(s.job, t.job)
<1> DEFINE j == s.job
           c == [j EXCEPT !.state = "CLEANUP"]
           u == [s EXCEPT !.job = c]
           k == [j EXCEPT !.state = "CLEANUP",
                          !.epilogActive = TRUE,
                          !.perilogs = j.perilogs + 1,
                          !.epilogStarts = j.epilogStarts + 1,
                          !.epilogStatus = "open",
                          !.timer = EpilogTimeout]
<1>1. j \in Jobs /\ Good(j) /\ s \in JmRec(A, B)
  BY DEF JmRec, GoodRec
<1>2. [s EXCEPT !.job.state = "CLEANUP"] = u
  OBVIOUS
<1>3. c \in Jobs /\ c.state = "CLEANUP" /\ Keeps(j, c) /\ c.prolog = j.prolog
  BY <1>1 DEF Jobs, JobStates, Keeps
<1>4. u \in JmRec(A, B) /\ u.job = c
  BY <1>1, <1>3, WithJob
<1>5. CASE StartPosted(j)
  <2>1. j.exec = "running"
    BY <1>1, <1>5 DEF Good, StartPosted
  <2>2. Good(c)
    BY <1>1, <2>1 DEF Good, Mine, Jobs
  <2>3. cleanup_cb(u) = u
    BY <1>3, <1>4, <1>5 DEF cleanup_cb, StartPosted, Keeps
  <2> HIDE DEF c, u
  <2> QED
    BY <1>2, <1>3, <1>4, <2>2, <2>3 DEF GoodRec
<1>6. CASE ~StartPosted(j)
  <2>1. j.exec \in {"idle", "pending"}
    BY <1>1, <1>6 DEF StartPosted, Jobs
  <2>2. k \in Jobs /\ Good(k)
    BY <1>1, <2>1, EpilogStarts
  <2>3. k.prolog = j.prolog /\ k.state = "CLEANUP" /\ Keeps(j, k)
    BY <1>1 DEF Jobs, Keeps
  <2>4. cleanup_cb(u) = start_dws_epilog_for_job(u, FALSE)
    BY <1>3, <1>4, <1>6 DEF cleanup_cb, StartPosted, Keeps
  <2>5. k = [c EXCEPT !.epilogActive = TRUE,
                      !.perilogs = c.perilogs + 1,
                      !.epilogStarts = c.epilogStarts + 1,
                      !.epilogStatus = "open",
                      !.timer = EpilogTimeout]
    BY <1>1 DEF Jobs
  <2>6. start_dws_epilog_for_job(u, FALSE) = Send([u EXCEPT !.job = k], "post_run_0")
    <3> HIDE DEF c, u, k
    <3> QED BY <1>4, <2>5 DEF start_dws_epilog_for_job
  <2> DEFINE v == [u EXCEPT !.job = k]
             w == Send(v, "post_run_0")
  <2>7. v \in JmRec(A, B) /\ v.job = k
    <3> HIDE DEF u, k
    <3> QED BY <1>4, <2>2, WithJob
  <2>8. "post_run_0" \in A
    BY DEF Enough
  <2>9. w \in JmRec(A, B) /\ w.job = k
    <3> HIDE DEF v, k
    <3> QED BY <2>7, <2>8, SendType
  <2>10. cleanup_cb([s EXCEPT !.job.state = "CLEANUP"]) = w
    <3> HIDE DEF u, k
    <3> QED BY <1>2, <2>4, <2>6
  <2> HIDE DEF k, w
  <2> QED
    BY <2>2, <2>3, <2>9, <2>10 DEF GoodRec
<1> QED
  BY <1>5, <1>6

(* A fatal exception: both subscriptions and the move to CLEANUP.          *)
LEMMA PostExceptionGood ==
  ASSUME NEW A, NEW B, Enough(A, B), svcUp \in BOOLEAN,
         NEW s \in GoodRec(A, B), NEW type
  PROVE  LET t == PostException(s, type)
         IN  /\ t \in GoodRec(A, B) /\ Keeps(s.job, t.job)
             /\ t.job.state = IF Active(s.job) THEN "CLEANUP" ELSE s.job.state
<1>0. s.job \in Jobs /\ Good(s.job)
  BY DEF GoodRec, JmRec
<1>1. CASE ~Active(s.job)
  <2>1. PostException(s, type) = s
    BY <1>1 DEF PostException, Active
  <2> QED
    BY <1>1, <2>1 DEF Keeps
<1>2. CASE Active(s.job)
  <2> DEFINE once == exception_cb(s, type)
             both == IF s.job.subs = 2 THEN exception_cb(once, type) ELSE once
  <2>1. s.job.state \notin {"NEW", "INACTIVE"} /\ s.job.subs \in {1, 2}
    BY <1>0, <1>2 DEF Active, Good, Jobs
  <2>2. /\ once \in GoodRec(A, B) /\ once.job.prolog # "active"
        /\ once.job.state = s.job.state /\ Keeps(s.job, once.job)
    BY <2>1, exception_cbGood
  <2>3. /\ both \in GoodRec(A, B) /\ both.job.prolog # "active"
        /\ both.job.state = s.job.state /\ Keeps(s.job, both.job)
    <3> HIDE DEF once
    <3>1. LET t == exception_cb(once, type)
          IN  /\ t \in GoodRec(A, B) /\ t.job.prolog # "active"
              /\ t.job.state = once.job.state /\ Keeps(once.job, t.job)
      BY <2>1, <2>2, exception_cbGood
    <3> QED
      BY <2>2, <3>1 DEF Keeps
  <2>4. CASE s.job.state = "CLEANUP"
    <3>1. PostException(s, type) = both
      BY <2>1, <2>4 DEF PostException
    <3> HIDE DEF both
    <3> QED
      BY <1>2, <2>3, <2>4, <3>1
  <2>5. CASE s.job.state \in {"DEPEND", "SCHED", "RUN"}
    <3>1. PostException(s, type) = cleanup_cb([both EXCEPT !.job.state = "CLEANUP"])
      BY <2>1, <2>5 DEF PostException
    <3> HIDE DEF both
    <3>2. LET t == cleanup_cb([both EXCEPT !.job.state = "CLEANUP"])
          IN  /\ t \in GoodRec(A, B) /\ t.job.prolog # "active"
              /\ t.job.state = "CLEANUP" /\ Keeps(both.job, t.job)
      BY <2>3, <2>5, ToCleanupGood
    <3> QED
      BY <1>2, <2>3, <3>1, <3>2 DEF Keeps
  <2> QED
    BY <1>2, <2>4, <2>5 DEF Active
<1> QED
  BY <1>1, <1>2

(* The job after start_dws_epilog_for_job. *)
Started(j) ==
  [j EXCEPT !.epilogActive = TRUE, !.perilogs = j.perilogs + 1,
            !.epilogStarts = j.epilogStarts + 1, !.epilogStatus = "open",
            !.timer = EpilogTimeout]

(* start_dws_epilog_for_job for a job that ran.                            *)
LEMMA StartRunEpilog ==
  ASSUME NEW A, NEW B, Enough(A, B), svcUp \in BOOLEAN, "post_run_1" \in A,
         NEW s \in JmRec(A, B)
  PROVE  LET t == start_dws_epilog_for_job(s, TRUE)
         IN  t \in JmRec(A, B) /\ t.job = Started(s.job)
<1> DEFINE k == Started(s.job)
           v == [s EXCEPT !.job = k]
<1>1. s.job \in Jobs
  BY DEF JmRec
<1>2. s.job.perilogs + 1 \in Nat /\ s.job.epilogStarts + 1 \in Nat
  BY <1>1 DEF Jobs
<1>3. k \in Jobs
  BY <1>1, <1>2, EpilogTimeoutAssumption DEF Jobs, Started
<1>4. v \in JmRec(A, B) /\ v.job = k
  <2> HIDE DEF k
  <2> QED BY <1>3, WithJob
<1>5. start_dws_epilog_for_job(s, TRUE) = Send(v, "post_run_1")
  BY DEF start_dws_epilog_for_job, Started
<1> HIDE DEF k, v
<1>6. Send(v, "post_run_1") \in JmRec(A, B) /\ Send(v, "post_run_1").job = v.job
  BY <1>4, SendType
<1> QED
  BY <1>4, <1>5, <1>6 DEF k

(* The finish event: only the first of the two subscriptions starts the    *)
(* epilog, and cleanup_cb starts none.                                     *)
LEMMA PostFinishGood ==
  ASSUME NEW A, NEW B, Enough(A, B), svcUp \in BOOLEAN, "post_run_1" \in A,
         NEW s \in GoodRec(A, B), s.job.exec = "running"
  PROVE  LET t == PostFinish(s)
         IN  t \in GoodRec(A, B) /\ t.job.prolog = s.job.prolog
<1> DEFINE j == s.job
           d == [j EXCEPT !.exec = "done"]
           done == [s EXCEPT !.job = d]
           once == finish_cb(done)
           both == IF s.job.subs = 2 THEN finish_cb(once) ELSE once
<1>1. j \in Jobs /\ Good(j) /\ s \in JmRec(A, B)
  BY DEF GoodRec, JmRec
<1>2. /\ d \in Jobs /\ d.exec = "done" /\ d.state = j.state /\ d.prolog = j.prolog
      /\ d.epilogActive = j.epilogActive
  BY <1>1 DEF Jobs
<1>3. done \in JmRec(A, B) /\ done.job = d
  <2> HIDE DEF d
  <2> QED BY <1>1, <1>2, WithJob
<1>4. [s EXCEPT !.job.exec = "done"] = done
  OBVIOUS
<1>5. PostFinish(s) = IF j.state = "RUN"
                      THEN cleanup_cb([both EXCEPT !.job.state = "CLEANUP"]) ELSE both
  BY <1>4 DEF PostFinish
<1>6. CASE j.epilogActive
  <2>1. once = done /\ finish_cb(once) = done /\ both = done
    <3>1. finish_cb(done) = done
      BY <1>2, <1>3, <1>6 DEF finish_cb
    <3> HIDE DEF done
    <3> QED
      BY <3>1
  <2>2. j.state # "RUN"
    BY <1>1, <1>6 DEF Good
  <2>3. Good(d)
    BY <1>1, <1>6 DEF Good, Mine, Jobs
  <2> HIDE DEF d, done, both
  <2> QED
    BY <1>2, <1>3, <1>5, <2>1, <2>2, <2>3 DEF GoodRec
<1>7. CASE ~j.epilogActive
  <2> DEFINE e == Started(d)
             k == [e EXCEPT !.state = "CLEANUP"]
  <2>1. once = start_dws_epilog_for_job(done, TRUE)
    BY <1>2, <1>3, <1>7 DEF finish_cb
  <2>2. once \in JmRec(A, B) /\ once.job = e
    <3> HIDE DEF done, d
    <3> QED BY <1>3, <2>1, StartRunEpilog
  <2>3. e.epilogActive /\ e.exec = "done" /\ e.prolog = j.prolog /\ e \in Jobs
    <3> HIDE DEF once
    <3>1. e \in Jobs
      BY <2>2 DEF JmRec
    <3> QED
      BY <1>1, <3>1 DEF Jobs, Started
  <2>4. both = once
    <3>1. finish_cb(once) = once
      <4> HIDE DEF once, e
      <4> QED BY <2>2, <2>3 DEF finish_cb
    <3> HIDE DEF once
    <3> QED BY <3>1
  <2>5. /\ j.prolog # "active" /\ j.epilogStarts = 0 /\ j.others \in Nat
        /\ j.perilogs \in Nat /\ j.perilogs <= j.others
        /\ ~j.taken => j.perilogs = j.others
        /\ j.state \in {"RUN", "CLEANUP"} /\ j.prolog # "unset"
    BY <1>1, <1>7 DEF Good, Jobs, Mine
  <2>6. k \in Jobs /\ Good(k)
    <3>1. k \in Jobs
      <4> HIDE DEF e
      <4> QED BY <2>3 DEF Jobs, JobStates
    <3>2. /\ k.perilogs = j.perilogs + 1 /\ k.epilogStarts = 1 /\ k.epilogStatus = "open"
          /\ k.epilogActive = TRUE /\ k.state = "CLEANUP" /\ k.exec = "done"
          /\ k.prolog = j.prolog /\ k.subs = j.subs
          /\ k.others = j.others /\ k.taken = j.taken
      BY <1>1, <2>5 DEF Jobs, Started
    <3> HIDE DEF k
    <3>3. Mine(k) = 1
      BY <2>5, <3>2 DEF Mine
    <3>4. k.perilogs <= Mine(k) + k.others /\ (~k.taken => k.perilogs = Mine(k) + k.others)
      BY <2>5, <3>2, <3>3
    <3> QED
      BY <1>1, <2>5, <3>1, <3>2, <3>4 DEF Good
  <2>7. k.prolog = j.prolog /\ StartPosted(k)
    <3> HIDE DEF e
    <3> QED BY <2>3 DEF Jobs, StartPosted
  <2>8. [once EXCEPT !.job.state = "CLEANUP"] = [once EXCEPT !.job = k]
    <3> HIDE DEF once, e
    <3> QED BY <2>2
  <2>9. LET v == [once EXCEPT !.job = k] IN v \in JmRec(A, B) /\ v.job = k
    <3> HIDE DEF once, k
    <3> QED BY <2>2, <2>6, WithJob
  <2>10. CASE j.state = "RUN"
    <3>1. PostFinish(s) = cleanup_cb([once EXCEPT !.job = k])
      <4> HIDE DEF once, both, k
      <4> QED BY <1>5, <2>4, <2>8, <2>10
    <3>2. cleanup_cb([once EXCEPT !.job = k]) = [once EXCEPT !.job = k]
      <4> HIDE DEF once, k
      <4> QED BY <2>7, <2>9 DEF cleanup_cb
    <3> HIDE DEF once, k
    <3> QED
      BY <2>6, <2>7, <2>9, <3>1, <3>2 DEF GoodRec
  <2>11. CASE j.state = "CLEANUP"
    <3>1. PostFinish(s) = once
      <4> HIDE DEF once, both
      <4> QED BY <1>5, <2>4, <2>11
    <3>2. e = k
      <4>1. e.state = "CLEANUP"
        BY <1>1, <2>11 DEF Jobs, Started
      <4> HIDE DEF e
      <4> QED BY <2>3, <4>1 DEF Jobs
    <3> HIDE DEF once, e, k
    <3> QED
      BY <2>2, <2>6, <2>7, <3>1, <3>2 DEF GoodRec
  <2> QED
    BY <2>5, <2>10, <2>11
<1> QED
  BY <1>6, <1>7

(* dws_prolog_finish and dws_epilog_finish.                                *)
LEMMA PerilogFinishGood ==
  ASSUME NEW A, NEW B, Enough(A, B), svcUp \in BOOLEAN, NEW s \in GoodRec(A, B)
  PROVE  /\ \A b \in BOOLEAN : /\ dws_prolog_finish(s, b) \in GoodRec(A, B)
                               /\ Keeps(s.job, dws_prolog_finish(s, b).job)
         /\ s.job.state = "CLEANUP" =>
              /\ dws_epilog_finish(s, TRUE) \in GoodRec(A, B)
              /\ Keeps(s.job, dws_epilog_finish(s, TRUE).job)
         /\ s.job.state # "INACTIVE" =>
              /\ dws_epilog_finish(s, FALSE) \in GoodRec(A, B)
              /\ Keeps(s.job, dws_epilog_finish(s, FALSE).job)
<1>1. Keeps(s.job, s.job)
  BY DEF Keeps
<1>2. \A type : /\ PostException(s, type) \in GoodRec(A, B)
                /\ Keeps(s.job, PostException(s, type).job)
                /\ s.job.state # "INACTIVE" =>
                     PostException(s, type).job.state \in {"NEW", "CLEANUP"}
  BY PostExceptionGood DEF GoodRec, JmRec, Jobs, JobStates, Active
<1>3. s.job.prolog = "active" => /\ FinishProlog(s) \in GoodRec(A, B)
                                 /\ Keeps(s.job, FinishProlog(s).job)
  BY FinishPrologGood
<1>4. ASSUME NEW b \in BOOLEAN
      PROVE  /\ dws_prolog_finish(s, b) \in GoodRec(A, B)
             /\ Keeps(s.job, dws_prolog_finish(s, b).job)
  BY <1>1, <1>2, <1>3 DEF dws_prolog_finish
<1>5. ASSUME s.job.state = "CLEANUP"
      PROVE  /\ dws_epilog_finish(s, TRUE) \in GoodRec(A, B)
             /\ Keeps(s.job, dws_epilog_finish(s, TRUE).job)
  BY <1>5, FinishEpilogGood DEF dws_epilog_finish
<1>6. ASSUME s.job.state # "INACTIVE"
      PROVE  /\ dws_epilog_finish(s, FALSE) \in GoodRec(A, B)
             /\ Keeps(s.job, dws_epilog_finish(s, FALSE).job)
  <2> DEFINE t == PostException(s, "dws-epilog")
  <2>1. t \in GoodRec(A, B) /\ Keeps(s.job, t.job) /\ t.job.state \in {"NEW", "CLEANUP"}
    BY <1>2, <1>6
  <2>2. dws_epilog_finish(s, FALSE) = FinishEpilog(t, "failed")
    BY DEF dws_epilog_finish
  <2> HIDE DEF t
  <2>3. /\ FinishEpilog(t, "failed") \in GoodRec(A, B)
        /\ Keeps(t.job, FinishEpilog(t, "failed").job)
    BY <2>1, FinishEpilogGood
  <2> QED
    BY <2>1, <2>2, <2>3 DEF Keeps
<1> QED
  BY <1>4, <1>5, <1>6

(* Every message to the job manager keeps the job good, if dws.prolog-     *)
(* remove comes only after run_cb.                                         *)
LEMMA DispatchGood ==
  ASSUME NEW A, NEW B, Enough(A, B), svcUp \in BOOLEAN, NEW s \in GoodRec(A, B),
         NEW msg \in JmMsgs, msg = "prolog-remove" => s.job.prolog # "unset"
  PROVE  Dispatch(s, msg) \in GoodRec(A, B) /\ Keeps(s.job, Dispatch(s, msg).job)
<1>0. s \in GoodRec(A, B) /\ Keeps(s.job, s.job)
  BY DEF Keeps
<1>1. \A type : /\ PostException(s, type) \in GoodRec(A, B)
                /\ Keeps(s.job, PostException(s, type).job)
  BY PostExceptionGood
<1>2. /\ resource_update_msg_cb(s) \in GoodRec(A, B)
      /\ Keeps(s.job, resource_update_msg_cb(s).job)
  <2>1. CASE s.job.state = "DEPEND"
    <3> DEFINE j == s.job
               k == [j EXCEPT !.state = "SCHED"]
    <3>1. j \in Jobs /\ Good(j) /\ s \in JmRec(A, B)
      BY DEF GoodRec, JmRec
    <3>2. k \in Jobs /\ Keeps(j, k)
      BY <3>1 DEF Jobs, JobStates, Keeps
    <3>3. Good(k)
      BY <3>1, <2>1 DEF Jobs, Good, Mine
    <3>4. resource_update_msg_cb(s) = [s EXCEPT !.job = k]
      BY <2>1 DEF resource_update_msg_cb
    <3>5. [s EXCEPT !.job = k] \in JmRec(A, B) /\ [s EXCEPT !.job = k].job = k
      BY <3>1, <3>2, WithJob
    <3> HIDE DEF k
    <3> QED
      BY <3>2, <3>3, <3>4, <3>5 DEF GoodRec
  <2>2. CASE s.job.state # "DEPEND"
    BY <1>0, <2>2 DEF resource_update_msg_cb
  <2> QED
    BY <2>1, <2>2
<1>3. /\ epilog_remove_msg_cb(s) \in GoodRec(A, B)
      /\ Keeps(s.job, epilog_remove_msg_cb(s).job)
  BY <1>0, PerilogFinishGood DEF epilog_remove_msg_cb
<1>4. /\ setup_rpc_cb(s) \in GoodRec(A, B)
      /\ Keeps(s.job, setup_rpc_cb(s).job)
  BY <1>0, PerilogFinishGood DEF setup_rpc_cb
<1>5. /\ post_run_rpc_callback(s) \in GoodRec(A, B)
      /\ Keeps(s.job, post_run_rpc_callback(s).job)
  BY <1>0, PerilogFinishGood DEF post_run_rpc_callback
<1>6. ASSUME s.job.prolog # "unset", NEW b \in BOOLEAN
      PROVE  /\ prolog_remove_msg_cb(s, b) \in GoodRec(A, B)
             /\ Keeps(s.job, prolog_remove_msg_cb(s, b).job)
  BY <1>0, <1>6, PerilogFinishGood DEF prolog_remove_msg_cb
<1> QED
  BY <1>0, <1>1, <1>2, <1>3, <1>4, <1>5, <1>6 DEF Dispatch

(* dws.prolog-remove when dws_environment cannot be posted.                *)
LEMMA PrologRemoveGood ==
  ASSUME NEW A, NEW B, Enough(A, B), svcUp \in BOOLEAN, NEW s \in GoodRec(A, B),
         s.job.prolog # "unset", NEW b \in BOOLEAN
  PROVE  /\ prolog_remove_msg_cb(s, b) \in GoodRec(A, B)
         /\ Keeps(s.job, prolog_remove_msg_cb(s, b).job)
<1>0. s \in GoodRec(A, B) /\ Keeps(s.job, s.job)
  BY DEF Keeps
<1> QED
  BY <1>0, PerilogFinishGood DEF prolog_remove_msg_cb

---------------------------------------------------------------------------
(* The service *)
(* Workflows, and snapshots, whose desired state is in D. *)
WfIn(D) == {w \in Workflows : w.desired \in D}

(* What the handlers of the service work on. *)
SvcRec(D, B) == [svc : Services, wf : WfIn(D), toJm : Seq(B), ok : BOOLEAN]

(* D and B are closed under what the handlers of the service do. *)
Wide(D, B) ==
  /\ D \subseteq WorkflowStates \cup {"none"}
  /\ {"none", "Proposal", "Teardown"} \subseteq D
  /\ B \subseteq JmMsgs
  /\ JmMsgs \ {"prolog-remove"} \subseteq B
  /\ \/ D = {"none", "Proposal", "Teardown"}
     \/ WorkflowStates \subseteq D /\ "prolog-remove" \in B

(* Replacing one part of the record of the service.                        *)
LEMMA WithSvc ==
  ASSUME NEW D, NEW B, NEW s \in SvcRec(D, B)
  PROVE  /\ \A x \in Services : [s EXCEPT !.svc = x] \in SvcRec(D, B)
         /\ \A w \in WfIn(D) : [s EXCEPT !.wf = w] \in SvcRec(D, B)
         /\ \A m \in B : Tell(s, m) \in SvcRec(D, B)
         /\ \A b \in BOOLEAN : [s EXCEPT !.ok = b] \in SvcRec(D, B)
<1>1. \A m \in B : Append(s.toJm, m) \in Seq(B)
  BY DEF SvcRec
<1> QED
  BY <1>1 DEF SvcRec, Tell

(* The cache of WorkflowInfo objects, the timers and move_to_teardown.     *)
LEMMA CacheSteps ==
  ASSUME NEW D, NEW B, NEW s \in SvcRec(D, B)
  PROVE  /\ Get(s) \in SvcRec(D, B)
         /\ Forget(s) \in SvcRec(D, B)
         /\ StopTimer(s) \in SvcRec(D, B)
         /\ \A kind \in {"setup", "prerun", "postrun"} : ArmTimer(s, kind) \in SvcRec(D, B)
         /\ move_to_teardown(s) \in SvcRec(D, B)
<1> DEFINE x == s.svc
<1>0. x \in Services
  BY DEF SvcRec
<1>1. [x EXCEPT !.known = TRUE] \in Services
  BY <1>0 DEF Services
<1>2. [x EXCEPT !.known = FALSE, !.toredown = FALSE, !.deleted = FALSE,
                !.epilogRemoved = FALSE, !.revived = FALSE] \in Services
  BY <1>0 DEF Services
<1>3. \A kind \in {"none", "setup", "prerun", "postrun"} :
         [x EXCEPT !.stateTimer = kind] \in Services
  BY <1>0 DEF Services
<1>4. [x EXCEPT !.stateTimer = "none", !.doTeardown = TRUE, !.toredown = TRUE] \in Services
  BY <1>0 DEF Services
<1>5. Get(s) = [s EXCEPT !.svc = [x EXCEPT !.known = TRUE]]
  BY DEF Get
<1>6. Forget(s) = [s EXCEPT !.svc = [x EXCEPT !.known = FALSE, !.toredown = FALSE,
                                              !.deleted = FALSE, !.epilogRemoved = FALSE,
                                              !.revived = FALSE]]
  BY DEF Forget
<1>7. StopTimer(s) = [s EXCEPT !.svc = [x EXCEPT !.stateTimer = "none"]]
  BY DEF StopTimer
<1>8. move_to_teardown(s) = [s EXCEPT !.svc = [x EXCEPT !.stateTimer = "none",
                                                        !.doTeardown = TRUE, !.toredown = TRUE]]
  BY DEF move_to_teardown, StopTimer
<1>9. \A kind : ArmTimer(s, kind) \in {s, [s EXCEPT !.svc = [x EXCEPT !.stateTimer = kind]]}
  BY DEF ArmTimer
<1>10. \A y \in Services : [s EXCEPT !.svc = y] \in SvcRec(D, B)
  BY WithSvc
<1>11. Get(s) \in SvcRec(D, B) /\ Forget(s) \in SvcRec(D, B)
  BY <1>1, <1>2, <1>5, <1>6, <1>10
<1>12. StopTimer(s) \in SvcRec(D, B) /\ move_to_teardown(s) \in SvcRec(D, B)
  BY <1>3, <1>4, <1>7, <1>8, <1>10
<1>13. \A kind \in {"setup", "prerun", "postrun"} : ArmTimer(s, kind) \in SvcRec(D, B)
  BY <1>3, <1>9, <1>10
<1> QED
  BY <1>11, <1>12, <1>13

(* Leaving WORKFLOWS_IN_TC, with or without WorkflowInfo.get().             *)
LEMMA OverdueType ==
  ASSUME NEW D, NEW B, NEW s \in SvcRec(D, B)
  PROVE  Overdue(s) \in SvcRec(D, B)
<1> DEFINE g == IF s.svc.tc = "prerun" THEN Get(s) ELSE s
           b == g.svc.revived \/ (g.svc.known /\ ~s.svc.known)
           y == [g.svc EXCEPT !.tc = "none", !.revived = b]
<1>1. g \in SvcRec(D, B)
  BY CacheSteps
<1>2. Overdue(s) = [g EXCEPT !.svc = y]
  <2> HIDE DEF g
  <2> QED BY DEF Overdue, g
<1>3. b \in BOOLEAN
  OBVIOUS
<1>4. y \in Services
  <2> HIDE DEF g, b
  <2> QED BY <1>1, <1>3 DEF SvcRec, Services
<1> HIDE DEF g, y
<1> QED
  BY <1>1, <1>2, <1>4, WithSvc

(* The writes to the Workflow.                                             *)
LEMMA MoveSteps ==
  ASSUME NEW D, NEW B, Wide(D, B), NEW s \in SvcRec(D, B), NEW outcome
  PROVE  /\ \A state \in D : move_desiredstate(s, state, outcome) \in SvcRec(D, B)
         /\ check_existence_and_move_to_teardown(s, outcome) \in SvcRec(D, B)
         /\ \A w : remove_finalizer(s, w, outcome) \in SvcRec(D, B)
<1> DEFINE t == StopTimer(s)
<1>1. t \in SvcRec(D, B)
  BY CacheSteps
<1>2. t.wf \in Workflows /\ t.wf.desired \in D /\ s.wf \in Workflows /\ s.wf.desired \in D
  BY <1>1 DEF SvcRec, WfIn
<1>3. ASSUME NEW state \in D
      PROVE  move_desiredstate(s, state, outcome) \in SvcRec(D, B)
  <2> DEFINE v == [t.wf EXCEPT !.desired = state]
  <2>1. v \in WfIn(D)
    BY <1>2 DEF Wide, WfIn, Workflows
  <2>2. [t EXCEPT !.ok = FALSE] \in SvcRec(D, B)
    BY <1>1, WithSvc
  <2>3. /\ [t EXCEPT !.wf = v] \in SvcRec(D, B)
        /\ [[t EXCEPT !.wf = v] EXCEPT !.ok = (outcome # "late")] \in SvcRec(D, B)
    <3> HIDE DEF t, v
    <3>1. [t EXCEPT !.wf = v] \in SvcRec(D, B)
      BY <1>1, <2>1, WithSvc
    <3> QED
      BY <3>1, WithSvc
  <2>4. [t EXCEPT !.wf.desired = state, !.ok = (outcome # "late")]
          = [[t EXCEPT !.wf = v] EXCEPT !.ok = (outcome # "late")]
    <3> HIDE DEF t
    <3> QED BY <1>1 DEF SvcRec
  <2> QED
    BY <2>2, <2>3, <2>4 DEF move_desiredstate
<1>4. check_existence_and_move_to_teardown(s, outcome) \in SvcRec(D, B)
  <2>1. [s EXCEPT !.ok = FALSE] \in SvcRec(D, B)
    BY WithSvc
  <2>2. Tell(Forget(s), "epilog-remove") \in SvcRec(D, B)
    <3>1. Forget(s) \in SvcRec(D, B) /\ "epilog-remove" \in B
      BY CacheSteps DEF Wide, JmMsgs
    <3> QED
      BY <3>1, WithSvc
  <2> QED
    BY <2>1, <2>2, CacheSteps DEF check_existence_and_move_to_teardown
<1>5. ASSUME NEW w
      PROVE  remove_finalizer(s, w, outcome) \in SvcRec(D, B)
  <2> DEFINE v == [s.wf EXCEPT !.finalizer = FALSE]
  <2>1. v \in WfIn(D)
    BY <1>2 DEF WfIn, Workflows
  <2>2. [s EXCEPT !.ok = FALSE] \in SvcRec(D, B) /\ [s EXCEPT !.wf = v] \in SvcRec(D, B)
    BY <2>1, WithSvc
  <2> QED
    BY <2>2 DEF remove_finalizer
<1> QED
  BY <1>3, <1>4, <1>5

(* The RPC handlers; only dws.setup and a dws.post_run of a job that ran   *)
(* leave the early states.                                                 *)
LEMMA RpcType ==
  ASSUME NEW D, NEW B, Wide(D, B), NEW s \in SvcRec(D, B), NEW outcome,
         NEW msg \in SvcMsgs,
         msg \in {"setup", "post_run_1"} => WorkflowStates \subseteq D
  PROVE  Rpc(s, msg, outcome) \in SvcRec(D, B)
<1>1. create_cb(s, outcome) \in SvcRec(D, B)
  <2> DEFINE x == s.svc
             y == [x EXCEPT !.known = TRUE, !.toredown = FALSE, !.deleted = FALSE,
                            !.epilogRemoved = FALSE]
  <2>1. NewWorkflow \in WfIn(D)
    BY DEF NewWorkflow, NoWorkflow, WfIn, Workflows, Wide, WorkflowStates, StatusValues
  <2>2. y \in Services
    BY DEF SvcRec, Services
  <2> HIDE DEF y
  <2>3. [s EXCEPT !.wf = NewWorkflow] \in SvcRec(D, B) /\ [s EXCEPT !.ok = FALSE] \in SvcRec(D, B)
    BY <2>1, WithSvc
  <2>4. /\ [[s EXCEPT !.wf = NewWorkflow] EXCEPT !.svc = y] \in SvcRec(D, B)
        /\ [[s EXCEPT !.wf = NewWorkflow] EXCEPT !.ok = FALSE] \in SvcRec(D, B)
    BY <2>2, <2>3, WithSvc
  <2>5. CASE outcome = "ok"
    <3>1. create_cb(s, outcome) = [s EXCEPT !.wf = NewWorkflow, !.svc = y]
      BY <2>5 DEF create_cb, y
    <3> QED
      BY <2>4, <3>1
  <2>6. CASE outcome = "late"
    BY <2>4, <2>6 DEF create_cb
  <2>7. CASE outcome \notin {"ok", "late"}
    BY <2>3, <2>7 DEF create_cb
  <2> QED
    BY <2>5, <2>6, <2>7
<1>2. Get(s) \in SvcRec(D, B) /\ [s EXCEPT !.ok = FALSE] \in SvcRec(D, B)
  BY CacheSteps, WithSvc
<1>3. check_existence_and_move_to_teardown(Get(s), outcome) \in SvcRec(D, B)
  BY <1>2, MoveSteps
<1>4. CASE msg = "setup"
  <2> DEFINE t == move_desiredstate(Get(s), "Setup", outcome)
  <2>1. "Setup" \in D
    BY <1>4 DEF WorkflowStates
  <2>2. t \in SvcRec(D, B)
    BY <1>2, <2>1, MoveSteps
  <2>3. ArmTimer(t, "setup") \in SvcRec(D, B)
    <3> HIDE DEF t
    <3> QED BY <2>2, CacheSteps
  <2> QED
    BY <1>2, <1>4, <2>3 DEF Rpc, setup_cb
<1>5. CASE msg = "post_run_0"
  BY <1>3, <1>5 DEF Rpc, post_run_cb
<1>6. CASE msg = "post_run_1"
  <2> DEFINE t == move_desiredstate(Get(s), "PostRun", outcome)
             b == t.svc.teardownAfter \/ (t.ok /\ "teardown_after" \in Timers)
             y == [t.svc EXCEPT !.teardownAfter = b]
             u == [t EXCEPT !.svc = y]
  <2>1. "PostRun" \in D
    BY <1>6 DEF WorkflowStates
  <2>2. t \in SvcRec(D, B)
    BY <1>2, <2>1, MoveSteps
  <2>3. u \in SvcRec(D, B)
    <3> HIDE DEF t
    <3>1. b \in BOOLEAN
      OBVIOUS
    <3> HIDE DEF b
    <3>2. y \in Services
      BY <2>2, <3>1 DEF SvcRec, Services
    <3> HIDE DEF y
    <3> QED BY <2>2, <3>2, WithSvc
  <2>4. ArmTimer(u, "postrun") \in SvcRec(D, B)
    <3> HIDE DEF u
    <3> QED BY <2>3, CacheSteps
  <2>5. post_run_cb(s, TRUE, outcome) = IF s.svc.toredown THEN s ELSE ArmTimer(u, "postrun")
    BY DEF post_run_cb
  <2> HIDE DEF u
  <2> QED
    BY <1>6, <2>4, <2>5 DEF Rpc
<1>7. CASE msg = "teardown"
  BY <1>3, <1>7 DEF Rpc, teardown_cb
<1>8. CASE msg = "abort"
  <2> DEFINE g == Get(s)
             y == [g.svc EXCEPT !.epilogRemoved = TRUE]
             u == [g EXCEPT !.svc = y]
  <2>1. u \in SvcRec(D, B)
    <3> HIDE DEF g
    <3>1. y \in Services
      BY <1>2 DEF SvcRec, Services, g
    <3> HIDE DEF y
    <3> QED BY <1>2, <3>1, WithSvc DEF g
  <2>2. check_existence_and_move_to_teardown(u, outcome) \in SvcRec(D, B)
    <3> HIDE DEF u
    <3> QED BY <2>1, MoveSteps
  <2>3. abort_cb(s, outcome) = IF s.svc.toredown THEN u
                               ELSE check_existence_and_move_to_teardown(u, outcome)
    BY DEF abort_cb
  <2> HIDE DEF u
  <2> QED
    BY <1>8, <2>1, <2>2, <2>3 DEF Rpc
<1>9. CASE msg = "create"
  BY <1>1, <1>9 DEF Rpc
<1> QED
  BY <1>4, <1>5, <1>6, <1>7, <1>8, <1>9 DEF SvcMsgs

(* The branches of the watch callback follow the state of the snapshot.    *)
LEMMA StateChangeType ==
  ASSUME NEW D, NEW B, Wide(D, B), NEW s \in SvcRec(D, B), NEW outcome,
         NEW w \in WfIn(D)
  PROVE  StateChange(s, w, outcome) \in SvcRec(D, B)
<1>0. /\ [s EXCEPT !.ok = FALSE] \in SvcRec(D, B)
      /\ \A m \in B : Tell(s, m) \in SvcRec(D, B)
  BY WithSvc
<1>1. /\ "resource-update" \in B /\ "resource-update-err" \in B
      /\ "epilog-remove" \in B /\ "raise" \in B
  BY DEF Wide, JmMsgs
<1>2. TeardownComplete(s, outcome) \in SvcRec(D, B)
  <2> DEFINE t == IF s.svc.epilogRemoved THEN s ELSE Tell(s, "epilog-remove")
             y == [t.svc EXCEPT !.doDelete = TRUE, !.deleted = TRUE]
  <2>1. t \in SvcRec(D, B)
    BY <1>0, <1>1
  <2>2. [t EXCEPT !.ok = FALSE] \in SvcRec(D, B)
    BY <2>1, WithSvc
  <2>3. [t EXCEPT !.svc = y] \in SvcRec(D, B)
    <3> HIDE DEF t
    <3>1. y \in Services
      BY <2>1 DEF SvcRec, Services
    <3> HIDE DEF y
    <3> QED BY <2>1, <3>1, WithSvc
  <2>4. TeardownComplete(s, outcome) = IF outcome # "ok" THEN [t EXCEPT !.ok = FALSE]
                                       ELSE [t EXCEPT !.svc = y]
    BY DEF TeardownComplete
  <2> HIDE DEF t, y
  <2> QED
    BY <2>2, <2>3, <2>4
<1>3. remove_finalizer(s, w, outcome) \in SvcRec(D, B)
  BY MoveSteps
<1>4. handle_proposal_state(s, outcome) \in SvcRec(D, B)
  BY <1>0, <1>1 DEF handle_proposal_state
<1>5. move_to_teardown(s) \in SvcRec(D, B)
  BY CacheSteps
<1>6. CASE w.desired \notin {"Setup", "DataIn", "PreRun", "PostRun"}
  BY <1>2, <1>3, <1>4, <1>5, <1>6 DEF StateChange, state_complete, state_active
<1>7. CASE w.desired \in {"Setup", "DataIn", "PreRun", "PostRun"}
  <2>1. WorkflowStates \subseteq D /\ "prolog-remove" \in B
    BY <1>7 DEF Wide, WfIn
  <2>2. "DataIn" \in D /\ "PreRun" \in D /\ "DataOut" \in D
    BY <2>1 DEF WorkflowStates
  <2>3. \A state \in D : move_desiredstate(s, state, outcome) \in SvcRec(D, B)
    BY MoveSteps
  <2>4. ArmTimer(move_desiredstate(s, "PreRun", outcome), "prerun") \in SvcRec(D, B)
    BY <2>2, <2>3, CacheSteps
  <2>5. StopTimer(Tell(s, "prolog-remove")) \in SvcRec(D, B)
    BY <1>0, <2>1, CacheSteps
  <2> QED
    BY <1>0, <1>7, <2>2, <2>3, <2>4, <2>5 DEF StateChange, state_complete, state_active
<1> QED
  BY <1>6, <1>7

(* The watch callback.                                                     *)
LEMMA WatchType ==
  ASSUME NEW D, NEW B, Wide(D, B), NEW s \in SvcRec(D, B), NEW outcome,
         NEW w \in WfIn(D)
  PROVE  workflow_state_change_cb(s, w, outcome) \in SvcRec(D, B)
<1> DEFINE g == Get(s)
           c == StateChange(g, w, outcome)
           t == workflow_state_change_cb_inner(g, w, outcome)
<1>1. Forget(s) \in SvcRec(D, B) /\ g \in SvcRec(D, B)
  BY CacheSteps
<1>2. c \in SvcRec(D, B)
  <2> HIDE DEF g
  <2> QED BY <1>1, StateChangeType
<1>3. "raise" \in B
  BY DEF Wide, JmMsgs
<1>4. handle_workflow_errors(c, w) \in SvcRec(D, B)
  <2> DEFINE b == Condition(w)
             y == [c.svc EXCEPT !.tc = b]
  <2> HIDE DEF c
  <2>1. Raise(c) \in SvcRec(D, B)
    BY <1>2, <1>3, WithSvc DEF Raise
  <2>2. [c EXCEPT !.svc = y] \in SvcRec(D, B)
    <3>1. b \in {"none", "prerun", "other"}
      BY DEF Condition
    <3> HIDE DEF b
    <3>2. y \in Services
      BY <1>2, <3>1 DEF SvcRec, Services
    <3> HIDE DEF y
    <3> QED BY <1>2, <3>2, WithSvc
  <2> QED
    BY <2>1, <2>2 DEF handle_workflow_errors
<1>5. t \in SvcRec(D, B)
  <2> HIDE DEF g
  <2> QED BY <1>1, <1>2, <1>4 DEF workflow_state_change_cb_inner
<1>6. Raise(move_to_teardown(t)) \in SvcRec(D, B)
  <2> HIDE DEF t
  <2>1. move_to_teardown(t) \in SvcRec(D, B)
    BY <1>5, CacheSteps
  <2> QED BY <1>3, <2>1, WithSvc DEF Raise
<1> QED
  BY <1>1, <1>5, <1>6 DEF workflow_state_change_cb

---------------------------------------------------------------------------
(* The invariant *)
(* Before run_cb: no dws.setup, no end of a run, no dws.prolog-remove, and  *)
(* the Workflow is proposed or torn down.                                   *)
EarlySvc == SvcMsgs \ {"setup", "post_run_1"}
EarlyJm == JmMsgs \ {"prolog-remove"}
EarlyStates == {"none", "Proposal", "Teardown"}

AllStates == WorkflowStates \cup {"none"}

(* The messages, the Workflow and its snapshots are in the given sets. *)
UnderWay(A, B, D) ==
  /\ toSvc \in Seq(A) /\ toJm \in Seq(B)
  /\ wf \in WfIn(D) /\ events \in Seq(WfIn(D))

(* The inductive invariant. *)
Inv ==
  /\ TypeOK
  /\ Good(job)
  /\ job.prolog = "unset" => UnderWay(EarlySvc, EarlyJm, EarlyStates)

(* Both choices of the sets are allowed.                                   *)
LEMMA Sizes ==
  /\ Enough(EarlySvc, EarlyJm) /\ Wide(EarlyStates, EarlyJm)
  /\ Enough(SvcMsgs, JmMsgs) /\ Wide(AllStates, JmMsgs)
  /\ WfIn(AllStates) = Workflows
<1>1. Enough(EarlySvc, EarlyJm)
  BY DEF EarlySvc, EarlyJm, Enough, SvcMsgs, JmMsgs
<1>2. Wide(EarlyStates, EarlyJm)
  <2>1. EarlyStates \subseteq WorkflowStates \cup {"none"}
    BY DEF EarlyStates, WorkflowStates
  <2>2. EarlyJm \subseteq JmMsgs /\ JmMsgs \ {"prolog-remove"} \subseteq EarlyJm
    BY DEF EarlyJm
  <2>3. EarlyStates = {"none", "Proposal", "Teardown"}
    BY DEF EarlyStates
  <2>4. {"none", "Proposal", "Teardown"} \subseteq EarlyStates
    BY <2>3
  <2> QED
    BY <2>1, <2>2, <2>3, <2>4 DEF Wide
<1>3. Enough(SvcMsgs, JmMsgs)
  BY DEF Enough, SvcMsgs, JmMsgs
<1>4. Wide(AllStates, JmMsgs)
  BY DEF AllStates, Wide, JmMsgs, WorkflowStates
<1>5. WfIn(AllStates) = Workflows
  BY DEF WfIn, AllStates, Workflows
<1> QED
  BY <1>1, <1>2, <1>3, <1>4, <1>5

(* The counts of faults stay natural numbers.                              *)
LEMMA SpendType ==
  ASSUME faults \in [FaultKinds -> Nat]
  PROVE  /\ \A kind \in FaultKinds : Spend(kind) => faults' \in [FaultKinds -> Nat]
         /\ \A b \in BOOLEAN : Charge(b) => faults' \in [FaultKinds -> Nat]
<1>1. ASSUME NEW kind \in FaultKinds, Spend(kind)
      PROVE  faults' \in [FaultKinds -> Nat]
  BY <1>1 DEF Spend
<1>2. "api" \in FaultKinds
  BY DEF FaultKinds
<1> QED
  BY <1>1, <1>2 DEF Charge

(* The invariant holds at first.                                           *)
LEMMA InitInv == Init => Inv
<1> SUFFICES ASSUME Init PROVE Inv
  OBVIOUS
<1> USE DEF Init, EnvInit, JobInit, SvcInit
<1>1. NoWorkflow \in Workflows /\ NoWorkflow.desired \in EarlyStates
  BY DEF NoWorkflow, Workflows, WorkflowStates, StatusValues, EarlyStates
<1>2. EnvTypeOK
  BY <1>1 DEF EnvTypeOK
<1>3. JobTypeOK
  BY DEF JobTypeOK, Jobs, JobStates
<1>4. SvcTypeOK
  BY DEF SvcTypeOK, Services, FreshService
<1>5. Good(job)
  BY DEF Good, Mine
<1>6. UnderWay(EarlySvc, EarlyJm, EarlyStates)
  BY <1>1 DEF UnderWay, WfIn
<1> QED
  BY <1>2, <1>3, <1>4, <1>5, <1>6 DEF Inv, TypeOK

(* Steps of the controller, the API server and the watch.                  *)
LEMMA EnvStep ==
  ASSUME NEW A, NEW B, NEW D, Wide(D, B), UnderWay(A, B, D), svcUp \in BOOLEAN,
         faults \in [FaultKinds -> Nat], EnvNext
  PROVE  UnderWay(A, B, D)' /\ svcUp' \in BOOLEAN /\ faults' \in [FaultKinds -> Nat]
<1>1. wf \in Workflows /\ wf.desired \in D
  BY DEF UnderWay, WfIn
<1>2. ASSUME NEW w \in WfIn(D), Update(w)
      PROVE  UnderWay(A, B, D)' /\ svcUp' \in BOOLEAN
  <2>1. Notify(events, w) \in Seq(WfIn(D))
    BY DEF Notify, UnderWay
  <2> QED
    BY <1>2, <2>1 DEF Update, UnderWay
<1>3. ControllerStart => UnderWay(A, B, D)' /\ svcUp' \in BOOLEAN
  <2>1. [wf EXCEPT !.state = wf.desired, !.ready = FALSE, !.status = "ok"] \in WfIn(D)
    BY <1>1 DEF WfIn, Workflows, StatusValues
  <2> QED
    BY <1>2, <2>1 DEF ControllerStart
<1>4. ControllerComplete => UnderWay(A, B, D)' /\ svcUp' \in BOOLEAN
  <2>1. [wf EXCEPT !.ready = TRUE, !.status = "ok"] \in WfIn(D)
    BY <1>1 DEF WfIn, Workflows, StatusValues
  <2> QED
    BY <1>2, <2>1 DEF ControllerComplete
<1>5. ControllerTransientCondition => UnderWay(A, B, D)' /\ svcUp' \in BOOLEAN
  <2>1. [wf EXCEPT !.status = "TransientCondition"] \in WfIn(D)
    BY <1>1 DEF WfIn, Workflows, StatusValues
  <2> QED
    BY <1>2, <2>1 DEF ControllerTransientCondition
<1>6. ControllerError => UnderWay(A, B, D)' /\ svcUp' \in BOOLEAN
  <2>1. [wf EXCEPT !.status = "Error"] \in WfIn(D)
    BY <1>1 DEF WfIn, Workflows, StatusValues
  <2> QED
    BY <1>2, <2>1 DEF ControllerError
<1>7. OutsideDelete => UnderWay(A, B, D)' /\ svcUp' \in BOOLEAN
  <2>1. [wf EXCEPT !.deleting = TRUE] \in WfIn(D)
    BY <1>1 DEF WfIn, Workflows
  <2> QED
    BY <1>2, <2>1 DEF OutsideDelete
<1>8. ApiServerRemove => UnderWay(A, B, D)' /\ svcUp' \in BOOLEAN
  <2>1. NoWorkflow \in WfIn(D)
    BY DEF NoWorkflow, WfIn, Workflows, Wide, StatusValues
  <2> QED
    BY <1>2, <2>1 DEF ApiServerRemove
<1>9. WatchRestart => UnderWay(A, B, D)' /\ svcUp' \in BOOLEAN
  <2>1. Listing(wf) \in Seq(WfIn(D))
    BY DEF Listing, UnderWay
  <2> QED
    BY <2>1 DEF WatchRestart, UnderWay
<1>10. faults' \in [FaultKinds -> Nat]
  <2>1. {"tc", "error", "delete", "relist"} \subseteq FaultKinds
    BY DEF FaultKinds
  <2> QED
    BY <2>1, SpendType DEF EnvNext, ControllerStart, ControllerComplete,
         ControllerTransientCondition, ControllerError, OutsideDelete,
         ApiServerRemove, WatchRestart
<1> QED
  BY <1>3, <1>4, <1>5, <1>6, <1>7, <1>8, <1>9, <1>10 DEF EnvNext

(* What a handler of the service leaves behind.                            *)
LEMMA PutType ==
  ASSUME NEW A, NEW B, NEW D, svcUp \in BOOLEAN,
         NEW s \in SvcRec(D, B), NEW queue \in Seq(WfIn(D)), Put(s, queue),
         toSvc' \in Seq(A)
  PROVE  UnderWay(A, B, D)' /\ svc' \in Services /\ svcUp' \in BOOLEAN
<1>1. s.wf \in WfIn(D) /\ s.toJm \in Seq(B) /\ s.svc \in Services
  BY DEF SvcRec
<1>2. Notify(queue, s.wf) \in Seq(WfIn(D))
  BY <1>1 DEF Notify
<1> QED
  BY <1>1, <1>2 DEF Put, UnderWay

(* Steps of the service.                                                   *)
LEMMA SvcStep ==
  ASSUME NEW A, NEW B, NEW D, Enough(A, B), Wide(D, B), UnderWay(A, B, D),
         \A msg \in A : msg \in {"setup", "post_run_1"} => WorkflowStates \subseteq D,
         svc \in Services, svcUp \in BOOLEAN, faults \in [FaultKinds -> Nat], SvcNext
  PROVE  /\ UnderWay(A, B, D)' /\ svc' \in Services
         /\ svcUp' \in BOOLEAN /\ faults' \in [FaultKinds -> Nat]
<1> DEFINE P == UnderWay(A, B, D)' /\ svc' \in Services /\ svcUp' \in BOOLEAN
           Q == faults' \in [FaultKinds -> Nat]
<1>1. Now \in SvcRec(D, B)
  BY DEF Now, SvcRec, UnderWay
<1>2. toSvc \in Seq(A) /\ toJm \in Seq(B) /\ wf \in WfIn(D) /\ events \in Seq(WfIn(D))
  BY DEF UnderWay
<1>3. "raise" \in B
  BY DEF Wide, JmMsgs
<1>4. \A s \in SvcRec(D, B) : Raise(s) \in SvcRec(D, B)
  BY <1>3, WithSvc DEF Raise
<1>put. ASSUME NEW z \in SvcRec(D, B), NEW q \in Seq(WfIn(D)), Put(z, q), toSvc' \in Seq(A)
       PROVE  P
  BY <1>put, PutType
<1>stops. ServiceStops => P
  <2>1. FreshService \in Services /\ <<>> \in Seq(A) /\ <<>> \in Seq(WfIn(D))
    BY DEF FreshService, Services
  <2> QED
    BY <1>2, <2>1 DEF ServiceStops, UnderWay
<1>5. HandleRpc => P /\ Q
  <2> SUFFICES ASSUME HandleRpc PROVE P /\ Q
    OBVIOUS
  <2> DEFINE msg == Head(toSvc)
  <2>1. PICK outcome \in RpcOutcomes(msg) :
          LET s == Rpc(Now, msg, outcome)
          IN  /\ Charge(outcome # "ok" /\ msg # "create")
              /\ Put(IF s.ok THEN s ELSE [s EXCEPT !.toJm = @ \o FailureOf(msg)], events)
    BY DEF HandleRpc
  <2>2. msg \in A /\ toSvc' \in Seq(A)
    BY <1>2 DEF HandleRpc
  <2> HIDE DEF msg
  <2> DEFINE s == Rpc(Now, msg, outcome)
             u == [s EXCEPT !.toJm = s.toJm \o FailureOf(msg)]
  <2>3. s \in SvcRec(D, B)
    BY <1>1, <2>2, RpcType DEF Enough
  <2>4. u \in SvcRec(D, B)
    <3> HIDE DEF s
    <3>1. FailureOf(msg) \in Seq(B)
      BY <2>2, FailureType DEF Enough
    <3>2. s.toJm \o FailureOf(msg) \in Seq(B)
      BY <2>3, <3>1 DEF SvcRec
    <3> QED BY <2>3, <3>2 DEF SvcRec
  <2> DEFINE r == IF s.ok THEN s ELSE u
  <2>5. Put(r, events) /\ r \in SvcRec(D, B)
    BY <2>1, <2>3, <2>4
  <2>6. P
    <3>1. Put(r, events) /\ r \in SvcRec(D, B) /\ events \in Seq(WfIn(D)) /\ toSvc' \in Seq(A)
      BY <1>2, <2>2, <2>5
    <3> HIDE DEF r
    <3> QED BY <3>1, PutType
  <2>7. Q
    BY <2>1, SpendType
  <2> QED
    BY <2>6, <2>7
<1>6. HandleWatchEvent => P /\ Q
  <2> SUFFICES ASSUME HandleWatchEvent PROVE P /\ Q
    OBVIOUS
  <2>1. PICK outcome \in WatchOutcomes(Now, Head(events)) :
          /\ Charge(outcome \in {"fault", "late"})
          /\ Put(workflow_state_change_cb(Now, Head(events), outcome), Tail(events))
    BY DEF HandleWatchEvent
  <2>2. Head(events) \in WfIn(D) /\ Tail(events) \in Seq(WfIn(D)) /\ toSvc' = toSvc
    BY <1>2 DEF HandleWatchEvent
  <2>3. workflow_state_change_cb(Now, Head(events), outcome) \in SvcRec(D, B)
    BY <1>1, <2>2, WatchType
  <2>4. P
    <3>1. \E z \in SvcRec(D, B), queue \in Seq(WfIn(D)) : Put(z, queue)
      BY <2>1, <2>2, <2>3
    <3>2. PICK z \in SvcRec(D, B), queue \in Seq(WfIn(D)) : Put(z, queue)
      BY <3>1
    <3>3. toSvc' \in Seq(A)
      BY <1>2, <2>2
    <3> QED BY <1>put, <3>2, <3>3
  <2>5. Q
    <3>1. faults' = faults \/ Spend("api")
      BY <2>1 DEF Charge
    <3>2. "api" \in FaultKinds
      BY DEF FaultKinds
    <3> QED BY <3>1, <3>2, SpendType
  <2> QED
    BY <2>4, <2>5
<1>7. StateTimeout => P /\ Q
  <2>1. StopTimer(Now) \in SvcRec(D, B)
    BY <1>1, CacheSteps
  <2>2. Raise(StopTimer(Now)) \in SvcRec(D, B)
    BY <1>4, <2>1
  <2>3. \A s \in SvcRec(D, B) : Put(s, events) /\ toSvc' = toSvc => P
    BY <1>2, PutType
  <2> QED
    BY <2>1, <2>2, <2>3 DEF StateTimeout
<1>8. postrun_timeout_cb => P /\ Q
  <2> SUFFICES ASSUME postrun_timeout_cb PROVE P /\ Q
    OBVIOUS
  <2>1. PICK outcome \in {"ok", "fault", "late"} :
          LET check == IF outcome = "fault" THEN "fault" ELSE "ok"
              s == Raise([check_existence_and_move_to_teardown(StopTimer(Now), check)
                            EXCEPT !.ok = TRUE])
          IN  /\ Charge(outcome # "ok")
              /\ Put(IF outcome = "late" THEN Raise(s) ELSE s, events)
    BY DEF postrun_timeout_cb
  <2> DEFINE check == IF outcome = "fault" THEN "fault" ELSE "ok"
             c == check_existence_and_move_to_teardown(StopTimer(Now), check)
             s == Raise([c EXCEPT !.ok = TRUE])
  <2>2. c \in SvcRec(D, B)
    BY <1>1, CacheSteps, MoveSteps
  <2>3. s \in SvcRec(D, B) /\ Raise(s) \in SvcRec(D, B)
    <3> HIDE DEF c
    <3>1. [c EXCEPT !.ok = TRUE] \in SvcRec(D, B)
      BY <2>2, WithSvc
    <3> QED BY <1>4, <3>1
  <2>4. Put(IF outcome = "late" THEN Raise(s) ELSE s, events) /\ toSvc' = toSvc
    BY <2>1 DEF postrun_timeout_cb
  <2>5. P
    <3> HIDE DEF s
    <3> QED BY <1>2, <2>3, <2>4, PutType
  <2>6. Q
    BY <2>1, SpendType
  <2> QED
    BY <2>5, <2>6
<1>9. teardown_after_timer_cb => P /\ Q
  <2> SUFFICES ASSUME teardown_after_timer_cb PROVE P /\ Q
    OBVIOUS
  <2> DEFINE n == [Now EXCEPT !.svc.teardownAfter = FALSE]
             c(outcome) == check_existence_and_move_to_teardown(n, outcome)
  <2>1. PICK outcome \in {"ok", "fault"} :
          Charge(outcome = "fault") /\ Put([c(outcome) EXCEPT !.ok = TRUE], events)
    BY DEF teardown_after_timer_cb
  <2>2. n \in SvcRec(D, B)
    <3> DEFINE y == [svc EXCEPT !.teardownAfter = FALSE]
    <3>1. y \in Services
      BY DEF Services
    <3>2. n = [Now EXCEPT !.svc = y]
      BY DEF Now
    <3> HIDE DEF n, y
    <3> QED BY <1>1, <3>1, <3>2, WithSvc
  <2>3. [c(outcome) EXCEPT !.ok = TRUE] \in SvcRec(D, B)
    <3> HIDE DEF n
    <3>1. c(outcome) \in SvcRec(D, B)
      BY <2>2, MoveSteps
    <3> HIDE DEF c
    <3> QED BY <3>1, WithSvc
  <2>4. toSvc' = toSvc
    BY DEF teardown_after_timer_cb
  <2>5. P
    <3> HIDE DEF c
    <3> QED BY <1>2, <2>1, <2>3, <2>4, PutType
  <2>6. Q
    BY <2>1, SpendType
  <2> QED
    BY <2>5, <2>6
<1>10. kill_workflows_in_tc => P /\ Q
  <2> SUFFICES ASSUME kill_workflows_in_tc PROVE P /\ Q
    OBVIOUS
  <2> DEFINE n == Overdue(Now)
  <2>1. n \in SvcRec(D, B)
    BY <1>1, OverdueType
  <2>2. \/ (Put(Raise(n), events) \/ Put(n, events)) /\ toSvc' = toSvc /\ faults' = faults
        \/ Charge(wf.exists) /\ ServiceStops
    BY DEF kill_workflows_in_tc
  <2> HIDE DEF n
  <2>3. CASE Charge(wf.exists) /\ ServiceStops
    <3>1. wf.exists \in BOOLEAN
      BY <1>2 DEF WfIn, Workflows
    <3> QED BY <1>stops, <2>3, <3>1, SpendType
  <2> QED
    BY <1>2, <1>4, <2>1, <2>2, <2>3, PutType
<1>11. teardown_workflow_coro => P /\ Q
  <2> DEFINE n == [Now EXCEPT !.svc.doTeardown = FALSE]
             y == [svc EXCEPT !.doTeardown = FALSE]
             v == [wf EXCEPT !.desired = "Teardown", !.finalizer = FALSE]
             m == [n EXCEPT !.wf = v]
  <2>1. y \in Services
    BY DEF Services
  <2>2. v \in WfIn(D)
    BY <1>2 DEF WfIn, Workflows, WorkflowStates, Wide
  <2>3. n = [Now EXCEPT !.svc = y]
    BY DEF Now
  <2>4. n \in SvcRec(D, B) /\ n.wf = wf
    <3>1. n \in SvcRec(D, B)
      <4> HIDE DEF n, y
      <4> QED BY <1>1, <2>1, <2>3, WithSvc
    <3> QED BY <3>1 DEF Now
  <2>5. m \in SvcRec(D, B)
    <3> HIDE DEF n, v
    <3> QED BY <2>2, <2>4, WithSvc
  <2>6. [n EXCEPT !.wf.desired = "Teardown", !.wf.finalizer = FALSE] = m
    <3> HIDE DEF n
    <3> QED BY <2>4 DEF SvcRec
  <2> SUFFICES ASSUME teardown_workflow_coro PROVE P /\ Q
    OBVIOUS
  <2>7. Put(IF wf.exists THEN m ELSE n, events) /\ toSvc' = toSvc /\ faults' = faults
    BY <2>6 DEF teardown_workflow_coro
  <2> HIDE DEF n, m
  <2> QED
    BY <1>2, <2>4, <2>5, <2>7, PutType
<1>12. delete_workflow_coro => P /\ Q
  <2> DEFINE n == [Now EXCEPT !.svc.doDelete = FALSE]
             y == [svc EXCEPT !.doDelete = FALSE]
             v == [wf EXCEPT !.finalizer = FALSE, !.deleting = TRUE]
             m == [n EXCEPT !.wf = v]
  <2>1. y \in Services
    BY DEF Services
  <2>2. v \in WfIn(D)
    BY <1>2 DEF WfIn, Workflows
  <2>3. n = [Now EXCEPT !.svc = y]
    BY DEF Now
  <2>4. n \in SvcRec(D, B) /\ n.wf = wf
    <3>1. n \in SvcRec(D, B)
      <4> HIDE DEF n, y
      <4> QED BY <1>1, <2>1, <2>3, WithSvc
    <3> QED BY <3>1 DEF Now
  <2>5. m \in SvcRec(D, B)
    <3> HIDE DEF n, v
    <3> QED BY <2>2, <2>4, WithSvc
  <2>6. [n EXCEPT !.wf.finalizer = FALSE, !.wf.deleting = TRUE] = m
    <3> HIDE DEF n
    <3> QED BY <2>4 DEF SvcRec
  <2> SUFFICES ASSUME delete_workflow_coro PROVE P /\ Q
    OBVIOUS
  <2>7. Put(IF wf.exists THEN m ELSE n, events) /\ toSvc' = toSvc /\ faults' = faults
    BY <2>6 DEF delete_workflow_coro
  <2> HIDE DEF n, m
  <2> QED
    BY <1>2, <2>4, <2>5, <2>7, PutType
<1>13. Crash => P /\ Q
  <2>1. "crash" \in FaultKinds
    BY DEF FaultKinds
  <2> QED
    BY <1>stops, <2>1, SpendType DEF Crash
<1>14. Restart => P /\ Q
  <2>1. Listing(wf) \in Seq(WfIn(D))
    BY <1>2 DEF Listing
  <2> QED
    BY <1>2, <2>1 DEF Restart, UnderWay
<1> QED
  BY <1>5, <1>6, <1>7, <1>8, <1>9, <1>10, <1>11, <1>12, <1>13, <1>14 DEF SvcNext

(* What a callback of the plugin leaves behind.                            *)
LEMMA BecomeGood ==
  ASSUME NEW A, NEW B, NEW D, UnderWay(A, B, D), svcUp \in BOOLEAN,
         NEW s \in GoodRec(A, B), Become(s)
  PROVE  /\ UnderWay(A, B, D)' /\ svcUp' \in BOOLEAN
         /\ job' \in Jobs /\ Good(job') /\ job' = s.job
BY DEF Become, UnderWay, GoodRec, JmRec

(* Steps of the plugin and the job manager.                                *)
LEMMA JobStep ==
  ASSUME NEW A, NEW B, NEW D, Enough(A, B), UnderWay(A, B, D), "create" \in A,
         job \in Jobs, Good(job), svcUp \in BOOLEAN, faults \in [FaultKinds -> Nat],
         job.prolog = "unset" => "prolog-remove" \notin B,
         job.prolog # "unset" => "setup" \in A /\ "post_run_1" \in A,
         JobNext
  PROVE  /\ UnderWay(A, B, D)' /\ svcUp' \in BOOLEAN
         /\ job' \in Jobs /\ Good(job') /\ faults' \in [FaultKinds -> Nat]
         /\ job'.prolog = "unset" => job.prolog = "unset"
<1> DEFINE P == UnderWay(A, B, D)' /\ svcUp' \in BOOLEAN /\ job' \in Jobs /\ Good(job')
           Q == faults' \in [FaultKinds -> Nat]
           R == job'.prolog = "unset" => job.prolog = "unset"
<1>1. Current \in JmRec(A, B) /\ Current.job = job
  BY DEF Current, JmRec, UnderWay
<1>2. Current \in GoodRec(A, B)
  BY <1>1 DEF GoodRec
<1>3. ASSUME NEW k \in Jobs, Good(k)
      PROVE  [Current EXCEPT !.job = k] \in GoodRec(A, B) /\ [Current EXCEPT !.job = k].job = k
  <2>1. [Current EXCEPT !.job = k] \in JmRec(A, B) /\ [Current EXCEPT !.job = k].job = k
    BY <1>1, WithJob
  <2> QED
    BY <1>3, <2>1 DEF GoodRec
<1>4. \A s \in GoodRec(A, B) : Become(s) => P /\ job' = s.job
  BY BecomeGood
<1>5. {"api", "cancel", "perilog"} \subseteq FaultKinds
  BY DEF FaultKinds
<1>6. depend_cb => P /\ Q /\ R
  <2> SUFFICES ASSUME depend_cb PROVE P /\ Q /\ R
    OBVIOUS
  <2> DEFINE k == [job EXCEPT !.state = "DEPEND", !.subs = 1]
             n == [Current EXCEPT !.job = k]
             t == Send(n, "create")
  <2>1. k \in Jobs /\ k.prolog = job.prolog
    BY DEF Jobs, JobStates
  <2>2. Good(k)
    BY DEF depend_cb, Good, Mine, Jobs
  <2>3. n \in GoodRec(A, B) /\ n.job = k
    <3> HIDE DEF k
    <3> QED BY <1>3, <2>1, <2>2
  <2>4. t \in GoodRec(A, B) /\ t.job = k
    <3> HIDE DEF n
    <3> QED BY <2>3, SendType DEF GoodRec
  <2>5. [Current EXCEPT !.job.state = "DEPEND", !.job.subs = 1] = n
    BY <1>1 DEF Current
  <2>6. Become(t) /\ faults' = faults
    BY <2>5 DEF depend_cb
  <2> HIDE DEF k, t
  <2> QED
    BY <1>4, <2>1, <2>4, <2>6
<1>7. run_cb => P /\ Q /\ R
  <2> SUFFICES ASSUME run_cb PROVE P /\ Q /\ R
    OBVIOUS
  <2> DEFINE k == [job EXCEPT !.state = "RUN", !.subs = 2, !.prolog = "active",
                              !.perilogs = job.perilogs + 1, !.fetchR = TRUE]
  <2>1. job.state = "SCHED" /\ job.perilogs + 1 \in Nat /\ job.perilogs = 0
        /\ ~job.epilogActive /\ job.exec = "idle" /\ job.others = 0 /\ ~job.taken
        /\ job.epilogStatus = "none"
    BY DEF run_cb, Jobs, Good, Mine
  <2>2. k \in Jobs
    BY <2>1 DEF Jobs, JobStates
  <2>3. Good(k)
    BY <2>1 DEF Good, Jobs, Mine
  <2>4. k.prolog = "active"
    BY DEF Jobs
  <2>5. Become([Current EXCEPT !.job = k]) /\ faults' = faults
    BY DEF run_cb
  <2> HIDE DEF k
  <2> QED
    BY <1>3, <1>4, <2>2, <2>3, <2>4, <2>5
<1>8. fetch_R_callback => P /\ Q /\ R
  <2> SUFFICES ASSUME fetch_R_callback PROVE P /\ Q /\ R
    OBVIOUS
  <2> DEFINE k == [job EXCEPT !.fetchR = FALSE]
             n == [Current EXCEPT !.job = k]
  <2>1. job.prolog # "unset"
    BY DEF fetch_R_callback, Good
  <2>2. k \in Jobs /\ Good(k) /\ k.prolog = job.prolog
    BY DEF Jobs, Good, Mine
  <2>3. n \in GoodRec(A, B) /\ n.job = k
    <3> HIDE DEF k
    <3> QED BY <1>3, <2>2
  <2>4. [Current EXCEPT !.job.fetchR = FALSE] = n
    BY DEF Current
  <2>5. \/ Become(Send(n, "setup")) /\ faults' = faults
        \/ Spend("api") /\ Become(dws_prolog_finish(n, FALSE))
    BY <2>4 DEF fetch_R_callback
  <2> HIDE DEF n
  <2>6. Send(n, "setup") \in GoodRec(A, B) /\ Send(n, "setup").job = k
    BY <2>1, <2>3, SendType DEF GoodRec
  <2>7. /\ dws_prolog_finish(n, FALSE) \in GoodRec(A, B)
        /\ Keeps(n.job, dws_prolog_finish(n, FALSE).job)
    BY <2>3, PerilogFinishGood
  <2> HIDE DEF k
  <2>8. P
    BY <1>4, <2>5, <2>6, <2>7
  <2>9. Q
    BY <1>5, <2>5, SpendType
  <2>10. R
    BY <1>4, <2>1, <2>2, <2>3, <2>5, <2>6, <2>7 DEF Keeps
  <2> QED
    BY <2>8, <2>9, <2>10
<1>9. HandleJmMessage => P /\ Q /\ R
  <2> SUFFICES ASSUME HandleJmMessage PROVE P /\ Q /\ R
    OBVIOUS
  <2> DEFINE n == [Current EXCEPT !.toJm = Tail(toJm)]
             msg == Head(toJm)
  <2>1. msg \in B /\ Tail(toJm) \in Seq(B)
    BY DEF HandleJmMessage, UnderWay
  <2>2. n \in GoodRec(A, B) /\ n.job = job
    BY <1>1, <2>1 DEF GoodRec, JmRec
  <2>3. [Current EXCEPT !.toJm = Tail(@)] = n
    BY DEF Current
  <2>4. \/ Become(Dispatch(n, msg)) /\ faults' = faults
        \/ /\ msg = "prolog-remove" /\ Spend("api")
           /\ Become(prolog_remove_msg_cb(n, FALSE))
    BY <2>3 DEF HandleJmMessage
  <2> HIDE DEF n, msg
  <2>5. msg \in JmMsgs /\ (msg = "prolog-remove" => n.job.prolog # "unset")
    BY <2>1, <2>2 DEF Enough
  <2>6. Dispatch(n, msg) \in GoodRec(A, B) /\ Keeps(n.job, Dispatch(n, msg).job)
    BY <2>2, <2>5, DispatchGood
  <2>7. msg = "prolog-remove" => /\ prolog_remove_msg_cb(n, FALSE) \in GoodRec(A, B)
                                 /\ Keeps(n.job, prolog_remove_msg_cb(n, FALSE).job)
    BY <2>2, <2>5, PrologRemoveGood
  <2>8. P
    BY <1>4, <2>4, <2>6, <2>7
  <2>9. Q
    BY <1>5, <2>4, SpendType
  <2>10. R
    BY <1>4, <2>2, <2>4, <2>6, <2>7 DEF Keeps
  <2> QED
    BY <2>8, <2>9, <2>10
<1>10. epilog_timeout_cb => P /\ Q /\ R
  <2> SUFFICES ASSUME epilog_timeout_cb PROVE P /\ Q /\ R
    OBVIOUS
  <2> DEFINE k == [job EXCEPT !.timer = FALSE]
             n == [Current EXCEPT !.job = k]
             t == IF job.state = "CLEANUP" THEN PostException(n, "dws-epilog-timeout") ELSE n
  <2>1. k \in Jobs /\ Good(k) /\ k.prolog = job.prolog
    BY DEF Jobs, Good, Mine
  <2>2. n \in GoodRec(A, B) /\ n.job = k
    <3> HIDE DEF k
    <3> QED BY <1>3, <2>1
  <2>3. [Current EXCEPT !.job.timer = FALSE] = n
    BY DEF Current
  <2>4. Become(t) /\ faults' = faults
    BY <2>3 DEF epilog_timeout_cb
  <2>5. t \in GoodRec(A, B) /\ Keeps(n.job, t.job)
    <3> HIDE DEF n
    <3>1. /\ PostException(n, "dws-epilog-timeout") \in GoodRec(A, B)
          /\ Keeps(n.job, PostException(n, "dws-epilog-timeout").job)
      BY <2>2, PostExceptionGood
    <3>2. Keeps(n.job, n.job)
      BY DEF Keeps
    <3> QED BY <2>2, <3>1, <3>2
  <2> HIDE DEF k, n, t
  <2> QED
    BY <1>4, <2>1, <2>2, <2>4, <2>5 DEF Keeps
<1>11. OtherException => P /\ Q /\ R
  <2> SUFFICES ASSUME OtherException PROVE P /\ Q /\ R
    OBVIOUS
  <2> DEFINE t == PostException(Current, "cancel")
  <2>1. t \in GoodRec(A, B) /\ Keeps(job, t.job)
    BY <1>1, <1>2, PostExceptionGood
  <2>2. Become(t) /\ Spend("cancel")
    BY DEF OtherException
  <2> HIDE DEF t
  <2>3. Q
    BY <1>5, <2>2, SpendType
  <2> QED
    BY <1>4, <2>1, <2>2, <2>3 DEF Keeps
<1>12. ASSUME NEW e \in {"idle", "pending", "running"},
              job.state \in {"RUN", "CLEANUP"}, job.prolog # "unset",
              job.prolog # "active", job.exec \in {"idle", "pending"},
              e # "idle" \/ job.epilogActive \/ job.state = "RUN",
              Become([Current EXCEPT !.job.exec = e])
       PROVE  P /\ R
  <2> DEFINE k == [job EXCEPT !.exec = e]
  <2>1. k \in Jobs /\ k.prolog = job.prolog
    BY <1>12 DEF Jobs
  <2>2. Good(k)
    BY <1>12 DEF Good, Mine, Jobs
  <2>3. [Current EXCEPT !.job.exec = e] = [Current EXCEPT !.job = k]
    BY DEF Current
  <2> HIDE DEF k
  <2> QED
    BY <1>3, <1>4, <1>12, <2>1, <2>2, <2>3
<1>13. StartRequest => P /\ Q /\ R
  <2> SUFFICES ASSUME StartRequest PROVE P /\ Q /\ R
    OBVIOUS
  <2>1. job.prolog # "unset" /\ job.prolog # "active"
    BY DEF StartRequest, Good, Jobs, Mine
  <2> QED
    BY <1>12, <2>1 DEF StartRequest
<1>14. StartEvent => P /\ Q /\ R
  <2> SUFFICES ASSUME StartEvent PROVE P /\ Q /\ R
    OBVIOUS
  <2>1. job.prolog # "unset" /\ job.prolog # "active"
    BY DEF StartEvent, Good, Jobs
  <2> QED
    BY <1>12, <2>1 DEF StartEvent
<1>15. StartAbandoned => P /\ Q /\ R
  <2> SUFFICES ASSUME StartAbandoned PROVE P /\ Q /\ R
    OBVIOUS
  <2>1. job.prolog # "unset" /\ job.prolog # "active" /\ job.epilogActive
    BY DEF StartAbandoned, Good, Jobs
  <2> QED
    BY <1>12, <2>1 DEF StartAbandoned
<1>16. FinishEvent => P /\ Q /\ R
  <2> SUFFICES ASSUME FinishEvent PROVE P /\ Q /\ R
    OBVIOUS
  <2> DEFINE t == PostFinish(Current)
  <2>1. job.exec = "running" /\ job.prolog # "unset"
    BY DEF FinishEvent, Good
  <2>2. t \in GoodRec(A, B) /\ t.job.prolog = job.prolog
    BY <1>1, <1>2, <2>1, PostFinishGood
  <2>3. Become(t) /\ faults' = faults
    BY DEF FinishEvent
  <2> HIDE DEF t
  <2> QED
    BY <1>4, <2>2, <2>3
<1>17. CleanEvent => P /\ Q /\ R
  <2> SUFFICES ASSUME CleanEvent PROVE P /\ Q /\ R
    OBVIOUS
  <2> DEFINE k == [job EXCEPT !.state = "INACTIVE", !.timer = FALSE]
  <2>1. k \in Jobs /\ k.prolog = job.prolog
    BY DEF Jobs, JobStates
  <2>2. job.epilogActive /\ (~job.taken => job.epilogStatus \in {"ok", "failed"})
    BY DEF CleanEvent, Good, Jobs, Mine
  <2>3. Good(k)
    BY <2>2 DEF CleanEvent, Good, Mine, Jobs
  <2>4. [Current EXCEPT !.job.state = "INACTIVE", !.job.timer = FALSE]
          = [Current EXCEPT !.job = k]
    BY DEF Current
  <2>5. Become([Current EXCEPT !.job = k]) /\ faults' = faults
    BY <2>4 DEF CleanEvent
  <2> HIDE DEF k
  <2> QED
    BY <1>3, <1>4, <2>1, <2>3, <2>5
<1>18. ASSUME NEW k \in Jobs, NEW n \in Nat, NEW m \in Nat,
              k = [job EXCEPT !.others = n, !.perilogs = m],
              job.state \in {"RUN", "CLEANUP"},
              m <= Mine(job) + n, ~job.taken => m = Mine(job) + n,
              Become([Current EXCEPT !.job = k])
       PROVE  P /\ R
  <2>1. /\ k.others = n /\ k.perilogs = m /\ k.prolog = job.prolog
        /\ k.epilogStatus = job.epilogStatus /\ k.taken = job.taken
        /\ Mine(k) = Mine(job)
    BY <1>18 DEF Jobs, Mine
  <2>2. Good(k)
    BY <1>18, <2>1 DEF Good, Jobs
  <2> QED
    BY <1>3, <1>4, <1>18, <2>1, <2>2
<1>19. job.others \in Nat /\ job.perilogs \in Nat /\ Mine(job) \in Nat
  BY DEF Jobs, Mine
<1>20. OtherPerilogStart => P /\ Q /\ R
  <2> SUFFICES ASSUME OtherPerilogStart PROVE P /\ Q /\ R
    OBVIOUS
  <2> DEFINE k == [job EXCEPT !.others = job.others + 1, !.perilogs = job.perilogs + 1]
  <2>0. job.others + 1 \in Nat /\ job.perilogs + 1 \in Nat
    BY <1>19
  <2>1. k \in Jobs /\ job.state \in {"RUN", "CLEANUP"}
    BY <2>0 DEF OtherPerilogStart, Jobs
  <2>2. /\ job.perilogs + 1 <= Mine(job) + (job.others + 1)
        /\ ~job.taken => job.perilogs + 1 = Mine(job) + (job.others + 1)
        /\ job.others + 1 \in Nat /\ job.perilogs + 1 \in Nat
    BY <1>19 DEF Good
  <2>3. Become([Current EXCEPT !.job = k]) /\ Spend("perilog")
    BY DEF OtherPerilogStart
  <2>4. P /\ R
    BY <1>18, <2>1, <2>2, <2>3
  <2> QED
    BY <1>5, <2>3, <2>4, SpendType
<1>21. OtherPerilogFinish => P /\ Q /\ R
  <2> SUFFICES ASSUME OtherPerilogFinish PROVE P /\ Q /\ R
    OBVIOUS
  <2> DEFINE k == [job EXCEPT !.others = job.others - 1, !.perilogs = OneLess(job.perilogs)]
  <2>1. /\ job.others - 1 \in Nat /\ OneLess(job.perilogs) \in Nat
        /\ job.state \in {"RUN", "CLEANUP"}
    BY <1>19 DEF OtherPerilogFinish, OneLess
  <2>2. k \in Jobs
    BY <2>1 DEF Jobs
  <2>3. /\ OneLess(job.perilogs) <= Mine(job) + (job.others - 1)
        /\ ~job.taken => OneLess(job.perilogs) = Mine(job) + (job.others - 1)
    BY <1>19, <2>1 DEF Good, OneLess
  <2>4. Become([Current EXCEPT !.job = k]) /\ faults' = faults
    BY DEF OtherPerilogFinish
  <2> QED
    BY <1>18, <2>1, <2>2, <2>3, <2>4
<1> QED
  BY <1>6, <1>7, <1>8, <1>9, <1>10, <1>11, <1>13, <1>14, <1>15, <1>16, <1>17,
     <1>20, <1>21 DEF JobNext

(* Every step keeps the invariant.                                         *)
LEMMA NextInv == Inv /\ [Next]_vars => Inv'
<1> SUFFICES ASSUME Inv, [Next]_vars PROVE Inv'
  OBVIOUS
<1> DEFINE A == IF job.prolog = "unset" THEN EarlySvc ELSE SvcMsgs
           B == IF job.prolog = "unset" THEN EarlyJm ELSE JmMsgs
           D == IF job.prolog = "unset" THEN EarlyStates ELSE AllStates
<1>1. /\ job \in Jobs /\ Good(job) /\ svc \in Services /\ svcUp \in BOOLEAN
      /\ faults \in [FaultKinds -> Nat] /\ UnderWay(SvcMsgs, JmMsgs, AllStates)
      /\ job.prolog = "unset" => UnderWay(EarlySvc, EarlyJm, EarlyStates)
  BY Sizes DEF Inv, TypeOK, EnvTypeOK, JobTypeOK, SvcTypeOK, UnderWay
<1>2. /\ Enough(A, B) /\ Wide(D, B) /\ UnderWay(A, B, D) /\ "create" \in A
      /\ job.prolog = "unset" => "prolog-remove" \notin B
      /\ job.prolog # "unset" => "setup" \in A /\ "post_run_1" \in A
      /\ \A msg \in A : msg \in {"setup", "post_run_1"} => WorkflowStates \subseteq D
  <2>1. CASE job.prolog = "unset"
    BY <1>1, <2>1, Sizes DEF EarlySvc, EarlyJm, SvcMsgs
  <2>2. CASE job.prolog # "unset"
    BY <1>1, <2>2, Sizes DEF AllStates, SvcMsgs
  <2> QED
    BY <2>1, <2>2
<1>3. SUFFICES /\ job' \in Jobs /\ Good(job') /\ svc' \in Services /\ svcUp' \in BOOLEAN
               /\ faults' \in [FaultKinds -> Nat]
               /\ toSvc' \in Seq(A) /\ toJm' \in Seq(B)
               /\ wf' \in WfIn(D) /\ events' \in Seq(WfIn(D))
               /\ job'.prolog = "unset" => job.prolog = "unset"
  <2> SUFFICES ASSUME /\ job' \in Jobs /\ Good(job') /\ svc' \in Services
                      /\ svcUp' \in BOOLEAN /\ faults' \in [FaultKinds -> Nat]
                      /\ toSvc' \in Seq(A) /\ toJm' \in Seq(B)
                      /\ wf' \in WfIn(D) /\ events' \in Seq(WfIn(D))
                      /\ job'.prolog = "unset" => job.prolog = "unset"
               PROVE  Inv'
    OBVIOUS
  <2>1. A \subseteq SvcMsgs /\ B \subseteq JmMsgs /\ WfIn(D) \subseteq Workflows
    BY DEF EarlySvc, EarlyJm, WfIn
  <2>2. toSvc' \in Seq(SvcMsgs) /\ toJm' \in Seq(JmMsgs) /\ events' \in Seq(Workflows)
    <3> HIDE DEF A, B, D
    <3> QED BY <2>1
  <2>3. TypeOK'
    <3> HIDE DEF A, B, D
    <3> QED BY <2>1, <2>2 DEF TypeOK, EnvTypeOK, JobTypeOK, SvcTypeOK
  <2>4. (job.prolog = "unset" => UnderWay(EarlySvc, EarlyJm, EarlyStates))'
    BY DEF UnderWay
  <2>5. Good(job)'
    BY DEF Good
  <2> QED
    BY <2>3, <2>4, <2>5 DEF Inv
<1> HIDE DEF A, B, D
<1>4. CASE JobNext /\ UNCHANGED svc
  BY <1>1, <1>2, <1>4, JobStep DEF UnderWay
<1>5. CASE SvcNext /\ UNCHANGED job
  BY <1>1, <1>2, <1>5, SvcStep DEF UnderWay
<1>6. CASE EnvNext /\ UNCHANGED <<job, svc>>
  BY <1>1, <1>2, <1>6, EnvStep DEF UnderWay
<1>7. CASE UNCHANGED vars
  BY <1>1, <1>2, <1>7 DEF vars, UnderWay
<1> QED
  BY <1>4, <1>5, <1>6, <1>7 DEF Next, Finished

(* The inductive invariant holds in every reachable state.                 *)
THEOREM Invariance == Spec => []Inv
BY InitInv, NextInv, PTL DEF Spec

(* TypeOK for every faults of faults and every configuration: no count of  *)
(* the job manager becomes negative, no stream ever carries a message      *)
(* without a handler, and no Workflow gets a state that DWS does not know. *)
THEOREM TypeCorrect == Spec => []TypeOK
<1>1. Inv => TypeOK
  BY DEF Inv
<1> QED
  BY Invariance, <1>1, PTL

(* PerilogsBalanced: the job manager's count of prologs and epilogs is     *)
(* what this and the other plugins started and did not finish, for any     *)
(* number of faults and of other plugins' actions, although exception_cb   *)
(* and finish_cb run once per subscription and the service, the timer and  *)
(* failed RPCs all finish the same epilog: unless one of them lowered the  *)
(* count for an epilog that was not open while another plugin held the job.*)
THEOREM Balanced == Spec => []PerilogsBalanced
<1>1. Inv => PerilogsBalanced
  <2> SUFFICES ASSUME Inv PROVE PerilogsBalanced
    OBVIOUS
  <2>1. Unfinished = Mine(job) + job.others
    BY DEF Unfinished, Mine
  <2> QED
    BY <2>1 DEF Inv, Good, PerilogsBalanced
<1> QED
  BY Invariance, <1>1, PTL

(* OneEpilogPerJob: cleanup_cb and finish_cb never both start a dws-       *)
(* epilog, no job becomes inactive without one, and none before it is over *)
(* unless the shared count was lowered too often.                          *)
THEOREM EpilogOnce == Spec => []OneEpilogPerJob
<1>1. Inv => OneEpilogPerJob
  BY DEF Inv, Good, OneEpilogPerJob
<1> QED
  BY Invariance, <1>1, PTL
=============================================================================
