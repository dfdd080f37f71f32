--------------------------- MODULE ShellEnvProofs ---------------------------
(***************************************************************************)
(* The environment of tasks at any depth of nested instances, for all sets *)
(* of nodes, devices, reservations and traffic classes: tasks have the     *)
(* services of their own node and the VNIs of the enclosing system job.    *)
(***************************************************************************)
EXTENDS ShellEnv, EventlogProofs, SequenceTheorems, TLAPS

(* The VNIs of the enclosing system job. *)
Own == IF vnis = <<>> THEN Unset ELSE vnis[1]

IsEnv(e) ==
  e = [VNIS |-> e.VNIS, DEVICES |-> e.DEVICES, SVC_IDS |-> e.SVC_IDS, TCS |-> e.TCS,
       dws |-> e.dws]

Blank(e) == e.VNIS = Unset /\ e.DEVICES = Unset /\ e.SVC_IDS = Unset

(* What LocalServices says of an environment on node n. *)
Local(n, e) ==
  /\ e.DEVICES \in {Unset, Nics[n]}
  /\ \A i \in DOMAIN e.SVC_IDS :
       /\ e.SVC_IDS[i] \in {NoService, ServiceId(n, i)}
       /\ e.SVC_IDS[i] # NoService => e.TCS[1] \subseteq svc[n][i][1]

Reserves == vnis = <<>> \/ \E r \in Reservations : vnis = <<r>>

(* The brokers of an instance all of whose enclosing jobs had the plugin on *)
(* have the variables of their own node and the same VNIs.                  *)
InstInv ==
  /\ inst = [depth |-> inst.depth, getenv |-> inst.getenv, env |-> inst.env,
             on |-> inst.on, whole |-> inst.whole]
  /\ inst.depth \in Nat /\ inst.getenv \in {"ok", "EPERM", "ENOSYS"}
  /\ inst.on \in BOOLEAN /\ inst.whole \in BOOLEAN
  /\ inst.whole => inst.on /\ (inst.depth > 0 => inst.getenv = "ok")
  /\ DOMAIN inst.env \subseteq Nodes
  /\ \A n \in DOMAIN inst.env :
       /\ IsEnv(inst.env[n])
       /\ inst.depth = 0 => Blank(inst.env[n])
       /\ inst.on => /\ Local(n, inst.env[n])
                     /\ inst.env[n].VNIS \in {Unset, Own}
                     /\ \A m \in DOMAIN inst.env : inst.env[n].VNIS = inst.env[m].VNIS
       /\ inst.whole /\ inst.depth > 0 => inst.env[n].VNIS = Own

(* The VNIs that the shell on node n gives its tasks. *)
TaskVnis(n) ==
  IF inst.getenv = "ok" /\ inst.env[n].VNIS # Unset THEN inst.env[n].VNIS
  ELSE IF inst.depth = 0 THEN Own ELSE Unset

ShellOK(n) ==
  /\ shell[n] = [stage |-> shell[n].stage, env |-> shell[n].env]
  /\ IsEnv(shell[n].env)
  /\ Stage(n) = "init" => /\ job.opt # "invalid"
                          /\ job.opt = "default" => Blank(shell[n].env)
  /\ Stage(n) \in {"init", "ready"} /\ job.dw => shell[n].env.dws = <<"workflow">>
  /\ Stage(n) = "ready" /\ inst.on /\ job.opt = "default" =>
       Local(n, shell[n].env) /\ shell[n].env.VNIS = TaskVnis(n)

LogEntries ==
  {EventStart, EventException(0), EventException(1), EventWith("dws_environment", "workflow")}
    \cup {EventWith("cray-slingshot", r) : r \in Reservations \cup {<<>>}}

(* The answers that the job's shells find in its log. *)
JobInv ==
  /\ job = [nodes |-> job.nodes, opt |-> job.opt, dw |-> job.dw, env |-> job.env,
            log |-> job.log]
  /\ job.opt \in {"default", "off", "invalid"} /\ job.dw \in BOOLEAN
  /\ IsEnv(job.env)
  /\ job.log \in Seq(LogEntries)
  /\ job.nodes \subseteq DOMAIN inst.env
  /\ job.opt # "off" =>
       Finds(job.log, "cray-slingshot", IF inst.depth = 0 THEN vnis ELSE <<>>)
  /\ \/ Finds(job.log, "dws_environment", <<>>)
     \/ Finds(job.log, "dws_environment", <<"workflow">>)
  /\ shell = [n \in job.nodes |-> shell[n]]
  /\ \A n \in job.nodes : ShellOK(n)

EnvInv == Reserves /\ InstInv /\ (Running => JobInv)

---------------------------------------------------------------------------
(* The operators of the plugins. *)

LEMMA ParseOutcome ==
  ASSUME NEW o
  PROVE  /\ o = "default" => /\ cray_slingshot_parse_args(o) # <<>>
                             /\ cray_slingshot_parse_args(o)[1].off = FALSE
         /\ o = "off" => /\ cray_slingshot_parse_args(o) # <<>>
                         /\ cray_slingshot_parse_args(o)[1].off = TRUE
         /\ o = "invalid" => cray_slingshot_parse_args(o) = <<>>
<1>1. CASE o = "default"
  <2>1. cray_slingshot_parse_args(o) = <<[off |-> FALSE]>>
    BY <1>1 DEF cray_slingshot_parse_args
  <2>2. cray_slingshot_parse_args(o) # <<>> /\ cray_slingshot_parse_args(o)[1] = [off |-> FALSE]
    BY <2>1
  <2> QED BY <1>1, <2>2
<1>2. CASE o = "off"
  <2>1. cray_slingshot_parse_args(o) = <<[off |-> TRUE]>>
    BY <1>2 DEF cray_slingshot_parse_args
  <2>2. cray_slingshot_parse_args(o) # <<>> /\ cray_slingshot_parse_args(o)[1] = [off |-> TRUE]
    BY <2>1
  <2> QED BY <1>2, <2>2
<1>3. CASE o = "invalid"
  BY <1>3 DEF cray_slingshot_parse_args
<1> QED BY <1>1, <1>2, <1>3

(* An environment with other Workflow variables. *)
LEMMA WithDws ==
  ASSUME NEW e, IsEnv(e), NEW x
  PROVE  LET f == [e EXCEPT !.dws = x]
         IN  /\ IsEnv(f) /\ f.VNIS = e.VNIS /\ f.DEVICES = e.DEVICES
             /\ f.SVC_IDS = e.SVC_IDS /\ f.TCS = e.TCS /\ f.dws = x
<1> DEFINE v == e.VNIS
           d == e.DEVICES
           s == e.SVC_IDS
           t == e.TCS
           w == e.dws
<1>1. e = [VNIS |-> v, DEVICES |-> d, SVC_IDS |-> s, TCS |-> t, dws |-> w]
  BY DEF IsEnv
<1> HIDE DEF v, d, s, t, w
<1>2. [e EXCEPT !.dws = x] = [VNIS |-> v, DEVICES |-> d, SVC_IDS |-> s, TCS |-> t, dws |-> x]
  BY <1>1
<1> QED BY <1>2 DEF IsEnv, v, d, s, t

LEMMA UnsetOutcome ==
  ASSUME NEW e, IsEnv(e)
  PROVE  LET f == UnsetSlingshot(e)
         IN  IsEnv(f) /\ Blank(f) /\ f.dws = e.dws
<1> DEFINE v == e.VNIS
           d == e.DEVICES
           s == e.SVC_IDS
           t == e.TCS
           w == e.dws
<1>1. e = [VNIS |-> v, DEVICES |-> d, SVC_IDS |-> s, TCS |-> t, dws |-> w]
  BY DEF IsEnv
<1> HIDE DEF v, d, s, t, w
<1>2. UnsetSlingshot(e) = [VNIS |-> Unset, DEVICES |-> Unset, SVC_IDS |-> Unset,
                           TCS |-> Unset, dws |-> w]
  <2>1. [e EXCEPT !.VNIS = Unset] =
          [VNIS |-> Unset, DEVICES |-> d, SVC_IDS |-> s, TCS |-> t, dws |-> w]
    BY <1>1
  <2>2. [[VNIS |-> Unset, DEVICES |-> d, SVC_IDS |-> s, TCS |-> t, dws |-> w]
           EXCEPT !.DEVICES = Unset] =
          [VNIS |-> Unset, DEVICES |-> Unset, SVC_IDS |-> s, TCS |-> t, dws |-> w]
    OBVIOUS
  <2>3. [[VNIS |-> Unset, DEVICES |-> Unset, SVC_IDS |-> s, TCS |-> t, dws |-> w]
           EXCEPT !.SVC_IDS = Unset] =
          [VNIS |-> Unset, DEVICES |-> Unset, SVC_IDS |-> Unset, TCS |-> t, dws |-> w]
    OBVIOUS
  <2>4. [[VNIS |-> Unset, DEVICES |-> Unset, SVC_IDS |-> Unset, TCS |-> t, dws |-> w]
           EXCEPT !.TCS = Unset] =
          [VNIS |-> Unset, DEVICES |-> Unset, SVC_IDS |-> Unset, TCS |-> Unset, dws |-> w]
    OBVIOUS
  <2>5. UnsetSlingshot(e) =
          [[[[e EXCEPT !.VNIS = Unset] EXCEPT !.DEVICES = Unset]
              EXCEPT !.SVC_IDS = Unset] EXCEPT !.TCS = Unset]
    BY <1>1 DEF UnsetSlingshot
  <2> QED BY <2>1, <2>2, <2>3, <2>4, <2>5, Zenon
<1> QED BY <1>2 DEF IsEnv, Blank, w

LEMMA BlankIsLocal ==
  ASSUME NEW n, NEW e, Blank(e)
  PROVE  Local(n, e)
BY DEF Blank, Local, Unset

(* What the three results look like. *)
LEMMA Results ==
  /\ Nonfatal # Fatal
  /\ \A e : <<e>> # Nonfatal /\ <<e>> # Fatal /\ <<e>>[1] = e
BY DEF Nonfatal, Fatal

(* add_devices(): the services found are this node's, and a class in the    *)
(* mask is in all of them.                                                  *)
LEMMA ReservedOutcome ==
  ASSUME NEW n, NEW env, NEW reserved
  PROVE  LET e == ReservedEnv(n, env, reserved)
         IN  IsEnv(e) /\ Local(n, e) /\ e.VNIS = reserved /\ e.dws = env.dws
<1> DEFINE match == [i \in DOMAIN Nics[n] |-> append_cxi_service_match(n, i, reserved)]
           ids == [i \in DOMAIN Nics[n] |-> match[i].id]
           classes == {c \in DefaultClasses : \A i \in DOMAIN match : c \in match[i].mask}
           e == [VNIS |-> reserved, DEVICES |-> Nics[n], SVC_IDS |-> ids,
                 TCS |-> <<classes>>, dws |-> env.dws]
<1>1. \A list : setenv_json_array(list) = list
  BY DEF setenv_json_array, Unset
<1>2. ReservedEnv(n, env, reserved) = e
  BY <1>1 DEF ReservedEnv
<1>3. ASSUME NEW i \in DOMAIN Nics[n]
      PROVE  /\ ids[i] \in {NoService, ServiceId(n, i)}
             /\ ids[i] # NoService => classes \subseteq svc[n][i][1]
  <2>1. ids[i] = append_cxi_service_match(n, i, reserved).id
    OBVIOUS
  <2>2. CASE reserved = <<>> \/ svc[n][i] = <<>>
    BY <2>1, <2>2 DEF append_cxi_service_match
  <2>3. CASE ~(reserved = <<>> \/ svc[n][i] = <<>>)
    <3>1. append_cxi_service_match(n, i, reserved) =
            [id |-> ServiceId(n, i), mask |-> tcmask_from_desc(svc[n][i][1])]
      BY <2>3 DEF append_cxi_service_match
    <3>2. i \in DOMAIN match /\ match[i].mask = svc[n][i][1] \cap DefaultClasses
      BY <3>1 DEF tcmask_from_desc
    <3>3. ids[i] = ServiceId(n, i)
      BY <2>1, <3>1
    <3> HIDE DEF match
    <3> QED BY <3>2, <3>3
  <2> QED BY <2>2, <2>3
<1>4. DOMAIN ids = DOMAIN Nics[n]
  OBVIOUS
<1> HIDE DEF ids, classes
<1>5. /\ e.VNIS = reserved /\ e.DEVICES = Nics[n] /\ e.SVC_IDS = ids
      /\ e.TCS = <<classes>> /\ e.dws = env.dws
  OBVIOUS
<1>6. IsEnv(e)
  BY <1>5 DEF IsEnv
<1> HIDE DEF e
<1>7. e.TCS[1] = classes
  BY <1>5
<1>8. Local(n, e)
  BY <1>3, <1>4, <1>5, <1>7 DEF Local
<1> QED BY <1>2, <1>5, <1>6, <1>8

(* dws_environment_init() fails or leaves the Workflow's variables in the   *)
(* environment of a job with #DW directives.                                *)
LEMMA DwsOutcome ==
  ASSUME JobInv, NEW env, IsEnv(env), job.dw => ~Waits(job.log, "dws_environment")
  PROVE  \/ dws_environment_init(env) = Fatal
         \/ \E e : /\ dws_environment_init(env) = <<e>>
                   /\ IsEnv(e) /\ (Blank(env) => Blank(e))
                   /\ job.dw => e.dws = <<"workflow">>
<1>1. CASE ~job.dw
  BY <1>1 DEF dws_environment_init
<1>2. CASE job.dw
  <2> DEFINE context == eventlog_wait_for(job.log, "dws_environment")
  <2>1. context = <<>> \/ context = <<"workflow">>
    <3>1. job.log \in Seq(LogEntries) /\ ~Waits(job.log, "dws_environment")
      BY <1>2 DEF JobInv
    <3>2. CASE Finds(job.log, "dws_environment", <<>>)
      BY <3>1, <3>2, WaitFinds
    <3>3. CASE Finds(job.log, "dws_environment", <<"workflow">>)
      <4> DEFINE found == <<"workflow">>
      <4>1. found # <<>> /\ found[1] = "workflow"
        OBVIOUS
      <4> HIDE DEF found
      <4>2. Finds(job.log, "dws_environment", found)
        BY <3>3 DEF found
      <4>3. context = IF found = <<>> THEN <<>> ELSE <<found[1]>>
        BY <3>1, <4>2, WaitFinds
      <4> QED BY <4>1, <4>3
    <3> QED BY <3>2, <3>3 DEF JobInv
  <2>2. dws_environment_init(env) =
          IF context = <<>> THEN Fatal ELSE <<[env EXCEPT !.dws = context]>>
    BY <1>2 DEF dws_environment_init, dws_read_future
  <2> HIDE DEF context
  <2>3. CASE context = <<>>
    BY <2>2, <2>3
  <2>4. CASE context = <<"workflow">>
    <3> DEFINE e == [env EXCEPT !.dws = context]
    <3>1. /\ IsEnv(e) /\ e.VNIS = env.VNIS /\ e.DEVICES = env.DEVICES
          /\ e.SVC_IDS = env.SVC_IDS /\ e.dws = context
      BY WithDws
    <3>2. context # <<>>
      BY <2>4
    <3>3. dws_environment_init(env) = <<e>>
      BY <2>2, <3>2
    <3> HIDE DEF e
    <3> QED BY <2>4, <3>1, <3>3 DEF Blank
  <2> QED BY <2>1, <2>3, <2>4
<1> QED BY <1>1, <1>2

(* A shell with a blank environment inherits what the local broker has.     *)
LEMMA InheritOutcome ==
  ASSUME InstInv, NEW n \in DOMAIN inst.env, NEW env, NEW result \in {inst.getenv, "ETIMEDOUT"}
  PROVE  LET b == inst.env[n]
             got == cray_slingshot_inherit(n, env, result)
         IN  \/ got = Fatal /\ result # inst.getenv
             \/ /\ result = inst.getenv /\ got = Nonfatal
                /\ inst.getenv # "ok" \/ b.VNIS = Unset
             \/ /\ result = inst.getenv /\ inst.getenv = "ok" /\ b.VNIS # Unset
                /\ got = <<[b EXCEPT !.dws = env.dws]>>
<1>1. inst.getenv \in {"ok", "EPERM", "ENOSYS"}
  BY DEF InstInv
<1>2. CASE result # inst.getenv
  BY <1>1, <1>2 DEF cray_slingshot_inherit, GetenvFails
<1>3. CASE result = inst.getenv /\ result # "ok"
  BY <1>1, <1>3 DEF cray_slingshot_inherit, GetenvFails
<1>4. CASE result = inst.getenv /\ result = "ok"
  BY <1>4 DEF cray_slingshot_inherit, LocalBroker
<1> QED BY <1>2, <1>3, <1>4

(* ... or takes what the reservation in the log says. *)
LEMMA ReservationOutcome ==
  ASSUME Reserves, InstInv, JobInv, job.opt = "default", NEW n, NEW env, IsEnv(env), Blank(env),
         ~Waits(job.log, "cray-slingshot")
  PROVE  LET res == cray_slingshot_reserved(n, env)
             vni == IF inst.depth = 0 THEN Own ELSE Unset
         IN  \/ res = Nonfatal /\ vni = Unset
             \/ \E e : /\ res = <<e>> /\ IsEnv(e) /\ Local(n, e)
                       /\ e.VNIS = vni /\ e.dws = env.dws
<1> DEFINE found == IF inst.depth = 0 THEN vnis ELSE <<>>
           vni == IF inst.depth = 0 THEN Own ELSE Unset
           context == eventlog_wait_for(job.log, "cray-slingshot")
<1>1. Finds(job.log, "cray-slingshot", found) /\ job.log \in Seq(LogEntries)
  BY DEF JobInv
<1>2. (found = <<>> /\ vni = Unset) \/ (found # <<>> /\ found[1] = vni)
  BY DEF Own
<1> HIDE DEF found, vni
<1>3. context = IF found = <<>> THEN <<>> ELSE <<found[1]>>
  BY <1>1, WaitFinds
<1> HIDE DEF context
<1>4. cray_slingshot_reserved(n, env) =
        IF context = <<>> THEN Nonfatal ELSE <<ReservedEnv(n, env, context[1])>>
  BY DEF cray_slingshot_reserved, context
<1>5. CASE found = <<>>
  <2>1. vni = Unset /\ context = <<>>
    BY <1>2, <1>3, <1>5
  <2>2. cray_slingshot_reserved(n, env) = Nonfatal
    BY <1>4, <2>1
  <2> QED BY <2>1, <2>2 DEF vni
<1>6. CASE found # <<>>
  <2>1. context # <<>> /\ context[1] = vni
    BY <1>2, <1>3, <1>6
  <2> DEFINE e == ReservedEnv(n, env, vni)
  <2>2. cray_slingshot_reserved(n, env) = <<e>>
    BY <1>4, <2>1
  <2>3. IsEnv(e) /\ Local(n, e) /\ e.VNIS = vni /\ e.dws = env.dws
    BY ReservedOutcome
  <2> HIDE DEF e
  <2> QED BY <2>2, <2>3 DEF vni
<1> QED BY <1>5, <1>6

(* shell_post_init_cb() fails or sets the node's own services and the VNIs  *)
(* of the job.                                                              *)
LEMMA PostInitOutcome ==
  ASSUME Reserves, InstInv, JobInv, job.opt = "default",
         NEW n \in DOMAIN inst.env, NEW env, IsEnv(env), Blank(env),
         NEW result \in {inst.getenv, "ETIMEDOUT"},
         cray_slingshot_inherit(n, env, result) = Nonfatal => ~Waits(job.log, "cray-slingshot")
  PROVE  LET res == shell_post_init_cb(n, env, result)
         IN  \/ res = Fatal
             \/ \E e : /\ res = <<e>> /\ IsEnv(e) /\ e.dws = env.dws
                       /\ inst.on => Local(n, e) /\ e.VNIS = TaskVnis(n)
<1> DEFINE b == inst.env[n]
           got == cray_slingshot_inherit(n, env, result)
           reserved == cray_slingshot_reserved(n, env)
           vni == IF inst.depth = 0 THEN Own ELSE Unset
<1>1. shell_post_init_cb(n, env, result) =
        IF got # Nonfatal THEN got ELSE IF reserved # Nonfatal THEN reserved ELSE <<env>>
  BY DEF shell_post_init_cb
<1>2. \/ got = Fatal /\ result # inst.getenv
      \/ got = Nonfatal /\ (inst.getenv # "ok" \/ b.VNIS = Unset)
      \/ inst.getenv = "ok" /\ b.VNIS # Unset /\ got = <<[b EXCEPT !.dws = env.dws]>>
  BY InheritOutcome
<1>3. CASE got = Fatal
  BY <1>1, <1>3, Results
<1>4. CASE got = Nonfatal /\ (inst.getenv # "ok" \/ b.VNIS = Unset)
  <2>1. TaskVnis(n) = vni
    BY <1>4 DEF TaskVnis
  <2>2. \/ reserved = Nonfatal /\ vni = Unset
        \/ \E e : /\ reserved = <<e>> /\ IsEnv(e) /\ Local(n, e)
                  /\ e.VNIS = vni /\ e.dws = env.dws
    BY <1>4, ReservationOutcome
  <2> HIDE DEF vni, got, reserved
  <2>3. CASE reserved = Nonfatal /\ vni = Unset
    <3>1. shell_post_init_cb(n, env, result) = <<env>>
      BY <1>1, <1>4, <2>3
    <3>2. Local(n, env) /\ env.VNIS = Unset
      BY BlankIsLocal DEF Blank
    <3> QED BY <2>1, <2>3, <3>1, <3>2
  <2>4. ASSUME NEW e, reserved = <<e>> /\ IsEnv(e) /\ Local(n, e)
                      /\ e.VNIS = vni /\ e.dws = env.dws
        PROVE  shell_post_init_cb(n, env, result) = <<e>>
    BY <1>1, <1>4, <2>4, Results
  <2> QED BY <2>1, <2>2, <2>3, <2>4
<1>5. CASE inst.getenv = "ok" /\ b.VNIS # Unset /\ got = <<[b EXCEPT !.dws = env.dws]>>
  <2> DEFINE e == [b EXCEPT !.dws = env.dws]
  <2>1. IsEnv(b) /\ (inst.on => Local(n, b))
    BY DEF InstInv
  <2>2. /\ IsEnv(e) /\ e.VNIS = b.VNIS /\ e.DEVICES = b.DEVICES
        /\ e.SVC_IDS = b.SVC_IDS /\ e.TCS = b.TCS /\ e.dws = env.dws
    BY <2>1, WithDws
  <2>3. shell_post_init_cb(n, env, result) = <<e>>
    BY <1>1, <1>5, Results
  <2>4. TaskVnis(n) = b.VNIS
    BY <1>5 DEF TaskVnis
  <2> HIDE DEF e
  <2>5. inst.on => Local(n, e) /\ e.VNIS = TaskVnis(n)
    BY <2>1, <2>2, <2>4 DEF Local
  <2> QED BY <2>2, <2>3, <2>5
<1> QED BY <1>2, <1>3, <1>4, <1>5

(* The VNIs of the tasks do not depend on the node. *)
LEMMA TaskVnisAgree ==
  ASSUME InstInv, inst.on, NEW n \in DOMAIN inst.env
  PROVE  /\ TaskVnis(n) \in {Unset, Own}
         /\ \A m \in DOMAIN inst.env : TaskVnis(n) = TaskVnis(m)
         /\ inst.whole => TaskVnis(n) = Own
<1>1. /\ inst.env[n].VNIS \in {Unset, Own}
      /\ \A m \in DOMAIN inst.env : inst.env[n].VNIS = inst.env[m].VNIS
      /\ inst.depth \in Nat
      /\ inst.depth = 0 => inst.env[n].VNIS = Unset
      /\ inst.whole /\ inst.depth > 0 => inst.env[n].VNIS = Own /\ inst.getenv = "ok"
  BY DEF InstInv, Blank
<1>2. CASE inst.depth = 0
  BY <1>1, <1>2 DEF TaskVnis
<1>3. CASE inst.depth > 0
  BY <1>1, <1>3 DEF TaskVnis
<1> QED BY <1>1, <1>2, <1>3

---------------------------------------------------------------------------
(* The steps. *)

LEMMA InitInv ==
  ASSUME Init
  PROVE  EnvInv
<1>1. Reserves
  BY DEF Init, Reserves
<1>2. InstInv
  <2>1. PICK answer \in {"ok", "EPERM"} :
          inst = [depth |-> 0, getenv |-> answer, env |-> [n \in Nodes |-> Clean],
                  on |-> TRUE, whole |-> TRUE]
    BY DEF Init
  <2>2. /\ inst.depth = 0 /\ inst.getenv = answer /\ inst.on = TRUE /\ inst.whole = TRUE
        /\ inst.env = [n \in Nodes |-> Clean]
        /\ inst = [depth |-> inst.depth, getenv |-> inst.getenv, env |-> inst.env,
                   on |-> inst.on, whole |-> inst.whole]
    BY <2>1
  <2>3. DOMAIN inst.env = Nodes /\ \A n \in Nodes : inst.env[n] = Clean
    BY <2>2
  <2>4. IsEnv(Clean) /\ Blank(Clean) /\ Clean.VNIS = Unset
    BY DEF IsEnv, Blank, Clean
  <2>5. \A n : Local(n, Clean)
    BY <2>4, BlankIsLocal
  <2>6. inst.on \in BOOLEAN /\ inst.whole \in BOOLEAN
    BY <2>2, Zenon
  <2>7. inst.depth \in Nat /\ ~(inst.depth > 0) /\ inst.getenv \in {"ok", "EPERM", "ENOSYS"}
    BY <2>2
  <2>8. ASSUME NEW n \in DOMAIN inst.env
        PROVE  /\ IsEnv(inst.env[n]) /\ Blank(inst.env[n]) /\ Local(n, inst.env[n])
               /\ inst.env[n].VNIS \in {Unset, Own}
               /\ \A m \in DOMAIN inst.env : inst.env[n].VNIS = inst.env[m].VNIS
    BY <2>3, <2>4, <2>5, Zenon
  <2>9. inst.whole => inst.on
    BY <2>2, Zenon
  <2>10. inst = [depth |-> inst.depth, getenv |-> inst.getenv, env |-> inst.env,
                 on |-> inst.on, whole |-> inst.whole]
    BY <2>2, Zenon
  <2>11. DOMAIN inst.env \subseteq Nodes
    BY <2>3
  <2> QED BY <2>6, <2>7, <2>8, <2>9, <2>10, <2>11, Zenon DEF InstInv
<1>3. ~Running
  BY DEF Init, Running
<1> QED BY <1>1, <1>2, <1>3 DEF EnvInv

LEMMA InstFrame ==
  ASSUME Reserves, InstInv, UNCHANGED <<svc, vnis, inst>>
  PROVE  Reserves' /\ InstInv'
BY DEF Reserves, InstInv, IsEnv, Blank, Local, Own

LEMMA ShellFrame ==
  ASSUME NEW n, ShellOK(n), UNCHANGED <<svc, vnis, inst>>,
         shell'[n] = shell[n], job'.opt = job.opt, job'.dw = job.dw
  PROVE  ShellOK(n)'
BY DEF ShellOK, Stage, IsEnv, Blank, Local, TaskVnis, Own

(* The log of a job at its start, put together from three parts. *)
LEMMA ConcatEntry ==
  ASSUME NEW S, NEW s \in Seq(S), NEW e \in S
  PROVE  s \o <<>> = s /\ s \o <<e>> = Append(s, e)
OBVIOUS

LEMMA StartLog ==
  ASSUME Reserves, InstInv,
         NEW opt, NEW dws \in BOOLEAN, NEW warned \in BOOLEAN
  PROVE  LET log == (IF warned THEN <<EventException(1)>> ELSE <<>>)
                    \o EventsBeforeStart(opt, dws)
         IN  /\ log \in Seq(LogEntries)
             /\ opt # "off" =>
                  Finds(log, "cray-slingshot", IF inst.depth = 0 THEN vnis ELSE <<>>)
             /\ \/ Finds(log, "dws_environment", <<>>)
                \/ Finds(log, "dws_environment", <<"workflow">>)
<1> DEFINE A == IF warned THEN <<EventException(1)>> ELSE <<>>
           told == IF opt = "off" THEN <<>> ELSE vnis[1]
           B == IF vnis = <<>> THEN <<>> ELSE <<EventWith("cray-slingshot", told)>>
           C == IF dws THEN <<EventWith("dws_environment", "workflow")>> ELSE <<>>
           AB == A \o B
           log == A \o EventsBeforeStart(opt, dws)
           e == EventWith("cray-slingshot", told)
           w == EventWith("dws_environment", "workflow")
<1>1. /\ EventException(1) \in LogEntries /\ w \in LogEntries
      /\ vnis # <<>> => e \in LogEntries /\ vnis = <<vnis[1]>>
  BY DEF LogEntries, Reserves
<1>2. A \in Seq(LogEntries) /\ B \in Seq(LogEntries) /\ C \in Seq(LogEntries)
  BY <1>1
<1>3. \A i \in DOMAIN A : A[i] = EventException(1)
  OBVIOUS
<1>4. \A name : name # "exception" =>
        /\ \A i \in DOMAIN A : ~Stops(A[i], name)
        /\ Finds(A, name, <<>>)
  <2> HIDE DEF A
  <2> QED BY <1>3, EntryNames DEF Stops, Finds
<1>5. B = IF vnis = <<>> THEN <<>> ELSE <<e>>
  OBVIOUS
<1>6. C = IF dws THEN <<w>> ELSE <<>>
  OBVIOUS
<1>7. EventsBeforeStart(opt, dws) = IF inst.depth > 0 THEN <<>> ELSE B \o C
  BY DEF EventsBeforeStart
<1>8. "cray-slingshot" # "exception" /\ "dws_environment" # "exception"
      /\ "cray-slingshot" # "dws_environment" /\ "cray-slingshot" # "start"
      /\ "dws_environment" # "start"
  OBVIOUS
<1>9. inst.depth \in Nat
  BY DEF InstInv
<1>10. /\ e.name = "cray-slingshot" /\ ~Surpasses(e)
       /\ w.name = "dws_environment" /\ ~Surpasses(w)
  BY <1>8, EntryNames
<1> HIDE DEF A, B, C, told
<1>11. CASE inst.depth > 0
  <2>1. log = A
    BY <1>2, <1>7, <1>11
  <2>2. inst.depth # 0
    BY <1>9, <1>11
  <2> HIDE DEF log
  <2>3. /\ log \in Seq(LogEntries)
        /\ Finds(log, "cray-slingshot", <<>>) /\ Finds(log, "dws_environment", <<>>)
    BY <1>2, <1>4, <1>8, <2>1
  <2> QED BY <2>2, <2>3 DEF log, A
<1>12. CASE inst.depth = 0
  <2>1. log = AB \o C
    <3>1. log = A \o (B \o C)
      BY <1>7, <1>9, <1>12
    <3> QED BY <1>2, <3>1, ConcatAssociative
  <2>2. /\ AB \in Seq(LogEntries)
        /\ opt # "off" => Finds(AB, "cray-slingshot", vnis)
        /\ \A i \in DOMAIN AB : ~Stops(AB[i], "dws_environment")
    <3>1. CASE vnis = <<>>
      <4>1. AB = A
        BY <1>2, <1>5, <3>1
      <4> QED BY <1>2, <1>4, <1>8, <3>1, <4>1
    <3>2. CASE vnis # <<>>
      <4>1. B = <<e>> /\ e \in LogEntries /\ vnis = <<vnis[1]>>
        BY <1>1, <1>5, <3>2
      <4> HIDE DEF e
      <4>2. AB = Append(A, e)
        BY <1>2, <4>1, ConcatEntry
      <4>3. AB \in Seq(LogEntries)
        BY <1>2, <4>1, <4>2, LogAppend
      <4>4. opt # "off" => Finds(AB, "cray-slingshot", vnis)
        <5> SUFFICES ASSUME opt # "off" PROVE Finds(AB, "cray-slingshot", vnis)
          OBVIOUS
        <5>1. e = EventWith("cray-slingshot", vnis[1])
          BY DEF e, told
        <5>2. \A i \in DOMAIN A : ~Stops(A[i], "cray-slingshot")
          BY <1>4, <1>8
        <5>3. Finds(Append(A, e), "cray-slingshot", <<vnis[1]>>)
          BY <1>2, <4>1, <5>1, <5>2, FindsNew
        <5> QED BY <4>1, <4>2, <5>3
      <4>5. \A i \in DOMAIN AB : (i \in DOMAIN A /\ AB[i] = A[i]) \/ AB[i] = e
        BY <1>2, <4>1, <4>2, LogAppend
      <4>6. ~Stops(e, "dws_environment")
        BY <1>8, <1>10 DEF Stops, e
      <4> HIDE DEF AB
      <4>7. \A i \in DOMAIN AB : ~Stops(AB[i], "dws_environment")
        BY <1>4, <1>8, <4>5, <4>6
      <4> QED BY <4>3, <4>4, <4>7
    <3> QED BY <3>1, <3>2
  <2> HIDE DEF AB
  <2>3. CASE dws
    <3>1. C = <<w>>
      BY <1>6, <2>3
    <3>2. log = Append(AB, w)
      BY <1>1, <2>1, <2>2, <3>1, ConcatEntry
    <3>3. Finds(log, "dws_environment", <<"workflow">>)
      BY <1>1, <2>2, <3>2, FindsNew
    <3>4. log \in Seq(LogEntries)
      BY <1>1, <2>2, <3>2, LogAppend
    <3>5. opt # "off" => Finds(log, "cray-slingshot", vnis)
      BY <1>1, <1>8, <1>10, <2>2, <3>2, FindsStill
    <3> QED BY <1>12, <3>3, <3>4, <3>5 DEF A
  <2>4. CASE ~dws
    <3>1. log = AB
      BY <1>6, <2>1, <2>2, <2>4
    <3>2. Finds(AB, "dws_environment", <<>>)
      BY <2>2 DEF Finds, Stops
    <3> QED BY <1>12, <2>2, <3>1, <3>2 DEF A
  <2> QED BY <2>3, <2>4
<1> QED BY <1>9, <1>11, <1>12

LEMMA SubmitInv ==
  ASSUME EnvInv, Submit
  PROVE  EnvInv'
<1>1. Reserves /\ InstInv /\ UNCHANGED <<svc, vnis, inst>>
  BY DEF EnvInv, Submit
<1>2. Reserves' /\ InstInv'
  BY <1>1, InstFrame
<1>3. PICK nodes \in (SUBSET DOMAIN inst.env) \ {{}}, opt \in {"default", "off", "invalid"},
           dw, dws, warned \in BOOLEAN,
           env \in {inst.env[n] : n \in DOMAIN inst.env} \cup {Foreign} :
        /\ inst.depth = 0 => nodes = Nodes
        /\ inst.depth > 0 => ~dw
        /\ dws => dw
        /\ job' = [nodes |-> nodes, opt |-> opt, dw |-> dw, env |-> env,
                   log |-> (IF warned THEN <<EventException(1)>> ELSE <<>>)
                           \o EventsBeforeStart(opt, dws)]
        /\ shell' = [n \in nodes |-> [stage |-> "none", env |-> env]]
  BY Zenon DEF Submit
<1> DEFINE start == (IF warned THEN <<EventException(1)>> ELSE <<>>)
                    \o EventsBeforeStart(opt, dws)
<1>4. /\ start \in Seq(LogEntries)
      /\ opt # "off" =>
           Finds(start, "cray-slingshot", IF inst.depth = 0 THEN vnis ELSE <<>>)
      /\ \/ Finds(start, "dws_environment", <<>>)
         \/ Finds(start, "dws_environment", <<"workflow">>)
  BY <1>1, StartLog
<1>5. job' = [nodes |-> nodes, opt |-> opt, dw |-> dw, env |-> env, log |-> start]
  BY <1>3
<1> HIDE DEF start
<1>6. /\ job'.nodes = nodes /\ job'.opt = opt /\ job'.dw = dw /\ job'.env = env
      /\ job'.log = start
      /\ job' = [nodes |-> job'.nodes, opt |-> job'.opt, dw |-> job'.dw,
                 env |-> job'.env, log |-> job'.log]
  BY <1>5
<1>7. IsEnv(env)
  <2>1. IsEnv(Foreign)
    BY DEF IsEnv, Foreign
  <2> QED BY <1>1, <2>1 DEF InstInv
<1>8. ASSUME NEW n \in nodes PROVE ShellOK(n)'
  <2>1. shell'[n] = [stage |-> "none", env |-> env]
    BY <1>3
  <2>2. shell'[n].stage = "none" /\ shell'[n].env = env
        /\ shell'[n] = [stage |-> shell'[n].stage, env |-> shell'[n].env]
    BY <2>1
  <2>3. IsEnv(shell'[n].env)
    BY <1>7, <2>2
  <2>4. IsEnv(shell[n].env)'
    BY <2>3 DEF IsEnv
  <2> QED BY <2>2, <2>4 DEF ShellOK, Stage
<1>9. (shell = [n \in job.nodes |-> shell[n]])'
  BY <1>3, <1>6
<1>10. IsEnv(job.env)'
  BY <1>6, <1>7 DEF IsEnv
<1>11. JobInv'
  BY <1>1, <1>4, <1>6, <1>8, <1>9, <1>10 DEF JobInv
<1> QED BY <1>2, <1>11 DEF EnvInv

(* One shell changes. *)
LEMMA BecomeInv ==
  ASSUME EnvInv, Running, NEW n \in job.nodes, NEW stage, NEW env, Become(n, stage, env),
         UNCHANGED <<svc, vnis, inst, job>>, IsEnv(env),
         stage = "init" => job.opt # "invalid" /\ (job.opt = "default" => Blank(env)),
         stage \in {"init", "ready"} /\ job.dw => env.dws = <<"workflow">>,
         stage = "ready" /\ inst.on /\ job.opt = "default" =>
           Local(n, env) /\ env.VNIS = TaskVnis(n)
  PROVE  EnvInv'
<1>1. Reserves /\ InstInv /\ JobInv
  BY DEF EnvInv
<1>2. Reserves' /\ InstInv'
  BY <1>1, InstFrame
<1>3. shell = [m \in job.nodes |-> shell[m]] /\ \A m \in job.nodes : ShellOK(m)
  BY <1>1 DEF JobInv
<1>4. /\ DOMAIN shell = job.nodes
      /\ shell' = [shell EXCEPT ![n] = [stage |-> stage, env |-> env]]
  BY <1>3 DEF Become
<1>5. /\ shell' = [m \in job.nodes |-> shell'[m]]
      /\ shell'[n] = [stage |-> stage, env |-> env]
      /\ \A m \in job.nodes \ {n} : shell'[m] = shell[m]
  BY <1>4
<1>6. ASSUME NEW m \in job.nodes \ {n} PROVE ShellOK(m)'
  BY <1>3, <1>5, ShellFrame
<1>7. ShellOK(n)'
  <2>1. /\ shell'[n].stage = stage /\ shell'[n].env = env
        /\ shell'[n] = [stage |-> shell'[n].stage, env |-> shell'[n].env]
    BY <1>5
  <2>2. IsEnv(shell[n].env)'
    BY <2>1 DEF IsEnv
  <2>3. Blank(env) => Blank(shell[n].env)'
    BY <2>1 DEF Blank
  <2>4. Local(n, env) => Local(n, shell[n].env)'
    BY <2>1 DEF Local
  <2>5. TaskVnis(n)' = TaskVnis(n)
    BY DEF TaskVnis, Own
  <2> QED BY <2>1, <2>2, <2>3, <2>4, <2>5 DEF ShellOK, Stage
<1>8. JobInv'
  BY <1>1, <1>5, <1>6, <1>7 DEF JobInv, IsEnv
<1> QED BY <1>2, <1>8 DEF EnvInv

LEMMA ShellInitInv ==
  ASSUME EnvInv, NEW n \in job.nodes, ShellInit(n)
  PROVE  EnvInv'
<1> DEFINE opt == cray_slingshot_parse_args(job.opt)
           env == IF opt # <<>> /\ ~opt[1].off THEN UnsetSlingshot(job.env) ELSE job.env
           dws == dws_environment_init(env)
<1>1. /\ Running /\ UNCHANGED <<svc, vnis, inst, job>>
      /\ opt # <<>> /\ job.dw => ~Waits(job.log, "dws_environment")
      /\ IF opt = <<>> \/ dws = Fatal THEN Become(n, "failed", job.env)
                                      ELSE Become(n, "init", dws[1])
  BY DEF ShellInit
<1>2. JobInv /\ IsEnv(job.env) /\ job.opt \in {"default", "off", "invalid"}
  BY <1>1 DEF EnvInv, JobInv
<1>3. CASE opt = <<>> \/ dws = Fatal
  <2>1. Become(n, "failed", job.env)
    BY <1>1, <1>3
  <2> QED BY <1>1, <1>2, <2>1, BecomeInv
<1>4. CASE ~(opt = <<>> \/ dws = Fatal)
  <2>1. job.opt # "invalid"
    BY <1>4, ParseOutcome
  <2>2. IsEnv(env) /\ (job.opt = "default" => Blank(env))
    <3>1. CASE job.opt = "default"
      <4>1. env = UnsetSlingshot(job.env)
        BY <3>1, ParseOutcome
      <4> QED BY <1>2, <4>1, UnsetOutcome
    <3>2. CASE job.opt = "off"
      <4>1. env = job.env
        BY <3>2, ParseOutcome
      <4> QED BY <1>2, <3>2, <4>1
    <3> QED BY <1>2, <2>1, <3>1, <3>2
  <2>3. PICK e : /\ dws = <<e>>
                 /\ IsEnv(e) /\ (Blank(env) => Blank(e))
                 /\ job.dw => e.dws = <<"workflow">>
    <3> HIDE DEF opt, env
    <3> QED BY <1>1, <1>2, <1>4, <2>2, DwsOutcome
  <2>4. Become(n, "init", e)
    <3>1. Become(n, "init", dws[1])
      BY <1>1, <1>4
    <3> HIDE DEF dws
    <3> QED BY <2>3, <3>1, Results
  <2> HIDE DEF env, dws, opt
  <2> QED BY <1>1, <2>1, <2>2, <2>3, <2>4, BecomeInv
<1> QED BY <1>3, <1>4

LEMMA PostInitInv ==
  ASSUME EnvInv, NEW n \in job.nodes, PostInit(n)
  PROVE  EnvInv'
<1> DEFINE env == shell[n].env
<1>1. PICK result \in {inst.getenv, "ETIMEDOUT"} :
        LET res == IF job.opt = "off" THEN <<env>> ELSE shell_post_init_cb(n, env, result)
        IN  /\ job.opt # "off" /\ cray_slingshot_inherit(n, env, result) = Nonfatal
                 => ~Waits(job.log, "cray-slingshot")
            /\ IF res = Fatal THEN Become(n, "failed", env) ELSE Become(n, "ready", res[1])
  BY DEF PostInit
<1> DEFINE res == IF job.opt = "off" THEN <<env>> ELSE shell_post_init_cb(n, env, result)
<1>2. /\ Running /\ Stage(n) = "init" /\ UNCHANGED <<svc, vnis, inst, job>>
  BY DEF PostInit
<1>3. Reserves /\ InstInv /\ JobInv /\ ShellOK(n) /\ n \in DOMAIN inst.env
      /\ job.opt \in {"default", "off", "invalid"}
  BY <1>2 DEF EnvInv, JobInv
<1>4. /\ IsEnv(env) /\ job.opt # "invalid" /\ (job.opt = "default" => Blank(env))
      /\ job.dw => env.dws = <<"workflow">>
  BY <1>2, <1>3 DEF ShellOK
<1>5. \/ res = Fatal
      \/ \E e : /\ res = <<e>> /\ IsEnv(e) /\ e.dws = env.dws
                /\ inst.on /\ job.opt = "default" => Local(n, e) /\ e.VNIS = TaskVnis(n)
  <2>1. CASE job.opt = "off"
    BY <1>4, <2>1
  <2>2. CASE job.opt = "default"
    <3>1. res = shell_post_init_cb(n, env, result)
      BY <2>2
    <3>2. cray_slingshot_inherit(n, env, result) = Nonfatal => ~Waits(job.log, "cray-slingshot")
      BY <1>1, <2>2
    <3> HIDE DEF env, res
    <3> QED BY <1>3, <1>4, <2>2, <3>1, <3>2, PostInitOutcome
  <2> QED BY <1>3, <1>4, <2>1, <2>2
<1>6. IF res = Fatal THEN Become(n, "failed", env) ELSE Become(n, "ready", res[1])
  BY <1>1
<1> HIDE DEF env, res
<1>7. CASE res = Fatal
  <2>1. Become(n, "failed", env)
    BY <1>6, <1>7
  <2> QED BY <1>2, <1>4, <2>1, BecomeInv
<1>8. ASSUME NEW e, res = <<e>>, IsEnv(e), e.dws = env.dws,
             inst.on /\ job.opt = "default" => Local(n, e) /\ e.VNIS = TaskVnis(n)
      PROVE  EnvInv'
  <2>1. Become(n, "ready", e)
    BY <1>6, <1>8, Results
  <2> QED BY <1>2, <1>4, <1>8, <2>1, BecomeInv
<1> QED BY <1>5, <1>7, <1>8

LEMMA AddDevicesFailsInv ==
  ASSUME EnvInv, NEW n \in job.nodes, AddDevicesFails(n)
  PROVE  EnvInv'
<1>1. /\ Running /\ UNCHANGED <<svc, vnis, inst, job>>
      /\ Become(n, "failed", shell[n].env)
  BY DEF AddDevicesFails
<1>2. IsEnv(shell[n].env)
  BY <1>1 DEF EnvInv, JobInv, ShellOK
<1> QED BY <1>1, <1>2, BecomeInv

LEMMA EntryInv ==
  ASSUME EnvInv, Running, NEW e \in {EventStart, EventException(0)},
         job' = [job EXCEPT !.log = Append(job.log, e)],
         UNCHANGED <<svc, vnis, inst, shell>>
  PROVE  EnvInv'
<1>1. Reserves /\ InstInv /\ JobInv
  BY DEF EnvInv
<1>2. Reserves' /\ InstInv'
  BY <1>1, InstFrame
<1>3. job = [nodes |-> job.nodes, opt |-> job.opt, dw |-> job.dw, env |-> job.env,
             log |-> job.log]
  BY <1>1 DEF JobInv
<1>4. job' = [nodes |-> job.nodes, opt |-> job.opt, dw |-> job.dw, env |-> job.env,
              log |-> Append(job.log, e)]
  BY <1>3
<1>5. /\ job'.nodes = job.nodes /\ job'.opt = job.opt /\ job'.dw = job.dw
      /\ job'.env = job.env /\ job'.log = Append(job.log, e)
      /\ job' = [nodes |-> job'.nodes, opt |-> job'.opt, dw |-> job'.dw,
                 env |-> job'.env, log |-> job'.log]
  BY <1>4
<1>6. e \in LogEntries /\ e.name # "cray-slingshot" /\ e.name # "dws_environment"
  BY EntryNames DEF LogEntries
<1>7. job.log \in Seq(LogEntries)
  BY <1>1 DEF JobInv
<1>8. job'.log \in Seq(LogEntries)
  BY <1>5, <1>6, <1>7, LogAppend
<1>9. job'.opt # "off" =>
        Finds(job'.log, "cray-slingshot", IF inst.depth = 0 THEN vnis ELSE <<>>)
  BY <1>1, <1>5, <1>6, <1>7, FindsStill DEF JobInv
<1>10. \/ Finds(job'.log, "dws_environment", <<>>)
       \/ Finds(job'.log, "dws_environment", <<"workflow">>)
  BY <1>1, <1>5, <1>6, <1>7, FindsStill DEF JobInv
<1>11. ASSUME NEW n \in job.nodes PROVE ShellOK(n)'
  BY <1>1, <1>5, ShellFrame DEF JobInv
<1>12. IsEnv(job.env)' /\ (shell = [n \in job.nodes |-> shell[n]])'
  BY <1>1, <1>5 DEF JobInv, IsEnv
<1>13. JobInv'
  BY <1>1, <1>5, <1>8, <1>9, <1>10, <1>11, <1>12 DEF JobInv
<1> QED BY <1>2, <1>13 DEF EnvInv

LEMMA NestedInv ==
  ASSUME EnvInv, NestedInstance
  PROVE  EnvInv'
<1>1. Reserves /\ InstInv /\ JobInv
  BY DEF EnvInv, NestedInstance
<1>2. PICK answer \in {"ok", "ENOSYS"} :
        inst' = [depth |-> inst.depth + 1, getenv |-> answer,
                 env |-> [n \in job.nodes |-> shell[n].env],
                 on |-> inst.on /\ job.opt = "default",
                 whole |-> inst.whole /\ job.opt = "default" /\ answer = "ok"]
  BY DEF NestedInstance
<1>3. svc' = svc /\ vnis' = vnis /\ job' = NoJob
      /\ \A n \in job.nodes : Stage(n) = "ready"
  BY DEF NestedInstance
<1>4. /\ inst'.depth = inst.depth + 1 /\ inst'.getenv = answer
      /\ inst'.env = [n \in job.nodes |-> shell[n].env]
      /\ inst'.on = (inst.on /\ job.opt = "default")
      /\ inst'.whole = (inst.whole /\ job.opt = "default" /\ answer = "ok")
      /\ inst' = [depth |-> inst'.depth, getenv |-> inst'.getenv, env |-> inst'.env,
                  on |-> inst'.on, whole |-> inst'.whole]
  BY <1>2
<1>5. inst.depth \in Nat /\ job.nodes \subseteq DOMAIN inst.env /\ DOMAIN inst.env \subseteq Nodes
  BY <1>1 DEF InstInv, JobInv
<1>6. inst'.depth \in Nat /\ inst'.depth > 0 /\ inst'.depth # 0
  BY <1>4, <1>5
<1>7. DOMAIN inst'.env = job.nodes /\ \A n \in job.nodes : inst'.env[n] = shell[n].env
  BY <1>4
<1>8. Own' = Own
  BY <1>3 DEF Own
<1>9. \A n \in job.nodes : ShellOK(n)
  BY <1>1 DEF JobInv
<1>10. ASSUME NEW n \in job.nodes
       PROVE  /\ IsEnv(inst.env[n])'
              /\ inst'.on => /\ Local(n, inst.env[n])'
                             /\ inst'.env[n].VNIS = TaskVnis(n)
  <2>1. IsEnv(shell[n].env)
    BY <1>9 DEF ShellOK
  <2>2. IsEnv(inst.env[n])'
    BY <1>7, <2>1 DEF IsEnv
  <2>3. inst'.on => Local(n, shell[n].env) /\ shell[n].env.VNIS = TaskVnis(n)
    BY <1>3, <1>4, <1>9 DEF ShellOK
  <2>4. Local(n, shell[n].env) => Local(n, inst.env[n])'
    BY <1>3, <1>7 DEF Local
  <2> QED BY <1>7, <2>2, <2>3, <2>4
<1>11. ASSUME NEW n \in job.nodes, inst.on
       PROVE  /\ TaskVnis(n) \in {Unset, Own}
              /\ \A m \in job.nodes : TaskVnis(n) = TaskVnis(m)
              /\ inst.whole => TaskVnis(n) = Own
  BY <1>1, <1>5, <1>11, TaskVnisAgree
<1>12. inst'.on \in BOOLEAN /\ inst'.whole \in BOOLEAN
  BY <1>4, Zenon
<1>13. inst'.on => inst.on
  BY <1>4
<1>14. inst'.whole => inst.whole /\ inst'.on /\ inst'.getenv = "ok"
  BY <1>1, <1>4 DEF InstInv
<1>15. ASSUME NEW n \in job.nodes
       PROVE  /\ inst'.on => /\ inst'.env[n].VNIS \in {Unset, Own}
                             /\ \A m \in job.nodes : inst'.env[n].VNIS = inst'.env[m].VNIS
              /\ inst'.whole => inst'.env[n].VNIS = Own
  BY <1>10, <1>11, <1>13, <1>14
<1>16. InstInv'
  BY <1>4, <1>5, <1>6, <1>7, <1>8, <1>10, <1>12, <1>14, <1>15 DEF InstInv
<1>17. Reserves' /\ ~Running'
  BY <1>1, <1>3 DEF Reserves, Running, NoJob, Clean, Unset
<1> QED BY <1>16, <1>17 DEF EnvInv

LEMMA StepInv ==
  ASSUME EnvInv, [Next]_vars
  PROVE  EnvInv'
<1>1. CASE UNCHANGED vars
  <2>1. UNCHANGED <<svc, vnis, inst>> /\ job' = job /\ shell' = shell
    BY <1>1 DEF vars
  <2>2. Reserves' /\ InstInv'
    BY <2>1, InstFrame DEF EnvInv
  <2>3. JobInv => JobInv'
    <3> SUFFICES ASSUME JobInv PROVE JobInv'
      OBVIOUS
    <3>1. ASSUME NEW n \in job.nodes PROVE ShellOK(n)'
      BY <2>1, ShellFrame DEF JobInv
    <3> QED BY <2>1, <3>1 DEF JobInv, IsEnv
  <2> QED BY <2>1, <2>2, <2>3 DEF EnvInv, Running, NoJob, Clean, Unset
<1>2. CASE StartEvent
  BY <1>2, EntryInv DEF StartEvent
<1>3. CASE FatalException
  BY <1>3, EntryInv DEF FatalException
<1>4. CASE JobEnds
  <2>1. UNCHANGED <<svc, vnis, inst>> /\ job' = NoJob
    BY <1>4 DEF JobEnds
  <2>2. Reserves' /\ InstInv'
    BY <2>1, InstFrame DEF EnvInv
  <2> QED BY <2>1, <2>2 DEF EnvInv, Running, NoJob, Clean, Unset
<1> QED BY <1>1, <1>2, <1>3, <1>4, SubmitInv, NestedInv, ShellInitInv, PostInitInv,
           AddDevicesFailsInv DEF Next

LEMMA EnvInvariant == Spec => []EnvInv
<1>1. Init => EnvInv
  BY InitInv
<1>2. EnvInv /\ [Next]_vars => EnvInv'
  BY StepInv
<1> QED BY <1>1, <1>2, PTL DEF Spec

---------------------------------------------------------------------------
(* What the invariant says of a shell that is ready. *)
LEMMA ReadyShell ==
  ASSUME EnvInv, NEW n \in job.nodes, Ready(n)
  PROVE  /\ Running /\ InstInv /\ JobInv /\ n \in DOMAIN inst.env /\ inst.on
         /\ Local(n, shell[n].env)
         /\ shell[n].env.VNIS = TaskVnis(n)
<1>1. Running
  BY DEF Running, NoJob
<1> QED BY <1>1 DEF EnvInv, JobInv, ShellOK, Ready

(* SLINGSHOT_DEVICES, SLINGSHOT_SVC_IDS and SLINGSHOT_TCS are those of the  *)
(* task's own node at every depth of nested instances: shell_init_cb() asks *)
(* the local broker, add_devices() looks at the local services.             *)
THEOREM ServicesAreLocal == Spec => []LocalServices
<1>1. EnvInv => LocalServices
  BY ReadyShell DEF LocalServices, Local
<1> QED BY <1>1, EnvInvariant, PTL

(* Every shell of a job gives its tasks the same VNIs, although each finds  *)
(* them on its own with cray_slingshot_inherit() or in the eventlog: an     *)
(* error of broker.getenv that might make a difference is fatal.            *)
THEOREM NodesAgreeOnVnis == Spec => []VnisAgree
<1>1. EnvInv => VnisAgree
  <2> SUFFICES ASSUME EnvInv, NEW n \in job.nodes, NEW m \in job.nodes, Ready(n), Ready(m)
               PROVE  shell[n].env.VNIS = shell[m].env.VNIS
    BY DEF VnisAgree
  <2>1. /\ InstInv /\ inst.on /\ n \in DOMAIN inst.env /\ m \in DOMAIN inst.env
        /\ shell[n].env.VNIS = TaskVnis(n) /\ shell[m].env.VNIS = TaskVnis(m)
    BY ReadyShell
  <2> QED BY <2>1, TaskVnisAgree
<1> QED BY <1>1, EnvInvariant, PTL

(* At every depth tasks have the VNIs of the system job's reservation or    *)
(* none, and if every broker on the way answered broker.getenv they do have *)
(* them.                                                                    *)
THEOREM ReservationIsInherited == Spec => []SameReservation
<1>1. EnvInv => SameReservation
  <2> SUFFICES ASSUME EnvInv, NEW n \in job.nodes, Ready(n)
               PROVE  /\ shell[n].env.VNIS \in {Unset, Own}
                      /\ inst.whole => shell[n].env.VNIS = Own
    BY DEF SameReservation, Own
  <2>1. /\ InstInv /\ inst.on /\ n \in DOMAIN inst.env /\ shell[n].env.VNIS = TaskVnis(n)
    BY ReadyShell
  <2> QED BY <2>1, TaskVnisAgree
<1> QED BY <1>1, EnvInvariant, PTL

(* No task of a job with #DW directives starts without the variables of its *)
(* Workflow: read_future() of dws_environment.c fails the shell.            *)
THEOREM RabbitTasksHaveEnvironment == Spec => []RabbitTasks
<1>1. EnvInv => RabbitTasks
  <2> SUFFICES ASSUME EnvInv, NEW n \in job.nodes, Stage(n) = "ready", job.dw
               PROVE  shell[n].env.dws = <<"workflow">>
    BY DEF RabbitTasks
  <2>1. Running
    BY DEF Running, NoJob
  <2> QED BY <2>1 DEF EnvInv, JobInv, ShellOK
<1> QED BY <1>1, EnvInvariant, PTL
=============================================================================
