---------------------------- MODULE ScanRunProofs ----------------------------
(***************************************************************************)
(* Proofs about ScanRun, for every machine, edit, gate and bound.          *)
(***************************************************************************)
EXTENDS ScanRun, SequenceTheorems, FiniteSetTheorems, TLAPS

-----------------------------------------------------------------------------
(* The inductive invariant.                                                 *)

\* The history is the machine's, and every state in it is a machine.
Timeline ==
  /\ scene \in Scenes
  /\ edits \in 0..MaxEdits
  /\ past \in Seq(Range(past)) /\ Len(past) = edits + 1 /\ world = past[Len(past)]
  /\ \A i \in DOMAIN past : DOMAIN past[i] = Part /\ Fits(past[i])

\* What is left to do is the end of the plan.
Agenda ==
  LET plan == Plan(scene.inspect)
  IN  \E k \in 0..Len(plan) : todo = SubSeq(plan, k + 1, Len(plan))

\* A surface is left by its last look only.
Looking ==
  /\ look \in 1..4
  /\ todo # <<>> => look \in 1..(IF Head(todo) \in DOMAIN Looks THEN Looks[Head(todo)] ELSE 1)

\* A finding graded by its rule.
Graded(f) ==
  /\ f.id \in DOMAIN Rule
  /\ f.dimension = Rule[f.id].dimension /\ f.severity = Rule[f.id].severity

\* Servers whose findings are.
Proper(reported) ==
  \A s \in reported :
    /\ DOMAIN s = {"id", "incomplete", "findings"} /\ s.incomplete \in BOOLEAN
    /\ \A f \in s.findings : Graded(f)

Reported == Proper(servers)

\* What each stage has left behind, by the number of stages left.
Staged ==
  /\ grade \in Grade \union {"none"} /\ (grade = "none" <=> Len(todo) > 5)
  /\ Len(todo) <= 4 =>
       \E i \in DOMAIN past : ledger = {e \in EntriesAt(i) : e.whole}
  /\ Len(todo) > 3 => applied = -1 /\ shielded = {}
  /\ Len(todo) <= 3 =>
       /\ \E i \in DOMAIN past : applied = past[i].day
       /\ shielded = apply_acceptances(servers, ledger, applied)

\* The exit code and the alerts tell one verdict, unless the command crashed.
Verdicts ==
  /\ exit \in {"running", "pass", "fail", "crash"}
  /\ exit \in {"pass", "fail"} => todo = <<>>
  /\ exit = "running" => alerts = {}
  /\ exit \in {"pass", "fail"} => exit = exit_code
  /\ \A a \in alerts : a.sink \in scene.sinks
  /\ exit # "crash" => \A a \in alerts : a.gate_failed <=> exit = "fail"

IInv == Timeline /\ Agenda /\ Looking /\ Reported /\ Staged /\ Verdicts

-----------------------------------------------------------------------------
(* The plan.                                                                *)

Surface == {"user", "project", "dotenv", "store", "procs", "log", "manifest"}
Wanted(inspect) == {s \in Surface : s \in DOMAIN Optional => Optional[s] \in inspect}

\* How many stages are left when this one is under way.
Place == [sockets |-> 6, ledger |-> 5, apply |-> 4, write |-> 3, gate |-> 2, alert |-> 1]

\* Looks, those asked for only, and then the closing stages.
LEMMA PlanIs ==
  ASSUME NEW inspect
  PROVE  \E a \in Seq(Wanted(inspect)) : Plan(inspect) = a \o Closing
<1> DEFINE W == Wanted(inspect)
<1>1. <<"user", "project", "dotenv">> \in Seq(W)
  BY DEF Wanted, Surface, Optional
<1>2. \A s \in {"store", "procs", "log", "manifest"} : Asked(inspect, s) \in Seq(W)
  <2> SUFFICES ASSUME NEW s \in {"store", "procs", "log", "manifest"}
               PROVE  Asked(inspect, s) \in Seq(W)
    OBVIOUS
  <2>1. Optional[s] \in inspect => s \in W
    BY DEF Wanted, Surface
  <2> HIDE DEF W
  <2>2. <<>> \in Seq(W) /\ (s \in W => <<s>> \in Seq(W))
    OBVIOUS
  <2> QED BY <2>1, <2>2 DEF Asked
<1> DEFINE a == <<"user", "project", "dotenv">> \o Asked(inspect, "store")
                  \o Asked(inspect, "procs") \o Asked(inspect, "log") \o Asked(inspect, "manifest")
<1> HIDE DEF W
<1>3. a \in Seq(W)
  BY <1>1, <1>2, ConcatProperties
<1>4. Plan(inspect) = a \o Closing
  BY DEF Plan
<1> QED BY <1>3, <1>4 DEF W

\* A plan without its first k stages.
Left(inspect, k) == SubSeq(Plan(inspect), k + 1, Len(Plan(inspect)))

\* What is left of a plan, and what comes first in it.
LEMMA LeftIs ==
  ASSUME NEW inspect, NEW t, NEW k, k \in 0..Len(Plan(inspect)), t = Left(inspect, k)
  PROVE  /\ Len(t) \in Nat /\ Len(t) = Len(Plan(inspect)) - k
         /\ t # <<>> => /\ Tail(t) = SubSeq(Plan(inspect), k + 2, Len(Plan(inspect)))
                        /\ Len(Tail(t)) = Len(t) - 1 /\ Len(t) # 0
                        /\ IF Len(t) > 6 THEN Head(t) \in Wanted(inspect)
                           ELSE Head(t) = Closing[7 - Len(t)]
<1>1. PICK a \in Seq(Wanted(inspect)) : Plan(inspect) = a \o Closing
  BY PlanIs
<1>2. Closing \in Seq(DOMAIN Place) /\ Len(Closing) = 6
  BY DEF Closing, Place
<1> DEFINE P == Plan(inspect)
<1> DEFINE U == Wanted(inspect) \cup DOMAIN Place
<1>3. P \in Seq(U) /\ Len(P) = Len(a) + 6 /\ Len(a) \in Nat
  <2>1. a \in Seq(U) /\ Closing \in Seq(U)
    BY <1>2
  <2> HIDE DEF U
  <2>2. a \o Closing \in Seq(U) /\ Len(a \o Closing) = Len(a) + Len(Closing)
    BY <2>1, ConcatProperties
  <2> QED BY <1>1, <1>2, <2>1, <2>2, LenProperties
<1>4. \A i \in 1..Len(P) : P[i] = IF i <= Len(a) THEN a[i] ELSE Closing[i - Len(a)]
  BY <1>1, <1>2, <1>3, ConcatProperties
<1>5. \A i \in 1..Len(a) : a[i] \in Wanted(inspect)
  BY <1>1
<1>0. k \in 0..Len(P)
  OBVIOUS
<1> HIDE DEF P, U
<1>6. t \in Seq(U) /\ Len(t) = Len(P) - k /\ Len(t) \in Nat
      /\ \A i \in 1..Len(t) : t[i] = P[k + i]
  BY <1>3 DEF P, Left
<1>7. ASSUME t # <<>>
      PROVE  /\ Tail(t) = SubSeq(P, k + 2, Len(P))
             /\ Len(Tail(t)) = Len(t) - 1 /\ Len(t) # 0
             /\ IF Len(t) > 6 THEN Head(t) \in Wanted(inspect)
                ELSE Head(t) = Closing[7 - Len(t)]
  <2>1. Len(t) # 0
    BY <1>6, <1>7, EmptySeq
  <2>2. Head(t) = P[k + 1] /\ k + 1 \in 1..Len(P)
    BY <1>3, <1>6, <2>1
  <2>3. Tail(t) = SubSeq(P, k + 2, Len(P)) /\ Len(Tail(t)) = Len(t) - 1
    <3>1. k + 1 \in 1..Len(P) /\ Len(P) \in (k + 1)..Len(P) /\ (k + 1) + 1 = k + 2
      BY <1>0, <1>3, <2>2
    <3>2. t = SubSeq(P, k + 1, Len(P))
      BY DEF P, Left
    <3>3. Tail(t) = SubSeq(P, k + 2, Len(P))
      BY <1>3, <3>1, <3>2, HeadTailOfSubSeq
    <3> QED BY <1>6, <1>7, <3>3, HeadTailProperties
  <2>4. IF Len(t) > 6 THEN Head(t) \in Wanted(inspect) ELSE Head(t) = Closing[7 - Len(t)]
    <3>0. k \in Nat /\ Len(a) \in Nat /\ Len(P) = Len(a) + 6 /\ Len(t) = Len(P) - k
      BY <1>0, <1>3, <1>6
    <3> DEFINE h == k + 1
    <3>1. Head(t) = IF h <= Len(a) THEN a[h] ELSE Closing[h - Len(a)]
      <4>1. h \in 1..Len(P) /\ Head(t) = P[h]
        BY <2>2
      <4> HIDE DEF h
      <4> QED BY <1>4, <4>1
    <3>2. Len(t) > 6 <=> h <= Len(a)
      BY <3>0
    <3>3. h - Len(a) = 7 - Len(t)
      <4> DEFINE la == Len(a)
                 lt == Len(t)
      <4>1. la \in Nat /\ k \in Nat /\ lt = (la + 6) - k
        BY <3>0
      <4> HIDE DEF la, lt
      <4>2. (k + 1) - la = 7 - lt
        BY <4>1
      <4> QED BY <3>0, <4>1, <4>2 DEF la, lt
    <3>4. h <= Len(a) => h \in 1..Len(a)
      BY <1>3, <3>0
    <3> HIDE DEF h
    <3> QED BY <1>5, <3>1, <3>2, <3>3, <3>4
  <2> QED BY <2>1, <2>3, <2>4
<1> QED BY <1>6, <1>7 DEF P

\* Where the command is.
LEMMA AtIs ==
  ASSUME Agenda, NEW s, NEW m, At(s, m)
  PROVE  /\ Len(todo) \in Nat /\ Len(Tail(todo)) = Len(todo) - 1
         /\ LET plan == Plan(scene.inspect)
            IN  \E k \in 0..Len(plan) : Tail(todo) = SubSeq(plan, k + 1, Len(plan))
         /\ s \in Surface => Len(todo) > 6 /\ s \in Wanted(scene.inspect)
         /\ s \in DOMAIN Place => Len(todo) = Place[s]
<1> DEFINE P == Plan(scene.inspect)
<1>1. PICK k \in 0..Len(P) : todo = SubSeq(P, k + 1, Len(P))
  BY DEF Agenda
<1>2. todo # <<>> /\ Head(todo) = s
  BY DEF At
<1>3. /\ Len(todo) \in Nat /\ Len(todo) = Len(P) - k
      /\ Tail(todo) = SubSeq(P, k + 2, Len(P))
      /\ Len(Tail(todo)) = Len(todo) - 1 /\ Len(todo) # 0
      /\ IF Len(todo) > 6 THEN s \in Wanted(scene.inspect) ELSE s = Closing[7 - Len(todo)]
  <2>1. todo = Left(scene.inspect, k)
    BY <1>1 DEF Left
  <2> QED BY <1>1, <1>2, <2>1, LeftIs
<1>4. Len(P) \in Nat
  <2>1. PICK a \in Seq(Wanted(scene.inspect)) : P = a \o Closing
    BY PlanIs
  <2> QED BY <2>1, ConcatProperties DEF Closing
<1>5. k + 1 \in 0..Len(P) /\ Tail(todo) = SubSeq(P, (k + 1) + 1, Len(P))
  BY <1>3, <1>4
<1>6. ASSUME Len(todo) <= 6
      PROVE  s \in DOMAIN Place /\ s \notin Surface /\ Len(todo) = Place[s]
  <2>1. Len(todo) \in 1..6
    BY <1>3, <1>6
  <2>2. s = Closing[7 - Len(todo)]
    BY <1>3, <1>6
  <2>3. Closing[7 - Len(todo)] \in DOMAIN Place \ Surface
        /\ Place[Closing[7 - Len(todo)]] = Len(todo)
    <3>1. \E n \in 1..6 : Len(todo) = n /\ 7 - Len(todo) = 7 - n
      BY <2>1
    <3>2. \A n \in 1..6 : Closing[7 - n] \in DOMAIN Place \ Surface /\ Place[Closing[7 - n]] = n
      BY DEF Closing, Place, Surface
    <3> QED BY <3>1, <3>2
  <2> QED BY <2>2, <2>3
<1>7. Wanted(scene.inspect) \subseteq Surface /\ DOMAIN Place \cap Surface = {}
  <2>1. Wanted(scene.inspect) \subseteq Surface
    BY DEF Wanted
  <2>2. DOMAIN Place \cap Surface = {}
    BY DEF Place, Surface
  <2> QED BY <2>1, <2>2
<1>8. s \in Surface => Len(todo) > 6 /\ s \in Wanted(scene.inspect)
  BY <1>3, <1>6
<1>9. s \in DOMAIN Place => Len(todo) = Place[s]
  BY <1>3, <1>6, <1>7
<1> QED BY <1>3, <1>5, <1>8, <1>9

-----------------------------------------------------------------------------
(* The findings.                                                            *)

\* A finding has the severity of its rule.
LEMMA SecretlyGraded ==
  ASSUME NEW rule \in DOMAIN Rule, NEW at, NEW secret
  PROVE  Graded(Secretly(rule, at, secret)) /\ Graded(Finding(rule, at))
<1> HIDE DEF Rule
<1> QED BY DEF Graded, Finding, Secretly

\* So has one a check returns.
LEMMA WhenGraded ==
  ASSUME NEW rule \in DOMAIN Rule, NEW holds, NEW at, NEW f \in When(holds, rule, at)
  PROVE  Graded(f)
BY SecretlyGraded DEF When

\* A server with graded findings is one a report may hold.
LEMMA ServerProper ==
  ASSUME NEW id, NEW incomplete \in BOOLEAN, NEW findings, \A f \in findings : Graded(f)
  PROVE  Proper({Server(id, incomplete, findings)})
BY DEF Proper, Server

\* So is a surface, which is no server when it has nothing to say.
LEMMA SurfacedProper ==
  ASSUME NEW id, NEW incomplete \in BOOLEAN, NEW findings, \A f \in findings : Graded(f)
  PROVE  Proper(Surfaced(id, incomplete, findings))
BY ServerProper DEF Proper, Surfaced

\* A table of rules grades each with a severity.
Tabled(table) == \A rule \in DOMAIN table : table[rule].severity \in Severity

\* The rules the checks name.
LEMMA Rules ==
  {"CRED_PLAINTEXT", "CRED_PERMS", "CRED_GIT", "CRED_ENV", "CRED_REUSE", "TOKEN_STORE_PERMS",
   "TOKEN_STORE_EXPIRED", "PIN_UNPINNED", "SCOPE_DANGEROUS_AUTOAPPROVE",
   "SCOPE_AUTOAPPROVE_WILDCARD", "SCOPE_DANGEROUS_ALLOW", "SCOPE_WILDCARD",
   "TOOL_HIDDEN_UNICODE", "TOOL_INJECTION_TEXT", "CONFIG_UNREADABLE", "TELEMETRY_ABSENT",
   "TELEMETRY_PERMS", "TELEMETRY_STALE", "LISTENER_OBSERVED", "BROKER_ABSENT",
   "BROKER_PARSE_ERROR", "BROKER_EVIDENCE_MISSING", "BROKER_EVIDENCE_MISMATCH",
   "BROKER_MANIFEST_UNVERIFIED", "BROKER_NO_AUDIT", "BROKER_ALLOWLIST_PERMISSIVE"}
    = DOMAIN Rule /\ Tabled(Rule)
<1>1. /\ DOMAIN SecretGrades =
           {"CRED_PLAINTEXT", "CRED_ENV", "CRED_PERMS", "CRED_GIT", "CRED_REUSE"}
      /\ Tabled(SecretGrades)
  BY DEF SecretGrades, Grading, Severity, Tabled
<1>2. DOMAIN StoreGrades = {"TOKEN_STORE_PERMS", "TOKEN_STORE_EXPIRED"} /\ Tabled(StoreGrades)
  BY DEF StoreGrades, Grading, Severity, Tabled
<1>3. DOMAIN PinGrades = {"PIN_UNPINNED"} /\ Tabled(PinGrades)
  BY DEF PinGrades, Grading, Severity, Tabled
<1>4. /\ DOMAIN ScopeGrades =
           {"SCOPE_DANGEROUS_ALLOW", "SCOPE_WILDCARD", "SCOPE_DANGEROUS_AUTOAPPROVE",
            "SCOPE_AUTOAPPROVE_WILDCARD"}
      /\ Tabled(ScopeGrades)
  BY DEF ScopeGrades, Grading, Severity, Tabled
<1>5. /\ DOMAIN IntegrityGrades =
           {"TOOL_HIDDEN_UNICODE", "TOOL_INJECTION_TEXT"}
      /\ Tabled(IntegrityGrades)
  BY DEF IntegrityGrades, Grading, Severity, Tabled
<1>6. DOMAIN HealthGrades = {"CONFIG_UNREADABLE"} /\ Tabled(HealthGrades)
  BY DEF HealthGrades, Grading, Severity, Tabled
<1>7. /\ DOMAIN TelemetryGrades =
           {"TELEMETRY_ABSENT", "TELEMETRY_PERMS", "TELEMETRY_STALE"}
      /\ Tabled(TelemetryGrades)
  BY DEF TelemetryGrades, Grading, Severity, Tabled
<1>8. DOMAIN ListenerGrades = {"LISTENER_OBSERVED"} /\ Tabled(ListenerGrades)
  BY DEF ListenerGrades, Grading, Severity, Tabled
<1>9. /\ DOMAIN BrokerGrades =
           {"BROKER_ABSENT", "BROKER_MANIFEST_UNVERIFIED", "BROKER_NO_AUDIT",
            "BROKER_ALLOWLIST_PERMISSIVE", "BROKER_PARSE_ERROR", "BROKER_EVIDENCE_MISSING",
            "BROKER_EVIDENCE_MISMATCH"}
      /\ Tabled(BrokerGrades)
  BY DEF BrokerGrades, Grading, Severity, Tabled
<1> DEFINE T == {SecretGrades, StoreGrades, PinGrades, ScopeGrades, IntegrityGrades, HealthGrades,
                  TelemetryGrades, ListenerGrades, BrokerGrades}
<1>10. /\ DOMAIN Rule = UNION {DOMAIN table : table \in T}
       /\ \A rule \in DOMAIN Rule : Rule[rule] = (CHOOSE table \in T : rule \in DOMAIN table)[rule]
  BY DEF Rule
<1>11. \A table \in T : Tabled(table)
  BY <1>1, <1>2, <1>3, <1>4, <1>5, <1>6, <1>7, <1>8, <1>9
<1>12. UNION {DOMAIN table : table \in T} =
         (DOMAIN SecretGrades) \union (DOMAIN StoreGrades) \union (DOMAIN PinGrades) \union (DOMAIN ScopeGrades)
           \union (DOMAIN IntegrityGrades) \union (DOMAIN HealthGrades) \union (DOMAIN TelemetryGrades)
           \union (DOMAIN ListenerGrades) \union (DOMAIN BrokerGrades)
  OBVIOUS
<1>13. Tabled(Rule)
  <2> SUFFICES ASSUME NEW rule \in DOMAIN Rule PROVE Rule[rule].severity \in Severity
    BY DEF Tabled
  <2> DEFINE t == CHOOSE table \in T : rule \in DOMAIN table
  <2>1. \E table \in T : rule \in DOMAIN table
    BY <1>10
  <2> HIDE DEF T
  <2>2. t \in T /\ rule \in DOMAIN t
    BY <2>1
  <2> QED BY <1>10, <1>11, <2>2 DEF Tabled
<1>14. DOMAIN Rule =
         (DOMAIN SecretGrades) \union (DOMAIN StoreGrades) \union (DOMAIN PinGrades) \union (DOMAIN ScopeGrades)
           \union (DOMAIN IntegrityGrades) \union (DOMAIN HealthGrades) \union (DOMAIN TelemetryGrades)
           \union (DOMAIN ListenerGrades) \union (DOMAIN BrokerGrades)
  BY <1>10, <1>12
<1> HIDE DEF T
<1> QED BY <1>1, <1>2, <1>3, <1>4, <1>5, <1>6, <1>7, <1>8, <1>9, <1>13, <1>14

\* The servers of a config are such.
LEMMA ConfigProper ==
  ASSUME NEW f, NEW cfg
  PROVE  Proper(audit_config(f, cfg)) /\ Proper({config_failure_server(f)})
<1>1. ASSUME NEW n \in DOMAIN cfg.servers
      PROVE  \A g \in check_server_env(cfg.servers[n], f)
                        \union check_server_auto_approve(cfg.servers[n], f)
                        \union check_server_pinning(cfg.servers[n], f)
                        \union check_tool_integrity(cfg.servers[n], f) : Graded(g)
  BY Rules, SecretlyGraded, WhenGraded
     DEF check_server_env, check_server_auto_approve, check_server_pinning, check_tool_integrity
<1>2. \A g \in check_permissions(cfg.allow, f) : Graded(g)
  BY Rules, WhenGraded DEF check_permissions
<1>3. Proper(Surfaced(<<"permissions", f>>, FALSE, check_permissions(cfg.allow, f)))
  BY <1>2, SurfacedProper
<1>4. Proper(audit_config(f, cfg))
  <2> DEFINE D == {Server(<<"declared", f, n>>, FALSE,
                          check_server_env(cfg.servers[n], f)
                            \union check_server_auto_approve(cfg.servers[n], f)
                            \union check_server_pinning(cfg.servers[n], f)
                            \union check_tool_integrity(cfg.servers[n], f)) : n \in DOMAIN cfg.servers}
  <2>1. Proper(D)
    <3>1. \A n \in DOMAIN cfg.servers :
            Proper({Server(<<"declared", f, n>>, FALSE,
                           check_server_env(cfg.servers[n], f)
                             \union check_server_auto_approve(cfg.servers[n], f)
                             \union check_server_pinning(cfg.servers[n], f)
                             \union check_tool_integrity(cfg.servers[n], f))})
      BY <1>1, ServerProper
    <3> QED BY <3>1 DEF Proper
  <2>2. audit_config(f, cfg) = D \union Surfaced(<<"permissions", f>>, FALSE, check_permissions(cfg.allow, f))
    BY DEF audit_config
  <2> HIDE DEF D
  <2> QED BY <1>3, <2>1, <2>2 DEF Proper
<1>5. Proper({config_failure_server(f)})
  <2>1. Graded(Finding("CONFIG_UNREADABLE", <<f>>))
    BY Rules, SecretlyGraded
  <2> QED BY <2>1, ServerProper DEF config_failure_server
<1> QED BY <1>4, <1>5

\* The .env file is such.
LEMMA DotenvProper ==
  ASSUME NEW secrets, NEW open, NEW tracked
  PROVE  Proper({audit_env_file(secrets, open, tracked)})
<1>1. \A g \in check_secret_at_rest(secrets, open, tracked) : Graded(g)
  BY Rules, WhenGraded DEF check_secret_at_rest
<1>2. \A k : Graded(Secretly("CRED_PLAINTEXT", <<"dotenv">>, k))
  BY Rules, SecretlyGraded
<1> DEFINE F == {Secretly("CRED_PLAINTEXT", <<"dotenv">>, k) : k \in secrets}
                  \union check_secret_at_rest(secrets, open, tracked)
<1>3. \A g \in F : Graded(g)
  BY <1>1, <1>2
<1>4. audit_env_file(secrets, open, tracked) = Server(<<"dotenv">>, FALSE, F)
  BY DEF audit_env_file
<1> HIDE DEF F
<1> QED BY <1>3, <1>4, ServerProper

\* The token store, the processes, the tool log and the sockets are such.
LEMMA SurfaceProper ==
  /\ \A open, exp, day : Proper(Surfaced(<<"store">>, FALSE, check_token_store(open, exp, day)))
  /\ \A env : \A denied \in BOOLEAN : Proper(audit_process_envs(env, denied))
  /\ \A present, open, mtime, day :
        Proper(Surfaced(<<"telemetry">>, FALSE, check_telemetry(present, open, mtime, day)))
  /\ \A sock : \A partial \in BOOLEAN :
        Proper(Surfaced(<<"socket", sock>>, partial, check_socket_exposure(sock, Loopback)))
<1>1. \A open, exp, day : \A g \in check_token_store(open, exp, day) : Graded(g)
  BY Rules, WhenGraded DEF check_token_store
<1>2. \A env : \A denied \in BOOLEAN : Proper(audit_process_envs(env, denied))
  <2> SUFFICES ASSUME NEW env, NEW denied \in BOOLEAN
               PROVE  Proper(audit_process_envs(env, denied))
    OBVIOUS
  <2>1. \A p \in DOMAIN env :
          Proper(Surfaced(<<"process", p>>, denied, {Secretly("CRED_ENV", <<p>>, k) : k \in env[p]}))
    BY Rules, SecretlyGraded, SurfacedProper
  <2> QED BY <2>1 DEF audit_process_envs, Proper
<1>3. \A present, open, mtime, day :
        \A g \in check_telemetry(present, open, mtime, day) : Graded(g)
  BY Rules, SecretlyGraded, WhenGraded DEF check_telemetry
<1>4. \A sock : \A g \in check_socket_exposure(sock, Loopback) : Graded(g)
  BY Rules, WhenGraded DEF check_socket_exposure
<1> QED BY <1>1, <1>2, <1>3, <1>4, SurfacedProper

\* The broker, whatever its check ends with, is such.
LEMMA BrokerProper ==
  ASSUME NEW declared
  PROVE  /\ Proper(NoBroker(declared)) /\ Proper(ParseError(declared))
         /\ \A m, reason : Proper(audit_broker(declared, m, reason))
<1>1. \A fronts : \A g \in Absences(declared, fronts) : Graded(g)
  BY Rules, SecretlyGraded DEF Absences
<1>2. \A m, reason : \A g \in check_broker_posture(declared, m, reason) : Graded(g)
  BY <1>1, Rules, WhenGraded DEF check_broker_posture
<1>3. \A m, reason : Proper(audit_broker(declared, m, reason))
  BY <1>2, SurfacedProper DEF audit_broker
<1>4. Proper(NoBroker(declared))
  BY <1>1, SurfacedProper DEF NoBroker
<1>5. Proper(ParseError(declared))
  <2>1. Graded(Finding("BROKER_PARSE_ERROR", <<"broker">>))
    BY Rules, SecretlyGraded
  <2> DEFINE F == Absences(declared, {}) \union {Finding("BROKER_PARSE_ERROR", <<"broker">>)}
  <2>2. \A g \in F : Graded(g)
    BY <1>1, <2>1
  <2>3. ParseError(declared) = {Server(<<"broker">>, TRUE, F)}
    BY DEF ParseError
  <2> HIDE DEF F
  <2> QED BY <2>2, <2>3, ServerProper
<1> QED BY <1>3, <1>4, <1>5

\* The join of the report keeps every server and every finding, and adds reuse only.
LEMMA AssembleProper ==
  ASSUME NEW reported, Proper(reported)
  PROVE  Proper(assemble_report(reported))
<1> DEFINE Reuse(s) == {Secretly("CRED_REUSE", g.at, g.secret) :
                          g \in {h \in s.findings : h.secret \in Reused(reported)}}
<1>1. ASSUME NEW s \in reported
      PROVE  \A f \in s.findings \union Reuse(s) : Graded(f)
  BY Rules, SecretlyGraded DEF Proper
<1>2. assemble_report(reported) = {[s EXCEPT !.findings = s.findings \union Reuse(s)] : s \in reported}
  BY DEF assemble_report
<1> HIDE DEF Reuse
<1> QED BY <1>1, <1>2 DEF Proper

-----------------------------------------------------------------------------
(* The steps.                                                               *)

\* A server is graded by a letter, and the worst of some letters is a letter.
LEMMA GradeType ==
  /\ \A findings, incomplete : grade_server(findings, incomplete) \in Grade
  /\ \A grades \in SUBSET Grade : worst_grade(grades) \in Grade
<1>1. \A score : grade_for_score(score) \in Grade
  BY DEF grade_for_score, Grade
<1>2. \A g \in Grade : cap_grade(g, "C") \in Grade
  BY DEF cap_grade, Grade
<1>3. ASSUME NEW grades \in SUBSET Grade
      PROVE  worst_grade(grades) \in Grade
  <2>1. ASSUME NEW g \in grades, \A h \in grades : GradeRank[h] <= GradeRank[g]
        PROVE  worst_grade(grades) \in Grade
    BY <2>1 DEF worst_grade
  <2>2. \A m \in 0..4 : (\A h \in grades : GradeRank[h] <= m) /\ grades # {}
                         => \E g \in grades : \A h \in grades : GradeRank[h] <= GradeRank[g]
    <3>1. \A h \in grades : GradeRank[h] \in 0..4
      BY DEF Grade, GradeRank
    <3> HIDE DEF GradeRank
    <3> DEFINE Top(m) == \E g \in grades : \A h \in grades : GradeRank[h] <= GradeRank[g]
    <3>2. \A m \in 0..4 : (\A h \in grades : GradeRank[h] <= m) => \/ \E g \in grades : GradeRank[g] = m
                                                                 \/ \A h \in grades : GradeRank[h] <= m - 1
      BY <3>1
    <3>3. ASSUME NEW m \in 0..4, NEW g \in grades, GradeRank[g] = m, \A h \in grades : GradeRank[h] <= m
          PROVE  \E q \in grades : \A h \in grades : GradeRank[h] <= GradeRank[q]
      BY <3>3
    <3> QED BY <3>1, <3>2, <3>3
  <2>3. \A h \in grades : GradeRank[h] <= 4
    BY DEF Grade, GradeRank
  <2> QED BY <2>1, <2>2, <2>3 DEF worst_grade, Grade
<1> QED BY <1>1, <1>2, <1>3 DEF grade_server

\* The command starts with everything to do and nothing reported.
LEMMA Initialization == Init => IInv
<1> SUFFICES ASSUME Init PROVE IInv
  OBVIOUS
<1> USE DEF Init
<1> DEFINE P == Plan(scene.inspect)
<1>1. PICK a \in Seq(Wanted(scene.inspect)) : P = a \o Closing
  BY PlanIs
<1>2. Closing \in Seq(DOMAIN Place) /\ Len(Closing) = 6
  BY DEF Closing, Place
<1>3. P \in Seq(Wanted(scene.inspect) \cup DOMAIN Place) /\ Len(P) \in Nat /\ Len(P) > 5
  <2> DEFINE U == Wanted(scene.inspect) \cup DOMAIN Place
  <2>1. a \in Seq(U) /\ Closing \in Seq(U)
    BY <1>2
  <2> HIDE DEF U
  <2>2. a \o Closing \in Seq(U) /\ Len(a \o Closing) = Len(a) + Len(Closing)
    BY <2>1, ConcatProperties
  <2> QED BY <1>1, <1>2, <2>1, <2>2, LenProperties DEF U
<1>4. Agenda
  <2>1. todo = SubSeq(P, 0 + 1, Len(P)) /\ 0 \in 0..Len(P)
    BY <1>3, SubSeqFull
  <2> QED BY <2>1 DEF Agenda
<1>5. Timeline
  <2>1. past = <<world>> /\ Range(past) = {world}
    BY DEF Range
  <2>2. past \in Seq({world}) /\ Len(past) = 1 /\ DOMAIN past = {1} /\ past[1] = world
    BY <2>1
  <2> QED BY <2>1, <2>2, SceneAssumption, BoundsAssumption DEF Timeline
<1>6. Looking
  BY DEF Looking, Looks
<1>7. Reported
  BY DEF Reported, Proper
<1>8. Staged
  BY <1>3 DEF Staged, Grade
<1>9. Verdicts
  BY DEF Verdicts
<1> QED BY <1>4, <1>5, <1>6, <1>7, <1>8, <1>9 DEF IInv

\* A look at a surface moves on in the plan, or at the surface, and leaves the rest.
LEMMA LookStep ==
  ASSUME IInv, NEW s \in Surface, NEW n, At(s, n), UNCHANGED <<machine, verdict>>,
         Done \/ \E m \in 2..4 : LookNext(m) /\ s \in DOMAIN Looks /\ m <= Looks[s]
  PROVE  Timeline' /\ Agenda' /\ Looking' /\ Staged' /\ Verdicts'
<1> USE DEF IInv
<1>1. /\ Len(todo) \in Nat /\ Len(todo) > 6
      /\ Len(Tail(todo)) = Len(todo) - 1
      /\ LET plan == Plan(scene.inspect)
         IN  \E k \in 0..Len(plan) : Tail(todo) = SubSeq(plan, k + 1, Len(plan))
  BY AtIs
<1>2. todo' \in {todo, Tail(todo)} /\ Len(todo') > 5 /\ Len(todo') \in Nat
  BY <1>1 DEF Done, LookNext
<1>3. exit = "running" /\ Head(todo) = s /\ todo # <<>>
  BY DEF At
<1>4. Timeline'
  BY DEF Timeline, machine
<1>5. Agenda'
  BY <1>1, <1>2 DEF Agenda, machine
<1>6. Looking'
  BY <1>3 DEF Looking, Done, LookNext, Looks
<1>7. Staged'
  BY <1>1, <1>2 DEF Staged, verdict
<1>8. Verdicts'
  BY <1>3 DEF Verdicts, verdict, machine
<1> QED BY <1>4, <1>5, <1>6, <1>7, <1>8

\* What a look adds to the report.
LEMMA ReportStep ==
  ASSUME Reported, NEW new, Proper(new), Report(new)
  PROVE  Reported'
BY DEF Reported, Proper, Report

\* A config is read, or cannot be.
LEMMA ReadConfigStep ==
  ASSUME IInv, NEW f \in ConfigFile, ReadConfig(f)
  PROVE  IInv'
<1>1. At(f, 1) /\ UNCHANGED <<machine, verdict>> /\ f \in Surface
  BY DEF ReadConfig, ConfigFile, Surface
<1>2. Done \/ LookNext(2)
  BY DEF ReadConfig
<1>3. 2 <= Looks[f] /\ f \in DOMAIN Looks
  BY DEF ConfigFile, Looks
<1>4. Reported'
  <2>1. Report(audit_config(f, world[f])) \/ Report({config_failure_server(f)}) \/ UNCHANGED servers
    BY DEF ReadConfig, found
  <2> QED BY <2>1, ConfigProper, ReportStep DEF IInv, Reported
<1> QED BY <1>1, <1>2, <1>3, <1>4, LookStep DEF IInv

\* A file that could not be read is looked at again.
LEMMA LookAgainStep ==
  ASSUME IInv, NEW f \in ConfigFile \union {"dotenv"}, LookAgain(f)
  PROVE  IInv'
<1>1. At(f, 2) /\ UNCHANGED <<machine, verdict>> /\ f \in Surface /\ Done
  BY DEF LookAgain, ConfigFile, Surface
<1>2. Reported'
  <2>1. Proper({config_failure_server(g) : g \in {h \in {f} : There(world[h])}})
    BY ConfigProper DEF Proper
  <2> QED BY <2>1, ReportStep DEF IInv, LookAgain
<1> QED BY <1>1, <1>2, LookStep DEF IInv

\* The three looks at .env.
LEMMA DotenvStep ==
  ASSUME IInv, ReadDotenv \/ DotenvMode \/ DotenvTracked
  PROVE  IInv'
<1>1. /\ \E n \in {1, 3, 4} : At("dotenv", n)
      /\ UNCHANGED <<machine, verdict>>
      /\ Done \/ LookNext(2) \/ LookNext(3) \/ LookNext(4)
  BY DEF ReadDotenv, DotenvMode, DotenvTracked
<1>2. "dotenv" \in Surface /\ "dotenv" \in DOMAIN Looks /\ Looks["dotenv"] = 4
  BY DEF Surface, Looks
<1>3. Reported'
  <2>1. CASE UNCHANGED servers
    BY <2>1 DEF IInv, Reported
  <2>2. CASE Report({audit_env_file(held.secrets, held.open, world.dotenv_tracked)})
    BY <2>2, DotenvProper, ReportStep DEF IInv
  <2> QED BY <2>1, <2>2 DEF ReadDotenv, DotenvMode, DotenvTracked, found
<1> QED BY <1>1, <1>2, <1>3, LookStep DEF IInv

\* The three looks at the token store.
LEMMA StoreStep ==
  ASSUME IInv, FindStore \/ StoreMode \/ ReadStore
  PROVE  IInv'
<1>1. /\ \E n \in {1, 2, 3} : At("store", n)
      /\ UNCHANGED <<machine, verdict>>
      /\ Done \/ LookNext(2) \/ LookNext(3)
  BY DEF FindStore, StoreMode, ReadStore
<1>2. "store" \in Surface /\ "store" \in DOMAIN Looks /\ Looks["store"] = 3
  BY DEF Surface, Looks
<1>3. Reported'
  <2>1. CASE UNCHANGED servers
    BY <2>1 DEF IInv, Reported
  <2>2. CASE ReadStore
    BY <2>2, SurfaceProper, ReportStep DEF IInv, ReadStore
  <2> QED BY <2>1, <2>2 DEF FindStore, StoreMode, found
<1> QED BY <1>1, <1>2, <1>3, LookStep DEF IInv

\* The part of the machine at hand is one.
LEMMA WorldFits ==
  ASSUME Timeline
  PROVE  /\ Fits(world) /\ DOMAIN world = Part
         /\ Len(past) \in DOMAIN past /\ DOMAIN past = 1..Len(past) /\ Len(past) \in Nat
<1>1. Len(past) \in Nat /\ Len(past) >= 1
  BY DEF Timeline
<1>2. DOMAIN past = 1..Len(past)
  BY LenProperties DEF Timeline
<1> QED BY <1>1, <1>2 DEF Timeline

\* The processes are read.
LEMMA ReadProcessesStep ==
  ASSUME IInv, ReadProcesses
  PROVE  IInv'
<1>1. At("procs", 1) /\ UNCHANGED <<machine, verdict>> /\ Done /\ "procs" \in Surface
  BY DEF ReadProcesses, Surface
<1>2. world.procs.denied \in BOOLEAN
  BY WorldFits DEF IInv, Fits, Part
<1>3. Reported'
  BY <1>2, SurfaceProper, ReportStep DEF IInv, ReadProcesses
<1> QED BY <1>1, <1>3, LookStep DEF IInv

\* The looks at the tool log.
LEMMA LogStep ==
  ASSUME IInv, FindLog \/ LogFacts
  PROVE  IInv'
<1>1. /\ \E n \in {1, 2} : At("log", n)
      /\ UNCHANGED <<machine, verdict>>
      /\ Done \/ LookNext(2)
  BY DEF FindLog, LogFacts
<1>2. "log" \in Surface /\ "log" \in DOMAIN Looks /\ Looks["log"] = 2
  BY DEF Surface, Looks
<1>3. Reported'
  <2>1. CASE UNCHANGED servers
    BY <2>1 DEF IInv, Reported
  <2>2. CASE Report(Surfaced(<<"telemetry">>, FALSE, check_telemetry(FALSE, FALSE, {}, now)))
    BY <2>2, SurfaceProper, ReportStep DEF IInv
  <2>3. CASE LogFacts
    BY <2>3, SurfaceProper, ReportStep DEF IInv, LogFacts
  <2> QED BY <2>1, <2>2, <2>3 DEF FindLog
<1> QED BY <1>1, <1>2, <1>3, LookStep DEF IInv

\* The looks at the broker.
LEMMA ManifestStep ==
  ASSUME IInv, FindManifest \/ ReadManifest \/ ReadChain
  PROVE  IInv'
<1>1. /\ \E n \in {1, 2, 3} : At("manifest", n)
      /\ UNCHANGED <<machine, verdict>>
      /\ Done \/ LookNext(2) \/ LookNext(3)
  BY DEF FindManifest, ReadManifest, ReadChain
<1>2. "manifest" \in Surface /\ "manifest" \in DOMAIN Looks /\ Looks["manifest"] = 3
  BY DEF Surface, Looks
<1>3. Reported'
  <2>1. CASE UNCHANGED servers
    BY <2>1 DEF IInv, Reported
  <2>2. CASE Report(NoBroker(subjects)) \/ Report(ParseError(subjects))
    BY <2>2, BrokerProper, ReportStep DEF IInv
  <2>3. CASE \E m, reason : Report(audit_broker(subjects, m, reason))
    BY <2>3, BrokerProper, ReportStep DEF IInv
  <2> QED BY <2>1, <2>2, <2>3 DEF FindManifest, ReadManifest, ReadChain
<1> QED BY <1>1, <1>2, <1>3, LookStep DEF IInv

\* A closing stage that is done leaves the next one.
LEMMA StageStep ==
  ASSUME IInv, NEW s, s \in DOMAIN Place, At(s, 1), UNCHANGED machine, Done
  PROVE  Timeline' /\ Agenda' /\ Looking' /\ Len(todo) = Place[s] /\ Len(todo') = Place[s] - 1
<1> USE DEF IInv
<1>1. /\ Len(todo) = Place[s] /\ Len(Tail(todo)) = Len(todo) - 1
      /\ LET plan == Plan(scene.inspect)
         IN  \E k \in 0..Len(plan) : Tail(todo) = SubSeq(plan, k + 1, Len(plan))
  BY AtIs
<1>2. Timeline'
  BY DEF Timeline, machine
<1>3. Agenda'
  BY <1>1 DEF Agenda, machine, Done
<1>4. Looking'
  BY DEF Looking, Done, Looks
<1> QED BY <1>1, <1>2, <1>3, <1>4 DEF Done

\* A stage the command ends at.
LEMMA LastStep ==
  ASSUME IInv, NEW s \in {"gate", "alert"}, At(s, 1), UNCHANGED <<machine, look>>, todo' = <<>>
  PROVE  Timeline' /\ Agenda' /\ Looking' /\ Len(todo) = Place[s] /\ Len(todo') = 0
<1> USE DEF IInv
<1>1. Len(todo) = Place[s]
  BY AtIs DEF Place
<1>2. Timeline'
  BY DEF Timeline, machine
<1>3. Agenda'
  <2> DEFINE P == Plan(scene.inspect)
  <2>1. PICK a \in Seq(Wanted(scene.inspect)) : P = a \o Closing
    BY PlanIs
  <2>2. Closing \in Seq(DOMAIN Place)
    BY DEF Closing, Place
  <2>3. PICK U : P \in Seq(U)
    <3> DEFINE V == Wanted(scene.inspect) \cup DOMAIN Place
    <3>1. a \in Seq(V) /\ Closing \in Seq(V)
      BY <2>2
    <3> HIDE DEF V
    <3> QED BY <2>1, <3>1, ConcatProperties
  <2> HIDE DEF P
  <2>4. Len(P) \in 0..Len(P) /\ SubSeq(P, Len(P) + 1, Len(P)) = <<>>
    BY <2>3
  <2> QED BY <2>4 DEF Agenda, machine, P
<1>4. Looking'
  BY DEF Looking
<1> QED BY <1>1, <1>2, <1>3, <1>4

\* The report is assembled.
LEMMA AssembleStep ==
  ASSUME IInv, Assemble
  PROVE  IInv'
<1> USE DEF IInv
<1>1. At("sockets", 1) /\ UNCHANGED machine /\ Done /\ UNCHANGED <<ledger, applied, shielded, exit, alerts>>
  BY DEF Assemble
<1>2. Timeline' /\ Agenda' /\ Looking' /\ Len(todo) = 6 /\ Len(todo') = 5
  <2>1. "sockets" \in DOMAIN Place /\ Place["sockets"] = 6
    BY DEF Place
  <2> HIDE DEF IInv
  <2>2. Timeline' /\ Agenda' /\ Looking' /\ Len(todo) = Place["sockets"] /\ Len(todo') = Place["sockets"] - 1
    BY <1>1, <2>1, StageStep
  <2> QED BY <2>1, <2>2
<1>3. Reported'
  <2>1. world.sockets.partial \in BOOLEAN
    BY WorldFits DEF Fits, Part
  <2> DEFINE Shown == UNION {Surfaced(<<"socket", s>>, world.sockets.partial,
                                      check_socket_exposure(s, Loopback)) : s \in world.sockets.open}
  <2>2. Proper(Shown)
    <3>1. \A s \in world.sockets.open :
            Proper(Surfaced(<<"socket", s>>, world.sockets.partial, check_socket_exposure(s, Loopback)))
      BY <2>1, SurfaceProper
    <3> QED BY <3>1 DEF Proper
  <2> HIDE DEF Shown
  <2>3. Proper(servers \union Shown)
    BY <2>2 DEF Proper, Reported
  <2>4. servers' = assemble_report(servers \union Shown)
    BY DEF Assemble, Shown
  <2> QED BY <2>3, <2>4, AssembleProper DEF Reported
<1>4. grade' \in Grade
  BY GradeType DEF Assemble
<1>5. Staged'
  BY <1>1, <1>2, <1>4 DEF Staged, Grade
<1>6. Verdicts'
  BY <1>1 DEF Verdicts, machine, At
<1> QED BY <1>2, <1>3, <1>5, <1>6

\* The ledger is read, with the day it is read on; a ledger that cannot be ends the command.
LEMMA ReadLedgerStep ==
  ASSUME IInv, ReadLedger
  PROVE  IInv'
<1> USE DEF IInv
<1>1. At("ledger", 1) /\ UNCHANGED machine /\ Done /\ UNCHANGED <<servers, grade, applied, shielded, exit, alerts>>
  BY DEF ReadLedger, found
<1>2. Timeline' /\ Agenda' /\ Looking' /\ Len(todo) = 5 /\ Len(todo') = 4
  <2>1. "ledger" \in DOMAIN Place /\ Place["ledger"] = 5
    BY DEF Place
  <2> HIDE DEF IInv
  <2>2. Timeline' /\ Agenda' /\ Looking' /\ Len(todo) = Place["ledger"] /\ Len(todo') = Place["ledger"] - 1
    BY <1>1, <2>1, StageStep
  <2> QED BY <2>1, <2>2
<1>3. Reported'
  BY <1>1 DEF Reported
<1>4. \E i \in DOMAIN past : ledger' = {e \in EntriesAt(i) : e.whole}
  <2>1. ledger' = {e \in EntriesAt(Len(past)) : e.whole}
    BY DEF ReadLedger, EntriesAt, Timeline
  <2> QED BY <2>1, WorldFits
<1>5. Staged'
  <2>1. past' = past
    BY <1>1 DEF machine
  <2>2. \E i \in DOMAIN past' : ledger' = {e \in EntriesAt(i)' : e.whole}
    BY <1>4, <2>1 DEF EntriesAt
  <2> QED BY <1>1, <1>2, <2>2 DEF Staged
<1>6. Verdicts'
  BY <1>1 DEF Verdicts, machine, At
<1> QED BY <1>2, <1>3, <1>5, <1>6

\* The ledger is applied to the report it was read for.
LEMMA ApplyLedgerStep ==
  ASSUME IInv, ApplyLedger
  PROVE  IInv'
<1> USE DEF IInv
<1>1. At("apply", 1) /\ UNCHANGED machine /\ Done /\ UNCHANGED <<servers, grade, ledger, exit, alerts>>
  BY DEF ApplyLedger, found
<1>2. Timeline' /\ Agenda' /\ Looking' /\ Len(todo) = 4 /\ Len(todo') = 3
  <2>1. "apply" \in DOMAIN Place /\ Place["apply"] = 4
    BY DEF Place
  <2> HIDE DEF IInv
  <2>2. Timeline' /\ Agenda' /\ Looking' /\ Len(todo) = Place["apply"] /\ Len(todo') = Place["apply"] - 1
    BY <1>1, <2>1, StageStep
  <2> QED BY <2>1, <2>2
<1>3. Reported'
  BY <1>1 DEF Reported
<1>4. \E i \in DOMAIN past : applied' = past[i].day
  BY WorldFits DEF ApplyLedger, Timeline
<1>5. shielded' = apply_acceptances(servers', ledger', applied')
  BY <1>1 DEF ApplyLedger
<1>6. past' = past
  BY <1>1 DEF machine
<1>7. Staged'
  <2>1. \E i \in DOMAIN past' : ledger' = {e \in EntriesAt(i)' : e.whole}
    BY <1>1, <1>2, <1>6 DEF Staged, EntriesAt
  <2> QED BY <1>1, <1>2, <1>4, <1>5, <1>6, <2>1 DEF Staged
<1>8. Verdicts'
  BY <1>1 DEF Verdicts, machine, At
<1> QED BY <1>2, <1>3, <1>7, <1>8

\* What the last stages leave as it is.
LEMMA StandsStep ==
  ASSUME IInv, Len(todo) <= 3, Len(todo) \in Nat, Len(todo') <= 3, Len(todo') \in Nat,
         UNCHANGED <<machine, servers, grade, ledger, applied, shielded>>
  PROVE  Reported' /\ Staged' /\ exit_code' = exit_code
<1> USE DEF IInv
<1>1. Reported'
  BY DEF Reported
<1>2. past' = past /\ scene' = scene
  BY DEF machine
<1>3. Staged'
  <2>1. \E i \in DOMAIN past' : ledger' = {e \in EntriesAt(i)' : e.whole}
    BY <1>2 DEF Staged, EntriesAt
  <2> QED BY <1>2, <2>1 DEF Staged
<1>4. exit_code' = exit_code
  BY <1>2 DEF exit_code, Blocking
<1> QED BY <1>1, <1>3, <1>4

\* A command that crashes leaves its plan and its report as they are.
LEMMA CrashStep ==
  ASSUME IInv, exit = "running", Crash,
         UNCHANGED <<machine, servers, grade, ledger, applied, shielded>>,
         \A a \in alerts' : a.sink \in scene.sinks
  PROVE  IInv'
<1> USE DEF IInv
<1>1. UNCHANGED <<todo, look>> /\ exit' = "crash"
  BY DEF Crash
<1>2. past' = past /\ scene' = scene
  BY DEF machine
<1>3. Timeline' /\ Agenda' /\ Looking' /\ Reported'
  BY <1>1, <1>2 DEF Timeline, Agenda, Looking, Reported, machine
<1>4. Staged'
  <2>1. \A i : EntriesAt(i)' = EntriesAt(i)
    BY <1>2 DEF EntriesAt
  <2> QED BY <1>1, <1>2, <2>1 DEF Staged
<1>5. Verdicts'
  BY <1>1, <1>2 DEF Verdicts
<1> QED BY <1>3, <1>4, <1>5

\* A look raises.
LEMMA LookRaisesStep ==
  ASSUME IInv, LookRaises
  PROVE  IInv'
<1>1. exit = "running" /\ Crash /\ UNCHANGED <<machine, servers, grade, ledger, applied, shielded, alerts>>
  BY DEF LookRaises, At, found
<1>2. \A a \in alerts' : a.sink \in scene.sinks
  BY <1>1 DEF IInv, Verdicts
<1> QED BY <1>1, <1>2, CrashStep

\* The reports are written of the findings and what the ledger left open.
LEMMA WriteReportsStep ==
  ASSUME IInv, WriteReports
  PROVE  IInv'
<1>1. At("write", 1) /\ UNCHANGED <<machine, servers, grade, ledger, applied, shielded, alerts>>
  BY DEF WriteReports, found
<1>2. CASE Done /\ UNCHANGED exit
  <2> USE DEF IInv
  <2>1. Timeline' /\ Agenda' /\ Looking' /\ Len(todo) = 3 /\ Len(todo') = 2
    <3>1. "write" \in DOMAIN Place /\ Place["write"] = 3
      BY DEF Place
    <3> HIDE DEF IInv
    <3>2. Timeline' /\ Agenda' /\ Looking' /\ Len(todo) = Place["write"] /\ Len(todo') = Place["write"] - 1
      BY <1>1, <1>2, <3>1, StageStep
    <3> QED BY <3>1, <3>2
  <2>2. Reported' /\ Staged'
    <3> HIDE DEF IInv
    <3> QED BY <1>1, <2>1, StandsStep
  <2>3. Verdicts'
    BY <1>1, <1>2 DEF Verdicts, At
  <2> QED BY <2>1, <2>2, <2>3
<1>3. CASE Crash
  <2>1. \A a \in alerts' : a.sink \in scene.sinks
    BY <1>1 DEF IInv, Verdicts
  <2> QED BY <1>1, <1>3, <2>1, CrashStep DEF At
<1> QED BY <1>2, <1>3 DEF WriteReports

\* The gate decides on the same findings and the same ledger.
LEMMA GateStep ==
  ASSUME IInv, Gate
  PROVE  IInv'
<1> USE DEF IInv
<1>1. At("gate", 1) /\ UNCHANGED <<machine, servers, grade, ledger, applied, shielded, alerts>>
  BY DEF Gate, found
<1>2. /\ Timeline' /\ Agenda' /\ Looking' /\ Len(todo) = 2 /\ Len(todo') \in {0, 1}
      /\ \/ exit' = "running"
         \/ exit' = exit_code /\ todo' = <<>>
  <2>0. "gate" \in DOMAIN Place /\ Place["gate"] = 2
    BY DEF Place
  <2> HIDE DEF IInv
  <2>1. CASE Done /\ UNCHANGED exit
    <3>1. Timeline' /\ Agenda' /\ Looking' /\ Len(todo) = Place["gate"] /\ Len(todo') = Place["gate"] - 1
      BY <1>1, <2>0, <2>1, StageStep
    <3> QED BY <1>1, <2>0, <2>1, <3>1 DEF At
  <2>2. CASE exit' = exit_code /\ todo' = <<>> /\ UNCHANGED look
    <3>1. Timeline' /\ Agenda' /\ Looking' /\ Len(todo) = 2 /\ Len(todo') = 0
      BY <1>1, <2>0, <2>2, LastStep
    <3> QED BY <2>2, <3>1
  <2> QED BY <2>1, <2>2 DEF Gate
<1>3. Reported' /\ Staged' /\ exit_code' = exit_code
  BY <1>1, <1>2, StandsStep
<1>4. exit_code \in {"pass", "fail"}
  BY DEF exit_code
<1>5. alerts = {} /\ alerts' = {}
  BY <1>1 DEF Verdicts, At
<1>6. Verdicts'
  <2> HIDE DEF exit_code
  <2> QED BY <1>2, <1>3, <1>4, <1>5 DEF Verdicts
<1> QED BY <1>2, <1>3, <1>6

\* Each sink is sent what the report says, to the last or to the one that raises.
LEMMA EmitAlertsStep ==
  ASSUME IInv, EmitAlerts
  PROVE  IInv'
<1>1. At("alert", 1) /\ UNCHANGED <<machine, servers, grade, ledger, applied, shielded>>
  BY DEF EmitAlerts, found
<1>2. \A a \in alerts' : a.sink \in scene.sinks /\ (a.gate_failed <=> exit_code = "fail")
  <2>1. \A s : Payload(s).sink = s /\ (Payload(s).gate_failed <=> exit_code = "fail")
    <3> HIDE DEF exit_code
    <3> QED BY DEF Payload
  <2>2. PICK told \in SUBSET scene.sinks : alerts' = {Payload(s) : s \in told}
    BY DEF EmitAlerts, Reached
  <2> QED BY <2>1, <2>2
<1>3. CASE exit' = exit_code /\ todo' = <<>> /\ UNCHANGED look
  <2> USE DEF IInv
  <2>1. Timeline' /\ Agenda' /\ Looking' /\ Len(todo) = 1 /\ Len(todo') = 0
    <3>1. Place["alert"] = 1
      BY DEF Place
    <3> HIDE DEF IInv
    <3> QED BY <1>1, <1>3, <3>1, LastStep
  <2>2. Reported' /\ Staged' /\ exit_code' = exit_code
    BY <1>1, <2>1, StandsStep
  <2>3. exit_code \in {"pass", "fail"}
    BY DEF exit_code
  <2>4. Verdicts'
    <3> HIDE DEF exit_code
    <3> QED BY <1>1, <1>2, <1>3, <2>2, <2>3 DEF Verdicts, machine
  <2> QED BY <2>1, <2>2, <2>4
<1>4. CASE Crash
  BY <1>1, <1>2, <1>4, CrashStep DEF At
<1> QED BY <1>3, <1>4 DEF EmitAlerts

-----------------------------------------------------------------------------
(* The edits.                                                               *)

\* A change of the machine adds a state to the history and changes nothing else.
LEMMA BecomeStep ==
  ASSUME IInv, NEW w, DOMAIN w = Part, Fits(w), Become(w)
  PROVE  IInv'
<1> USE DEF IInv
<1>1. /\ world' = w /\ past' = Append(past, w) /\ edits' = edits + 1 /\ edits < MaxEdits
      /\ UNCHANGED <<scene, todo, look, servers, grade, ledger, applied, shielded, exit, alerts>>
      /\ exit = "running"
  BY DEF Become, found, verdict
<1>2. Len(past) \in Nat /\ DOMAIN past = 1..Len(past)
  BY WorldFits
<1> DEFINE R == Range(past) \cup {w}
<1>3. past \in Seq(R) /\ w \in R
  <2>1. past \in Seq(Range(past))
    BY DEF Timeline
  <2>2. Range(past) \subseteq R
    OBVIOUS
  <2>3. w \in R
    OBVIOUS
  <2> HIDE DEF R
  <2> QED BY <2>1, <2>2, <2>3
<1>4. /\ Append(past, w) \in Seq(R) /\ Len(Append(past, w)) = Len(past) + 1
      /\ DOMAIN Append(past, w) = 1..(Len(past) + 1)
      /\ \A i \in 1..Len(past) : Append(past, w)[i] = past[i]
      /\ Append(past, w)[Len(past) + 1] = w
  <2> HIDE DEF R
  <2> QED BY <1>2, <1>3
<1>5. Range(past') = R
  BY <1>1, <1>2, <1>4 DEF Range
<1>6. Timeline'
  <2>1. edits' \in 0..MaxEdits /\ Len(past') = edits' + 1
    BY <1>1, <1>2, <1>4, BoundsAssumption DEF Timeline
  <2>2. \A i \in DOMAIN past' : DOMAIN past'[i] = Part /\ Fits(past'[i])
    BY <1>1, <1>2, <1>4 DEF Timeline
  <2>3. world' = past'[Len(past')]
    BY <1>1, <1>4
  <2>4. past' \in Seq(Range(past'))
    BY <1>1, <1>4, <1>5
  <2> QED BY <1>1, <2>1, <2>2, <2>3, <2>4 DEF Timeline
<1>7. \A i \in DOMAIN past : i \in DOMAIN past' /\ past'[i] = past[i] /\ EntriesAt(i)' = EntriesAt(i)
  BY <1>1, <1>2, <1>4 DEF EntriesAt
<1>8. Agenda' /\ Looking' /\ Reported'
  BY <1>1 DEF Agenda, Looking, Reported
<1>9. Staged'
  <2>1. Len(todo) <= 4 => \E i \in DOMAIN past' : ledger' = {e \in EntriesAt(i)' : e.whole}
    BY <1>1, <1>7 DEF Staged
  <2>2. Len(todo) <= 3 => \E i \in DOMAIN past' : applied' = past'[i].day
    BY <1>1, <1>7 DEF Staged
  <2> QED BY <1>1, <2>1, <2>2 DEF Staged
<1>10. Verdicts'
  BY <1>1 DEF Verdicts
<1> QED BY <1>6, <1>8, <1>9, <1>10

\* Somebody changes the machine.
LEMMA ChangeStep ==
  ASSUME IInv, Change
  PROVE  IInv'
<1>1. PICK e \in scene.may :
        Become([x \in DOMAIN world |-> IF x \in DOMAIN e THEN e[x] ELSE world[x]])
  BY DEF Change
<1>2. Fits(e) /\ Fits(world) /\ DOMAIN world = Part
  BY WorldFits, SceneAssumption DEF IInv, Timeline
<1> DEFINE w == [x \in DOMAIN world |-> IF x \in DOMAIN e THEN e[x] ELSE world[x]]
<1>3. DOMAIN w = Part /\ \A x \in Part : w[x] = IF x \in DOMAIN e THEN e[x] ELSE world[x]
  BY <1>2
<1> HIDE DEF w
<1>4. Fits(w)
  BY <1>2, <1>3 DEF Fits
<1> QED BY <1>1, <1>3, <1>4, BecomeStep DEF w

\* The broker appends to its chain.
LEMMA BrokerAppendsStep ==
  ASSUME IInv, BrokerAppends
  PROVE  IInv'
<1> DEFINE lines == world.chain.lines
           Line == [id : Int, hash : Int]
<1>1. Fits(world) /\ DOMAIN world = Part /\ "lines" \in DOMAIN world.chain /\ lines \in Seq(Line)
  BY WorldFits DEF IInv, Fits, Part
<1>2. PICK c : c \in Seq(Line) /\ Become([world EXCEPT !.chain.lines = c])
  <2>1. Torn \in Line /\ \A n \in Nat : Record(n) \in Line
    BY DEF Torn, Record
  <2> HIDE DEF Line
  <2>2. Len(lines) \in Nat /\ Append(lines, Torn) \in Seq(Line)
    BY <1>1, <2>1
  <2>3. Len(lines) > 0 => [lines EXCEPT ![Len(lines)] = Record(Len(lines))] \in Seq(Line)
    <3>1. lines \in Seq(Line) /\ Record(Len(lines)) \in Line /\ Len(lines) \in Nat
      BY <1>1, <2>1, <2>2
    <3> HIDE DEF lines
    <3> QED BY <3>1, ExceptSeq
  <2> QED BY <2>2, <2>3 DEF BrokerAppends
<1> DEFINE w == [world EXCEPT !.chain.lines = c]
<1>3. /\ DOMAIN w = Part /\ \A x \in Part \ {"chain"} : w[x] = world[x]
      /\ DOMAIN w.chain = DOMAIN world.chain /\ w.chain.lines = c
  BY <1>1 DEF Part
<1> HIDE DEF w, lines
<1>4. Fits(w)
  BY <1>1, <1>2, <1>3 DEF Fits, Part
<1> QED BY <1>2, <1>3, <1>4, BecomeStep DEF w

\* The broker rewrites its manifest.
LEMMA BrokerRefreshesStep ==
  ASSUME IInv, BrokerRefreshes
  PROVE  IInv'
<1> DEFINE lines == world.chain.lines
           tip == lines[Len(lines)]
           Renewed(e) == [e EXCEPT !.tip = tip.id, !.hash = tip.hash]
           E == {Renewed(e) : e \in world.manifest.m.evidence}
           Evidence == [tip : Int, hash : Int, chained : BOOLEAN]
<1>1. Fits(world) /\ DOMAIN world = Part
  BY WorldFits DEF IInv
<1>2. Become([world EXCEPT !.manifest.m.evidence = E]) /\ world.manifest.status = "ok" /\ lines # <<>>
  BY DEF BrokerRefreshes
<1>3. /\ {"status", "m"} \subseteq DOMAIN world.manifest /\ "evidence" \in DOMAIN world.manifest.m
      /\ world.manifest.m.evidence \subseteq Evidence
      /\ \A d, e \in world.manifest.m.evidence : d = e
      /\ lines \in Seq([id : Int, hash : Int])
  BY <1>1, <1>2 DEF Fits, Part
<1>4. E \subseteq Evidence /\ \A d, e \in E : d = e
  <2>1. tip \in [id : Int, hash : Int]
    <3> DEFINE Line == [id : Int, hash : Int]
    <3>1. lines \in Seq(Line) /\ lines # <<>>
      BY <1>2, <1>3
    <3> HIDE DEF lines, Line
    <3>2. Len(lines) \in 1..Len(lines) /\ lines \in [1..Len(lines) -> Line]
      BY <3>1, EmptySeq, LenProperties
    <3> QED BY <3>2 DEF Line
  <2> HIDE DEF tip
  <2>2. \A e \in Evidence : Renewed(e) \in Evidence
    BY <2>1
  <2> HIDE DEF Renewed, Evidence
  <2> QED BY <1>3, <2>2
<1> HIDE DEF E, lines
<1> DEFINE w == [world EXCEPT !.manifest.m.evidence = E]
<1>5. /\ DOMAIN w = Part /\ \A x \in Part \ {"manifest"} : w[x] = world[x]
      /\ DOMAIN w.manifest = DOMAIN world.manifest /\ w.manifest.status = "ok"
      /\ "evidence" \in DOMAIN w.manifest.m /\ w.manifest.m.evidence = E
  BY <1>1, <1>2, <1>3 DEF Part
<1> HIDE DEF w
<1>6. Fits(w)
  BY <1>1, <1>3, <1>4, <1>5 DEF Fits, Part
<1> QED BY <1>2, <1>5, <1>6, BecomeStep DEF w

\* Stuttering.
LEMMA StutterStep ==
  ASSUME IInv, UNCHANGED vars
  PROVE  IInv'
<1>1. EntriesAt(1)' = EntriesAt(1) /\ \A i : EntriesAt(i)' = EntriesAt(i)
  BY DEF vars, EntriesAt
<1>2. exit_code' = exit_code
  BY DEF vars, exit_code, Blocking
<1>3. Timeline' /\ Agenda' /\ Looking' /\ Reported'
  BY DEF IInv, vars, Timeline, Agenda, Looking, Reported
<1>4. Staged'
  BY <1>1 DEF IInv, vars, Staged
<1>5. Verdicts'
  BY <1>2 DEF IInv, vars, Verdicts
<1> QED BY <1>3, <1>4, <1>5 DEF IInv

\* The invariant holds in every state of every command.
THEOREM Invariance == Spec => []IInv
<1>1. ASSUME IInv, [Next]_vars
      PROVE  IInv'
  <2>1. CASE \E f \in ConfigFile : ReadConfig(f)
    BY <1>1, <2>1, ReadConfigStep
  <2>2. CASE \E f \in ConfigFile \union {"dotenv"} : LookAgain(f)
    BY <1>1, <2>2, LookAgainStep
  <2>3. CASE ReadDotenv \/ DotenvMode \/ DotenvTracked
    BY <1>1, <2>3, DotenvStep
  <2>4. CASE FindStore \/ StoreMode \/ ReadStore
    BY <1>1, <2>4, StoreStep
  <2>5. CASE ReadProcesses
    BY <1>1, <2>5, ReadProcessesStep
  <2>6. CASE FindLog \/ LogFacts
    BY <1>1, <2>6, LogStep
  <2>7. CASE FindManifest \/ ReadManifest \/ ReadChain
    BY <1>1, <2>7, ManifestStep
  <2>8. CASE Assemble
    BY <1>1, <2>8, AssembleStep
  <2>9. CASE ReadLedger
    BY <1>1, <2>9, ReadLedgerStep
  <2>10. CASE ApplyLedger
    BY <1>1, <2>10, ApplyLedgerStep
  <2>11. CASE WriteReports
    BY <1>1, <2>11, WriteReportsStep
  <2>12. CASE Gate
    BY <1>1, <2>12, GateStep
  <2>13. CASE EmitAlerts
    BY <1>1, <2>13, EmitAlertsStep
  <2>14. CASE Change
    BY <1>1, <2>14, ChangeStep
  <2>15. CASE BrokerAppends
    BY <1>1, <2>15, BrokerAppendsStep
  <2>16. CASE BrokerRefreshes
    BY <1>1, <2>16, BrokerRefreshesStep
  <2>17. CASE LookRaises
    BY <1>1, <2>17, LookRaisesStep
  <2>18. CASE UNCHANGED vars
    BY <1>1, <2>18, StutterStep
  <2> QED BY <1>1, <2>1, <2>2, <2>3, <2>4, <2>5, <2>6, <2>7, <2>8, <2>9, <2>10, <2>11, <2>12,
             <2>13, <2>14, <2>15, <2>16, <2>17, <2>18 DEF Next, Step, Edit, Ended
<1> QED BY Initialization, <1>1, PTL DEF Spec

-----------------------------------------------------------------------------
(* What the invariant says.                                                 *)

\* What is left of a plan is a suffix of it.
LEMMA SuffixIs ==
  ASSUME NEW S, NEW p \in Seq(S), NEW k \in 0..Len(p)
  PROVE  IsSuffix(SubSeq(p, k + 1, Len(p)), p)
<1> DEFINE n == Len(p)
           t == SubSeq(p, k + 1, n)
           m == n - k
<1>1. n \in Nat /\ m \in 0..n
  OBVIOUS
<1>2. t \in Seq(S) /\ Len(t) = m /\ \A i \in 1..m : t[i] = p[k + i]
  OBVIOUS
<1>3. \A i \in 1..m : (m - i) + 1 \in 1..m /\ k + ((m - i) + 1) = (n - i) + 1 /\ (n - i) + 1 \in 1..n
  OBVIOUS
<1> HIDE DEF n, t, m
<1>4. Reverse(t) \in Seq(S) /\ Len(Reverse(t)) = m /\ \A i \in 1..m : Reverse(t)[i] = p[(n - i) + 1]
  <2>1. \A i \in 1..m : t[(m - i) + 1] = p[(n - i) + 1] /\ p[(n - i) + 1] \in S
    <3>1. \A i \in 1..n : p[i] \in S
      BY DEF n
    <3> QED BY <1>2, <1>3, <3>1
  <2>2. Reverse(t) = [i \in 1..m |-> t[(m - i) + 1]]
    BY <1>2 DEF Reverse
  <2>3. Reverse(t) = [i \in 1..m |-> p[(n - i) + 1]]
    BY <2>1, <2>2
  <2> QED BY <1>1, <2>1, <2>3
<1>5. Reverse(p) \in Seq(S) /\ Len(Reverse(p)) = n /\ \A i \in 1..n : Reverse(p)[i] = p[(n - i) + 1]
  <2>1. \A i \in 1..n : (n - i) + 1 \in 1..n
    BY <1>1
  <2>2. \A i \in 1..n : p[i] \in S
    BY DEF n
  <2> QED BY <1>1, <2>1, <2>2 DEF Reverse, n
<1>6. SubSeq(Reverse(t), 1, m) = SubSeq(Reverse(p), 1, m)
  <2> DEFINE u == Reverse(t)
             q == Reverse(p)
  <2>1. u \in Seq(S) /\ q \in Seq(S) /\ Len(u) = m /\ Len(q) = n /\ \A i \in 1..m : u[i] = q[i]
    <3>1. \A i \in 1..m : i \in 1..n
      BY <1>1
    <3>2. \A i \in 1..m : u[i] = p[(n - i) + 1]
      BY <1>4
    <3>3. \A i \in 1..n : q[i] = p[(n - i) + 1]
      BY <1>5
    <3>4. u \in Seq(S) /\ Len(u) = m
      BY <1>4
    <3>5. q \in Seq(S) /\ Len(q) = n
      BY <1>5
    <3> HIDE DEF u, q
    <3> QED BY <3>1, <3>2, <3>3, <3>4, <3>5
  <2> HIDE DEF u, q
  <2>2. /\ SubSeq(u, 1, m) \in Seq(S) /\ SubSeq(q, 1, m) \in Seq(S)
        /\ Len(SubSeq(u, 1, m)) = m /\ Len(SubSeq(q, 1, m)) = m
        /\ \A i \in 1..m : SubSeq(u, 1, m)[i] = u[i] /\ SubSeq(q, 1, m)[i] = q[i]
    BY <1>1, <2>1
  <2>3. SubSeq(u, 1, m) = SubSeq(q, 1, m)
    BY <2>1, <2>2, SeqEqual
  <2> QED BY <2>3 DEF u, q
<1> QED BY <1>1, <1>4, <1>5, <1>6 DEF IsSuffix, IsPrefix, t, n

\* How far the command is.
LEMMA LeftCounts ==
  ASSUME IInv
  PROVE  Len(todo) \in Nat /\ IsSuffix(todo, Plan(scene.inspect))
<1> DEFINE P == Plan(scene.inspect)
<1>1. PICK k \in 0..Len(P) : todo = SubSeq(P, k + 1, Len(P))
  BY DEF IInv, Agenda
<1>2. Len(todo) \in Nat
  BY <1>1, LeftIs DEF Left
<1>3. PICK a \in Seq(Wanted(scene.inspect)) : P = a \o Closing
  BY PlanIs
<1>4. PICK U : P \in Seq(U)
  <2> DEFINE V == Wanted(scene.inspect) \cup DOMAIN Place
  <2>1. a \in Seq(V) /\ Closing \in Seq(V)
    BY DEF Closing, Place
  <2> HIDE DEF V
  <2> QED BY <1>3, <2>1, ConcatProperties
<1> HIDE DEF P
<1>5. IsSuffix(todo, P)
  BY <1>1, <1>4, SuffixIs
<1> QED BY <1>2, <1>5 DEF P

\* What is shielded is in the report.
LEMMA ShieldedIs ==
  ASSUME NEW reported, NEW entries, NEW today
  PROVE  /\ apply_acceptances(reported, entries, today) \subseteq Pairs(reported)
         /\ \A s \in reported : \A f \in s.findings :
              /\ f.dimension = "tool_scope"
              /\ \E e \in entries : /\ e.finding = f.id
                                    /\ server_matches(s.id, e.server)
                                    /\ ~acceptance_expired(e, today)
              => <<s.id, f>> \in apply_acceptances(reported, entries, today)
         /\ \A r \in apply_acceptances(reported, entries, today) :
              /\ r[2].dimension = "tool_scope"
              /\ \E e \in entries : /\ e.finding = r[2].id
                                    /\ server_matches(r[1], e.server)
                                    /\ ~acceptance_expired(e, today)
BY DEF apply_acceptances, Pairs

\* A sequence of two is told by its two elements.
LEMMA PairIs ==
  ASSUME NEW S, NEW s \in Seq(S), Len(s) = 2, NEW x, NEW y, s[1] = x, s[2] = y
  PROVE  s = <<x, y>>
OBVIOUS

\* An entry owns what it names, and names what it owns.
LEMMA OwnsIs ==
  ASSUME NEW e, e.server \in Seq(STRING), e.whole, NEW id, NEW f, f.dimension = "tool_scope"
  PROVE  Owns(e, id, f) <=> e.finding = f.id /\ server_matches(id, e.server)
<1> DEFINE server == e.server
<1>1. server \in Seq(STRING)
  OBVIOUS
<1>2. \A x : server = <<"#", x>> <=> Len(server) = 2 /\ server[1] = "#" /\ server[2] = x
  <2> HIDE DEF server
  <2>1. ASSUME NEW x, Len(server) = 2, server[1] = "#", server[2] = x
        PROVE  server = <<"#", x>>
    <3> DEFINE mark == "#"
    <3>1. server[1] = mark /\ server[2] = x /\ Len(server) = 2
      BY <2>1
    <3> HIDE DEF mark
    <3>2. server = <<mark, x>>
      BY <1>1, <3>1, PairIs
    <3> QED BY <3>2 DEF mark
  <2>2. ASSUME NEW x, server = <<"#", x>>
        PROVE  Len(server) = 2 /\ server[1] = "#" /\ server[2] = x
    BY <2>2
  <2> QED BY <2>1, <2>2
<1> HIDE DEF server
<1>3. Owns(e, id, f) <=>
        /\ e.finding = f.id
        /\ \/ server = id
           \/ id[1] = "declared" /\ \E n \in Endings[id[3]] : server = <<"#", n>>
           \/ id[1] = "permissions" /\ server = <<"#", "permissions">>
  BY DEF Owns, server
<1>4. server_matches(id, server) <=>
        \/ server = id
        \/ id[1] = "declared" /\ \E n \in Endings[id[3]] : server = <<"#", n>>
        \/ id[1] = "permissions" /\ server = <<"#", "permissions">>
  BY <1>2 DEF server_matches
<1> QED BY <1>3, <1>4 DEF server

\* The findings a gate fails on are those at or above its threshold.
LEMMA BlockingIs ==
  ASSUME IInv
  PROVE  \A r \in Pairs(servers) : r \in Blocking <=> weight[r[2].severity] >= weight[scene.failOn]
<1>1. scene.failOn \in Severity \ {"info"}
  BY SceneAssumption DEF IInv, Timeline
<1>2. \A s \in servers : \A f \in s.findings : f.severity \in Severity
  <2>1. \A rule \in DOMAIN Rule : Rule[rule].severity \in Severity
    BY Rules DEF Tabled
  <2> QED BY <2>1 DEF IInv, Reported, Proper, Graded
<1>3. \A v \in Severity : v \in blocking(scene.failOn) <=> weight[v] >= weight[scene.failOn]
  BY <1>1 DEF blocking, Severity, weight
<1> QED BY <1>2, <1>3 DEF Pairs, Blocking

\* The type invariant holds.
THEOREM TypeCorrect == Spec => []TypeOK
<1>1. IInv => TypeOK
  <2> SUFFICES ASSUME IInv PROVE TypeOK
    OBVIOUS
  <2>1. Len(todo) \in Nat /\ IsSuffix(todo, Plan(scene.inspect))
    BY LeftCounts
  <2>2. applied \in {-1} \union {past[i].day : i \in DOMAIN past}
    BY <2>1 DEF IInv, Staged
  <2>3. shielded \subseteq Pairs(servers)
    BY <2>1, ShieldedIs DEF IInv, Staged
  <2>4. \A s \in servers : s.incomplete \in BOOLEAN /\ \A f \in s.findings : f.id \in DOMAIN Rule
    BY DEF IInv, Reported, Proper, Graded
  <2> QED BY <2>1, <2>2, <2>3, <2>4 DEF IInv, Timeline, Looking, Staged, Verdicts, TypeOK
<1> QED BY <1>1, Invariance, PTL

\* A gate that passes has an owner for every finding at or above its threshold
\* (cli._gate with acceptance.apply_acceptances), and no alert tells another verdict
\* than the exit code of a command that does not crash.
THEOREM GateIsOwned == Spec => []VerdictIsOwned
<1>1. IInv => VerdictIsOwned
  <2> SUFFICES ASSUME IInv PROVE VerdictIsOwned
    OBVIOUS
  <2>1. ASSUME exit = "pass", NEW r \in Pairs(servers), weight[r[2].severity] >= weight[scene.failOn]
        PROVE  \E i \in DOMAIN past : \E e \in EntriesAt(i) : Owns(e, r[1], r[2]) /\ applied <= e.expires
    <3>1. todo = <<>> /\ Len(todo) = 0 /\ Blocking \subseteq shielded
      BY <2>1 DEF IInv, Verdicts, exit_code
    <3>2. r \in shielded
      BY <2>1, <3>1, BlockingIs
    <3>3. PICK e \in ledger : /\ r[2].dimension = "tool_scope" /\ e.finding = r[2].id
                              /\ server_matches(r[1], e.server)
                              /\ ~acceptance_expired(e, applied)
      BY <3>1, <3>2, ShieldedIs DEF IInv, Staged
    <3>4. PICK i \in DOMAIN past : e \in EntriesAt(i) /\ e.whole
      BY <3>1, <3>3 DEF IInv, Staged
    <3>5. e.server \in Seq(STRING) /\ e.expires \in Nat
      BY <3>4 DEF EntriesAt, IInv, Timeline, Fits, Part
    <3>6. applied \in Nat
      BY <3>1 DEF IInv, Staged, Timeline, Fits, Part
    <3>7. applied <= e.expires
      BY <3>3, <3>5, <3>6 DEF acceptance_expired
    <3>8. Owns(e, r[1], r[2])
      BY <3>3, <3>4, <3>5, OwnsIs
    <3> QED BY <3>4, <3>7, <3>8
  <2>2. exit # "crash" => \A a \in alerts : a.gate_failed <=> exit = "fail"
    BY DEF IInv, Verdicts
  <2> QED BY <2>1, <2>2 DEF VerdictIsOwned
<1> QED BY <1>1, Invariance, PTL

\* A gate that fails has a finding that nobody owned throughout (cli._gate: a
\* lapsed entry does not hide the renewal beside it).
THEOREM OwnersPass == Spec => []OwnedRiskPasses
<1>1. IInv => OwnedRiskPasses
  <2> SUFFICES ASSUME IInv, exit = "fail"
               PROVE  \E r \in Pairs(servers) :
                        /\ weight[r[2].severity] >= weight[scene.failOn]
                        /\ ~\E e \in EntriesAt(1) :
                             /\ Owns(e, r[1], r[2])
                             /\ \A i \in DOMAIN past : e \in EntriesAt(i) /\ past[i].day <= e.expires
    BY DEF OwnedRiskPasses
  <2>1. todo = <<>> /\ Len(todo) = 0 /\ ~(Blocking \subseteq shielded)
    BY DEF IInv, Verdicts, exit_code
  <2>2. PICK s \in servers : \E f \in s.findings : <<s.id, f>> \in Blocking \ shielded
    BY <2>1 DEF Blocking
  <2>3. PICK f \in s.findings : <<s.id, f>> \in Blocking \ shielded
    BY <2>2
  <2>4. <<s.id, f>> \in Pairs(servers)
    BY DEF Pairs
  <2>5. ASSUME NEW e \in EntriesAt(1), Owns(e, s.id, f),
               \A i \in DOMAIN past : e \in EntriesAt(i) /\ past[i].day <= e.expires
        PROVE  FALSE
    <3>1. PICK k \in DOMAIN past : ledger = {d \in EntriesAt(k) : d.whole}
      BY <2>1 DEF IInv, Staged
    <3>2. PICK j \in DOMAIN past : applied = past[j].day
      BY <2>1 DEF IInv, Staged
    <3>3. e \in ledger /\ f.dimension = "tool_scope" /\ e.whole
      BY <2>5, <3>1 DEF Owns
    <3>4. e.server \in Seq(STRING) /\ e.expires \in Nat /\ past[j].day \in Nat
      BY <2>5, <3>1 DEF EntriesAt, IInv, Timeline, Fits, Part
    <3>5. ~acceptance_expired(e, applied)
      BY <2>5, <3>2, <3>4 DEF acceptance_expired
    <3>6. e.finding = f.id /\ server_matches(s.id, e.server)
      BY <2>5, <3>3, <3>4, OwnsIs
    <3>7. <<s.id, f>> \in apply_acceptances(servers, ledger, applied)
      BY <3>3, <3>5, <3>6, ShieldedIs
    <3> QED BY <2>1, <2>3, <3>7 DEF IInv, Staged
  <2>6. weight[f.severity] >= weight[scene.failOn]
    BY <2>3, <2>4, BlockingIs
  <2> DEFINE r == <<s.id, f>>
  <2>7. r[1] = s.id /\ r[2] = f
    OBVIOUS
  <2> QED BY <2>4, <2>5, <2>6, <2>7
<1> QED BY <1>1, Invariance, PTL
=============================================================================
