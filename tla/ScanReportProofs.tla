-------------------------- MODULE ScanReportProofs --------------------------
(***************************************************************************)
(* Proof that a report invents nothing and leaves nothing out.  Every      *)
(* finding of a scan was true of the machine at instants of the command,   *)
(* in the order of the looks; a risk that stood from the first look to the *)
(* report is told, and graded; evidence that passes was borne out by the   *)
(* broker's chain while its manifest was in place.                         *)
(***************************************************************************)
EXTENDS ScanRunProofs, WellFoundedInduction

-----------------------------------------------------------------------------
(* The inductive invariant.                                                 *)

\* A server declared by a config that was read at an instant up to j.
SeenBy(history, s, j) ==
  \E i \in 1..j : \E f \in ConfigFile :
    /\ history[i][f].status = "ok"
    /\ \E n \in DOMAIN history[i][f].servers :
         s = [id |-> <<"declared", f, n>>, decl |-> history[i][f].servers[n]]

Declared == \A s \in subjects : SeenBy(past, s, Len(past))

\* What the earlier looks at a surface stand for.
Memory ==
  /\ DOMAIN held = DOMAIN Nothing
  /\ \A f \in {"user", "project", "dotenv"} :
       At(f, 2) => \E i \in DOMAIN past : ~Readable(past[i][f])
  /\ At("dotenv", 3) =>
       \E i \in DOMAIN past : There(past[i].dotenv) /\ held.secrets = past[i].dotenv.secrets
  /\ At("dotenv", 4) =>
       \E j \in DOMAIN past : \E i \in 1..j :
         /\ There(past[i].dotenv) /\ held.secrets = past[i].dotenv.secrets
         /\ held.open => past[j].dotenv_open
  /\ At("store", 3) /\ held.open =>
       \E i \in DOMAIN past : There(past[i].store) /\ past[i].store_open
  /\ At("manifest", 2) => \E i \in DOMAIN past : There(past[i].manifest)
  /\ At("manifest", 3) =>
       \E j \in DOMAIN past :
         /\ held.manifest = past[j].manifest
         /\ past[j].manifest.status = "ok" /\ Checkable(past[j].manifest.m) # {}
         /\ \A s \in subjects : SeenBy(past, s, j)

\* Reuse is found when the report is assembled, and not before.
Groundings ==
  \A s \in servers : \A f \in s.findings :
    Grounded(s.id, f) /\ (Len(todo) > 5 => f.id # "CRED_REUSE")

Known == Declared /\ Memory /\ Groundings

\* New servers a look may report.
Grounds(new) == \A s \in new : \A f \in s.findings : f.id # "CRED_REUSE" /\ Grounded(s.id, f)

-----------------------------------------------------------------------------
(* Which looks bear a finding out.                                          *)

\* The rules one look is enough for.
Plainly ==
  DOMAIN Rule \ ({"CONFIG_UNREADABLE", "BROKER_PARSE_ERROR", "CRED_REUSE"} \union DOMAIN Later)

\* The findings of a report, told by the server they are reported of.
LEMMA PairsIs ==
  ASSUME NEW reported, NEW id, NEW f
  PROVE  <<id, f>> \in Pairs(reported) <=> \E s \in reported : s.id = id /\ f \in s.findings
<1>1. ASSUME <<id, f>> \in Pairs(reported)
      PROVE  \E s \in reported : s.id = id /\ f \in s.findings
  <2>1. PICK s \in reported : <<id, f>> \in {<<s.id, g>> : g \in s.findings}
    BY <1>1 DEF Pairs
  <2> QED BY <2>1
<1>2. ASSUME NEW s \in reported, s.id = id, f \in s.findings
      PROVE  <<id, f>> \in Pairs(reported)
  BY <1>2 DEF Pairs
<1> QED BY <1>1, <1>2

\* No rule is borne out in two ways.
LEMMA RulesApart ==
  /\ \A rule \in Plainly : /\ rule # "CRED_REUSE" /\ rule # "CONFIG_UNREADABLE"
                           /\ rule # "BROKER_PARSE_ERROR" /\ rule \notin DOMAIN Later
  /\ \A rule \in DOMAIN Later : /\ rule # "CRED_REUSE" /\ rule # "CONFIG_UNREADABLE"
                                /\ rule # "BROKER_PARSE_ERROR"
  /\ DOMAIN Later = {"CRED_PERMS", "CRED_GIT", "BROKER_ABSENT", "BROKER_MANIFEST_UNVERIFIED",
                     "BROKER_EVIDENCE_MISMATCH"}
  /\ {"CRED_PLAINTEXT", "CRED_ENV", "TOKEN_STORE_PERMS", "TOKEN_STORE_EXPIRED", "PIN_UNPINNED",
      "SCOPE_DANGEROUS_AUTOAPPROVE", "SCOPE_AUTOAPPROVE_WILDCARD", "SCOPE_DANGEROUS_ALLOW",
      "SCOPE_WILDCARD", "TOOL_HIDDEN_UNICODE", "TOOL_INJECTION_TEXT", "TELEMETRY_ABSENT",
      "TELEMETRY_PERMS", "TELEMETRY_STALE", "LISTENER_OBSERVED", "BROKER_EVIDENCE_MISSING",
      "BROKER_NO_AUDIT", "BROKER_ALLOWLIST_PERMISSIVE"} \subseteq Plainly
BY Rules DEF Plainly, Later

\* A risk of one instant grounds a finding one look is enough for.
LEMMA OneLook ==
  ASSUME NEW i \in DOMAIN past, DOMAIN past = 1..Len(past), Len(past) \in Nat,
         NEW id, NEW f, f.id \in Plainly,
         <<id, f>> \in Pairs(Instant(scene.inspect, now, past[i]))
  PROVE  Grounded(id, f) /\ f.id # "CRED_REUSE"
<1>1. Bears(scene.inspect, now, past[i], past[i], id, f)
  BY RulesApart DEF Bears
<1>2. i \in 1..i
  OBVIOUS
<1> QED BY <1>1, <1>2, RulesApart DEF Grounded

\* A risk of two instants grounds one that joins two looks.
LEMMA TwoLooks ==
  ASSUME NEW j \in DOMAIN past, NEW i \in 1..j, NEW id, NEW f, f.id \in DOMAIN Later,
         <<id, f>> \in Pairs(Instant(scene.inspect, now, Mixed(past[i], past[j], Later[f.id])))
  PROVE  Grounded(id, f) /\ f.id # "CRED_REUSE"
<1>1. Bears(scene.inspect, now, past[i], past[j], id, f)
  BY RulesApart DEF Bears
<1> QED BY <1>1, RulesApart DEF Grounded

\* A machine put together from two has every surface of one or the other.
LEMMA MixedIs ==
  ASSUME NEW v, NEW w, NEW later, DOMAIN v = Part
  PROVE  /\ DOMAIN Mixed(v, w, later) = Part
         /\ \A x \in Part : Mixed(v, w, later)[x] = IF x \in later THEN w[x] ELSE v[x]
BY DEF Mixed

\* What a finding of a check is.
LEMMA WhenIs ==
  ASSUME NEW holds, NEW rule, NEW at, NEW f
  PROVE  f \in When(holds, rule, at) <=> holds /\ f = Finding(rule, at)
BY DEF When

\* What a finding is of.
LEMMA FindingIs ==
  ASSUME NEW rule, NEW at, NEW secret
  PROVE  Finding(rule, at).id = rule /\ Secretly(rule, at, secret).id = rule
         /\ Secretly(rule, at, secret).secret = secret
BY DEF Finding, Secretly

\* A surface with nothing to say is no server.
LEMMA SurfacedIs ==
  ASSUME NEW id, NEW incomplete, NEW findings
  PROVE  /\ \A s \in Surfaced(id, incomplete, findings) : s.id = id /\ s.findings = findings
         /\ \A f : <<id, f>> \in Pairs(Surfaced(id, incomplete, findings)) <=> f \in findings
<1>1. \A s \in Surfaced(id, incomplete, findings) : s.id = id /\ s.findings = findings
  BY DEF Surfaced, Server
<1>2. ASSUME NEW f \in findings
      PROVE  \E s \in Surfaced(id, incomplete, findings) : s.id = id /\ f \in s.findings
  BY <1>2 DEF Surfaced, Server
<1> QED BY <1>1, <1>2, PairsIs

\* The parts of an instant.
LEMMA InstantHas ==
  ASSUME NEW inspect, NEW day, NEW w
  PROVE  /\ Pairs(OfConfigs(w)) \subseteq Pairs(Instant(inspect, day, w))
         /\ Pairs(OfDotenv(w)) \subseteq Pairs(Instant(inspect, day, w))
         /\ Pairs(OfSockets(w)) \subseteq Pairs(Instant(inspect, day, w))
         /\ "token_stores" \in inspect => Pairs(OfStore(day, w)) \subseteq Pairs(Instant(inspect, day, w))
         /\ "process_env" \in inspect =>
              Pairs(audit_process_envs(w.procs.env, w.procs.denied)) \subseteq Pairs(Instant(inspect, day, w))
         /\ "telemetry" \in inspect => Pairs(OfLog(day, w)) \subseteq Pairs(Instant(inspect, day, w))
         /\ "broker" \in inspect => Pairs(OfBroker(w)) \subseteq Pairs(Instant(inspect, day, w))
<1>1. ASSUME NEW X, NEW Y, X \subseteq Y
      PROVE  Pairs(X) \subseteq Pairs(Y)
  BY <1>1 DEF Pairs
<1> QED BY <1>1 DEF Instant

-----------------------------------------------------------------------------
(* What each look reports, it saw.                                          *)

\* The history is not empty, and ends with the machine.
LEMMA Latest ==
  ASSUME IInv
  PROVE  /\ Len(past) \in Nat /\ DOMAIN past = 1..Len(past) /\ Len(past) \in 1..Len(past)
         /\ past[Len(past)] = world
         /\ \A i \in DOMAIN past : DOMAIN past[i] = Part /\ Fits(past[i])
BY WorldFits DEF IInv, Timeline

\* The findings of a config that was read hold of the machine as it was read.
LEMMA ConfigGrounds ==
  ASSUME IInv, NEW f \in ConfigFile, world[f].status = "ok"
  PROVE  Grounds(audit_config(f, world[f]))
<1> DEFINE w == past[Len(past)]
           A == audit_config(f, world[f])
<1>1. ASSUME NEW cfg
      PROVE  \A s \in audit_config(f, cfg) : \A g \in s.findings : g.id \in Plainly
  <2>1. ASSUME NEW n \in DOMAIN cfg.servers
        PROVE  \A g \in check_server_env(cfg.servers[n], f)
                          \union check_server_auto_approve(cfg.servers[n], f)
                          \union check_server_pinning(cfg.servers[n], f)
                          \union check_tool_integrity(cfg.servers[n], f) : g.id \in Plainly
    BY RulesApart, WhenIs, FindingIs
       DEF check_server_env, check_server_auto_approve, check_server_pinning, check_tool_integrity
  <2>2. \A g \in check_permissions(cfg.allow, f) : g.id \in Plainly
    BY RulesApart, WhenIs, FindingIs DEF check_permissions
  <2>3. \A s \in Surfaced(<<"permissions", f>>, FALSE, check_permissions(cfg.allow, f)) :
          \A g \in s.findings : g.id \in Plainly
    BY <2>2 DEF Surfaced, Server
  <2> DEFINE D(n) == check_server_env(cfg.servers[n], f)
                       \union check_server_auto_approve(cfg.servers[n], f)
                       \union check_server_pinning(cfg.servers[n], f)
                       \union check_tool_integrity(cfg.servers[n], f)
  <2>4. audit_config(f, cfg) = {Server(<<"declared", f, n>>, FALSE, D(n)) : n \in DOMAIN cfg.servers}
                                 \union Surfaced(<<"permissions", f>>, FALSE, check_permissions(cfg.allow, f))
    BY DEF audit_config
  <2>5. \A n \in DOMAIN cfg.servers : \A g \in D(n) : g.id \in Plainly
    BY <2>1
  <2>6. \A n \in DOMAIN cfg.servers : \A g \in Server(<<"declared", f, n>>, FALSE, D(n)).findings : g.id \in Plainly
    <3> HIDE DEF D
    <3> QED BY <2>5 DEF Server
  <2>7. ASSUME NEW s \in {Server(<<"declared", f, n>>, FALSE, D(n)) : n \in DOMAIN cfg.servers}
        PROVE  \A g \in s.findings : g.id \in Plainly
    <3> HIDE DEF D
    <3> QED BY <2>6
  <2> HIDE DEF D
  <2> QED BY <2>3, <2>4, <2>7
<1>2. A \subseteq OfConfigs(w)
  BY Latest DEF OfConfigs, Legible
<1>3. ASSUME NEW s \in A, NEW g \in s.findings
      PROVE  g.id # "CRED_REUSE" /\ Grounded(s.id, g)
  <2>1. <<s.id, g>> \in Pairs(OfConfigs(w))
    BY <1>2, PairsIs
  <2>2. <<s.id, g>> \in Pairs(Instant(scene.inspect, now, w))
    BY <2>1, InstantHas
  <2>3. g.id \in Plainly
    BY <1>1
  <2> QED BY <2>2, <2>3, Latest, OneLook
<1> QED BY <1>3 DEF Grounds

\* A config is called unreadable when it was malformed, or missed by the read and there at the second look.
LEMMA UnreadableGrounds ==
  ASSUME NEW j \in DOMAIN past, NEW i \in 1..j, NEW f,
         \/ past[i][f].status = "malformed"
         \/ past[i][f].status \in {"absent", "refused"} /\ There(past[j][f])
  PROVE  Grounds({config_failure_server(f)})
<1> DEFINE g == Finding("CONFIG_UNREADABLE", <<f>>)
           id == <<"config", f>>
<1>1. id[2] = f /\ g.id = "CONFIG_UNREADABLE"
  BY FindingIs
<1>2. config_failure_server(f).id = id /\ config_failure_server(f).findings = {g}
  BY DEF config_failure_server, Server
<1> HIDE DEF g, id
<1>3. Bears(scene.inspect, now, past[i], past[j], id, g)
  BY <1>1, RulesApart DEF Bears
<1>4. Grounded(id, g) /\ g.id # "CRED_REUSE"
  BY <1>1, <1>3 DEF Grounded
<1> QED BY <1>2, <1>4 DEF Grounds

\* The .env file: its text seen at i, its mode at j, its git status now.
LEMMA DotenvGrounds ==
  ASSUME IInv, NEW j \in DOMAIN past, NEW i \in 1..j, NEW secrets, NEW open,
         There(past[i].dotenv), secrets = past[i].dotenv.secrets, open => past[j].dotenv_open
  PROVE  Grounds({audit_env_file(secrets, open, world.dotenv_tracked)})
<1> DEFINE F == {Secretly("CRED_PLAINTEXT", <<"dotenv">>, k) : k \in secrets}
                  \union check_secret_at_rest(secrets, open, world.dotenv_tracked)
           k == Len(past)
<1>0. /\ k \in Nat /\ DOMAIN past = 1..k /\ past[k] = world /\ k \in DOMAIN past
      /\ i \in DOMAIN past /\ i \in 1..k /\ DOMAIN past[i] = Part
  BY Latest
<1>1. audit_env_file(secrets, open, world.dotenv_tracked).id = <<"dotenv">>
      /\ audit_env_file(secrets, open, world.dotenv_tracked).findings = F
  BY DEF audit_env_file, Server
<1>2. ASSUME NEW v, There(v.dotenv), NEW g,
             g \in {Secretly("CRED_PLAINTEXT", <<"dotenv">>, x) : x \in v.dotenv.secrets}
                     \union check_secret_at_rest(v.dotenv.secrets, v.dotenv_open, v.dotenv_tracked)
      PROVE  <<<<"dotenv">>, g>> \in Pairs(Instant(scene.inspect, now, v))
  <2>1. <<<<"dotenv">>, g>> \in Pairs(OfDotenv(v))
    <3>1. OfDotenv(v) = {audit_env_file(v.dotenv.secrets, v.dotenv_open, v.dotenv_tracked)}
      BY <1>2 DEF OfDotenv
    <3>2. audit_env_file(v.dotenv.secrets, v.dotenv_open, v.dotenv_tracked).id = <<"dotenv">>
          /\ g \in audit_env_file(v.dotenv.secrets, v.dotenv_open, v.dotenv_tracked).findings
      BY <1>2 DEF audit_env_file, Server
    <3> QED BY <3>1, <3>2, PairsIs
  <2> QED BY <2>1, InstantHas
<1>3. ASSUME NEW x \in secrets
      PROVE  LET g == Secretly("CRED_PLAINTEXT", <<"dotenv">>, x)
             IN  Grounded(<<"dotenv">>, g) /\ g.id # "CRED_REUSE"
  <2> DEFINE g == Secretly("CRED_PLAINTEXT", <<"dotenv">>, x)
  <2>1. g.id \in Plainly
    BY FindingIs, RulesApart
  <2>2. <<<<"dotenv">>, g>> \in Pairs(Instant(scene.inspect, now, past[i]))
    BY <1>2
  <2> HIDE DEF g
  <2>3. Grounded(<<"dotenv">>, g) /\ g.id # "CRED_REUSE"
    BY <1>0, <2>1, <2>2, OneLook
  <2> QED BY <2>3 DEF g
<1>4. ASSUME secrets # {}, open
      PROVE  LET g == Finding("CRED_PERMS", <<"dotenv">>)
             IN  Grounded(<<"dotenv">>, g) /\ g.id # "CRED_REUSE"
  <2> DEFINE g == Finding("CRED_PERMS", <<"dotenv">>)
             v == Mixed(past[i], past[j], Later["CRED_PERMS"])
  <2>1. g.id = "CRED_PERMS" /\ g.id \in DOMAIN Later
    BY FindingIs, RulesApart
  <2>2. v.dotenv = past[i].dotenv /\ v.dotenv_open = past[j].dotenv_open
    <3>1. Later["CRED_PERMS"] = {"dotenv_open"} /\ {"dotenv", "dotenv_open"} \subseteq Part
      BY DEF Later, Part
    <3> QED BY <1>0, <3>1, MixedIs
  <2>3. g \in check_secret_at_rest(v.dotenv.secrets, v.dotenv_open, v.dotenv_tracked)
    BY <1>4, <2>2 DEF check_secret_at_rest, When
  <2>4. There(v.dotenv)
    BY <2>2
  <2> HIDE DEF g, v
  <2>5. <<<<"dotenv">>, g>> \in Pairs(Instant(scene.inspect, now, v))
    BY <1>2, <2>3, <2>4
  <2>6. Grounded(<<"dotenv">>, g) /\ g.id # "CRED_REUSE"
    BY <2>1, <2>5, TwoLooks DEF v
  <2> QED BY <2>6 DEF g
<1>5. ASSUME secrets # {}, world.dotenv_tracked
      PROVE  LET g == Finding("CRED_GIT", <<"dotenv">>)
             IN  Grounded(<<"dotenv">>, g) /\ g.id # "CRED_REUSE"
  <2> DEFINE g == Finding("CRED_GIT", <<"dotenv">>)
             v == Mixed(past[i], past[k], Later["CRED_GIT"])
  <2>1. g.id = "CRED_GIT" /\ g.id \in DOMAIN Later
    BY FindingIs, RulesApart
  <2>2. v.dotenv = past[i].dotenv /\ v.dotenv_tracked = past[k].dotenv_tracked
    <3>1. Later["CRED_GIT"] = {"dotenv_tracked"} /\ {"dotenv", "dotenv_tracked"} \subseteq Part
      BY DEF Later, Part
    <3> QED BY <1>0, <3>1, MixedIs
  <2>3. g \in check_secret_at_rest(v.dotenv.secrets, v.dotenv_open, v.dotenv_tracked)
    BY <1>0, <1>5, <2>2 DEF check_secret_at_rest, When
  <2>4. There(v.dotenv)
    BY <2>2
  <2> HIDE DEF g, v
  <2>5. <<<<"dotenv">>, g>> \in Pairs(Instant(scene.inspect, now, v))
    BY <1>2, <2>3, <2>4
  <2>6. Grounded(<<"dotenv">>, g) /\ g.id # "CRED_REUSE"
    BY <1>0, <2>1, <2>5, TwoLooks DEF v
  <2> QED BY <2>6 DEF g
<1>6. \A g \in F : \/ \E x \in secrets : g = Secretly("CRED_PLAINTEXT", <<"dotenv">>, x)
                   \/ secrets # {} /\ open /\ g = Finding("CRED_PERMS", <<"dotenv">>)
                   \/ secrets # {} /\ world.dotenv_tracked /\ g = Finding("CRED_GIT", <<"dotenv">>)
  BY DEF check_secret_at_rest, When
<1>7. \A g \in F : Grounded(<<"dotenv">>, g) /\ g.id # "CRED_REUSE"
  <2> HIDE DEF F
  <2> QED BY <1>3, <1>4, <1>5, <1>6
<1> HIDE DEF F
<1> QED BY <1>1, <1>7 DEF Grounds

\* A surface is reported with the findings its check returned.
LEMMA SurfacedGrounds ==
  ASSUME NEW id, NEW incomplete, NEW findings,
         \A f \in findings : f.id # "CRED_REUSE" /\ Grounded(id, f)
  PROVE  Grounds(Surfaced(id, incomplete, findings))
BY DEF Grounds, Surfaced, Server

\* What one instant would report, of rules one look is enough for.
LEMMA PlainGrounds ==
  ASSUME IInv, NEW i \in DOMAIN past, NEW reported,
         \A s \in reported : \A f \in s.findings : f.id \in Plainly,
         Pairs(reported) \subseteq Pairs(Instant(scene.inspect, now, past[i]))
  PROVE  Grounds(reported)
<1>1. ASSUME NEW s \in reported, NEW f \in s.findings
      PROVE  f.id # "CRED_REUSE" /\ Grounded(s.id, f)
  <2>1. <<s.id, f>> \in Pairs(Instant(scene.inspect, now, past[i]))
    BY PairsIs
  <2> QED BY <2>1, Latest, OneLook
<1> QED BY <1>1 DEF Grounds

\* The store: its mode at an instant, what it holds now.
LEMMA StoreGrounds ==
  ASSUME IInv, "token_stores" \in scene.inspect, NEW open,
         open => \E i \in DOMAIN past : There(past[i].store) /\ past[i].store_open
  PROVE  LET exp == IF Readable(world.store) THEN world.store.exp ELSE {}
         IN  Grounds(Surfaced(<<"store">>, FALSE, check_token_store(open, exp, now)))
<1> DEFINE exp == IF Readable(world.store) THEN world.store.exp ELSE {}
           F == check_token_store(open, exp, now)
           k == Len(past)
<1>0. k \in DOMAIN past /\ past[k] = world /\ Fits(world) /\ "store" \in DOMAIN world
  BY Latest DEF Part
<1>1. ASSUME NEW i \in DOMAIN past, There(past[i].store), NEW g,
             g \in check_token_store(past[i].store_open,
                                     IF past[i].store.status = "ok" THEN past[i].store.exp ELSE {}, now)
      PROVE  <<<<"store">>, g>> \in Pairs(Instant(scene.inspect, now, past[i]))
  <2> DEFINE S == check_token_store(past[i].store_open,
                                    IF past[i].store.status = "ok" THEN past[i].store.exp ELSE {}, now)
  <2>1. OfStore(now, past[i]) = Surfaced(<<"store">>, FALSE, S)
    BY <1>1 DEF OfStore
  <2>2. g \in S
    BY <1>1
  <2> HIDE DEF S
  <2>3. \E s \in Surfaced(<<"store">>, FALSE, S) : s.id = <<"store">> /\ g \in s.findings
    BY <2>2 DEF Surfaced, Server
  <2>4. <<<<"store">>, g>> \in Pairs(OfStore(now, past[i]))
    BY <2>1, <2>3, PairsIs
  <2> QED BY <2>4, InstantHas
<1>2. ASSUME open
      PROVE  LET g == Finding("TOKEN_STORE_PERMS", <<"store">>)
             IN  Grounded(<<"store">>, g) /\ g.id # "CRED_REUSE"
  <2> DEFINE g == Finding("TOKEN_STORE_PERMS", <<"store">>)
  <2>1. g.id \in Plainly
    BY FindingIs, RulesApart
  <2>2. PICK i \in DOMAIN past : There(past[i].store) /\ past[i].store_open
    BY <1>2
  <2>3. g \in check_token_store(past[i].store_open,
                                IF past[i].store.status = "ok" THEN past[i].store.exp ELSE {}, now)
    BY <2>2 DEF check_token_store, When
  <2> HIDE DEF g
  <2>4. Grounded(<<"store">>, g) /\ g.id # "CRED_REUSE"
    BY <1>1, <2>1, <2>2, <2>3, Latest, OneLook
  <2> QED BY <2>4 DEF g
<1>3. ASSUME NEW d \in exp, d < now
      PROVE  LET g == Finding("TOKEN_STORE_EXPIRED", <<"store">>)
             IN  Grounded(<<"store">>, g) /\ g.id # "CRED_REUSE"
  <2> DEFINE g == Finding("TOKEN_STORE_EXPIRED", <<"store">>)
  <2>1. g.id \in Plainly
    BY FindingIs, RulesApart
  <2>2. world.store.status = "ok" /\ d \in world.store.exp
    BY <1>0, <1>3 DEF Readable, Fits
  <2>3. There(past[k].store)
    BY <1>0, <2>2 DEF There
  <2>4. g \in check_token_store(past[k].store_open,
                                IF past[k].store.status = "ok" THEN past[k].store.exp ELSE {}, now)
    <3>1. \E x \in (IF past[k].store.status = "ok" THEN past[k].store.exp ELSE {}) : x < now
      BY <1>0, <1>3, <2>2
    <3> QED BY <3>1 DEF check_token_store, When
  <2> HIDE DEF g, k
  <2>5. Grounded(<<"store">>, g) /\ g.id # "CRED_REUSE"
    BY <1>0, <1>1, <2>1, <2>3, <2>4, Latest, OneLook
  <2> QED BY <2>5 DEF g
<1>4. \A g \in F : \/ open /\ g = Finding("TOKEN_STORE_PERMS", <<"store">>)
                   \/ (\E d \in exp : d < now) /\ g = Finding("TOKEN_STORE_EXPIRED", <<"store">>)
  <2> HIDE DEF exp
  <2> QED BY DEF check_token_store, When
<1>5. \A g \in F : g.id # "CRED_REUSE" /\ Grounded(<<"store">>, g)
  <2> HIDE DEF F, exp
  <2> QED BY <1>2, <1>3, <1>4
<1> HIDE DEF F
<1>6. Grounds(Surfaced(<<"store">>, FALSE, F))
  BY <1>5, SurfacedGrounds
<1> QED BY <1>6 DEF F

\* The findings of the processes' environments hold of the machine they were read from.
LEMMA ProcessGrounds ==
  ASSUME IInv, "process_env" \in scene.inspect
  PROVE  Grounds(audit_process_envs(world.procs.env, world.procs.denied))
<1> DEFINE X == audit_process_envs(world.procs.env, world.procs.denied)
           k == Len(past)
<1>1. k \in DOMAIN past /\ past[k] = world
  BY Latest
<1>2. \A s \in X : \A f \in s.findings : f.id \in Plainly
  <2>1. \A p : \A f \in {Secretly("CRED_ENV", <<p>>, c) : c \in world.procs.env[p]} : f.id \in Plainly
    BY FindingIs, RulesApart
  <2>2. \A p : \A s \in Surfaced(<<"process", p>>, world.procs.denied,
                                 {Secretly("CRED_ENV", <<p>>, c) : c \in world.procs.env[p]}) :
                 \A f \in s.findings : f.id \in Plainly
    BY <2>1 DEF Surfaced, Server
  <2> QED BY <2>2 DEF audit_process_envs
<1>3. Pairs(X) \subseteq Pairs(Instant(scene.inspect, now, past[k]))
  BY <1>1, InstantHas
<1> HIDE DEF X, k
<1>4. Grounds(X)
  BY <1>1, <1>2, <1>3, PlainGrounds
<1> QED BY <1>4 DEF X

\* The findings of the tool log hold of the machine, its mode and age those of a log still there or not known.
LEMMA LogGrounds ==
  ASSUME IInv, "telemetry" \in scene.inspect,
         NEW present, NEW open, NEW mtime,
         \/ present = FALSE /\ ~world.log.present
         \/ /\ present = TRUE
            /\ open => world.log.present /\ world.log.open
            /\ mtime # {} => world.log.present /\ mtime = {world.log.mtime}
  PROVE  Grounds(Surfaced(<<"telemetry">>, FALSE, check_telemetry(present, open, mtime, now)))
<1> DEFINE F == check_telemetry(present, open, mtime, now)
           G == check_telemetry(world.log.present, world.log.open, {world.log.mtime}, now)
           k == Len(past)
<1>1. k \in DOMAIN past /\ past[k] = world
  BY Latest
<1>2. \A g \in F : g \in G /\ g.id \in Plainly
  <2>1. CASE present = FALSE /\ ~world.log.present
    BY <2>1, FindingIs, RulesApart DEF check_telemetry
  <2>2. CASE /\ present = TRUE
             /\ open => world.log.present /\ world.log.open
             /\ mtime # {} => world.log.present /\ mtime = {world.log.mtime}
    <3>1. F = When(open, "TELEMETRY_PERMS", <<"log">>)
                \union When(\E t \in mtime : now - t > StaleAfter, "TELEMETRY_STALE", <<"log">>)
      BY <2>2 DEF check_telemetry
    <3>2. world.log.present =>
            G = When(world.log.open, "TELEMETRY_PERMS", <<"log">>)
                  \union When(\E t \in {world.log.mtime} : now - t > StaleAfter, "TELEMETRY_STALE", <<"log">>)
      BY DEF check_telemetry
    <3> HIDE DEF F, G
    <3>3. ASSUME NEW g \in F
          PROVE  g \in G /\ g.id \in Plainly
      <4>1. CASE g \in When(open, "TELEMETRY_PERMS", <<"log">>)
        BY <2>2, <3>2, <4>1, FindingIs, RulesApart DEF When
      <4>2. CASE g \in When(\E t \in mtime : now - t > StaleAfter, "TELEMETRY_STALE", <<"log">>)
        <5>1. g = Finding("TELEMETRY_STALE", <<"log">>) /\ \E t \in mtime : now - t > StaleAfter
          BY <4>2 DEF When
        <5>2. world.log.present /\ \E t \in {world.log.mtime} : now - t > StaleAfter
          BY <2>2, <5>1
        <5> QED BY <3>2, <5>1, <5>2, FindingIs, RulesApart DEF When
      <4> QED BY <3>1, <3>3, <4>1, <4>2
    <3> QED BY <3>3
  <2> QED BY <2>1, <2>2
<1>3. OfLog(now, past[k]) = Surfaced(<<"telemetry">>, FALSE, G)
  BY <1>1 DEF OfLog
<1> HIDE DEF F, G, k
<1>4. ASSUME NEW g \in F
      PROVE  g.id # "CRED_REUSE" /\ Grounded(<<"telemetry">>, g)
  <2>1. \E s \in Surfaced(<<"telemetry">>, FALSE, G) : s.id = <<"telemetry">> /\ g \in s.findings
    BY <1>2 DEF Surfaced, Server
  <2>2. <<<<"telemetry">>, g>> \in Pairs(OfLog(now, past[k]))
    BY <1>3, <2>1, PairsIs
  <2>3. <<<<"telemetry">>, g>> \in Pairs(Instant(scene.inspect, now, past[k]))
    BY <2>2, InstantHas
  <2> QED BY <1>1, <1>2, <2>3, Latest, OneLook
<1>5. Grounds(Surfaced(<<"telemetry">>, FALSE, F))
  BY <1>4, SurfacedGrounds
<1> QED BY <1>5 DEF F

\* The findings of the open sockets hold of the machine they were listed from.
LEMMA SocketGrounds ==
  ASSUME IInv
  PROVE  Grounds(OfSockets(world))
<1> DEFINE k == Len(past)
<1>1. k \in DOMAIN past /\ past[k] = world
  BY Latest
<1>2. \A s \in OfSockets(world) : \A f \in s.findings : f.id \in Plainly
  <2>1. \A l : \A f \in check_socket_exposure(l, Loopback) : f.id \in Plainly
    BY WhenIs, FindingIs, RulesApart DEF check_socket_exposure
  <2>2. \A l : \A s \in Surfaced(<<"socket", l>>, world.sockets.partial, check_socket_exposure(l, Loopback)) :
                 \A f \in s.findings : f.id \in Plainly
    BY <2>1 DEF Surfaced, Server
  <2> QED BY <2>2 DEF OfSockets
<1>3. Pairs(OfSockets(world)) \subseteq Pairs(Instant(scene.inspect, now, past[k]))
  BY <1>1, InstantHas
<1> HIDE DEF k
<1> QED BY <1>1, <1>2, <1>3, PlainGrounds

\* The broker at one instant says what its posture deserves, whatever the chain is
\* found to be.
LEMMA OfBrokerHas ==
  ASSUME NEW v, NEW g,
         \/ v.manifest.status # "ok" /\ g \in Absences(DeclaredIn(v), {})
         \/ /\ v.manifest.status = "ok"
            /\ \A reason : g \in check_broker_posture(DeclaredIn(v), v.manifest.m, reason)
         \/ /\ v.manifest.status = "ok" /\ Checkable(v.manifest.m) = {}
            /\ g \in check_broker_posture(DeclaredIn(v), v.manifest.m, "none")
         \/ /\ v.manifest.status = "ok"
            /\ \E e \in Checkable(v.manifest.m) :
                 g \in check_broker_posture(DeclaredIn(v), v.manifest.m, ChainReason(v.chain, e))
  PROVE  <<<<"broker">>, g>> \in Pairs(OfBroker(v))
<1> DEFINE D == DeclaredIn(v)
           m == v.manifest.m
<1>1. ASSUME NEW incomplete, NEW F, g \in F
      PROVE  \E s \in Surfaced(<<"broker">>, incomplete, F) : s.id = <<"broker">> /\ g \in s.findings
  BY <1>1 DEF Surfaced, Server
<1>2. CASE v.manifest.status # "ok"
  <2>1. OfBroker(v) = Surfaced(<<"broker">>, FALSE, Absences(D, {}))
    BY <1>2 DEF OfBroker, NoBroker
  <2>2. g \in Absences(D, {})
    BY <1>2
  <2> HIDE DEF D
  <2>3. \E s \in OfBroker(v) : s.id = <<"broker">> /\ g \in s.findings
    BY <1>1, <2>1, <2>2
  <2> QED BY <2>3, PairsIs
<1>3. CASE v.manifest.status = "ok" /\ Checkable(m) = {}
  <2>1. OfBroker(v) = Surfaced(<<"broker">>, "none" # "none", check_broker_posture(D, m, "none"))
    BY <1>3 DEF OfBroker, audit_broker
  <2>2. g \in check_broker_posture(D, m, "none")
    BY <1>3
  <2> HIDE DEF D, m
  <2>3. \E s \in OfBroker(v) : s.id = <<"broker">> /\ g \in s.findings
    BY <1>1, <2>1, <2>2
  <2> QED BY <2>3, PairsIs
<1>4. CASE v.manifest.status = "ok" /\ Checkable(m) # {}
  <2>1. PICK e \in Checkable(m) : g \in check_broker_posture(D, m, ChainReason(v.chain, e))
    BY <1>4
  <2> DEFINE r == ChainReason(v.chain, e)
             X == Surfaced(<<"broker">>, r # "none", check_broker_posture(D, m, r))
  <2>2. X \subseteq OfBroker(v)
    BY <1>4 DEF OfBroker, audit_broker
  <2>3. \E s \in X : s.id = <<"broker">> /\ g \in s.findings
    <3> HIDE DEF D, m, r
    <3> QED BY <1>1, <2>1 DEF r
  <2> HIDE DEF X
  <2> QED BY <2>2, <2>3, PairsIs
<1> QED BY <1>2, <1>3, <1>4

\* A server seen declared at i is declared on the machine that has the configs of i.
LEMMA SeenDeclared ==
  ASSUME IInv, NEW j \in DOMAIN past, NEW s, SeenBy(past, s, j)
  PROVE  \E i \in 1..j : s \in DeclaredIn(Mixed(past[i], past[j], {"manifest"}))
<1>1. PICK i \in 1..j : \E f \in ConfigFile :
        /\ past[i][f].status = "ok"
        /\ \E n \in DOMAIN past[i][f].servers :
             s = [id |-> <<"declared", f, n>>, decl |-> past[i][f].servers[n]]
  BY DEF SeenBy
<1>2. PICK f \in ConfigFile :
        /\ past[i][f].status = "ok"
        /\ \E n \in DOMAIN past[i][f].servers :
             s = [id |-> <<"declared", f, n>>, decl |-> past[i][f].servers[n]]
  BY <1>1
<1> DEFINE v == Mixed(past[i], past[j], {"manifest"})
<1>3. v[f] = past[i][f]
  <2>1. f \in Part /\ f # "manifest" /\ i \in DOMAIN past
    BY Latest DEF ConfigFile, Part
  <2> QED BY <2>1, Latest, MixedIs
<1> HIDE DEF v
<1>4. f \in Legible(v)
  BY <1>2, <1>3 DEF Legible
<1>5. s \in {[id |-> <<"declared", f, n>>, decl |-> v[f].servers[n]] : n \in DOMAIN v[f].servers}
  BY <1>2, <1>3
<1>6. s \in DeclaredIn(v)
  BY <1>4, <1>5 DEF DeclaredIn
<1> QED BY <1>6 DEF v

\* A finding about a declared server, and the manifest seen after it.
LEMMA SubjectGrounds ==
  ASSUME IInv, "broker" \in scene.inspect, NEW j \in DOMAIN past, NEW s, SeenBy(past, s, j),
         NEW g, g.id \in {"BROKER_ABSENT", "BROKER_MANIFEST_UNVERIFIED"},
         \A declared : s \in declared =>
           \/ past[j].manifest.status # "ok" /\ g \in Absences(declared, {})
           \/ /\ past[j].manifest.status = "ok"
              /\ \A reason : g \in check_broker_posture(declared, past[j].manifest.m, reason)
  PROVE  Grounded(<<"broker">>, g) /\ g.id # "CRED_REUSE"
<1>1. PICK i \in 1..j : s \in DeclaredIn(Mixed(past[i], past[j], {"manifest"}))
  BY SeenDeclared
<1> DEFINE v == Mixed(past[i], past[j], {"manifest"})
<1>2. v.manifest = past[j].manifest
  <2>1. "manifest" \in Part /\ i \in DOMAIN past
    BY Latest DEF Part
  <2> QED BY <2>1, Latest, MixedIs
<1>3. s \in DeclaredIn(v)
  BY <1>1
<1>4. g.id \in DOMAIN Later /\ Later[g.id] = {"manifest"}
  BY DEF Later
<1> HIDE DEF v
<1>5. <<<<"broker">>, g>> \in Pairs(OfBroker(v))
  BY <1>2, <1>3, OfBrokerHas
<1>6. <<<<"broker">>, g>> \in Pairs(Instant(scene.inspect, now, v))
  BY <1>5, InstantHas
<1> QED BY <1>4, <1>6, TwoLooks DEF v

\* The privileged servers nobody fronts.
LEMMA AbsencesGrounds ==
  ASSUME IInv, "broker" \in scene.inspect, NEW j \in DOMAIN past,
         \A s \in subjects : SeenBy(past, s, j),
         NEW fronts, fronts = IF past[j].manifest.status = "ok" THEN past[j].manifest.m.fronts ELSE {}
  PROVE  \A g \in Absences(subjects, fronts) : Grounded(<<"broker">>, g) /\ g.id # "CRED_REUSE"
<1> SUFFICES ASSUME NEW s \in Unbrokered(subjects, fronts)
             PROVE  LET g == Finding("BROKER_ABSENT", s.id)
                    IN  Grounded(<<"broker">>, g) /\ g.id # "CRED_REUSE"
  BY DEF Absences
<1> DEFINE g == Finding("BROKER_ABSENT", s.id)
<1>1. g.id = "BROKER_ABSENT"
  BY FindingIs
<1>2. s \in subjects
  BY DEF Unbrokered, Privileged
<1>3. ASSUME NEW declared, s \in declared
      PROVE  g \in Absences(declared, fronts)
  BY <1>3 DEF Absences, Unbrokered, Privileged
<1>4. ASSUME NEW declared, s \in declared, past[j].manifest.status = "ok", NEW reason
      PROVE  g \in check_broker_posture(declared, past[j].manifest.m, reason)
  BY <1>3, <1>4 DEF check_broker_posture
<1> HIDE DEF g
<1>5. Grounded(<<"broker">>, g) /\ g.id # "CRED_REUSE"
  BY <1>1, <1>2, <1>3, <1>4, SubjectGrounds
<1> QED BY <1>5 DEF g

\* The findings of the broker check hold of the machine of the manifest and that of the chain.
LEMMA PostureGrounds ==
  ASSUME IInv, "broker" \in scene.inspect, NEW j \in DOMAIN past,
         \A s \in subjects : SeenBy(past, s, j),
         past[j].manifest.status = "ok", NEW m, m = past[j].manifest.m, NEW reason,
         \/ Checkable(m) = {} /\ reason = "none"
         \/ \E e \in Checkable(m) : reason = ChainReason(world.chain, e)
  PROVE  Grounds(audit_broker(subjects, m, reason))
<1> DEFINE k == Len(past)
           F == check_broker_posture(subjects, m, reason)
           B(g) == Grounded(<<"broker">>, g) /\ g.id # "CRED_REUSE"
<1>0. k \in DOMAIN past /\ past[k] = world /\ j \in 1..k /\ DOMAIN past[j] = Part
  BY Latest
<1>1. \A g \in Absences(subjects, m.fronts) : B(g)
  BY AbsencesGrounds
<1>2. ASSUME NEW g, g.id \in Plainly,
             \/ \A r : g \in check_broker_posture(DeclaredIn(past[j]), m, r)
             \/ Checkable(m) = {} /\ g \in check_broker_posture(DeclaredIn(past[j]), m, "none")
      PROVE  B(g)
  <2>1. <<<<"broker">>, g>> \in Pairs(OfBroker(past[j]))
    BY <1>2, OfBrokerHas
  <2>2. <<<<"broker">>, g>> \in Pairs(Instant(scene.inspect, now, past[j]))
    BY <2>1, InstantHas
  <2> QED BY <1>2, <2>2, Latest, OneLook
<1>3. ASSUME claims_governance(m), m.evidence = {}
      PROVE  B(Finding("BROKER_EVIDENCE_MISSING", <<"broker">>))
  <2> DEFINE g == Finding("BROKER_EVIDENCE_MISSING", <<"broker">>)
  <2>1. g.id \in Plainly
    BY FindingIs, RulesApart
  <2>2. \A r : g \in check_broker_posture(DeclaredIn(past[j]), m, r)
    BY <1>3 DEF check_broker_posture, When
  <2> HIDE DEF g
  <2>3. B(g)
    BY <1>2, <2>1, <2>2
  <2> QED BY <2>3 DEF g
<1>4. ASSUME ~m.audited
      PROVE  B(Finding("BROKER_NO_AUDIT", <<"broker">>))
  <2> DEFINE g == Finding("BROKER_NO_AUDIT", <<"broker">>)
  <2>1. g.id \in Plainly
    BY FindingIs, RulesApart
  <2>2. \A r : g \in check_broker_posture(DeclaredIn(past[j]), m, r)
    BY <1>4 DEF check_broker_posture, When
  <2> HIDE DEF g
  <2>3. B(g)
    BY <1>2, <2>1, <2>2
  <2> QED BY <2>3 DEF g
<1>5. ASSUME ~m.least_privilege
      PROVE  B(Finding("BROKER_ALLOWLIST_PERMISSIVE", <<"broker">>))
  <2> DEFINE g == Finding("BROKER_ALLOWLIST_PERMISSIVE", <<"broker">>)
  <2>1. g.id \in Plainly
    BY FindingIs, RulesApart
  <2>2. \A r : g \in check_broker_posture(DeclaredIn(past[j]), m, r)
    BY <1>5 DEF check_broker_posture, When
  <2> HIDE DEF g
  <2>3. B(g)
    BY <1>2, <2>1, <2>2
  <2> QED BY <2>3 DEF g
<1>6. ASSUME ~m.signed, NEW s \in Privileged(subjects), s.id \in m.fronts
      PROVE  B(Finding("BROKER_MANIFEST_UNVERIFIED", <<"broker">>))
  <2> DEFINE g == Finding("BROKER_MANIFEST_UNVERIFIED", <<"broker">>)
  <2>1. g.id = "BROKER_MANIFEST_UNVERIFIED"
    BY FindingIs
  <2>2. ASSUME NEW declared, s \in declared, NEW r
        PROVE  g \in check_broker_posture(declared, m, r)
    <3>1. s \in Privileged(declared)
      BY <1>6, <2>2 DEF Privileged
    <3> QED BY <1>6, <3>1 DEF check_broker_posture, When
  <2>3. s \in subjects
    BY DEF Privileged
  <2> HIDE DEF g
  <2>4. B(g)
    BY <2>1, <2>2, <2>3, SubjectGrounds
  <2> QED BY <2>4 DEF g
<1>7. ASSUME reason # "none"
      PROVE  B(Finding("BROKER_EVIDENCE_MISMATCH", <<"broker">>))
  <2> DEFINE g == Finding("BROKER_EVIDENCE_MISMATCH", <<"broker">>)
             v == Mixed(past[j], past[k], {"chain"})
  <2>1. g.id \in DOMAIN Later /\ Later[g.id] = {"chain"}
    BY FindingIs DEF Later
  <2>2. PICK e \in Checkable(m) : reason = ChainReason(world.chain, e)
    BY <1>7
  <2>3. v.manifest = past[j].manifest /\ v.chain = world.chain
    <3>1. {"manifest", "chain"} \subseteq Part
      BY DEF Part
    <3> QED BY <1>0, <3>1, MixedIs
  <2>4. g \in check_broker_posture(DeclaredIn(v), m, reason)
    BY <1>7 DEF check_broker_posture, When
  <2> HIDE DEF g, v
  <2>5. <<<<"broker">>, g>> \in Pairs(OfBroker(v))
    BY <2>2, <2>3, <2>4, OfBrokerHas
  <2>6. <<<<"broker">>, g>> \in Pairs(Instant(scene.inspect, now, v))
    BY <2>5, InstantHas
  <2>7. B(g)
    BY <1>0, <2>1, <2>6, TwoLooks DEF v
  <2> QED BY <2>7 DEF g
<1>8. ASSUME NEW g \in F
      PROVE  B(g)
  <2>1. \/ g \in Absences(subjects, m.fronts)
        \/ claims_governance(m) /\ m.evidence = {} /\ g = Finding("BROKER_EVIDENCE_MISSING", <<"broker">>)
        \/ reason # "none" /\ g = Finding("BROKER_EVIDENCE_MISMATCH", <<"broker">>)
        \/ /\ ~m.signed /\ \E s \in Privileged(subjects) : s.id \in m.fronts
           /\ g = Finding("BROKER_MANIFEST_UNVERIFIED", <<"broker">>)
        \/ ~m.audited /\ g = Finding("BROKER_NO_AUDIT", <<"broker">>)
        \/ ~m.least_privilege /\ g = Finding("BROKER_ALLOWLIST_PERMISSIVE", <<"broker">>)
    BY DEF check_broker_posture, When
  <2> HIDE DEF F, B
  <2> QED BY <1>1, <1>3, <1>4, <1>5, <1>6, <1>7, <2>1
<1> HIDE DEF F
<1>9. Grounds(Surfaced(<<"broker">>, reason # "none", F))
  BY <1>8, SurfacedGrounds
<1> QED BY <1>9 DEF F, audit_broker

\* No manifest, and one that cannot be used.
LEMMA NoBrokerGrounds ==
  ASSUME IInv, "broker" \in scene.inspect, Declared, world.manifest.status # "ok"
  PROVE  /\ Grounds(NoBroker(subjects))
         /\ (\E i \in DOMAIN past : There(past[i].manifest)) => Grounds(ParseError(subjects))
<1> DEFINE k == Len(past)
           F == Absences(subjects, {})
           e == Finding("BROKER_PARSE_ERROR", <<"broker">>)
<1>0. k \in DOMAIN past /\ past[k] = world /\ DOMAIN past = 1..k
  BY Latest
<1>1. \A g \in F : g.id # "CRED_REUSE" /\ Grounded(<<"broker">>, g)
  BY <1>0, AbsencesGrounds DEF Declared
<1>2. ASSUME NEW i \in DOMAIN past, There(past[i].manifest)
      PROVE  e.id # "CRED_REUSE" /\ Grounded(<<"broker">>, e)
  <2>1. e.id = "BROKER_PARSE_ERROR"
    BY FindingIs
  <2> HIDE DEF e
  <2>2. Bears(scene.inspect, now, past[i], past[k], <<"broker">>, e)
    BY <1>0, <1>2, <2>1, RulesApart DEF Bears
  <2> QED BY <1>0, <2>1, <2>2 DEF Grounded
<1>3. NoBroker(subjects) = Surfaced(<<"broker">>, FALSE, F)
  BY DEF NoBroker
<1>4. ParseError(subjects) = {Server(<<"broker">>, TRUE, F \union {e})}
  BY DEF ParseError
<1> HIDE DEF F, e
<1>5. Grounds(NoBroker(subjects))
  BY <1>1, <1>3, SurfacedGrounds
<1>6. ASSUME NEW i \in DOMAIN past, There(past[i].manifest)
      PROVE  Grounds(ParseError(subjects))
  BY <1>1, <1>2, <1>4, <1>6 DEF Grounds, Server
<1> QED BY <1>5, <1>6

-----------------------------------------------------------------------------
(* The steps.                                                               *)

\* A step keeps the history, and may add to it.
Extends ==
  /\ UNCHANGED <<scene, now>>
  /\ Len(past) \in Nat /\ Len(past') \in Nat /\ Len(past) <= Len(past')
  /\ DOMAIN past = 1..Len(past) /\ DOMAIN past' = 1..Len(past')
  /\ \A k \in 1..Len(past) : past'[k] = past[k]

\* A step of the scan leaves the instants of the command as they are.
LEMMA StillExtends ==
  ASSUME IInv, UNCHANGED machine
  PROVE  Extends
BY Latest DEF Extends, machine

\* A finding that was borne out stays so as the machine changes: what was true then was true then.
LEMMA GroundedStays ==
  ASSUME Extends, NEW id, NEW f, f.id # "CRED_REUSE", Grounded(id, f)
  PROVE  Grounded(id, f)'
<1>1. PICK j \in DOMAIN past : \E i \in 1..j : Bears(scene.inspect, now, past[i], past[j], id, f)
  BY DEF Grounded
<1>2. PICK i \in 1..j : Bears(scene.inspect, now, past[i], past[j], id, f)
  BY <1>1
<1>3. j \in DOMAIN past' /\ past'[j] = past[j] /\ past'[i] = past[i]
  BY DEF Extends
<1>4. Bears(scene'.inspect, now', past'[i], past'[j], id, f)
  BY <1>2, <1>3 DEF Extends
<1> QED BY <1>3, <1>4 DEF Grounded

\* A server that was declared stays one that has been seen.
LEMMA SeenStays ==
  ASSUME Extends, NEW s, NEW j \in DOMAIN past, SeenBy(past, s, j)
  PROVE  \A k \in j..Len(past') : SeenBy(past', s, k)
<1>1. PICK i \in 1..j : \E f \in ConfigFile :
        /\ past[i][f].status = "ok"
        /\ \E n \in DOMAIN past[i][f].servers :
             s = [id |-> <<"declared", f, n>>, decl |-> past[i][f].servers[n]]
  BY DEF SeenBy
<1>2. past'[i] = past[i] /\ \A k \in j..Len(past') : i \in 1..k
  BY DEF Extends
<1> QED BY <1>1, <1>2 DEF SeenBy

\* What a look reports is grounded, and stays so.
LEMMA ReportGrounded ==
  ASSUME Extends, Groundings, Len(todo) > 5, NEW new, Grounds(new), Report(new)
  PROVE  Groundings'
<1>1. ASSUME NEW s \in servers', NEW f \in s.findings
      PROVE  Grounded(s.id, f)' /\ f.id # "CRED_REUSE"
  <2>1. Grounded(s.id, f) /\ f.id # "CRED_REUSE"
    BY DEF Report, Grounds, Groundings
  <2> QED BY <2>1, GroundedStays
<1> QED BY <1>1 DEF Groundings

\* A step that reports nothing leaves the report grounded.
LEMMA NothingReported ==
  ASSUME Extends, Groundings, UNCHANGED <<servers, todo>>
  PROVE  Groundings'
<1>1. ASSUME NEW s \in servers', NEW f \in s.findings
      PROVE  Grounded(s.id, f)' /\ (Len(todo') > 5 => f.id # "CRED_REUSE")
  <2>1. Grounded(s.id, f) /\ (Len(todo) > 5 => f.id # "CRED_REUSE")
    BY DEF Groundings
  <2>2. CASE f.id = "CRED_REUSE"
    BY <2>1, <2>2 DEF Grounded
  <2>3. CASE f.id # "CRED_REUSE"
    BY <2>1, <2>3, GroundedStays
  <2> QED BY <2>1, <2>2, <2>3
<1> QED BY <1>1 DEF Groundings

\* A step that reads no config leaves what was seen to be declared.
LEMMA DeclaredStays ==
  ASSUME Extends, Declared, UNCHANGED subjects
  PROVE  Declared'
<1>1. ASSUME NEW s \in subjects'
      PROVE  SeenBy(past', s, Len(past'))
  <2>1. SeenBy(past, s, Len(past))
    BY DEF Declared
  <2>2. Len(past) \in DOMAIN past
    BY <2>1 DEF SeenBy, Extends
  <2> QED BY <2>1, <2>2, SeenStays DEF Extends
<1> QED BY <1>1 DEF Declared

\* A surface that is left is not remembered.
LEMMA DoneForgets ==
  ASSUME DOMAIN held' = DOMAIN Nothing, look' = 1
  PROVE  Memory'
BY DEF Memory, At

\* What is known is known after an edit.
LEMMA EditKnown ==
  ASSUME IInv, Known, NEW w, Become(w)
  PROVE  Known'
<1>1. /\ past' = Append(past, w) /\ UNCHANGED <<scene, now, todo, look, held, subjects, servers, exit>>
  BY DEF Become, found, verdict
<1>2. PICK S : past \in Seq(S)
  BY DEF IInv, Timeline
<1>3. Extends
  <2>1. past \in Seq(S \cup {w}) /\ w \in S \cup {w}
    BY <1>2
  <2>2. /\ Len(Append(past, w)) = Len(past) + 1 /\ DOMAIN Append(past, w) = 1..(Len(past) + 1)
        /\ \A k \in 1..Len(past) : Append(past, w)[k] = past[k]
    BY <2>1
  <2> QED BY <1>1, <2>2, Latest DEF Extends
<1>4. Groundings' /\ Declared'
  BY <1>1, <1>3, NothingReported, DeclaredStays DEF Known
<1>5. \A s, n : At(s, n)' <=> At(s, n)
  BY <1>1 DEF At
<1>6. \A i \in DOMAIN past : i \in DOMAIN past' /\ past'[i] = past[i] /\ \A h \in 1..i : past'[h] = past[h]
  BY <1>3 DEF Extends
<1>7. \A j \in DOMAIN past : \A s : SeenBy(past, s, j) => SeenBy(past', s, j)
  BY <1>3, SeenStays DEF Extends
<1>8. Memory'
  <2> USE <1>1, <1>5, <1>6 DEF Known
  <2>1. DOMAIN held' = DOMAIN Nothing
    BY DEF Memory
  <2>2. \A f \in {"user", "project", "dotenv"} :
          At(f, 2)' => \E i \in DOMAIN past' : ~Readable(past'[i][f])
    BY DEF Memory
  <2>3. At("dotenv", 3)' =>
          \E i \in DOMAIN past' : There(past'[i].dotenv) /\ held'.secrets = past'[i].dotenv.secrets
    BY DEF Memory
  <2>4. At("dotenv", 4)' =>
          \E j \in DOMAIN past' : \E i \in 1..j :
            /\ There(past'[i].dotenv) /\ held'.secrets = past'[i].dotenv.secrets
            /\ held'.open => past'[j].dotenv_open
    BY DEF Memory
  <2>5. At("store", 3)' /\ held'.open =>
          \E i \in DOMAIN past' : There(past'[i].store) /\ past'[i].store_open
    BY DEF Memory
  <2>6. At("manifest", 2)' => \E i \in DOMAIN past' : There(past'[i].manifest)
    BY DEF Memory
  <2>7. At("manifest", 3)' =>
          \E j \in DOMAIN past' :
            /\ held'.manifest = past'[j].manifest
            /\ past'[j].manifest.status = "ok" /\ Checkable(past'[j].manifest.m) # {}
            /\ \A s \in subjects' : SeenBy(past', s, j)
    BY <1>7 DEF Memory
  <2> QED BY <2>1, <2>2, <2>3, <2>4, <2>5, <2>6, <2>7 DEF Memory
<1> QED BY <1>4, <1>8 DEF Known

\* A look that is the last at its surface.
LEMMA LastLook ==
  ASSUME IInv, Known, NEW s \in Surface, NEW n, At(s, n), UNCHANGED <<machine, subjects>>, look' = 1,
         DOMAIN held' = DOMAIN Nothing, NEW new, Grounds(new), Report(new)
  PROVE  Known'
<1>1. Extends /\ Len(todo) > 5 /\ Len(todo) \in Nat
  <2>1. Len(todo) > 6 /\ Len(todo) \in Nat
    BY AtIs DEF IInv
  <2> QED BY <2>1, StillExtends
<1>2. Groundings'
  BY <1>1, ReportGrounded DEF Known
<1>3. Declared'
  BY <1>1, DeclaredStays DEF Known
<1> QED BY <1>2, <1>3, DoneForgets DEF Known

\* A look that is not.
LEMMA MoreLooks ==
  ASSUME IInv, Known, NEW s, NEW n, At(s, n), NEW m \in 2..4, LookNext(m),
         UNCHANGED <<machine, found, exit>>
  PROVE  /\ Groundings' /\ Declared'
         /\ \A x, y : At(x, y)' => x = s /\ y = m
         /\ Len(past') \in DOMAIN past' /\ past'[Len(past')] = world /\ past' = past
<1>1. Extends /\ UNCHANGED <<servers, subjects, todo>> /\ past' = past /\ scene' = scene
  BY StillExtends DEF found, LookNext, machine
<1>2. Groundings' /\ Declared'
  BY <1>1, NothingReported, DeclaredStays DEF Known
<1>3. \A x, y : At(x, y)' => x = s /\ y = m
  BY <1>1 DEF At, LookNext
<1> QED BY <1>1, <1>2, <1>3, Latest

\* A config read is reported of, or its servers are kept for the broker check.
LEMMA ReadConfigKnown ==
  ASSUME IInv, Known, NEW f \in ConfigFile, ReadConfig(f)
  PROVE  Known'
<1>1. At(f, 1) /\ UNCHANGED <<machine, held, verdict>> /\ f \in Surface /\ DOMAIN held = DOMAIN Nothing
  BY DEF ReadConfig, ConfigFile, Surface, Known, Memory
<1>2. CASE Readable(world[f]) /\ Parses(world[f])
  <2>1. /\ Report(audit_config(f, world[f])) /\ look' = 1 /\ world[f].status = "ok"
        /\ subjects' = subjects \union
             {[id |-> <<"declared", f, n>>, decl |-> world[f].servers[n]] : n \in DOMAIN world[f].servers}
    BY <1>2 DEF ReadConfig, Done, Parses, Readable
  <2>2. Extends /\ Len(todo) > 5
    <3>1. Len(todo) > 6 /\ Len(todo) \in Nat
      BY <1>1, AtIs DEF IInv
    <3> QED BY <1>1, <3>1, StillExtends
  <2>3. Groundings'
    BY <2>1, <2>2, ConfigGrounds, ReportGrounded DEF Known
  <2>4. \A s \in subjects : SeenBy(past, s, Len(past))
    BY DEF Known, Declared
  <2>5. \A n \in DOMAIN world[f].servers :
          SeenBy(past, [id |-> <<"declared", f, n>>, decl |-> world[f].servers[n]], Len(past))
    BY <2>1, Latest DEF SeenBy
  <2>6. Declared'
    <3>1. past' = past
      BY <1>1 DEF machine
    <3> QED BY <2>1, <2>4, <2>5, <3>1 DEF Declared
  <2>7. Memory'
    BY <1>1, <2>1, DoneForgets
  <2> QED BY <2>3, <2>6, <2>7 DEF Known
<1>3. CASE Readable(world[f]) /\ ~Parses(world[f])
  <2>1. Report({config_failure_server(f)}) /\ look' = 1 /\ UNCHANGED subjects
        /\ world[f].status = "malformed"
    BY <1>3 DEF ReadConfig, Done, Parses, Readable
  <2>2. Grounds({config_failure_server(f)})
    BY <2>1, Latest, UnreadableGrounds
  <2> QED BY <1>1, <2>1, <2>2, LastLook
<1>4. CASE ~Readable(world[f])
  <2>1. LookNext(2) /\ UNCHANGED found
    BY <1>4 DEF ReadConfig
  <2>2. /\ Groundings' /\ Declared'
        /\ \A x, y : At(x, y)' => x = f /\ y = 2
        /\ Len(past') \in DOMAIN past' /\ past'[Len(past')] = world /\ past' = past
    BY <1>1, <2>1, MoreLooks DEF verdict
  <2>3. Memory'
    <3>1. \A x \in {"user", "project", "dotenv"} : At(x, 2)' => \E i \in DOMAIN past' : ~Readable(past'[i][x])
      BY <1>4, <2>2
    <3>2. f # "dotenv" /\ f # "store" /\ f # "manifest"
      BY DEF ConfigFile
    <3> QED BY <1>1, <2>2, <3>1, <3>2 DEF Memory
  <2> QED BY <2>2, <2>3 DEF Known
<1> QED BY <1>2, <1>3, <1>4

\* The second look at a file that could not be read tells refused from absent.
LEMMA LookAgainKnown ==
  ASSUME IInv, Known, NEW f \in ConfigFile \union {"dotenv"}, LookAgain(f)
  PROVE  Known'
<1> DEFINE new == {config_failure_server(g) : g \in {h \in {f} : There(world[h])}}
<1>1. /\ At(f, 2) /\ UNCHANGED <<machine, held, subjects, verdict>> /\ look' = 1 /\ Report(new)
      /\ f \in Surface /\ DOMAIN held = DOMAIN Nothing
  BY DEF LookAgain, Done, ConfigFile, Surface, Known, Memory
<1>2. Grounds(new)
  <2>1. PICK i \in DOMAIN past : ~Readable(past[i][f])
    BY <1>1 DEF Known, Memory, ConfigFile
  <2>2. past[i][f].status \in {"absent", "refused"}
    BY <2>1, Latest DEF Fits, Readable, ConfigFile, Part
  <2>3. ASSUME There(world[f])
        PROVE  Grounds({config_failure_server(f)})
    BY <2>2, <2>3, Latest, UnreadableGrounds
  <2> QED BY <2>3 DEF Grounds
<1> HIDE DEF new
<1> QED BY <1>1, <1>2, LastLook

\* The three looks at .env: its secrets, its mode, what git says of it.
LEMMA DotenvKnown ==
  ASSUME IInv, Known, ReadDotenv \/ DotenvMode \/ DotenvTracked
  PROVE  Known'
<1>0. DOMAIN held = DOMAIN Nothing /\ DOMAIN Nothing = {"secrets", "open", "reason", "manifest"}
  BY DEF Known, Memory, Nothing
<1>1. CASE ReadDotenv /\ Readable(world.dotenv)
  <2>1. /\ At("dotenv", 1) /\ LookNext(3) /\ UNCHANGED <<machine, found, verdict>>
        /\ held' = [held EXCEPT !.secrets = world.dotenv.secrets]
    BY <1>1 DEF ReadDotenv
  <2>2. /\ Groundings' /\ Declared'
        /\ \A x, y : At(x, y)' => x = "dotenv" /\ y = 3
        /\ Len(past') \in DOMAIN past' /\ past'[Len(past')] = world /\ past' = past
    BY <2>1, MoreLooks DEF verdict
  <2>3. There(world.dotenv)
    BY <1>1 DEF Readable, There
  <2>4. DOMAIN held' = DOMAIN Nothing /\ held'.secrets = world.dotenv.secrets
    BY <1>0, <2>1
  <2>5. Memory'
    BY <2>2, <2>3, <2>4 DEF Memory
  <2> QED BY <2>2, <2>5 DEF Known
<1>2. CASE ReadDotenv /\ ~Readable(world.dotenv)
  <2>1. At("dotenv", 1) /\ LookNext(2) /\ UNCHANGED <<machine, found, verdict, held>>
    BY <1>2 DEF ReadDotenv
  <2>2. /\ Groundings' /\ Declared'
        /\ \A x, y : At(x, y)' => x = "dotenv" /\ y = 2
        /\ Len(past') \in DOMAIN past' /\ past'[Len(past')] = world /\ past' = past
    BY <2>1, MoreLooks DEF verdict
  <2>3. Memory'
    BY <1>0, <1>2, <2>1, <2>2 DEF Memory
  <2> QED BY <2>2, <2>3 DEF Known
<1>3. CASE DotenvMode
  <2>1. /\ At("dotenv", 3) /\ LookNext(4) /\ UNCHANGED <<machine, found, verdict>>
        /\ held' = [held EXCEPT !.open = There(world.dotenv) /\ world.dotenv_open]
    BY <1>3 DEF DotenvMode
  <2>2. /\ Groundings' /\ Declared'
        /\ \A x, y : At(x, y)' => x = "dotenv" /\ y = 4
        /\ Len(past') \in DOMAIN past' /\ past'[Len(past')] = world /\ past' = past
    BY <2>1, MoreLooks DEF verdict
  <2>3. PICK i \in DOMAIN past : There(past[i].dotenv) /\ held.secrets = past[i].dotenv.secrets
    BY <2>1 DEF Known, Memory
  <2>4. DOMAIN held' = DOMAIN Nothing /\ held'.secrets = held.secrets /\ (held'.open => world.dotenv_open)
    BY <1>0, <2>1
  <2>5. i \in 1..Len(past)
    BY Latest
  <2>6. Memory'
    BY <2>2, <2>3, <2>4, <2>5 DEF Memory
  <2> QED BY <2>2, <2>6 DEF Known
<1>4. CASE DotenvTracked
  <2>1. /\ At("dotenv", 4) /\ UNCHANGED <<machine, subjects>> /\ look' = 1 /\ held' = Nothing
        /\ Report({audit_env_file(held.secrets, held.open, world.dotenv_tracked)}) /\ "dotenv" \in Surface
    BY <1>4 DEF DotenvTracked, Done, Surface
  <2>2. PICK j \in DOMAIN past : \E i \in 1..j :
          /\ There(past[i].dotenv) /\ held.secrets = past[i].dotenv.secrets
          /\ held.open => past[j].dotenv_open
    BY <2>1 DEF Known, Memory
  <2>3. Grounds({audit_env_file(held.secrets, held.open, world.dotenv_tracked)})
    BY <2>2, DotenvGrounds
  <2> QED BY <2>1, <2>3, LastLook
<1> QED BY <1>1, <1>2, <1>3, <1>4

\* The three looks at the token store: whether it is there, its mode, its contents.
LEMMA StoreKnown ==
  ASSUME IInv, Known, FindStore \/ StoreMode \/ ReadStore
  PROVE  Known'
<1>0. /\ DOMAIN held = DOMAIN Nothing /\ DOMAIN Nothing = {"secrets", "open", "reason", "manifest"}
      /\ "store" \in Surface /\ Grounds({})
  BY DEF Known, Memory, Nothing, Surface, Grounds
<1>1. CASE FindStore /\ There(world.store)
  <2>1. At("store", 1) /\ LookNext(2) /\ UNCHANGED <<machine, found, verdict, held>>
    BY <1>1 DEF FindStore
  <2>2. Groundings' /\ Declared' /\ \A x, y : At(x, y)' => x = "store" /\ y = 2
    BY <2>1, MoreLooks DEF verdict
  <2> QED BY <1>0, <2>1, <2>2 DEF Known, Memory
<1>2. CASE FindStore /\ ~There(world.store)
  <2>1. At("store", 1) /\ look' = 1 /\ UNCHANGED <<machine, subjects, held>> /\ Report({})
    BY <1>2 DEF FindStore, Done, found, Report
  <2> QED BY <1>0, <2>1, LastLook
<1>3. CASE StoreMode
  <2>1. /\ At("store", 2) /\ LookNext(3) /\ UNCHANGED <<machine, found, verdict>>
        /\ held' = [held EXCEPT !.open = There(world.store) /\ world.store_open]
    BY <1>3 DEF StoreMode
  <2>2. /\ Groundings' /\ Declared'
        /\ \A x, y : At(x, y)' => x = "store" /\ y = 3
        /\ Len(past') \in DOMAIN past' /\ past'[Len(past')] = world /\ past' = past
    BY <2>1, MoreLooks DEF verdict
  <2>3. DOMAIN held' = DOMAIN Nothing /\ (held'.open => There(world.store) /\ world.store_open)
    BY <1>0, <2>1
  <2>4. Memory'
    BY <2>2, <2>3 DEF Memory
  <2> QED BY <2>2, <2>4 DEF Known
<1>4. CASE ReadStore
  <2> DEFINE exp == IF Readable(world.store) THEN world.store.exp ELSE {}
             new == Surfaced(<<"store">>, FALSE, check_token_store(held.open, exp, now))
  <2>1. At("store", 3) /\ UNCHANGED <<machine, subjects>> /\ look' = 1 /\ held' = Nothing /\ Report(new)
    BY <1>4 DEF ReadStore, Done
  <2>2. "token_stores" \in scene.inspect
    <3>1. "store" \in Wanted(scene.inspect)
      BY <1>0, <2>1, AtIs DEF IInv
    <3> QED BY <3>1 DEF Wanted, Optional
  <2>3. held.open => \E i \in DOMAIN past : There(past[i].store) /\ past[i].store_open
    BY <2>1 DEF Known, Memory
  <2>4. Grounds(new)
    BY <2>2, <2>3, StoreGrounds
  <2> HIDE DEF new
  <2> QED BY <1>0, <2>1, <2>4, LastLook
<1> QED BY <1>1, <1>2, <1>3, <1>4

\* The look at the processes.
LEMMA ProcessesKnown ==
  ASSUME IInv, Known, ReadProcesses
  PROVE  Known'
<1>1. /\ At("procs", 1) /\ UNCHANGED <<machine, subjects, held>> /\ look' = 1 /\ "procs" \in Surface
      /\ Report(audit_process_envs(world.procs.env, world.procs.denied)) /\ DOMAIN held = DOMAIN Nothing
  BY DEF ReadProcesses, Done, Surface, Known, Memory
<1>2. "process_env" \in scene.inspect
  <2>1. "procs" \in Wanted(scene.inspect)
    BY <1>1, AtIs DEF IInv
  <2> QED BY <2>1 DEF Wanted, Optional
<1> QED BY <1>1, <1>2, ProcessGrounds, LastLook

\* The looks at the tool log: whether it is there, then its mode and age.
LEMMA LogKnown ==
  ASSUME IInv, Known, FindLog \/ LogFacts
  PROVE  Known'
<1>0. DOMAIN held = DOMAIN Nothing /\ "log" \in Surface
  BY DEF Known, Memory, Surface
<1>1. ASSUME NEW n, At("log", n)
      PROVE  "telemetry" \in scene.inspect
  <2>1. "log" \in Wanted(scene.inspect)
    BY <1>0, <1>1, AtIs DEF IInv
  <2> QED BY <2>1 DEF Wanted, Optional
<1>2. CASE FindLog /\ world.log.present
  <2>1. At("log", 1) /\ LookNext(2) /\ UNCHANGED <<machine, found, verdict, held>>
    BY <1>2 DEF FindLog, found
  <2>2. Groundings' /\ Declared' /\ \A x, y : At(x, y)' => x = "log" /\ y = 2
    BY <2>1, MoreLooks DEF verdict
  <2> QED BY <1>0, <2>1, <2>2 DEF Known, Memory
<1>3. CASE FindLog /\ ~world.log.present
  <2> DEFINE new == Surfaced(<<"telemetry">>, FALSE, check_telemetry(FALSE, FALSE, {}, now))
  <2>1. At("log", 1) /\ look' = 1 /\ UNCHANGED <<machine, subjects, held>> /\ Report(new)
    BY <1>3 DEF FindLog, Done
  <2>2. Grounds(new)
    BY <1>1, <1>3, <2>1, LogGrounds
  <2> HIDE DEF new
  <2> QED BY <1>0, <2>1, <2>2, LastLook
<1>4. CASE LogFacts
  <2> DEFINE open == world.log.present /\ world.log.open
             mtime == IF world.log.present THEN {world.log.mtime} ELSE {}
             new == Surfaced(<<"telemetry">>, FALSE, check_telemetry(TRUE, open, mtime, now))
  <2>1. At("log", 2) /\ look' = 1 /\ UNCHANGED <<machine, subjects, held>> /\ Report(new)
    BY <1>4 DEF LogFacts, Done
  <2>2. Grounds(new)
    <3>1. open => world.log.present /\ world.log.open
      OBVIOUS
    <3>2. mtime # {} => world.log.present /\ mtime = {world.log.mtime}
      OBVIOUS
    <3> HIDE DEF open, mtime
    <3> QED BY <1>1, <2>1, <3>1, <3>2, LogGrounds
  <2> HIDE DEF new
  <2> QED BY <1>0, <2>1, <2>2, LastLook
<1> QED BY <1>2, <1>3, <1>4

\* The looks at the broker: its manifest found, read, and its chain verified.
LEMMA ManifestKnown ==
  ASSUME IInv, Known, FindManifest \/ ReadManifest \/ ReadChain
  PROVE  Known'
<1>0. /\ DOMAIN held = DOMAIN Nothing /\ DOMAIN Nothing = {"secrets", "open", "reason", "manifest"}
      /\ "manifest" \in Surface
  BY DEF Known, Memory, Nothing, Surface
<1>1. ASSUME NEW n, At("manifest", n)
      PROVE  "broker" \in scene.inspect
  <2>1. "manifest" \in Wanted(scene.inspect)
    BY <1>0, <1>1, AtIs DEF IInv
  <2> QED BY <2>1 DEF Wanted, Optional
<1>2. CASE FindManifest /\ There(world.manifest)
  <2>1. At("manifest", 1) /\ LookNext(2) /\ UNCHANGED <<machine, found, verdict, held>>
    BY <1>2 DEF FindManifest, found
  <2>2. /\ Groundings' /\ Declared'
        /\ \A x, y : At(x, y)' => x = "manifest" /\ y = 2
        /\ Len(past') \in DOMAIN past' /\ past'[Len(past')] = world /\ past' = past
    BY <2>1, MoreLooks DEF verdict
  <2>3. Memory'
    BY <1>0, <1>2, <2>1, <2>2 DEF Memory
  <2> QED BY <2>2, <2>3 DEF Known
<1>3. CASE FindManifest /\ ~There(world.manifest)
  <2>1. At("manifest", 1) /\ look' = 1 /\ UNCHANGED <<machine, subjects, held>> /\ Report(NoBroker(subjects))
        /\ world.manifest.status # "ok"
    BY <1>3 DEF FindManifest, Done, There
  <2>2. Grounds(NoBroker(subjects))
    BY <1>1, <2>1, NoBrokerGrounds DEF Known
  <2> QED BY <1>0, <2>1, <2>2, LastLook
<1>4. CASE ReadManifest /\ ~Usable(world.manifest)
  <2>1. At("manifest", 2) /\ look' = 1 /\ UNCHANGED <<machine, subjects, held>> /\ Report(ParseError(subjects))
    BY <1>4 DEF ReadManifest, Done
  <2>2. world.manifest.status # "ok"
    BY <1>4 DEF Usable, Readable
  <2>3. \E i \in DOMAIN past : There(past[i].manifest)
    BY <2>1 DEF Known, Memory
  <2>4. Grounds(ParseError(subjects))
    BY <1>1, <2>1, <2>2, <2>3, NoBrokerGrounds DEF Known
  <2> QED BY <1>0, <2>1, <2>4, LastLook
<1>5. ASSUME Usable(world.manifest)
      PROVE  world.manifest.status = "ok"
  BY <1>5 DEF Usable, Readable
<1>6. CASE ReadManifest /\ Usable(world.manifest) /\ Checkable(world.manifest.m) = {}
  <2>1. /\ At("manifest", 2) /\ look' = 1 /\ UNCHANGED <<machine, subjects, held>>
        /\ Report(audit_broker(subjects, world.manifest.m, "none"))
    BY <1>6 DEF ReadManifest, Done
  <2>2. Grounds(audit_broker(subjects, world.manifest.m, "none"))
    <3>1. \A s \in subjects : SeenBy(past, s, Len(past))
      BY DEF Known, Declared
    <3> QED BY <1>1, <1>5, <1>6, <2>1, <3>1, Latest, PostureGrounds
  <2> QED BY <1>0, <2>1, <2>2, LastLook
<1>7. CASE ReadManifest /\ Usable(world.manifest) /\ Checkable(world.manifest.m) # {}
  <2>1. /\ At("manifest", 2) /\ LookNext(3) /\ UNCHANGED <<machine, found, verdict>>
        /\ held' = [held EXCEPT !.manifest = world.manifest]
    BY <1>7 DEF ReadManifest, found
  <2>2. /\ Groundings' /\ Declared'
        /\ \A x, y : At(x, y)' => x = "manifest" /\ y = 3
        /\ Len(past') \in DOMAIN past' /\ past'[Len(past')] = world /\ past' = past
    BY <2>1, MoreLooks DEF verdict
  <2>3. DOMAIN held' = DOMAIN Nothing /\ held'.manifest = world.manifest
    BY <1>0, <2>1
  <2>4. \A s \in subjects' : SeenBy(past', s, Len(past'))
    BY <2>2 DEF Declared
  <2>5. Memory'
    BY <1>5, <1>7, <2>2, <2>3, <2>4 DEF Memory
  <2> QED BY <2>2, <2>5 DEF Known
<1>8. CASE ReadChain
  <2> DEFINE m == held.manifest.m
  <2>1. PICK e \in Checkable(m) :
          /\ Report(audit_broker(subjects, m, ChainReason(world.chain, e)))
          /\ held' = [held EXCEPT !.reason = ChainReason(world.chain, e)]
    BY <1>8 DEF ReadChain
  <2>2. At("manifest", 3) /\ look' = 1 /\ UNCHANGED <<machine, subjects>>
    BY <1>8 DEF ReadChain, Done
  <2>3. PICK j \in DOMAIN past :
          /\ held.manifest = past[j].manifest
          /\ past[j].manifest.status = "ok" /\ Checkable(past[j].manifest.m) # {}
          /\ \A s \in subjects : SeenBy(past, s, j)
    BY <2>2 DEF Known, Memory
  <2>4. Grounds(audit_broker(subjects, m, ChainReason(world.chain, e)))
    BY <1>1, <2>2, <2>3, PostureGrounds
  <2>5. DOMAIN held' = DOMAIN Nothing
    BY <1>0, <2>1
  <2> HIDE DEF m
  <2> QED BY <1>0, <2>1, <2>2, <2>4, <2>5, LastLook
<1> QED BY <1>2, <1>3, <1>4, <1>6, <1>7, <1>8

\* A set with more than one element has two.
LEMMA TwoOf ==
  ASSUME NEW S, Cardinality(S) > 1
  PROVE  \E a, b \in S : a # b
<1> SUFFICES ASSUME \A a, b \in S : a = b PROVE FALSE
  OBVIOUS
<1>1. CASE S = {}
  BY <1>1, FS_EmptySet
<1>2. CASE S # {}
  <2>1. PICK a \in S : TRUE
    BY <1>2
  <2>2. S = {a}
    BY <2>1
  <2> QED BY <2>2, FS_Singleton
<1> QED BY <1>1, <1>2

\* Reuse is of two servers reported.
LEMMA AssembleKnown ==
  ASSUME IInv, Known, Assemble
  PROVE  Known'
<1> DEFINE X == servers \union OfSockets(world)
           Reuse(s) == {Secretly("CRED_REUSE", g.at, g.secret) : g \in {h \in s.findings : h.secret \in Reused(X)}}
<1>1. /\ At("sockets", 1) /\ UNCHANGED <<machine, held, subjects>> /\ look' = 1
      /\ servers' = assemble_report(X) /\ todo' = Tail(todo)
  BY DEF Assemble, Done, OfSockets
<1>2. Len(todo) = 6 /\ Len(todo') = 5 /\ Extends
  <2>1. "sockets" \in DOMAIN Place /\ Place["sockets"] = 6
    BY DEF Place
  <2>2. Len(todo) = 6 /\ Len(Tail(todo)) = Len(todo) - 1
    BY <1>1, <2>1, AtIs DEF IInv
  <2>3. Extends
    BY <1>1, StillExtends
  <2> QED BY <1>1, <2>2, <2>3
<1>3. \A s \in X : \A f \in s.findings : f.id # "CRED_REUSE" /\ Grounded(s.id, f)
  BY <1>2, SocketGrounds DEF Known, Groundings, Grounds
<1>4. \A s \in X : DOMAIN s = {"id", "incomplete", "findings"}
  <2>1. Fits(world) /\ "sockets" \in DOMAIN world
    BY Latest DEF Part
  <2>2. Proper(OfSockets(world))
    <3>1. \A s \in world.sockets.open :
            Proper(Surfaced(<<"socket", s>>, world.sockets.partial, check_socket_exposure(s, Loopback)))
      BY <2>1, SurfaceProper DEF Fits
    <3> QED BY <3>1 DEF Proper, OfSockets
  <2> QED BY <2>2 DEF Proper, IInv, Reported
<1>5. servers' = {[s EXCEPT !.findings = s.findings \union Reuse(s)] : s \in X}
  BY <1>1 DEF assemble_report
<1>6. /\ \A t \in servers' : \E s \in X : t.id = s.id /\ t.findings = s.findings \union Reuse(s)
      /\ \A s \in X : \E t \in servers' : t.id = s.id /\ t.findings = s.findings \union Reuse(s)
  <2> HIDE DEF X, Reuse
  <2> DEFINE Fuller(s) == [s EXCEPT !.findings = s.findings \union Reuse(s)]
  <2>1. ASSUME NEW s \in X
        PROVE  Fuller(s).id = s.id /\ Fuller(s).findings = s.findings \union Reuse(s)
    <3>1. DOMAIN s = {"id", "incomplete", "findings"}
      BY <1>4, <2>1
    <3> QED BY <3>1
  <2>2. servers' = {Fuller(s) : s \in X}
    BY <1>5
  <2> HIDE DEF Fuller
  <2>3. ASSUME NEW t \in servers'
        PROVE  \E s \in X : t.id = s.id /\ t.findings = s.findings \union Reuse(s)
    BY <2>1, <2>2, <2>3
  <2>4. ASSUME NEW s \in X
        PROVE  \E t \in servers' : t.id = s.id /\ t.findings = s.findings \union Reuse(s)
    BY <2>1, <2>2, <2>4
  <2> QED BY <2>3, <2>4
<1>7. ASSUME NEW t \in servers', NEW f \in t.findings
      PROVE  Grounded(t.id, f)'
  <2>1. PICK s \in X : t.id = s.id /\ t.findings = s.findings \union Reuse(s)
    BY <1>6, <1>7
  <2>2. CASE f \in s.findings
    BY <1>2, <1>3, <2>1, <2>2, GroundedStays
  <2>3. CASE f \in Reuse(s)
    <3>1. f.id = "CRED_REUSE" /\ f.secret \in Reused(X)
      <4>1. PICK g \in s.findings : g.secret \in Reused(X) /\ f = Secretly("CRED_REUSE", g.at, g.secret)
        BY <2>3
      <4> QED BY <4>1, FindingIs
    <3>2. Cardinality({u.id : u \in {v \in X : \E g \in v.findings : g.secret = f.secret}}) > 1
      BY <3>1 DEF Reused
    <3>3. \E a, b \in {u.id : u \in {v \in X : \E g \in v.findings : g.secret = f.secret}} : a # b
      BY <3>2, TwoOf
    <3>4. PICK u \in X, v \in X : /\ u.id # v.id
                                  /\ \E g \in u.findings : g.secret = f.secret
                                  /\ \E g \in v.findings : g.secret = f.secret
      BY <3>3
    <3>5. PICK p \in servers' : p.id = u.id /\ p.findings = u.findings \union Reuse(u)
      BY <1>6
    <3>6. PICK q \in servers' : q.id = v.id /\ q.findings = v.findings \union Reuse(v)
      BY <1>6
    <3>7. /\ p \in {r \in servers' : \E g \in r.findings : g.secret = f.secret}
          /\ q \in {r \in servers' : \E g \in r.findings : g.secret = f.secret}
          /\ p # q
      BY <3>4, <3>5, <3>6
    <3> QED BY <3>1, <3>7 DEF Grounded
  <2> QED BY <1>7, <2>1, <2>2, <2>3
<1>8. Groundings'
  BY <1>2, <1>7 DEF Groundings
<1>9. Declared'
  BY <1>1, <1>2, DeclaredStays DEF Known
<1>10. Memory'
  BY <1>1, DoneForgets DEF Known, Memory
<1> QED BY <1>8, <1>9, <1>10 DEF Known

\* What comes after the report leaves it alone.
LEMMA StageKnown ==
  ASSUME IInv, Known, ReadLedger \/ ApplyLedger \/ WriteReports \/ Gate \/ EmitAlerts
  PROVE  Known'
<1>1. /\ UNCHANGED <<machine, held, subjects, servers>>
      /\ \/ todo' = Tail(todo) /\ look' = 1
         \/ todo' = <<>>
         \/ UNCHANGED <<todo, look>>
      /\ \E s \in DOMAIN Place \ {"sockets"} : At(s, 1)
  BY DEF ReadLedger, ApplyLedger, WriteReports, Gate, EmitAlerts, Done, Crash, found, Place
<1>2. PICK s \in DOMAIN Place \ {"sockets"} : At(s, 1)
  BY <1>1
<1>3. Extends /\ ~(Len(todo') > 5)
  <2>1. Place[s] <= 5
    BY DEF Place
  <2>2. Len(todo) \in Nat /\ Len(todo) = Place[s] /\ Len(Tail(todo)) = Len(todo) - 1
    BY <1>2, AtIs DEF IInv
  <2>3. Len(todo') = Len(todo) - 1 \/ Len(todo') = 0 \/ Len(todo') = Len(todo)
    BY <1>1, <2>2
  <2>4. Extends
    BY <1>1, StillExtends
  <2> QED BY <2>1, <2>2, <2>3, <2>4
<1>4. ASSUME NEW t \in servers', NEW f \in t.findings
      PROVE  Grounded(t.id, f)'
  <2>1. Grounded(t.id, f)
    BY <1>1 DEF Known, Groundings
  <2>2. CASE f.id = "CRED_REUSE"
    BY <1>1, <2>1, <2>2 DEF Grounded
  <2>3. CASE f.id # "CRED_REUSE"
    BY <1>3, <2>1, <2>3, GroundedStays
  <2> QED BY <2>2, <2>3
<1>5. Groundings'
  BY <1>3, <1>4 DEF Groundings
<1>6. Declared'
  BY <1>1, <1>3, DeclaredStays DEF Known
<1>7. Memory'
  <2>1. \A x, y : At(x, y)' => y = 1
    BY <1>1, <1>2 DEF At
  <2>2. ~At("user", 2)' /\ ~At("project", 2)' /\ ~At("dotenv", 2)' /\ ~At("dotenv", 3)' /\ ~At("dotenv", 4)'
        /\ ~At("store", 3)' /\ ~At("manifest", 2)' /\ ~At("manifest", 3)'
    BY <2>1
  <2> QED BY <1>1, <2>2 DEF Known, Memory
<1> QED BY <1>5, <1>6, <1>7 DEF Known

\* A look that raises reports nothing, and nothing is looked at again.
LEMMA LookRaisesKnown ==
  ASSUME IInv, Known, LookRaises
  PROVE  Known'
<1>1. UNCHANGED <<machine, todo, held, subjects, servers>> /\ exit' = "crash"
  BY DEF LookRaises, Crash, found
<1>2. Extends
  BY <1>1, StillExtends
<1>3. Groundings' /\ Declared'
  BY <1>1, <1>2, NothingReported, DeclaredStays DEF Known
<1>4. \A x, y : ~At(x, y)'
  BY <1>1 DEF At
<1>5. Memory'
  BY <1>1, <1>4 DEF Known, Memory
<1> QED BY <1>3, <1>5 DEF Known

\* Stuttering.
LEMMA StutterKnown ==
  ASSUME IInv, Known, UNCHANGED vars
  PROVE  Known'
<1>1. Extends /\ UNCHANGED <<scene, now, past, todo, look, held, subjects, servers, exit>>
  <2>1. UNCHANGED machine
    BY DEF vars, machine
  <2> QED BY <2>1, StillExtends DEF vars
<1>2. Groundings' /\ Declared'
  BY <1>1, NothingReported, DeclaredStays DEF Known
<1>3. \A x, y : At(x, y)' <=> At(x, y)
  BY <1>1 DEF At
<1>4. Memory'
  BY <1>1, <1>3 DEF Known, Memory
<1> QED BY <1>2, <1>4 DEF Known

\* Nothing is known, and nothing reported, when the command starts.
LEMMA InitKnown == Init => Known
<1> SUFFICES ASSUME Init PROVE Known
  OBVIOUS
<1>1. subjects = {} /\ servers = {} /\ look = 1 /\ held = Nothing
  BY DEF Init
<1>2. Memory
  BY <1>1 DEF Memory, At
<1> QED BY <1>1, <1>2 DEF Known, Declared, Groundings

\* Every step keeps what is reported grounded.
LEMMA KeepsKnown ==
  ASSUME IInv, Known, [Next]_vars
  PROVE  Known'
<1>1. CASE \E f \in ConfigFile : ReadConfig(f)
  BY <1>1, ReadConfigKnown
<1>2. CASE \E f \in ConfigFile \union {"dotenv"} : LookAgain(f)
  BY <1>2, LookAgainKnown
<1>3. CASE ReadDotenv \/ DotenvMode \/ DotenvTracked
  BY <1>3, DotenvKnown
<1>4. CASE FindStore \/ StoreMode \/ ReadStore
  BY <1>4, StoreKnown
<1>5. CASE ReadProcesses
  BY <1>5, ProcessesKnown
<1>6. CASE FindLog \/ LogFacts
  BY <1>6, LogKnown
<1>7. CASE FindManifest \/ ReadManifest \/ ReadChain
  BY <1>7, ManifestKnown
<1>8. CASE Assemble
  BY <1>8, AssembleKnown
<1>9. CASE ReadLedger \/ ApplyLedger \/ WriteReports \/ Gate \/ EmitAlerts
  BY <1>9, StageKnown
<1>10. CASE Change \/ BrokerAppends \/ BrokerRefreshes
  <2>1. \E w : Become(w)
    BY <1>10 DEF Change, BrokerAppends, BrokerRefreshes
  <2> QED BY <2>1, EditKnown
<1>11. CASE LookRaises
  BY <1>11, LookRaisesKnown
<1>12. CASE UNCHANGED vars
  BY <1>12, StutterKnown
<1> QED BY <1>1, <1>2, <1>3, <1>4, <1>5, <1>6, <1>7, <1>8, <1>9, <1>10, <1>11, <1>12
           DEF Next, Step, Edit, Ended

\* Every finding of a report was true of the machine during the command, in the
\* order of the looks (engine.scan and the checks it calls, while the files it
\* reads one after another are rewritten).
THEOREM ReportIsGrounded == Spec => []NothingInvented
<1>1. IInv /\ Known /\ [Next]_vars => Known'
  BY KeepsKnown
<1>2. Known => NothingInvented
  <2>1. ASSUME Known, NEW r \in Pairs(servers)
        PROVE  Grounded(r[1], r[2])
    BY <2>1 DEF Known, Groundings, Pairs
  <2> QED BY <2>1 DEF NothingInvented
<1> QED BY <1>1, <1>2, Invariance, InitKnown, PTL DEF Spec

-----------------------------------------------------------------------------
(* What findings are worth: the fold of the score is a count per severity.  *)

\* Findings of a severity, and what findings cost a server.
Count(s, v) == Cardinality({f \in s : f.severity = v})

Points(s) == 40 * Count(s, "critical") + 20 * Count(s, "high") + 10 * Count(s, "medium") + 3 * Count(s, "low")

\* A set of naturals has a least member.
LEMMA LeastMember ==
  ASSUME NEW T \in SUBSET Nat, T # {}
  PROVE  \E x \in T : \A y \in T : x <= y
<1>1. PICK x \in T : \A y \in T : <<y, x>> \notin OpToRel(<, Nat)
  BY NatLessThanWellFounded, WFMin
<1>2. \A y \in T : ~(y < x)
  BY <1>1 DEF OpToRel
<1> QED BY <1>2

\* Findings of a severity, one more when the one added has it.
LEMMA CountIs ==
  ASSUME NEW s, IsFiniteSet(s), NEW x \in s, NEW v
  PROVE  /\ Count(s, v) \in Nat /\ Count(s \ {x}, v) \in Nat
         /\ Count(s, v) = Count(s \ {x}, v) + (IF x.severity = v THEN 1 ELSE 0)
<1> DEFINE S == {f \in s : f.severity = v}
           R == {f \in s \ {x} : f.severity = v}
<1>1. IsFiniteSet(S) /\ IsFiniteSet(R)
  BY FS_Subset
<1>2. CASE x.severity = v
  <2>1. S = R \union {x} /\ x \notin R
    BY <1>2
  <2> HIDE DEF S, R
  <2>2. Cardinality(S) = Cardinality(R) + 1
    BY <1>1, <2>1, FS_AddElement
  <2> QED BY <1>1, <1>2, <2>2, FS_CardinalityType DEF Count, S, R
<1>3. CASE x.severity # v
  <2>1. S = R
    BY <1>3
  <2>2. Count(s, v) = Cardinality(S) /\ Count(s \ {x}, v) = Cardinality(R)
    BY DEF Count
  <2> HIDE DEF S, R
  <2> QED BY <1>1, <1>3, <2>1, <2>2, FS_CardinalityType
<1> QED BY <1>2, <1>3

\* A finding that leaves takes its weight from the points.
LEMMA PointsIs ==
  ASSUME NEW s, IsFiniteSet(s), NEW x \in s, x.severity \in Severity
  PROVE  /\ Points(s) \in Nat /\ Points(s \ {x}) \in Nat
         /\ Points(s) = weight[x.severity] + Points(s \ {x})
<1>1. /\ \A v \in Severity : Count(s, v) \in Nat /\ Count(s \ {x}, v) \in Nat
      /\ \A v \in Severity : Count(s, v) = Count(s \ {x}, v) + (IF x.severity = v THEN 1 ELSE 0)
  BY CountIs
<1> QED BY <1>1 DEF Points, Severity, weight

\* Nothing found, no points.
LEMMA PointsEmpty == Points({}) = 0
<1>1. \A v : {f \in {} : f.severity = v} = {}
  OBVIOUS
<1> QED BY <1>1, FS_EmptySet DEF Points, Count

\* A function that takes findings one at a time, as the fold does.
Takes(g, F) ==
  g = [s \in SUBSET F |-> IF s = {} THEN 0
                          ELSE weight[(CHOOSE x \in s : TRUE).severity] + g[s \ {CHOOSE x \in s : TRUE}]]

\* The fold of the score over a finite set is its points.
LEMMA SumIs ==
  ASSUME NEW F, IsFiniteSet(F), \A f \in F : f.severity \in Severity
  PROVE  MapThenSumSet(LAMBDA f : weight[f.severity], F) = Points(F)
<1>1. \A s \in SUBSET F : IsFiniteSet(s)
  BY FS_Subset
<1>2. \E g : Takes(g, F)
  <2> DEFINE g == [s \in SUBSET F |-> Points(s)]
  <2>1. ASSUME NEW s \in SUBSET F, s # {}
        PROVE  Points(s) = weight[(CHOOSE x \in s : TRUE).severity] + g[s \ {CHOOSE x \in s : TRUE}]
    <3>1. (CHOOSE x \in s : TRUE) \in s
      BY <2>1
    <3> DEFINE c == CHOOSE x \in s : TRUE
    <3>2. s \ {c} \in SUBSET F /\ c \in s /\ c.severity \in Severity
      BY <3>1
    <3> HIDE DEF c
    <3>3. Points(s) = weight[c.severity] + Points(s \ {c})
      BY <1>1, <3>2, PointsIs
    <3>4. Points(s) = weight[c.severity] + g[s \ {c}]
      BY <3>2, <3>3
    <3> QED BY <3>4 DEF c
  <2>2. g = [s \in SUBSET F |-> IF s = {} THEN 0
                                ELSE weight[(CHOOSE x \in s : TRUE).severity] + g[s \ {CHOOSE x \in s : TRUE}]]
    BY <2>1, PointsEmpty
  <2> QED BY <2>2 DEF Takes
<1>3. ASSUME NEW g, Takes(g, F)
      PROVE  g[F] = Points(F)
  <2> DEFINE Off == {s \in SUBSET F : g[s] # Points(s)}
             T == {Cardinality(s) : s \in Off}
  <2>1. ASSUME Off # {} PROVE FALSE
    <3>1. T \in SUBSET Nat /\ T # {}
      BY <1>1, <2>1, FS_CardinalityType
    <3>2. PICK n \in T : \A k \in T : n <= k
      <4> HIDE DEF T
      <4> QED BY <3>1, LeastMember
    <3>3. PICK s \in Off : Cardinality(s) = n
      BY <3>2
    <3> DEFINE c == CHOOSE x \in s : TRUE
    <3>4. g[s] = IF s = {} THEN 0 ELSE weight[c.severity] + g[s \ {c}]
      BY <1>3 DEF Takes
    <3>5. s # {}
      BY <3>3, <3>4, PointsEmpty
    <3>6. c \in s
      BY <3>5
    <3> HIDE DEF c
    <3>7. /\ IsFiniteSet(s) /\ c.severity \in Severity /\ s \ {c} \in SUBSET F
      BY <1>1, <3>6
    <3>8. Cardinality(s \ {c}) = Cardinality(s) - 1 /\ Cardinality(s) \in Nat
      BY <3>6, <3>7, FS_RemoveElement, FS_CardinalityType
    <3>9. s \ {c} \notin Off
      <4> HIDE DEF Off
      <4> QED BY <3>1, <3>2, <3>3, <3>8
    <3>10. g[s \ {c}] = Points(s \ {c})
      BY <3>7, <3>9
    <3>11. Points(s) = weight[c.severity] + Points(s \ {c})
      BY <3>6, <3>7, PointsIs
    <3> QED BY <3>3, <3>4, <3>5, <3>10, <3>11
  <2> QED BY <2>1
<1>4. MapThenSumSet(LAMBDA f : weight[f.severity], F) = (CHOOSE g : Takes(g, F))[F]
  BY DEF MapThenSumSet, MapThenFoldSet, Takes
<1> QED BY <1>2, <1>3, <1>4

\* A larger set of findings costs no fewer points.
LEMMA PointsGrow ==
  ASSUME NEW F, IsFiniteSet(F), NEW X \in SUBSET F
  PROVE  Points(X) \in Nat /\ Points(F) \in Nat /\ Points(X) <= Points(F)
<1>1. ASSUME NEW v
      PROVE  Count(X, v) \in Nat /\ Count(F, v) \in Nat /\ Count(X, v) <= Count(F, v)
  <2> DEFINE S == {f \in F : f.severity = v}
             R == {f \in X : f.severity = v}
  <2>1. IsFiniteSet(S) /\ R \subseteq S
    BY FS_Subset
  <2> HIDE DEF S, R
  <2>2. IsFiniteSet(R) /\ Cardinality(R) <= Cardinality(S)
    BY <2>1, FS_Subset
  <2> QED BY <2>1, <2>2, FS_CardinalityType DEF Count, S, R
<1> QED BY <1>1 DEF Points

\* The grade of a server falls with every finding, and with an inspection cut short.
LEMMA GradeFalls ==
  ASSUME NEW F, IsFiniteSet(F), \A f \in F : f.severity \in Severity, NEW X \in SUBSET F,
         NEW incomplete \in BOOLEAN
  PROVE  /\ GradeRank[grade_server(X, FALSE)] <= GradeRank[grade_server(F, incomplete)]
         /\ incomplete => GradeRank["C"] <= GradeRank[grade_server(F, incomplete)]
<1>1. IsFiniteSet(X) /\ \A f \in X : f.severity \in Severity
  BY FS_Subset
<1>2. score_findings(X) \in Nat /\ score_findings(F) \in Nat /\ score_findings(F) <= score_findings(X)
  <2>1. score_findings(X) = Floored(100 - Points(X)) /\ score_findings(F) = Floored(100 - Points(F))
    BY <1>1, SumIs DEF score_findings
  <2> QED BY <2>1, PointsGrow DEF Floored
<1>3. GradeRank[grade_for_score(score_findings(X))] <= GradeRank[grade_for_score(score_findings(F))]
      /\ GradeRank[grade_for_score(score_findings(F))] \in Nat
  BY <1>2 DEF grade_for_score, GradeRank
<1>4. \A g \in Grade : GradeRank[cap_grade(g, "C")] >= GradeRank[g] /\ GradeRank[cap_grade(g, "C")] >= GradeRank["C"]
                       /\ GradeRank[g] \in Nat /\ GradeRank[cap_grade(g, "C")] \in Nat
  BY DEF cap_grade, GradeRank, Grade
<1>5. grade_for_score(score_findings(F)) \in Grade
  BY DEF grade_for_score, Grade
<1> HIDE DEF GradeRank
<1>6. GradeRank["C"] \in Nat /\ GradeRank[grade_for_score(score_findings(X))] \in Nat
  BY DEF grade_for_score, GradeRank
<1> QED BY <1>3, <1>4, <1>5, <1>6 DEF grade_server

-----------------------------------------------------------------------------
(* What has been seen, and what is in hand.                                 *)

\* Servers a config declares.
Declares(f, w) ==
  {[id |-> <<"declared", f, n>>, decl |-> w[f].servers[n]] : n \in DOMAIN w[f].servers}

\* What came of a config that was looked at at instant i: all it held is in the report
\* and among D, or there was nothing to be read, or the report says it could not be.
ReadAt(f, i, D) ==
  \/ /\ past[i][f].status = "ok"
     /\ audit_config(f, past[i][f]) \subseteq servers
     /\ Declares(f, past[i]) \subseteq D
  \/ past[i][f].status \in {"absent", "malformed"}
  \/ config_failure_server(f) \in servers

DotenvSeen ==
  \/ config_failure_server("dotenv") \in servers
  \/ \E i \in DOMAIN past : ~There(past[i].dotenv)
  \/ \E i, j, k \in DOMAIN past :
       audit_env_file(past[i].dotenv.secrets, There(past[j].dotenv) /\ past[j].dotenv_open,
                      past[k].dotenv_tracked) \in servers

StoreSeen ==
  \/ \E i \in DOMAIN past : ~There(past[i].store)
  \/ \E i, j \in DOMAIN past :
       Surfaced(<<"store">>, FALSE,
                check_token_store(There(past[i].store) /\ past[i].store_open,
                                  IF Readable(past[j].store) THEN past[j].store.exp ELSE {}, now)) \subseteq servers

ProcsSeen ==
  \E i \in DOMAIN past : audit_process_envs(past[i].procs.env, past[i].procs.denied) \subseteq servers

LogSeen ==
  \/ \E i \in DOMAIN past :
       /\ ~past[i].log.present
       /\ Surfaced(<<"telemetry">>, FALSE, check_telemetry(FALSE, FALSE, {}, now)) \subseteq servers
  \/ \E i, j \in DOMAIN past :
       /\ past[i].log.present
       /\ Surfaced(<<"telemetry">>, FALSE,
                   check_telemetry(TRUE, past[j].log.present /\ past[j].log.open,
                                   IF past[j].log.present THEN {past[j].log.mtime} ELSE {}, now)) \subseteq servers

\* What came of the broker's files, read at k and l, for the servers D.
Judged(k, l, D) ==
  LET file == past[k].manifest
  IN  \/ file.status # "ok" /\ (NoBroker(D) \subseteq servers \/ ParseError(D) \subseteq servers)
      \/ /\ file.status = "ok" /\ Checkable(file.m) = {}
         /\ audit_broker(D, file.m, "none") \subseteq servers
      \/ /\ file.status = "ok"
         /\ \E e \in Checkable(file.m) :
              audit_broker(D, file.m, ChainReason(past[l].chain, e)) \subseteq servers

\* Both configs were looked at by instant k, one after the other.
ConfigsSeen(k, D) ==
  \E j \in 1..k : \E i \in 1..j : ReadAt("user", i, D) /\ ReadAt("project", j, D)

BrokerSeen ==
  \E D \in SUBSET subjects : \E l \in DOMAIN past : \E k \in 1..l : ConfigsSeen(k, D) /\ Judged(k, l, D)

\* What came of a surface that has been left.
Seen(s) ==
  /\ s = "user" => \E i \in DOMAIN past : ReadAt("user", i, subjects)
  /\ s = "project" => \E k \in DOMAIN past : ConfigsSeen(k, subjects)
  /\ s = "dotenv" => DotenvSeen
  /\ s = "store" => StoreSeen
  /\ s = "procs" => ProcsSeen
  /\ s = "log" => LogSeen
  /\ s = "manifest" => BrokerSeen

\* What is in hand between two looks at a surface.
InHand ==
  /\ At("dotenv", 3) => \E i \in DOMAIN past : held.secrets = past[i].dotenv.secrets
  /\ At("dotenv", 4) =>
       \E i, j \in DOMAIN past :
         /\ held.secrets = past[i].dotenv.secrets
         /\ held.open = (There(past[j].dotenv) /\ past[j].dotenv_open)
  /\ At("store", 3) => \E i \in DOMAIN past : held.open = (There(past[i].store) /\ past[i].store_open)
  /\ At("log", 2) => \E i \in DOMAIN past : past[i].log.present
  /\ At("manifest", 3) =>
       \E k \in DOMAIN past :
         /\ ConfigsSeen(k, subjects)
         /\ held.manifest = past[k].manifest /\ past[k].manifest.status = "ok"

\* The order of the surfaces and stages.
Turn == [user |-> 1, project |-> 2, dotenv |-> 3, store |-> 4, procs |-> 5, log |-> 6, manifest |-> 7,
         sockets |-> 8, ledger |-> 9, apply |-> 10, write |-> 11, gate |-> 12, alert |-> 13]

\* Stages from turn `first' to turn `last', in order.
InOrder(stages, first, last) ==
  /\ stages \in Seq(DOMAIN Turn)
  /\ \A i \in DOMAIN stages : Turn[stages[i]] \in first..last
  /\ \A i, j \in DOMAIN stages : i < j => Turn[stages[i]] < Turn[stages[j]]

\* The surface a server is of.
Of(id) ==
  CASE id[1] \in {"declared", "permissions", "config"} -> id[2]
    [] id[1] = "dotenv" -> "dotenv"
    [] id[1] = "store" -> "store"
    [] id[1] = "process" -> "procs"
    [] id[1] = "telemetry" -> "log"
    [] id[1] = "broker" -> "manifest"
    [] OTHER -> "sockets"

\* No server is reported twice, and there is an end to what is reported.
Tidy(reported) ==
  /\ IsFiniteSet(reported)
  /\ \A s \in reported : IsFiniteSet(s.findings)
  /\ \A s, t \in reported : s.id = t.id => s = t

\* Before the report is assembled: every surface that has been left was seen, and no
\* server is reported of one that has not.
Watched ==
  /\ \A s \in Wanted(scene.inspect) : s \in Range(todo) \/ Seen(s)
  /\ \A s \in servers : Of(s.id) \notin Range(todo)
  /\ IsFiniteSet(subjects)
  /\ InHand

\* And after.
StandingSeen == \A r \in Standing : r \in Pairs(servers) \/ Unseen(r)

GradeWorst == \A s \in servers : GradeRank[grade] >= GradeRank[grade_server(s.findings, s.incomplete)]

ReuseTold ==
  \A q, r \in Pairs(servers) :
    q[1] # r[1] /\ q[2].secret = r[2].secret /\ q[2].secret # NoSecret =>
      \E p \in Pairs(servers) : p[1] = q[1] /\ p[2].id = "CRED_REUSE" /\ p[2].secret = q[2].secret

Watching ==
  /\ InOrder(todo, 1, 13) /\ Tidy(servers)
  /\ IF Len(todo) > 5 THEN Watched ELSE StandingSeen /\ GradeWorst /\ ReuseTold

-----------------------------------------------------------------------------
(* The order of the looks.                                                  *)

\* One run of stages after another, each in order.
LEMMA OrderJoins ==
  ASSUME NEW a \in Int, NEW b \in Int, NEW c \in Int, NEW d \in Int, a <= c, b < c, b <= d,
         NEW p, InOrder(p, a, b), NEW q, InOrder(q, c, d)
  PROVE  InOrder(p \o q, a, d) /\ Range(p \o q) = Range(p) \union Range(q)
<1> DEFINE r == p \o q
           m == Len(p)
           n == Len(q)
<1>0. /\ p \in Seq(DOMAIN Turn) /\ q \in Seq(DOMAIN Turn) /\ m \in Nat /\ n \in Nat
      /\ DOMAIN p = 1..m /\ DOMAIN q = 1..n
      /\ \A x \in DOMAIN Turn : Turn[x] \in Int
  BY DEF InOrder, Turn
<1>1. /\ r \in Seq(DOMAIN Turn) /\ DOMAIN r = 1..(m + n)
      /\ \A i \in 1..(m + n) : r[i] = IF i <= m THEN p[i] ELSE q[i - m]
  <2>1. r \in Seq(DOMAIN Turn) /\ Len(r) = m + n
        /\ \A i \in 1..(m + n) : r[i] = IF i <= m THEN p[i] ELSE q[i - m]
    BY <1>0, ConcatProperties
  <2> QED BY <2>1
<1> HIDE DEF r, m, n
<1>2. \A i \in 1..m : r[i] = p[i]
  BY <1>0, <1>1
<1>3. \A j \in 1..n : m + j \in 1..(m + n) /\ r[m + j] = q[j]
  <2> SUFFICES ASSUME NEW j \in 1..n PROVE m + j \in 1..(m + n) /\ r[m + j] = q[j]
    OBVIOUS
  <2>1. m + j \in 1..(m + n) /\ ~(m + j <= m) /\ (m + j) - m = j
    BY <1>0
  <2> QED BY <1>1, <2>1
<1>4. \A i \in 1..(m + n) : i \in 1..m \/ \E j \in 1..n : i = m + j
  <2> SUFFICES ASSUME NEW i \in 1..(m + n), i \notin 1..m PROVE \E j \in 1..n : i = m + j
    OBVIOUS
  <2>1. i - m \in 1..n /\ i = m + (i - m)
    BY <1>0
  <2> QED BY <2>1
<1>5. Range(r) = Range(p) \union Range(q)
  <2>1. ASSUME NEW i \in 1..(m + n) PROVE r[i] \in Range(p) \union Range(q)
    <3>1. i \in 1..m => r[i] = p[i] /\ p[i] \in Range(p)
      BY <1>0, <1>2 DEF Range
    <3>2. \A j \in 1..n : i = m + j => r[i] = q[j] /\ q[j] \in Range(q)
      BY <1>0, <1>3 DEF Range
    <3> QED BY <1>4, <3>1, <3>2
  <2>2. ASSUME NEW i \in 1..m PROVE p[i] \in Range(r)
    <3>1. i \in 1..(m + n) /\ r[i] = p[i]
      BY <1>0, <1>2
    <3> QED BY <1>1, <3>1 DEF Range
  <2>3. ASSUME NEW j \in 1..n PROVE q[j] \in Range(r)
    <3>1. m + j \in 1..(m + n) /\ r[m + j] = q[j]
      BY <1>3
    <3> QED BY <1>1, <3>1 DEF Range
  <2>5. Range(p) = {p[i] : i \in 1..m} /\ Range(q) = {q[j] : j \in 1..n}
    BY <1>0 DEF Range
  <2>4. Range(r) \subseteq Range(p) \union Range(q)
    BY <1>1, <2>1 DEF Range
  <2> QED BY <2>2, <2>3, <2>4, <2>5
<1>6. /\ \A i \in 1..m : Turn[p[i]] \in Int /\ a <= Turn[p[i]] /\ Turn[p[i]] <= b
      /\ \A j \in 1..n : Turn[q[j]] \in Int /\ c <= Turn[q[j]] /\ Turn[q[j]] <= d
      /\ \A i, j \in 1..m : i < j => Turn[p[i]] < Turn[p[j]]
      /\ \A i, j \in 1..n : i < j => Turn[q[i]] < Turn[q[j]]
  <2>1. \A x \in a..b : x \in Int /\ a <= x /\ x <= b
    OBVIOUS
  <2>2. \A x \in c..d : x \in Int /\ c <= x /\ x <= d
    OBVIOUS
  <2> HIDE DEF Turn
  <2> QED BY <1>0, <2>1, <2>2 DEF InOrder
<1> HIDE DEF Turn
<1>7. \A i \in DOMAIN r : Turn[r[i]] \in a..d
  <2> SUFFICES ASSUME NEW i \in 1..(m + n) PROVE Turn[r[i]] \in a..d
    BY <1>1
  <2>1. CASE i \in 1..m
    <3>1. r[i] = p[i]
      BY <1>2, <2>1
    <3>2. Turn[p[i]] \in Int /\ a <= Turn[p[i]] /\ Turn[p[i]] <= b
      BY <1>6, <2>1
    <3> QED BY <3>1, <3>2
  <2>2. ASSUME NEW j \in 1..n, i = m + j PROVE Turn[r[i]] \in a..d
    <3>1. r[i] = q[j]
      BY <1>3, <2>2
    <3>2. Turn[q[j]] \in Int /\ c <= Turn[q[j]] /\ Turn[q[j]] <= d
      BY <1>6
    <3> QED BY <3>1, <3>2
  <2> QED BY <1>4, <2>1, <2>2
<1>8. \A i, j \in DOMAIN r : i < j => Turn[r[i]] < Turn[r[j]]
  <2> SUFFICES ASSUME NEW i \in 1..(m + n), NEW j \in 1..(m + n), i < j PROVE Turn[r[i]] < Turn[r[j]]
    BY <1>1
  <2>1. CASE i \in 1..m /\ j \in 1..m
    BY <1>2, <1>6, <2>1
  <2>2. ASSUME i \in 1..m, NEW l \in 1..n, j = m + l PROVE Turn[r[i]] < Turn[r[j]]
    <3>1. r[i] = p[i] /\ r[j] = q[l]
      BY <1>2, <1>3, <2>2
    <3>2. Turn[p[i]] \in Int /\ Turn[p[i]] <= b /\ Turn[q[l]] \in Int /\ c <= Turn[q[l]]
      BY <1>6, <2>2
    <3> QED BY <3>1, <3>2
  <2>3. ASSUME NEW k \in 1..n, i = m + k, NEW l \in 1..n, j = m + l PROVE Turn[r[i]] < Turn[r[j]]
    <3>1. r[i] = q[k] /\ r[j] = q[l] /\ k < l
      BY <1>0, <1>3, <2>3
    <3> QED BY <1>6, <3>1
  <2>4. ASSUME NEW k \in 1..n, i = m + k, j \in 1..m PROVE FALSE
    BY <1>0, <2>4
  <2> QED BY <1>4, <2>1, <2>2, <2>3, <2>4
<1> QED BY <1>1, <1>5, <1>7, <1>8 DEF InOrder, r

\* A plan is in order, and has every look that is wanted.
LEMMA PlanOrdered ==
  ASSUME NEW inspect
  PROVE  InOrder(Plan(inspect), 1, 13) /\ Wanted(inspect) \subseteq Range(Plan(inspect))
<1> DEFINE p0 == <<"user", "project", "dotenv">>
           p1 == p0 \o Asked(inspect, "store")
           p2 == p1 \o Asked(inspect, "procs")
           p3 == p2 \o Asked(inspect, "log")
           p4 == p3 \o Asked(inspect, "manifest")
<1>1. ASSUME NEW s \in {"store", "procs", "log", "manifest"}
      PROVE  /\ InOrder(Asked(inspect, s), Turn[s], Turn[s])
             /\ Optional[s] \in inspect => s \in Range(Asked(inspect, s))
  <2>1. s \in DOMAIN Turn /\ Turn[s] \in Int
    BY DEF Turn
  <2>2. InOrder(<<>>, Turn[s], Turn[s])
    BY DEF InOrder
  <2>3. InOrder(<<s>>, Turn[s], Turn[s]) /\ s \in Range(<<s>>)
    <3>1. <<s>> \in Seq(DOMAIN Turn) /\ DOMAIN <<s>> = {1} /\ <<s>>[1] = s
      BY <2>1
    <3> QED BY <2>1, <3>1 DEF InOrder, Range
  <2> QED BY <2>2, <2>3 DEF Asked
<1>2. InOrder(p0, 1, 3) /\ {"user", "project", "dotenv"} \subseteq Range(p0)
  <2>1. /\ p0 \in Seq(DOMAIN Turn) /\ DOMAIN p0 = 1..3
        /\ p0[1] = "user" /\ p0[2] = "project" /\ p0[3] = "dotenv"
    BY DEF Turn
  <2>2. Turn["user"] = 1 /\ Turn["project"] = 2 /\ Turn["dotenv"] = 3
    BY DEF Turn
  <2> QED BY <2>1, <2>2 DEF InOrder, Range
<1>3. InOrder(Closing, 8, 13)
  <2>1. /\ Closing \in Seq(DOMAIN Turn) /\ DOMAIN Closing = 1..6
        /\ \A i \in 1..6 : Turn[Closing[i]] = 7 + i
    BY DEF Closing, Turn
  <2> QED BY <2>1 DEF InOrder
<1>4. Turn["store"] = 4 /\ Turn["procs"] = 5 /\ Turn["log"] = 6 /\ Turn["manifest"] = 7
  BY DEF Turn
<1> HIDE DEF p0
<1>5. InOrder(p1, 1, 4) /\ Range(p1) = Range(p0) \union Range(Asked(inspect, "store"))
  BY <1>1, <1>2, <1>4, OrderJoins
<1> HIDE DEF p1
<1>6. InOrder(p2, 1, 5) /\ Range(p2) = Range(p1) \union Range(Asked(inspect, "procs"))
  BY <1>1, <1>4, <1>5, OrderJoins
<1> HIDE DEF p2
<1>7. InOrder(p3, 1, 6) /\ Range(p3) = Range(p2) \union Range(Asked(inspect, "log"))
  BY <1>1, <1>4, <1>6, OrderJoins
<1> HIDE DEF p3
<1>8. InOrder(p4, 1, 7) /\ Range(p4) = Range(p3) \union Range(Asked(inspect, "manifest"))
  BY <1>1, <1>4, <1>7, OrderJoins
<1> HIDE DEF p4
<1>9. InOrder(p4 \o Closing, 1, 13) /\ Range(p4 \o Closing) = Range(p4) \union Range(Closing)
  BY <1>3, <1>8, OrderJoins
<1>10. Plan(inspect) = p4 \o Closing
  BY DEF Plan, p4, p3, p2, p1, p0
<1>11. ASSUME NEW s \in Wanted(inspect)
       PROVE  s \in Range(p4)
  <2>1. \/ s \in {"user", "project", "dotenv"}
        \/ s \in {"store", "procs", "log", "manifest"} /\ Optional[s] \in inspect
    BY DEF Wanted, Surface, Optional
  <2> QED BY <1>1, <1>2, <1>5, <1>6, <1>7, <1>8, <2>1
<1> QED BY <1>9, <1>10, <1>11

\* The stage under way is left behind for good; what comes before it has been.
LEMMA Leaving ==
  ASSUME NEW t, InOrder(t, 1, 13), t # <<>>
  PROVE  /\ InOrder(Tail(t), 1, 13) /\ Range(Tail(t)) = Range(t) \ {Head(t)} /\ Head(t) \in Range(t)
         /\ \A x \in Range(t) : Turn[Head(t)] <= Turn[x]
<1> DEFINE n == Len(t)
           u == Tail(t)
<1>1. /\ t \in Seq(DOMAIN Turn) /\ n \in Nat /\ DOMAIN t = 1..n /\ n # 0
      /\ \A x \in DOMAIN Turn : Turn[x] \in Int
  BY EmptySeq DEF InOrder, Turn
<1>2. /\ u \in Seq(DOMAIN Turn) /\ DOMAIN u = 1..(n - 1) /\ Head(t) = t[1]
      /\ \A i \in 1..(n - 1) : u[i] = t[i + 1]
  <2>1. u \in Seq(DOMAIN Turn) /\ Len(u) = n - 1 /\ Head(t) = t[1] /\ \A i \in 1..(n - 1) : u[i] = t[i + 1]
    BY <1>1
  <2> QED BY <2>1
<1> HIDE DEF u, n
<1>3. \A i \in 1..(n - 1) : i + 1 \in 1..n /\ i + 1 # 1
  BY <1>1
<1>4. \A i \in 1..n : i = 1 \/ (i - 1 \in 1..(n - 1) /\ (i - 1) + 1 = i)
  BY <1>1
<1>5. 1 \in 1..n
  BY <1>1
<1>6. \A i, j \in 1..n : i < j => Turn[t[i]] < Turn[t[j]]
  BY <1>1 DEF InOrder
<1>7. \A i \in 1..n : t[i] \in DOMAIN Turn /\ Turn[t[i]] \in Int
  BY <1>1
<1> HIDE DEF Turn
<1>8. InOrder(u, 1, 13)
  <2>1. \A i \in DOMAIN u : Turn[u[i]] \in 1..13
    BY <1>1, <1>2, <1>3 DEF InOrder
  <2>2. \A i, j \in 1..(n - 1) : i < j => i + 1 < j + 1
    BY <1>1
  <2>3. \A i, j \in DOMAIN u : i < j => Turn[u[i]] < Turn[u[j]]
    BY <1>2, <1>3, <1>6, <2>2
  <2> QED BY <1>2, <2>1, <2>3 DEF InOrder
<1>9. \A i \in 1..n : i # 1 => t[i] # t[1]
  <2> SUFFICES ASSUME NEW i \in 1..n, i # 1 PROVE t[i] # t[1]
    OBVIOUS
  <2>1. Turn[t[1]] < Turn[t[i]]
    BY <1>5, <1>6
  <2> QED BY <1>5, <1>7, <2>1
<1>10. Range(u) = Range(t) \ {t[1]}
  <2>1. ASSUME NEW x \in Range(u) PROVE x \in Range(t) \ {t[1]}
    <3>1. PICK i \in 1..(n - 1) : x = u[i]
      BY <1>2 DEF Range
    <3>2. x = t[i + 1] /\ i + 1 \in 1..n /\ i + 1 # 1
      BY <1>2, <1>3, <3>1
    <3> QED BY <1>1, <1>9, <3>2 DEF Range
  <2>2. ASSUME NEW x \in Range(t), x # t[1] PROVE x \in Range(u)
    <3>1. PICK i \in 1..n : x = t[i]
      BY <1>1 DEF Range
    <3>2. i - 1 \in 1..(n - 1) /\ (i - 1) + 1 = i
      BY <1>4, <2>2, <3>1
    <3>3. u[i - 1] = x
      BY <1>2, <3>1, <3>2
    <3> QED BY <1>2, <3>2, <3>3 DEF Range
  <2> QED BY <2>1, <2>2
<1>11. \A x \in Range(t) : Turn[t[1]] <= Turn[x]
  <2> SUFFICES ASSUME NEW i \in 1..n PROVE Turn[t[1]] <= Turn[t[i]]
    BY <1>1 DEF Range
  <2>1. i = 1 \/ 1 < i
    BY <1>1
  <2> QED BY <1>5, <1>6, <1>7, <2>1
<1> QED BY <1>1, <1>2, <1>5, <1>8, <1>10, <1>11 DEF u, Range

-----------------------------------------------------------------------------
(* What has been seen stays seen.                                           *)

\* What came of a config that was looked at.
LEMMA ReadAtStays ==
  ASSUME Extends, servers \subseteq servers', NEW f, NEW i \in DOMAIN past,
         NEW D, NEW E, D \subseteq E, ReadAt(f, i, D)
  PROVE  ReadAt(f, i, E)'
<1>1. past'[i] = past[i]
  BY DEF Extends
<1> QED BY <1>1 DEF ReadAt, Declares

\* So do both configs.
LEMMA ConfigsStay ==
  ASSUME Extends, servers \subseteq servers', NEW k \in DOMAIN past, NEW D, NEW E, D \subseteq E, ConfigsSeen(k, D)
  PROVE  k \in DOMAIN past' /\ ConfigsSeen(k, E)'
<1>1. PICK j \in 1..k : \E i \in 1..j : ReadAt("user", i, D) /\ ReadAt("project", j, D)
  BY DEF ConfigsSeen
<1>2. PICK i \in 1..j : ReadAt("user", i, D) /\ ReadAt("project", j, D)
  BY <1>1
<1>3. i \in DOMAIN past /\ j \in DOMAIN past /\ k \in DOMAIN past'
  BY DEF Extends
<1>4. ReadAt("user", i, E)' /\ ReadAt("project", j, E)'
  BY <1>2, <1>3, ReadAtStays
<1> QED BY <1>3, <1>4 DEF ConfigsSeen

\* And the broker's files.
LEMMA BrokerStays ==
  ASSUME Extends, servers \subseteq servers', subjects \subseteq subjects', BrokerSeen
  PROVE  BrokerSeen'
<1>1. PICK D \in SUBSET subjects : \E l \in DOMAIN past : \E k \in 1..l : ConfigsSeen(k, D) /\ Judged(k, l, D)
  BY DEF BrokerSeen
<1>2. PICK l \in DOMAIN past : \E k \in 1..l : ConfigsSeen(k, D) /\ Judged(k, l, D)
  BY <1>1
<1>3. PICK k \in 1..l : ConfigsSeen(k, D) /\ Judged(k, l, D)
  BY <1>2
<1>4. k \in DOMAIN past /\ l \in DOMAIN past' /\ past'[k] = past[k] /\ past'[l] = past[l]
  BY DEF Extends
<1>5. ConfigsSeen(k, D)'
  BY <1>3, <1>4, ConfigsStay
<1>6. Judged(k, l, D)'
  BY <1>3, <1>4 DEF Judged
<1> QED BY <1>4, <1>5, <1>6 DEF BrokerSeen

\* A surface that was seen has been seen, whatever the machine becomes and the report gains.
LEMMA SightStays ==
  ASSUME Extends, servers \subseteq servers', subjects \subseteq subjects', NEW s, Seen(s)
  PROVE  Seen(s)'
<1>1. \A i \in DOMAIN past : i \in DOMAIN past' /\ past'[i] = past[i]
  BY DEF Extends
<1>2. s = "user" => \E i \in DOMAIN past' : ReadAt("user", i, subjects)'
  BY <1>1, ReadAtStays DEF Seen
<1>3. s = "project" => \E k \in DOMAIN past' : ConfigsSeen(k, subjects)'
  BY ConfigsStay DEF Seen
<1>4. s = "dotenv" => DotenvSeen'
  BY <1>1 DEF Seen, DotenvSeen
<1>5. s = "store" => StoreSeen'
  BY <1>1 DEF Seen, StoreSeen, Extends
<1>6. s = "procs" => ProcsSeen'
  BY <1>1 DEF Seen, ProcsSeen
<1>7. s = "log" => LogSeen'
  BY <1>1 DEF Seen, LogSeen, Extends
<1>8. s = "manifest" => BrokerSeen'
  BY BrokerStays DEF Seen
<1> QED BY <1>2, <1>3, <1>4, <1>5, <1>6, <1>7, <1>8 DEF Seen

\* Nothing more stands as the machine changes.
LEMMA StandingShrinks ==
  ASSUME IInv, Extends
  PROVE  Standing' \subseteq Standing
<1>1. /\ 1 \in DOMAIN past /\ DOMAIN past = 1..Len(past) /\ Len(past) \in Nat
      /\ \A i \in DOMAIN past : i \in DOMAIN past' /\ past'[i] = past[i]
  BY Latest DEF Extends
<1> DEFINE R(w) == Pairs(Instant(scene.inspect, now, w))
           After(i, j, k, l) == [past'[i] EXCEPT !.project = past'[j].project, !.manifest = past'[k].manifest,
                                                 !.chain = past'[l].chain]
<1> SUFFICES ASSUME NEW r \in Standing' PROVE r \in Standing
  OBVIOUS
<1>2. UNCHANGED <<scene, now>>
  BY DEF Extends
<1>3. /\ r \in R(past'[1])
      /\ \A i \in DOMAIN past' : r \in R(past'[i])
      /\ r[2].id \in Joined =>
            \A l \in DOMAIN past' : \A k \in 1..l : \A j \in 1..k : \A i \in 1..j : r \in R(After(i, j, k, l))
  BY <1>2 DEF Standing, Risks, Glimpse
<1> HIDE DEF R
<1>4. r \in R(past[1]) /\ \A i \in DOMAIN past : r \in R(past[i])
  BY <1>1, <1>3
<1>5. ASSUME r[2].id \in Joined, NEW l \in DOMAIN past, NEW k \in 1..l, NEW j \in 1..k, NEW i \in 1..j
      PROVE  r \in R(Glimpse(i, j, k, l))
  <2>1. i \in DOMAIN past /\ j \in DOMAIN past /\ k \in DOMAIN past
    BY <1>1
  <2>2. After(i, j, k, l) = Glimpse(i, j, k, l)
    BY <1>1, <2>1 DEF Glimpse
  <2> HIDE DEF After
  <2> QED BY <1>1, <1>3, <1>5, <2>2
<1> QED BY <1>4, <1>5 DEF Standing, Risks, R

-----------------------------------------------------------------------------
(* Steps that keep watch.                                                   *)

\* Two tidy reports without a server in common.
LEMMA TidyUnion ==
  ASSUME NEW X, NEW Y, Tidy(X), Tidy(Y), \A s \in X : \A t \in Y : s.id # t.id
  PROVE  Tidy(X \union Y)
<1>1. IsFiniteSet(X \union Y)
  BY FS_Union DEF Tidy
<1> QED BY <1>1 DEF Tidy

\* The last look at a surface.
LEMMA LookDone ==
  ASSUME IInv, Watching, NEW s \in Surface, NEW n, At(s, n), UNCHANGED machine,
         todo' = Tail(todo), look' = 1,
         subjects \subseteq subjects', IsFiniteSet(subjects'),
         NEW new, Report(new), Tidy(new), \A t \in new : Of(t.id) = s, Seen(s)'
  PROVE  Watching'
<1>1. Len(todo) > 6 /\ Len(todo) \in Nat /\ Len(todo') = Len(todo) - 1
  BY AtIs DEF IInv
<1>2. /\ InOrder(todo, 1, 13) /\ Tidy(servers) /\ Watched
      /\ todo # <<>> /\ Head(todo) = s
  BY <1>1 DEF Watching, At
<1>3. InOrder(todo', 1, 13) /\ Range(todo') = Range(todo) \ {s} /\ s \in Range(todo)
  BY <1>2, Leaving
<1>4. Extends /\ servers' = servers \union new
  BY StillExtends DEF Report
<1>5. \A t \in servers : Of(t.id) \notin Range(todo)
  BY <1>2 DEF Watched
<1>6. Tidy(servers')
  <2>1. \A t \in servers : \A u \in new : t.id # u.id
    BY <1>3, <1>5
  <2> QED BY <1>2, <1>4, <2>1, TidyUnion
<1>7. Watched'
  <2>1. \A x \in Wanted(scene'.inspect) : x \in Range(todo') \/ Seen(x)'
    <3>1. scene' = scene
      BY DEF machine
    <3>2. ASSUME NEW x \in Wanted(scene.inspect)
          PROVE  x \in Range(todo') \/ Seen(x)'
      <4>1. x \in Range(todo) \/ Seen(x)
        BY <1>2 DEF Watched
      <4>2. Seen(x) => Seen(x)'
        BY <1>4, SightStays
      <4> QED BY <1>3, <4>1, <4>2
    <3> QED BY <3>1, <3>2
  <2>2. \A t \in servers' : Of(t.id) \notin Range(todo')
    BY <1>3, <1>4, <1>5
  <2>3. InHand'
    BY DEF InHand, At
  <2> QED BY <2>1, <2>2, <2>3 DEF Watched
<1> QED BY <1>1, <1>3, <1>6, <1>7 DEF Watching

\* A look that is not.
LEMMA LookMore ==
  ASSUME IInv, Watching, NEW s \in Surface, NEW n, At(s, n), UNCHANGED <<machine, found, todo>>, InHand'
  PROVE  Watching'
<1>1. Len(todo) > 6 /\ Len(todo) \in Nat
  BY AtIs DEF IInv
<1>2. InOrder(todo, 1, 13) /\ Tidy(servers) /\ Watched
  BY <1>1 DEF Watching
<1>3. Extends /\ UNCHANGED <<servers, subjects, todo, scene>>
  BY StillExtends DEF found, machine
<1>4. \A x \in Wanted(scene'.inspect) : x \in Range(todo') \/ Seen(x)'
  BY <1>2, <1>3, SightStays DEF Watched
<1>5. Watched'
  BY <1>2, <1>3, <1>4 DEF Watched
<1> QED BY <1>1, <1>2, <1>3, <1>5 DEF Watching

\* What is in hand stays in hand as the machine changes.
LEMMA InHandStays ==
  ASSUME Extends, InHand, UNCHANGED <<exit, todo, look, held, servers, subjects>>
  PROVE  InHand'
<1>1. \A i \in DOMAIN past : i \in DOMAIN past' /\ past'[i] = past[i]
  BY DEF Extends
<1>2. \A x, y : At(x, y)' <=> At(x, y)
  BY DEF At
<1>3. At("dotenv", 3)' => \E i \in DOMAIN past' : held'.secrets = past'[i].dotenv.secrets
  BY <1>1, <1>2 DEF InHand
<1>4. At("dotenv", 4)' =>
       \E i, j \in DOMAIN past' :
         /\ held'.secrets = past'[i].dotenv.secrets
         /\ held'.open = (There(past'[j].dotenv) /\ past'[j].dotenv_open)
  BY <1>1, <1>2 DEF InHand
<1>5. At("store", 3)' => \E i \in DOMAIN past' : held'.open = (There(past'[i].store) /\ past'[i].store_open)
  BY <1>1, <1>2 DEF InHand
<1>6. At("log", 2)' => \E i \in DOMAIN past' : past'[i].log.present
  BY <1>1, <1>2 DEF InHand
<1>7. At("manifest", 3)' =>
       \E k \in DOMAIN past' :
         /\ ConfigsSeen(k, subjects)'
         /\ held'.manifest = past'[k].manifest /\ past'[k].manifest.status = "ok"
  BY <1>1, <1>2, ConfigsStay DEF InHand
<1> QED BY <1>3, <1>4, <1>5, <1>6, <1>7 DEF InHand

\* Once there is a report, what is true of it stays so as the machine changes.
LEMMA ToldStays ==
  ASSUME IInv, Extends, UNCHANGED <<servers, grade>>, StandingSeen, GradeWorst, ReuseTold
  PROVE  StandingSeen' /\ GradeWorst' /\ ReuseTold'
<1>1. StandingSeen'
  <2>1. \A r : Unseen(r) => Unseen(r)'
    BY DEF Unseen
  <2> QED BY <2>1, StandingShrinks DEF StandingSeen
<1> QED BY <1>1 DEF GradeWorst, ReuseTold

\* A step that leaves the scan where it is, whatever the machine becomes.
LEMMA StillWatching ==
  ASSUME IInv, Watching, Extends, UNCHANGED <<exit, todo, look, held, subjects, servers, grade>>
  PROVE  Watching'
<1>1. InOrder(todo', 1, 13) /\ Tidy(servers')
  BY DEF Watching
<1>2. CASE Len(todo) > 5
  <2>1. Watched
    BY <1>2 DEF Watching
  <2>2. \A x \in Wanted(scene'.inspect) : x \in Range(todo') \/ Seen(x)'
    BY <2>1, SightStays DEF Watched, Extends
  <2>3. InHand'
    BY <2>1, InHandStays DEF Watched
  <2>4. Watched'
    BY <2>1, <2>2, <2>3 DEF Watched
  <2> QED BY <1>1, <1>2, <2>4 DEF Watching
<1>3. CASE ~(Len(todo) > 5)
  BY <1>1, <1>3, ToldStays DEF Watching
<1> QED BY <1>2, <1>3

\* An edit of the machine, and stuttering.
LEMMA EditWatching ==
  ASSUME IInv, Watching, (\E w : Become(w)) \/ UNCHANGED vars
  PROVE  Watching'
<1>1. ASSUME NEW w, Become(w)
      PROVE  Watching'
  <2>1. past' = Append(past, w)
        /\ UNCHANGED <<scene, now, exit, todo, look, held, subjects, servers, grade>>
    BY <1>1 DEF Become, found, verdict
  <2>2. PICK S : past \in Seq(S)
    BY DEF IInv, Timeline
  <2>3. Extends
    <3>1. past \in Seq(S \cup {w}) /\ w \in S \cup {w}
      BY <2>2
    <3>2. /\ Len(Append(past, w)) = Len(past) + 1 /\ DOMAIN Append(past, w) = 1..(Len(past) + 1)
          /\ \A k \in 1..Len(past) : Append(past, w)[k] = past[k]
      BY <3>1
    <3> QED BY <2>1, <3>2, Latest DEF Extends
  <2> QED BY <2>1, <2>3, StillWatching
<1>2. ASSUME UNCHANGED vars
      PROVE  Watching'
  <2>1. UNCHANGED machine /\ UNCHANGED <<exit, todo, look, held, subjects, servers, grade>>
    BY <1>2 DEF vars, machine
  <2> QED BY <2>1, StillExtends, StillWatching
<1> QED BY <1>1, <1>2

\* What comes after the report leaves it alone.
LEMMA StageWatching ==
  ASSUME IInv, Watching, ReadLedger \/ ApplyLedger \/ WriteReports \/ Gate \/ EmitAlerts
  PROVE  Watching'
<1>1. /\ UNCHANGED <<machine, servers, grade>>
      /\ todo' \in {Tail(todo), <<>>, todo}
      /\ \E s \in DOMAIN Place \ {"sockets"} : At(s, 1)
  BY DEF ReadLedger, ApplyLedger, WriteReports, Gate, EmitAlerts, Done, Crash, found, Place
<1>2. PICK s \in DOMAIN Place \ {"sockets"} : At(s, 1)
  BY <1>1
<1>3. Extends /\ ~(Len(todo) > 5) /\ ~(Len(todo') > 5)
  <2>1. Place[s] <= 5
    BY DEF Place
  <2>2. Len(todo) \in Nat /\ Len(todo) = Place[s] /\ Len(Tail(todo)) = Len(todo) - 1
    BY <1>2, AtIs DEF IInv
  <2>3. Len(todo') = Len(todo) - 1 \/ Len(todo') = 0 \/ Len(todo') = Len(todo)
    BY <1>1, <2>2
  <2>4. Extends
    BY <1>1, StillExtends
  <2> QED BY <2>1, <2>2, <2>3, <2>4 DEF Place
<1>4. InOrder(todo', 1, 13)
  <2>1. InOrder(<<>>, 1, 13)
    BY DEF InOrder
  <2>2. todo # <<>>
    BY <1>2 DEF At
  <2>3. InOrder(Tail(todo), 1, 13)
    BY <2>2, Leaving DEF Watching
  <2> QED BY <1>1, <2>1, <2>3 DEF Watching
<1>5. StandingSeen' /\ GradeWorst' /\ ReuseTold'
  BY <1>1, <1>3, ToldStays DEF Watching
<1> QED BY <1>1, <1>3, <1>4, <1>5 DEF Watching

\* A look that raises leaves everything it did not see still to do.
LEMMA LookRaisesWatching ==
  ASSUME IInv, Watching, LookRaises
  PROVE  Watching'
<1>1. UNCHANGED <<machine, found, todo>> /\ exit' = "crash"
  BY DEF LookRaises, Crash
<1>2. PICK s \in Surface, n \in 1..3 : At(s, n)
  BY DEF LookRaises, ConfigFile, Surface
<1>3. InHand'
  BY <1>1 DEF InHand, At
<1> QED BY <1>1, <1>2, <1>3, LookMore

\* Nothing is left unseen when the command starts, for everything is still to do.
LEMMA InitWatching == Init => Watching
<1> SUFFICES ASSUME Init PROVE Watching
  OBVIOUS
<1>1. todo = Plan(scene.inspect) /\ servers = {} /\ subjects = {} /\ look = 1
  BY DEF Init
<1>2. InOrder(todo, 1, 13) /\ Wanted(scene.inspect) \subseteq Range(todo)
  BY <1>1, PlanOrdered
<1>3. Tidy(servers) /\ IsFiniteSet(subjects)
  BY <1>1, FS_EmptySet DEF Tidy
<1>4. Len(todo) > 5
  <2>1. IInv /\ grade = "none"
    BY Initialization DEF Init
  <2> QED BY <2>1 DEF IInv, Staged
<1>5. InHand
  BY <1>1 DEF InHand, At
<1> QED BY <1>1, <1>2, <1>3, <1>4, <1>5 DEF Watching, Watched

-----------------------------------------------------------------------------
(* What a look reports is tidy, and of its surface.                         *)

\* The surface each server is of.
LEMMA OfIs ==
  /\ \A f, n : Of(<<"declared", f, n>>) = f
  /\ \A f : Of(<<"permissions", f>>) = f /\ Of(<<"config", f>>) = f
  /\ Of(<<"dotenv">>) = "dotenv" /\ Of(<<"store">>) = "store" /\ Of(<<"telemetry">>) = "log"
  /\ Of(<<"broker">>) = "manifest"
  /\ \A p : Of(<<"process", p>>) = "procs"
  /\ \A l : Of(<<"socket", l>>) = "sockets"
BY DEF Of

\* What an id is made of.
LEMMA IdIs ==
  /\ \A f, n : <<"declared", f, n>>[1] = "declared" /\ <<"declared", f, n>>[2] = f /\ <<"declared", f, n>>[3] = n
  /\ \A f : <<"permissions", f>>[1] = "permissions" /\ <<"permissions", f>>[2] = f
  /\ \A f : <<"config", f>>[1] = "config" /\ <<"config", f>>[2] = f
  /\ \A p : <<"process", p>>[1] = "process" /\ <<"process", p>>[2] = p
  /\ \A l : <<"socket", l>>[1] = "socket" /\ <<"socket", l>>[2] = l
  /\ <<"dotenv">>[1] = "dotenv" /\ <<"store">>[1] = "store" /\ <<"telemetry">>[1] = "telemetry"
  /\ <<"broker">>[1] = "broker"
OBVIOUS

\* One server of a finite family each.
LEMMA TidyFamily ==
  ASSUME NEW S, IsFiniteSet(S), NEW g, DOMAIN g = S,
         \A p, q \in S : g[p].id = g[q].id => p = q,
         \A p \in S : IsFiniteSet(g[p].findings),
         NEW R, \A t \in R : \E p \in S : t = g[p]
  PROVE  Tidy(R)
<1> DEFINE T == {g[p] : p \in S}
           h == [p \in S |-> g[p]]
<1>1. h \in Surjection(S, T)
  BY DEF Surjection
<1>2. IsFiniteSet(T)
  <2> HIDE DEF h, T
  <2> QED BY <1>1, FS_Surjection
<1>3. R \subseteq T
  OBVIOUS
<1>4. IsFiniteSet(R)
  <2> HIDE DEF T
  <2> QED BY <1>2, <1>3, FS_Subset
<1> QED BY <1>4 DEF Tidy

\* Credentials, each a finding.
LEMMA SecretsFinite ==
  ASSUME NEW K, IsFiniteSet(K), NEW rule, NEW at
  PROVE  IsFiniteSet({Secretly(rule, at, k) : k \in K})
<1> DEFINE T == {Secretly(rule, at, k) : k \in K}
           h == [k \in K |-> Secretly(rule, at, k)]
<1>1. h \in Surjection(K, T)
  BY DEF Surjection
<1> HIDE DEF h, T
<1>2. IsFiniteSet(T)
  BY <1>1, FS_Surjection
<1> QED BY <1>2 DEF T

\* A finding that may be there.
LEMMA WhenFinite ==
  ASSUME NEW holds, NEW rule, NEW at
  PROVE  IsFiniteSet(When(holds, rule, at))
BY FS_EmptySet, FS_Singleton DEF When

\* Several checks of one server.
LEMMA UnionFinite ==
  ASSUME NEW X, NEW Y, IsFiniteSet(X), IsFiniteSet(Y)
  PROVE  IsFiniteSet(X \union Y)
BY FS_Union

\* One server.
LEMMA TidyOne ==
  ASSUME NEW id, NEW incomplete, NEW findings, IsFiniteSet(findings)
  PROVE  /\ Tidy({Server(id, incomplete, findings)}) /\ Tidy(Surfaced(id, incomplete, findings)) /\ Tidy({})
         /\ \A t \in Surfaced(id, incomplete, findings) : t.id = id
<1> DEFINE s == Server(id, incomplete, findings)
<1>1. s.id = id /\ s.findings = findings
  BY DEF Server
<1>2. Surfaced(id, incomplete, findings) \in {{}, {s}}
  BY DEF Surfaced
<1> HIDE DEF s
<1>3. Tidy({s}) /\ Tidy({})
  <2>1. IsFiniteSet({}) /\ IsFiniteSet({s})
    BY FS_EmptySet, FS_Singleton
  <2> QED BY <1>1, <2>1 DEF Tidy
<1> QED BY <1>1, <1>2, <1>3 DEF s

\* The servers of a config.
LEMMA ConfigTidy ==
  ASSUME NEW f, NEW cfg, IsFiniteSet(DOMAIN cfg.servers), \A n \in DOMAIN cfg.servers : IsFiniteSet(cfg.servers[n].env)
  PROVE  /\ Tidy(audit_config(f, cfg)) /\ \A t \in audit_config(f, cfg) : Of(t.id) = f
         /\ Tidy({config_failure_server(f)}) /\ Of(config_failure_server(f).id) = f
<1> DEFINE D(n) == check_server_env(cfg.servers[n], f)
                     \union check_server_auto_approve(cfg.servers[n], f)
                     \union check_server_pinning(cfg.servers[n], f)
                     \union check_tool_integrity(cfg.servers[n], f)
           S == DOMAIN cfg.servers
           g == [n \in S |-> Server(<<"declared", f, n>>, FALSE, D(n))]
           A == {Server(<<"declared", f, n>>, FALSE, D(n)) : n \in S}
           P == Surfaced(<<"permissions", f>>, FALSE, check_permissions(cfg.allow, f))
<1>1. audit_config(f, cfg) = A \union P
  BY DEF audit_config
<1>2. ASSUME NEW n \in S
      PROVE  IsFiniteSet(D(n))
  <2>1. IsFiniteSet(check_server_env(cfg.servers[n], f))
    BY SecretsFinite DEF check_server_env
  <2>2. IsFiniteSet(check_server_auto_approve(cfg.servers[n], f))
    BY WhenFinite, UnionFinite DEF check_server_auto_approve
  <2>3. IsFiniteSet(check_server_pinning(cfg.servers[n], f))
    BY WhenFinite DEF check_server_pinning
  <2>4. IsFiniteSet(check_tool_integrity(cfg.servers[n], f))
    BY WhenFinite, UnionFinite DEF check_tool_integrity
  <2> QED BY <2>1, <2>2, <2>3, <2>4, UnionFinite
<1>3. IsFiniteSet(check_permissions(cfg.allow, f))
  BY WhenFinite, UnionFinite DEF check_permissions
<1>4. \A n \in S : /\ g[n].id = <<"declared", f, n>> /\ g[n].findings = D(n)
                   /\ g[n] = Server(<<"declared", f, n>>, FALSE, D(n))
  <2> HIDE DEF D
  <2> QED BY DEF Server
<1> HIDE DEF D
<1>5. \A t \in A : \E n \in S : t = g[n]
  BY <1>4
<1>6. \A p, q \in S : g[p].id = g[q].id => p = q
  <2> SUFFICES ASSUME NEW p \in S, NEW q \in S, g[p].id = g[q].id PROVE p = q
    OBVIOUS
  <2>1. g[p].id = <<"declared", f, p>> /\ g[q].id = <<"declared", f, q>>
    BY <1>4
  <2> HIDE DEF g
  <2>2. <<"declared", f, p>> = <<"declared", f, q>>
    BY <2>1
  <2> QED BY <2>2
<1>7. DOMAIN g = S
  OBVIOUS
<1> HIDE DEF g, A
<1> HIDE DEF S
<1>8. Tidy(A)
  <2>1. IsFiniteSet(S) /\ \A p \in S : IsFiniteSet(g[p].findings)
    BY <1>2, <1>4 DEF S
  <2> QED BY <2>1, <1>4, <1>5, <1>6, <1>7, TidyFamily
<1>9. \A t \in A : \E n \in S : t.id = <<"declared", f, n>>
  BY <1>4, <1>5
<1>10. Tidy(P) /\ \A t \in P : t.id = <<"permissions", f>>
  BY <1>3, TidyOne
<1>11. Tidy(A \union P)
  <2>1. \A s \in A : \A t \in P : s.id # t.id
    <3> SUFFICES ASSUME NEW s \in A, NEW t \in P PROVE s.id # t.id
      OBVIOUS
    <3>1. s.id[1] = "declared"
      <4>1. PICK n \in S : s.id = <<"declared", f, n>>
        BY <1>9
      <4> QED BY <4>1, IdIs
    <3>2. t.id[1] = "permissions"
      <4>1. t.id = <<"permissions", f>>
        BY <1>10
      <4> QED BY <4>1, IdIs
    <3> QED BY <3>1, <3>2
  <2> QED BY <1>8, <1>10, <2>1, TidyUnion
<1>12. Tidy({config_failure_server(f)}) /\ Of(config_failure_server(f).id) = f
  <2>1. config_failure_server(f).id = <<"config", f>>
    BY DEF config_failure_server, Server
  <2>2. Tidy({config_failure_server(f)})
    BY TidyOne, FS_Singleton DEF config_failure_server
  <2> QED BY <2>1, <2>2, OfIs
<1>13. ASSUME NEW t \in A PROVE Of(t.id) = f
  <2>1. PICK n \in S : t.id = <<"declared", f, n>>
    BY <1>9
  <2> QED BY <2>1, OfIs
<1>14. \A t \in P : Of(t.id) = f
  BY <1>10, OfIs
<1> HIDE DEF P
<1> QED BY <1>1, <1>11, <1>12, <1>13, <1>14

\* The processes.
LEMMA ProcessesTidy ==
  ASSUME NEW env, IsFiniteSet(DOMAIN env), \A p \in DOMAIN env : IsFiniteSet(env[p]), NEW incomplete
  PROVE  /\ Tidy(audit_process_envs(env, incomplete))
         /\ \A t \in audit_process_envs(env, incomplete) : Of(t.id) = "procs"
<1> DEFINE S == DOMAIN env
           F(p) == {Secretly("CRED_ENV", <<p>>, k) : k \in env[p]}
           g == [p \in S |-> Server(<<"process", p>>, incomplete, F(p))]
           R == audit_process_envs(env, incomplete)
<1>1. \A p \in S : IsFiniteSet(F(p))
  BY SecretsFinite
<1>2. \A p \in S : g[p].id = <<"process", p>> /\ g[p].findings = F(p)
  <2> HIDE DEF F
  <2> QED BY DEF Server
<1>3. \A t \in R : \E p \in S : t = g[p]
  <2> SUFFICES ASSUME NEW t \in R PROVE \E p \in S : t = g[p]
    OBVIOUS
  <2>1. PICK p \in S : t \in Surfaced(<<"process", p>>, incomplete, F(p))
    BY DEF audit_process_envs
  <2> HIDE DEF F
  <2>2. t = Server(<<"process", p>>, incomplete, F(p))
    BY <2>1 DEF Surfaced
  <2> QED BY <2>2
<1>4. DOMAIN g = S
  OBVIOUS
<1> HIDE DEF F, g, R
<1>5. \A p, q \in S : g[p].id = g[q].id => p = q
  BY <1>2, IdIs
<1> HIDE DEF S
<1>6. Tidy(R)
  <2>1. IsFiniteSet(S) /\ \A p \in S : IsFiniteSet(g[p].findings)
    BY <1>1, <1>2 DEF S
  <2> QED BY <1>3, <1>4, <1>5, <2>1, TidyFamily
<1> QED BY <1>2, <1>3, <1>6, OfIs DEF R

\* The listeners.
LEMMA SocketsTidy ==
  ASSUME NEW w, IsFiniteSet(w.sockets.open)
  PROVE  Tidy(OfSockets(w)) /\ \A t \in OfSockets(w) : Of(t.id) = "sockets"
<1> DEFINE S == w.sockets.open
           F(l) == check_socket_exposure(l, Loopback)
           g == [l \in S |-> Server(<<"socket", l>>, w.sockets.partial, F(l))]
           R == OfSockets(w)
<1>1. \A l \in S : IsFiniteSet(F(l))
  BY WhenFinite DEF check_socket_exposure
<1>2. \A l \in S : g[l].id = <<"socket", l>> /\ g[l].findings = F(l)
  BY DEF Server
<1>3. \A t \in R : \E l \in S : t = g[l]
  BY DEF OfSockets, Surfaced
<1>4. DOMAIN g = S
  OBVIOUS
<1> HIDE DEF F, g, R
<1>5. \A p, q \in S : g[p].id = g[q].id => p = q
  BY <1>2, IdIs
<1> HIDE DEF S
<1>6. Tidy(R)
  <2>1. IsFiniteSet(S) /\ \A p \in S : IsFiniteSet(g[p].findings)
    BY <1>1, <1>2 DEF S
  <2> QED BY <1>3, <1>4, <1>5, <2>1, TidyFamily
<1> QED BY <1>2, <1>3, <1>6, OfIs DEF R

\* The .env file, the token store and the log.
LEMMA SurfacesTidy ==
  /\ \A secrets, open, tracked : IsFiniteSet(secrets) => Tidy({audit_env_file(secrets, open, tracked)})
  /\ \A secrets, open, tracked : Of(audit_env_file(secrets, open, tracked).id) = "dotenv"
  /\ \A open, exp : Tidy(Surfaced(<<"store">>, FALSE, check_token_store(open, exp, now)))
  /\ \A open, exp : \A t \in Surfaced(<<"store">>, FALSE, check_token_store(open, exp, now)) : Of(t.id) = "store"
  /\ \A present, open, mtime : Tidy(Surfaced(<<"telemetry">>, FALSE, check_telemetry(present, open, mtime, now)))
  /\ \A present, open, mtime :
       \A t \in Surfaced(<<"telemetry">>, FALSE, check_telemetry(present, open, mtime, now)) : Of(t.id) = "log"
<1>1. ASSUME NEW secrets, NEW open, NEW tracked, IsFiniteSet(secrets)
      PROVE  Tidy({audit_env_file(secrets, open, tracked)})
  <2>1. IsFiniteSet(check_secret_at_rest(secrets, open, tracked))
    BY FS_EmptySet, WhenFinite, UnionFinite DEF check_secret_at_rest
  <2>2. IsFiniteSet({Secretly("CRED_PLAINTEXT", <<"dotenv">>, k) : k \in secrets})
    BY <1>1, SecretsFinite
  <2>3. IsFiniteSet({Secretly("CRED_PLAINTEXT", <<"dotenv">>, k) : k \in secrets}
                       \union check_secret_at_rest(secrets, open, tracked))
    BY <2>1, <2>2, UnionFinite
  <2> QED BY <2>3, TidyOne DEF audit_env_file
<1>2. ASSUME NEW secrets, NEW open, NEW tracked
      PROVE  Of(audit_env_file(secrets, open, tracked).id) = "dotenv"
  BY OfIs DEF audit_env_file, Server
<1>3. ASSUME NEW open, NEW exp
      PROVE  IsFiniteSet(check_token_store(open, exp, now))
  BY WhenFinite, UnionFinite DEF check_token_store
<1>4. ASSUME NEW present, NEW open, NEW mtime
      PROVE  IsFiniteSet(check_telemetry(present, open, mtime, now))
  <2> DEFINE x == When(open, "TELEMETRY_PERMS", <<"log">>)
             y == When(\E t \in mtime : now - t > StaleAfter, "TELEMETRY_STALE", <<"log">>)
             z == {Finding("TELEMETRY_ABSENT", <<"log">>)}
  <2>1. check_telemetry(present, open, mtime, now) = IF ~present THEN z ELSE x \union y
    BY DEF check_telemetry
  <2>2. IsFiniteSet(x) /\ IsFiniteSet(y) /\ IsFiniteSet(z)
    BY FS_Singleton, WhenFinite
  <2> HIDE DEF x, y, z
  <2>3. IsFiniteSet(x \union y)
    BY <2>2, UnionFinite
  <2> QED BY <2>1, <2>2, <2>3
<1>5. ASSUME NEW open, NEW exp
      PROVE  /\ Tidy(Surfaced(<<"store">>, FALSE, check_token_store(open, exp, now)))
             /\ \A t \in Surfaced(<<"store">>, FALSE, check_token_store(open, exp, now)) : Of(t.id) = "store"
  <2> DEFINE x == check_token_store(open, exp, now)
  <2>1. IsFiniteSet(x)
    BY <1>3
  <2> HIDE DEF x
  <2>2. Tidy(Surfaced(<<"store">>, FALSE, x)) /\ \A t \in Surfaced(<<"store">>, FALSE, x) : t.id = <<"store">>
    BY <2>1, TidyOne
  <2> QED BY <2>2, OfIs DEF x
<1>6. ASSUME NEW present, NEW open, NEW mtime
      PROVE  /\ Tidy(Surfaced(<<"telemetry">>, FALSE, check_telemetry(present, open, mtime, now)))
             /\ \A t \in Surfaced(<<"telemetry">>, FALSE, check_telemetry(present, open, mtime, now)) :
                  Of(t.id) = "log"
  <2> DEFINE x == check_telemetry(present, open, mtime, now)
  <2>1. IsFiniteSet(x)
    BY <1>4
  <2> HIDE DEF x
  <2>2. /\ Tidy(Surfaced(<<"telemetry">>, FALSE, x))
        /\ \A t \in Surfaced(<<"telemetry">>, FALSE, x) : t.id = <<"telemetry">>
    BY <2>1, TidyOne
  <2> QED BY <2>2, OfIs DEF x
<1> QED BY <1>1, <1>2, <1>5, <1>6

\* The broker, of declared servers that are finite in number.
LEMMA BrokerTidy ==
  ASSUME NEW D, IsFiniteSet(D)
  PROVE  /\ \A m, reason : Tidy(audit_broker(D, m, reason)) /\ \A t \in audit_broker(D, m, reason) : Of(t.id) = "manifest"
         /\ Tidy(NoBroker(D)) /\ \A t \in NoBroker(D) : Of(t.id) = "manifest"
         /\ Tidy(ParseError(D)) /\ \A t \in ParseError(D) : Of(t.id) = "manifest"
<1>1. ASSUME NEW fronts PROVE IsFiniteSet(Absences(D, fronts))
  <2> DEFINE U == Unbrokered(D, fronts)
             T == {Finding("BROKER_ABSENT", s.id) : s \in U}
             h == [s \in U |-> Finding("BROKER_ABSENT", s.id)]
  <2>1. IsFiniteSet(U)
    <3>1. U \subseteq D
      BY DEF Unbrokered, Privileged
    <3> QED BY <3>1, FS_Subset
  <2>2. h \in Surjection(U, T)
    BY DEF Surjection
  <2>3. Absences(D, fronts) = T
    BY DEF Absences
  <2> HIDE DEF h, T, U
  <2> QED BY <2>1, <2>2, <2>3, FS_Surjection
<1>2. ASSUME NEW m, NEW reason PROVE IsFiniteSet(check_broker_posture(D, m, reason))
  <2> DEFINE w1 == When(claims_governance(m) /\ m.evidence = {}, "BROKER_EVIDENCE_MISSING", <<"broker">>)
             w2 == When(reason # "none", "BROKER_EVIDENCE_MISMATCH", <<"broker">>)
             w3 == When(~m.signed /\ \E s \in Privileged(D) : s.id \in m.fronts,
                        "BROKER_MANIFEST_UNVERIFIED", <<"broker">>)
             w4 == When(~m.audited, "BROKER_NO_AUDIT", <<"broker">>)
             w5 == When(~m.least_privilege, "BROKER_ALLOWLIST_PERMISSIVE", <<"broker">>)
             x == Absences(D, m.fronts)
  <2>1. IsFiniteSet(w1) /\ IsFiniteSet(w2) /\ IsFiniteSet(w3) /\ IsFiniteSet(w4) /\ IsFiniteSet(w5) /\ IsFiniteSet(x)
    BY <1>1, WhenFinite
  <2>2. check_broker_posture(D, m, reason) = x \union w1 \union w2 \union w3 \union w4 \union w5
    BY DEF check_broker_posture
  <2> HIDE DEF w1, w2, w3, w4, w5, x
  <2> QED BY <2>1, <2>2, UnionFinite
<1>3. IsFiniteSet(Absences(D, {}) \union {Finding("BROKER_PARSE_ERROR", <<"broker">>)})
  BY <1>1, FS_Singleton, UnionFinite
<1>4. ASSUME NEW m, NEW reason
      PROVE  Tidy(audit_broker(D, m, reason)) /\ \A t \in audit_broker(D, m, reason) : Of(t.id) = "manifest"
  <2>1. \A t \in audit_broker(D, m, reason) : t.id = <<"broker">>
    BY <1>2, TidyOne DEF audit_broker
  <2>2. Tidy(audit_broker(D, m, reason))
    BY <1>2, TidyOne DEF audit_broker
  <2> QED BY <2>1, <2>2, OfIs
<1>5. Tidy(NoBroker(D)) /\ \A t \in NoBroker(D) : Of(t.id) = "manifest"
  <2>1. Tidy(NoBroker(D)) /\ \A t \in NoBroker(D) : t.id = <<"broker">>
    BY <1>1, TidyOne DEF NoBroker
  <2> QED BY <2>1, OfIs
<1>6. Tidy(ParseError(D)) /\ \A t \in ParseError(D) : Of(t.id) = "manifest"
  <2>1. Tidy(ParseError(D))
    <3> DEFINE x == Absences(D, {}) \union {Finding("BROKER_PARSE_ERROR", <<"broker">>)}
    <3>1. ParseError(D) = {Server(<<"broker">>, TRUE, x)}
      BY DEF ParseError
    <3>2. IsFiniteSet(x)
      BY <1>3
    <3> HIDE DEF x
    <3>3. Tidy({Server(<<"broker">>, TRUE, x)})
      BY <3>2, TidyOne
    <3> QED BY <3>1, <3>3
  <2>2. \A t \in ParseError(D) : t.id = <<"broker">>
    BY DEF ParseError, Server
  <2> QED BY <2>1, <2>2, OfIs
<1> QED BY <1>4, <1>5, <1>6

-----------------------------------------------------------------------------
(* The looks.                                                               *)

\* Where the scan is after a look that is not the last at its surface.
LEMMA NextLook ==
  ASSUME NEW s, NEW n, At(s, n), NEW m, LookNext(m)
  PROVE  \A x, y : At(x, y)' => x = s /\ y = m
BY DEF At, LookNext

\* The machine is finite wherever it is looked at.
LEMMA Finitely ==
  ASSUME IInv, NEW i \in DOMAIN past
  PROVE  /\ \A f \in ConfigFile : past[i][f].status = "ok" =>
              /\ IsFiniteSet(DOMAIN past[i][f].servers)
              /\ \A n \in DOMAIN past[i][f].servers : IsFiniteSet(past[i][f].servers[n].env)
         /\ IsFiniteSet(past[i].dotenv.secrets)
         /\ IsFiniteSet(DOMAIN past[i].procs.env)
         /\ \A p \in DOMAIN past[i].procs.env : IsFiniteSet(past[i].procs.env[p])
         /\ IsFiniteSet(past[i].sockets.open)
         /\ \A x \in {"user", "project", "dotenv", "store", "manifest"} :
              past[i][x].status \in {"absent", "refused", "malformed", "ok"}
<1>1. DOMAIN past[i] = Part /\ Fits(past[i])
  BY Latest
<1>2. {"user", "project", "dotenv", "store", "manifest", "procs", "sockets"} \subseteq Part
  BY DEF Part
<1> QED BY <1>1, <1>2 DEF Fits, ConfigFile

\* A config that has been left was seen, and the other one before it.
LEMMA ConfigSeen ==
  ASSUME IInv, Watching, NEW f \in ConfigFile, NEW n, At(f, n), UNCHANGED machine,
         servers \subseteq servers', subjects \subseteq subjects', ReadAt(f, Len(past), subjects)'
  PROVE  Seen(f)'
<1>1. Extends /\ Len(past') \in DOMAIN past' /\ past' = past /\ Len(past) \in Nat
  BY StillExtends, Latest DEF machine
<1>2. f \in Surface
  BY DEF ConfigFile, Surface
<1>3. Len(todo) > 6 /\ Len(todo) \in Nat
  BY <1>2, AtIs DEF IInv
<1>4. Watched /\ InOrder(todo, 1, 13) /\ todo # <<>> /\ Head(todo) = f
  BY <1>3 DEF Watching, At
<1>5. CASE f = "user"
  BY <1>1, <1>5 DEF Seen
<1>6. CASE f = "project"
  <2>1. "user" \notin Range(todo)
    <3>1. Turn["project"] <= Turn["user"] => FALSE
      BY DEF Turn
    <3> QED BY <1>4, <1>6, <3>1, Leaving
  <2>2. "user" \in Wanted(scene.inspect)
    BY DEF Wanted, Surface, Optional
  <2>3. Seen("user")
    BY <1>4, <2>1, <2>2 DEF Watched
  <2>4. Seen("user")'
    BY <1>1, <2>3, SightStays
  <2>5. \E i \in DOMAIN past' : ReadAt("user", i, subjects)'
    BY <2>4 DEF Seen
  <2>6. \E k \in DOMAIN past' : ConfigsSeen(k, subjects)'
    <3>1. PICK i \in DOMAIN past' : ReadAt("user", i, subjects)'
      BY <2>5
    <3>2. i \in 1..Len(past) /\ Len(past) \in 1..Len(past) /\ Len(past) \in DOMAIN past'
      BY <1>1, Latest
    <3>3. ConfigsSeen(Len(past), subjects)'
      BY <1>1, <1>6, <3>1, <3>2 DEF ConfigsSeen
    <3> QED BY <1>1, <3>2, <3>3
  <2> QED BY <1>6, <2>6 DEF Seen
<1> QED BY <1>5, <1>6 DEF ConfigFile

\* A config that could be read.
LEMMA ReadConfigWatching ==
  ASSUME IInv, Watching, NEW f \in ConfigFile, ReadConfig(f)
  PROVE  Watching'
<1> DEFINE k == Len(past)
<1>1. /\ At(f, 1) /\ UNCHANGED <<machine, held, verdict>> /\ f \in Surface
      /\ past' = past /\ k \in DOMAIN past /\ past[k] = world
  BY Latest DEF ReadConfig, ConfigFile, Surface, machine
<1>0. IsFiniteSet(subjects)
  <2>1. Len(todo) > 6 /\ Len(todo) \in Nat
    BY <1>1, AtIs DEF IInv
  <2> QED BY <2>1 DEF Watching, Watched
<1>2. CASE Readable(world[f]) /\ Parses(world[f])
  <2> DEFINE new == audit_config(f, world[f])
             D == Declares(f, world)
  <2>1. /\ Report(new) /\ todo' = Tail(todo) /\ look' = 1 /\ world[f].status = "ok"
        /\ subjects' = subjects \union D
    BY <1>2 DEF ReadConfig, Done, Parses, Readable, Declares
  <2>2. /\ IsFiniteSet(DOMAIN world[f].servers)
        /\ \A n \in DOMAIN world[f].servers : IsFiniteSet(world[f].servers[n].env)
    BY <1>1, <2>1, Finitely
  <2>3. Tidy(new) /\ \A t \in new : Of(t.id) = f
    BY <2>2, ConfigTidy
  <2>4. IsFiniteSet(D)
    <3> DEFINE S == DOMAIN world[f].servers
               h == [n \in S |-> [id |-> <<"declared", f, n>>, decl |-> world[f].servers[n]]]
    <3>1. h \in Surjection(S, D)
      BY DEF Surjection, Declares
    <3> HIDE DEF h, D
    <3> QED BY <2>2, <3>1, FS_Surjection
  <2>5. ReadAt(f, Len(past), subjects)'
    <3>1. past'[Len(past')] = world
      BY <1>1
    <3>2. new \subseteq servers' /\ D \subseteq subjects'
      BY <2>1 DEF Report
    <3>3. /\ past'[Len(past')][f].status = "ok"
          /\ audit_config(f, past'[Len(past')][f]) \subseteq servers'
          /\ Declares(f, past'[Len(past')]) \subseteq subjects'
      BY <2>1, <3>1, <3>2
    <3> QED BY <3>3 DEF ReadAt
  <2> HIDE DEF new, D
  <2>6. servers \subseteq servers' /\ subjects \subseteq subjects'
    BY <2>1 DEF Report
  <2>7. IsFiniteSet(subjects')
    BY <1>0, <2>1, <2>4, UnionFinite
  <2>8. Seen(f)'
    BY <1>1, <2>5, <2>6, ConfigSeen
  <2> QED BY <1>1, <2>1, <2>3, <2>6, <2>7, <2>8, LookDone
<1>3. CASE Readable(world[f]) /\ ~Parses(world[f])
  <2>1. /\ Report({config_failure_server(f)}) /\ todo' = Tail(todo) /\ look' = 1 /\ subjects' = subjects
    BY <1>3 DEF ReadConfig, Done
  <2>2. Tidy({config_failure_server(f)}) /\ Of(config_failure_server(f).id) = f
    BY TidyOne, OfIs, FS_Singleton DEF config_failure_server, Server
  <2>3. ReadAt(f, Len(past), subjects)'
    BY <2>1 DEF ReadAt, Report
  <2>4. Seen(f)'
    BY <1>1, <2>1, <2>3, ConfigSeen DEF Report
  <2> QED BY <1>0, <1>1, <2>1, <2>2, <2>4, LookDone
<1>4. CASE ~Readable(world[f])
  <2>1. LookNext(2) /\ UNCHANGED found
    BY <1>4 DEF ReadConfig
  <2>2. \A x, y : At(x, y)' => x = f /\ y = 2
    BY <1>1, <2>1, NextLook
  <2>3. InHand'
    <3>1. f # "log"
      BY DEF ConfigFile
    <3> QED BY <2>2, <3>1 DEF InHand
  <2> QED BY <1>1, <2>1, <2>3, LookMore DEF LookNext
<1> QED BY <1>2, <1>3, <1>4

\* The second look at a file that could not be read.
LEMMA LookAgainWatching ==
  ASSUME IInv, Watching, NEW f \in ConfigFile \union {"dotenv"}, LookAgain(f)
  PROVE  Watching'
<1> DEFINE k == Len(past)
           new == {config_failure_server(g) : g \in {h \in {f} : There(world[h])}}
<1>1. /\ At(f, 2) /\ UNCHANGED <<machine, held, subjects, verdict>> /\ f \in Surface
      /\ todo' = Tail(todo) /\ look' = 1 /\ Report(new)
      /\ past' = past /\ k \in DOMAIN past /\ past[k] = world
  BY Latest DEF LookAgain, Done, ConfigFile, Surface, machine
<1>0. IsFiniteSet(subjects)
  <2>1. Len(todo) > 6 /\ Len(todo) \in Nat
    BY <1>1, AtIs DEF IInv
  <2> QED BY <2>1 DEF Watching, Watched
<1>2. Tidy(new) /\ \A t \in new : Of(t.id) = f
  <2>1. new = {} \/ new = {config_failure_server(f)}
    OBVIOUS
  <2>2. Tidy({config_failure_server(f)}) /\ Of(config_failure_server(f).id) = f
    BY TidyOne, OfIs, FS_Singleton DEF config_failure_server, Server
  <2>3. Tidy({})
    BY FS_EmptySet DEF Tidy
  <2> HIDE DEF new
  <2> QED BY <2>1, <2>2, <2>3
<1>3. There(world[f]) => config_failure_server(f) \in servers'
  BY <1>1 DEF Report
<1> HIDE DEF new
<1>4. CASE f \in ConfigFile
  <2>1. ReadAt(f, Len(past), subjects)'
    BY <1>1, <1>3 DEF ReadAt, There
  <2>2. Seen(f)'
    BY <1>1, <1>4, <2>1, ConfigSeen DEF Report
  <2> QED BY <1>0, <1>1, <1>2, <2>2, LookDone
<1>5. CASE f = "dotenv"
  <2>1. DotenvSeen'
    BY <1>1, <1>3, <1>5 DEF DotenvSeen
  <2>2. Seen(f)'
    BY <1>5, <2>1 DEF Seen
  <2> QED BY <1>0, <1>1, <1>2, <2>2, LookDone
<1> QED BY <1>4, <1>5

\* The looks at .env.
LEMMA DotenvWatching ==
  ASSUME IInv, Watching, Known, ReadDotenv \/ DotenvMode \/ DotenvTracked
  PROVE  Watching'
<1> DEFINE k == Len(past)
<1>0. /\ DOMAIN held = {"secrets", "open", "reason", "manifest"}
      /\ "dotenv" \in Surface /\ k \in DOMAIN past /\ past[k] = world
  BY Latest DEF Known, Memory, Nothing, Surface
<1>1. CASE ReadDotenv /\ Readable(world.dotenv)
  <2>1. /\ At("dotenv", 1) /\ LookNext(3) /\ UNCHANGED <<machine, found, todo>>
        /\ held' = [held EXCEPT !.secrets = world.dotenv.secrets]
    BY <1>1 DEF ReadDotenv, LookNext
  <2>2. \A x, y : At(x, y)' => x = "dotenv" /\ y = 3
    BY <2>1, NextLook
  <2>3. held'.secrets = past'[k].dotenv.secrets /\ k \in DOMAIN past'
    BY <1>0, <2>1 DEF machine
  <2>4. InHand'
    BY <2>2, <2>3 DEF InHand
  <2> QED BY <1>0, <2>1, <2>4, LookMore
<1>2. CASE ReadDotenv /\ ~Readable(world.dotenv)
  <2>1. At("dotenv", 1) /\ LookNext(2) /\ UNCHANGED <<machine, found, todo>>
    BY <1>2 DEF ReadDotenv, LookNext
  <2>2. \A x, y : At(x, y)' => x = "dotenv" /\ y = 2
    BY <2>1, NextLook
  <2>3. InHand'
    BY <2>2 DEF InHand
  <2> QED BY <1>0, <2>1, <2>3, LookMore
<1>3. CASE DotenvMode
  <2>1. /\ At("dotenv", 3) /\ LookNext(4) /\ UNCHANGED <<machine, found, todo>>
        /\ held' = [held EXCEPT !.open = There(world.dotenv) /\ world.dotenv_open]
    BY <1>3 DEF DotenvMode, LookNext
  <2>2. \A x, y : At(x, y)' => x = "dotenv" /\ y = 4
    BY <2>1, NextLook
  <2>3. InHand
    <3>1. Len(todo) > 6 /\ Len(todo) \in Nat
      BY <1>0, <2>1, AtIs DEF IInv
    <3> QED BY <3>1 DEF Watching, Watched
  <2>4. PICK i \in DOMAIN past : held.secrets = past[i].dotenv.secrets
    BY <2>1, <2>3 DEF InHand
  <2>5. /\ held'.secrets = past'[i].dotenv.secrets /\ i \in DOMAIN past' /\ k \in DOMAIN past'
        /\ held'.open = (There(past'[k].dotenv) /\ past'[k].dotenv_open)
    BY <1>0, <2>1, <2>4 DEF machine
  <2>6. InHand'
    BY <2>2, <2>5 DEF InHand
  <2> QED BY <1>0, <2>1, <2>6, LookMore
<1>4. CASE DotenvTracked
  <2> DEFINE new == {audit_env_file(held.secrets, held.open, world.dotenv_tracked)}
  <2>1. /\ At("dotenv", 4) /\ UNCHANGED <<machine, subjects>> /\ look' = 1 /\ todo' = Tail(todo)
        /\ Report(new) /\ past' = past
    BY <1>4 DEF DotenvTracked, Done, machine
  <2>2. InHand /\ IsFiniteSet(subjects)
    <3>1. Len(todo) > 6 /\ Len(todo) \in Nat
      BY <1>0, <2>1, AtIs DEF IInv
    <3> QED BY <3>1 DEF Watching, Watched
  <2>3. PICK i \in DOMAIN past, j \in DOMAIN past :
          /\ held.secrets = past[i].dotenv.secrets
          /\ held.open = (There(past[j].dotenv) /\ past[j].dotenv_open)
    BY <2>1, <2>2 DEF InHand
  <2>4. Tidy(new) /\ \A t \in new : Of(t.id) = "dotenv"
    <3>1. IsFiniteSet(held.secrets)
      BY <2>3, Finitely
    <3> QED BY <3>1, SurfacesTidy
  <2>5. DotenvSeen'
    <3>1. audit_env_file(past[i].dotenv.secrets, There(past[j].dotenv) /\ past[j].dotenv_open,
                         past[k].dotenv_tracked) \in servers'
      BY <1>0, <2>1, <2>3 DEF Report
    <3> QED BY <1>0, <2>1, <3>1 DEF DotenvSeen
  <2>6. Seen("dotenv")'
    BY <2>5 DEF Seen
  <2> HIDE DEF new
  <2> QED BY <1>0, <2>1, <2>2, <2>4, <2>6, LookDone
<1> QED BY <1>1, <1>2, <1>3, <1>4

\* The looks at the token store.
LEMMA StoreWatching ==
  ASSUME IInv, Watching, Known, FindStore \/ StoreMode \/ ReadStore
  PROVE  Watching'
<1> DEFINE k == Len(past)
<1>0. /\ DOMAIN held = {"secrets", "open", "reason", "manifest"}
      /\ "store" \in Surface /\ k \in DOMAIN past /\ past[k] = world
  BY Latest DEF Known, Memory, Nothing, Surface
<1>1. ASSUME NEW n, At("store", n)
      PROVE  InHand /\ IsFiniteSet(subjects)
  <2>1. Len(todo) > 6 /\ Len(todo) \in Nat
    BY <1>0, <1>1, AtIs DEF IInv
  <2> QED BY <2>1 DEF Watching, Watched
<1>2. CASE FindStore /\ There(world.store)
  <2>1. At("store", 1) /\ LookNext(2) /\ UNCHANGED <<machine, found, todo>>
    BY <1>2 DEF FindStore, LookNext
  <2>2. \A x, y : At(x, y)' => x = "store" /\ y = 2
    BY <2>1, NextLook
  <2>3. InHand'
    BY <2>2 DEF InHand
  <2> QED BY <1>0, <2>1, <2>3, LookMore
<1>3. CASE FindStore /\ ~There(world.store)
  <2>1. /\ At("store", 1) /\ look' = 1 /\ todo' = Tail(todo) /\ UNCHANGED <<machine, subjects>> /\ Report({})
        /\ past' = past
    BY <1>3 DEF FindStore, Done, found, Report, machine
  <2>2. Seen("store")'
    BY <1>0, <1>3, <2>1 DEF Seen, StoreSeen
  <2>3. Tidy({})
    BY FS_EmptySet DEF Tidy
  <2> QED BY <1>0, <1>1, <2>1, <2>2, <2>3, LookDone
<1>4. CASE StoreMode
  <2>1. /\ At("store", 2) /\ LookNext(3) /\ UNCHANGED <<machine, found, todo>>
        /\ held' = [held EXCEPT !.open = There(world.store) /\ world.store_open]
    BY <1>4 DEF StoreMode, LookNext
  <2>2. \A x, y : At(x, y)' => x = "store" /\ y = 3
    BY <2>1, NextLook
  <2>3. held'.open = (There(past'[k].store) /\ past'[k].store_open) /\ k \in DOMAIN past'
    BY <1>0, <2>1 DEF machine
  <2>4. InHand'
    BY <2>2, <2>3 DEF InHand
  <2> QED BY <1>0, <2>1, <2>4, LookMore
<1>5. CASE ReadStore
  <2> DEFINE exp == IF Readable(world.store) THEN world.store.exp ELSE {}
             new == Surfaced(<<"store">>, FALSE, check_token_store(held.open, exp, now))
  <2>1. /\ At("store", 3) /\ UNCHANGED <<machine, subjects>> /\ look' = 1 /\ todo' = Tail(todo) /\ Report(new)
        /\ past' = past /\ now' = now
    BY <1>5 DEF ReadStore, Done, machine
  <2>2. PICK i \in DOMAIN past : held.open = (There(past[i].store) /\ past[i].store_open)
    BY <1>1, <2>1 DEF InHand
  <2>3. Tidy(new) /\ \A t \in new : Of(t.id) = "store"
    <3> HIDE DEF exp
    <3> QED BY SurfacesTidy
  <2>4. StoreSeen'
    <3>1. Surfaced(<<"store">>, FALSE,
                   check_token_store(There(past[i].store) /\ past[i].store_open,
                                     IF Readable(past[k].store) THEN past[k].store.exp ELSE {}, now)) \subseteq servers'
      BY <1>0, <2>1, <2>2 DEF Report
    <3> QED BY <1>0, <2>1, <3>1 DEF StoreSeen
  <2>5. Seen("store")'
    BY <2>4 DEF Seen
  <2> HIDE DEF new
  <2> QED BY <1>0, <1>1, <2>1, <2>3, <2>5, LookDone
<1> QED BY <1>2, <1>3, <1>4, <1>5

\* The look at the processes.
LEMMA ProcessesWatching ==
  ASSUME IInv, Watching, ReadProcesses
  PROVE  Watching'
<1> DEFINE k == Len(past)
           new == audit_process_envs(world.procs.env, world.procs.denied)
<1>0. /\ At("procs", 1) /\ UNCHANGED <<machine, subjects>> /\ look' = 1 /\ todo' = Tail(todo) /\ Report(new)
      /\ "procs" \in Surface /\ k \in DOMAIN past /\ past[k] = world /\ past' = past
  BY Latest DEF ReadProcesses, Done, Surface, machine
<1>1. IsFiniteSet(subjects)
  <2>1. Len(todo) > 6 /\ Len(todo) \in Nat
    BY <1>0, AtIs DEF IInv
  <2> QED BY <2>1 DEF Watching, Watched
<1>2. Tidy(new) /\ \A t \in new : Of(t.id) = "procs"
  <2>1. IsFiniteSet(DOMAIN world.procs.env) /\ \A p \in DOMAIN world.procs.env : IsFiniteSet(world.procs.env[p])
    BY <1>0, Finitely
  <2> QED BY <2>1, ProcessesTidy
<1>3. Seen("procs")'
  <2>1. audit_process_envs(past'[k].procs.env, past'[k].procs.denied) \subseteq servers' /\ k \in DOMAIN past'
    BY <1>0 DEF Report
  <2>2. ProcsSeen'
    BY <2>1 DEF ProcsSeen
  <2> QED BY <2>2 DEF Seen
<1> HIDE DEF new
<1> QED BY <1>0, <1>1, <1>2, <1>3, LookDone

\* The looks at the tool log.
LEMMA LogWatching ==
  ASSUME IInv, Watching, FindLog \/ LogFacts
  PROVE  Watching'
<1> DEFINE k == Len(past)
<1>0. "log" \in Surface /\ k \in DOMAIN past /\ past[k] = world
  BY Latest DEF Surface
<1>1. ASSUME NEW n, At("log", n)
      PROVE  InHand /\ IsFiniteSet(subjects)
  <2>1. Len(todo) > 6 /\ Len(todo) \in Nat
    BY <1>0, <1>1, AtIs DEF IInv
  <2> QED BY <2>1 DEF Watching, Watched
<1>2. CASE FindLog /\ world.log.present
  <2>1. At("log", 1) /\ LookNext(2) /\ UNCHANGED <<machine, found, todo>>
    BY <1>2 DEF FindLog, LookNext, found
  <2>2. \A x, y : At(x, y)' => x = "log" /\ y = 2
    BY <2>1, NextLook
  <2>3. past'[k].log.present /\ k \in DOMAIN past'
    BY <1>0, <1>2, <2>1 DEF machine
  <2>4. InHand'
    BY <2>2, <2>3 DEF InHand
  <2> QED BY <1>0, <2>1, <2>4, LookMore
<1>3. CASE FindLog /\ ~world.log.present
  <2> DEFINE new == Surfaced(<<"telemetry">>, FALSE, check_telemetry(FALSE, FALSE, {}, now))
  <2>1. /\ At("log", 1) /\ look' = 1 /\ todo' = Tail(todo) /\ UNCHANGED <<machine, subjects>> /\ Report(new)
        /\ past' = past /\ now' = now
    BY <1>3 DEF FindLog, Done, machine
  <2>2. Tidy(new) /\ \A t \in new : Of(t.id) = "log"
    BY SurfacesTidy
  <2>3. LogSeen'
    <3>1. k \in DOMAIN past' /\ ~past'[k].log.present
      BY <1>0, <1>3, <2>1
    <3>2. Surfaced(<<"telemetry">>, FALSE, check_telemetry(FALSE, FALSE, {}, now')) \subseteq servers'
      BY <2>1 DEF Report
    <3> QED BY <3>1, <3>2 DEF LogSeen
  <2>4. Seen("log")'
    BY <2>3 DEF Seen
  <2> HIDE DEF new
  <2> QED BY <1>0, <1>1, <2>1, <2>2, <2>4, LookDone
<1>4. CASE LogFacts
  <2> DEFINE open == world.log.present /\ world.log.open
             mtime == IF world.log.present THEN {world.log.mtime} ELSE {}
             new == Surfaced(<<"telemetry">>, FALSE, check_telemetry(TRUE, open, mtime, now))
  <2>1. /\ At("log", 2) /\ look' = 1 /\ todo' = Tail(todo) /\ UNCHANGED <<machine, subjects>> /\ Report(new)
        /\ past' = past /\ now' = now
    BY <1>4 DEF LogFacts, Done, machine
  <2>2. PICK i \in DOMAIN past : past[i].log.present
    BY <1>1, <2>1 DEF InHand
  <2>3. Tidy(new) /\ \A t \in new : Of(t.id) = "log"
    <3> HIDE DEF open, mtime
    <3> QED BY SurfacesTidy
  <2>4. LogSeen'
    <3>1. k \in DOMAIN past' /\ i \in DOMAIN past' /\ past'[i].log.present
      BY <1>0, <2>1, <2>2
    <3>2. Surfaced(<<"telemetry">>, FALSE,
                   check_telemetry(TRUE, past'[k].log.present /\ past'[k].log.open,
                                   IF past'[k].log.present THEN {past'[k].log.mtime} ELSE {}, now')) \subseteq servers'
      BY <1>0, <2>1 DEF Report
    <3> QED BY <3>1, <3>2 DEF LogSeen
  <2>5. Seen("log")'
    BY <2>4 DEF Seen
  <2> HIDE DEF new
  <2> QED BY <1>0, <1>1, <2>1, <2>3, <2>5, LookDone
<1> QED BY <1>2, <1>3, <1>4

\* When the broker's files are looked at, both configs have been.
LEMMA ConfigsFirst ==
  ASSUME IInv, Watching, NEW n, At("manifest", n)
  PROVE  ConfigsSeen(Len(past), subjects)
<1>1. Len(todo) > 6 /\ Len(todo) \in Nat
  BY AtIs DEF IInv, Surface
<1>2. Watched /\ InOrder(todo, 1, 13) /\ todo # <<>> /\ Head(todo) = "manifest"
  BY <1>1 DEF Watching, At
<1>3. "project" \notin Range(todo)
  <2>1. Turn["manifest"] <= Turn["project"] => FALSE
    BY DEF Turn
  <2> QED BY <1>2, <2>1, Leaving
<1>4. "project" \in Wanted(scene.inspect)
  BY DEF Wanted, Surface, Optional
<1>5. PICK k \in DOMAIN past : ConfigsSeen(k, subjects)
  BY <1>2, <1>3, <1>4 DEF Watched, Seen
<1>6. 1..k \subseteq 1..Len(past)
  BY Latest
<1> QED BY <1>5, <1>6 DEF ConfigsSeen

\* The broker's files have been seen, read at k and now.
LEMMA BrokerJudged ==
  ASSUME IInv, UNCHANGED <<machine, subjects>>, servers \subseteq servers', NEW k \in DOMAIN past,
         ConfigsSeen(k, subjects), Judged(k, Len(past), subjects)'
  PROVE  Seen("manifest")'
<1>1. Extends /\ past' = past /\ Len(past) \in DOMAIN past' /\ k \in 1..Len(past)
  BY StillExtends, Latest DEF machine
<1>2. ConfigsSeen(k, subjects)'
  BY <1>1, ConfigsStay
<1>3. subjects' \in SUBSET subjects'
  OBVIOUS
<1>4. BrokerSeen'
  BY <1>1, <1>2, <1>3 DEF BrokerSeen
<1> QED BY <1>4 DEF Seen

\* The looks at the broker: its manifest found, read, and its chain verified.
LEMMA ManifestWatching ==
  ASSUME IInv, Watching, Known, FindManifest \/ ReadManifest \/ ReadChain
  PROVE  Watching'
<1> DEFINE k == Len(past)
<1>0. /\ DOMAIN held = {"secrets", "open", "reason", "manifest"}
      /\ "manifest" \in Surface /\ k \in DOMAIN past /\ past[k] = world
  BY Latest DEF Known, Memory, Nothing, Surface
<1>1. ASSUME NEW n, At("manifest", n)
      PROVE  InHand /\ IsFiniteSet(subjects) /\ ConfigsSeen(k, subjects)
  <2>1. Len(todo) > 6 /\ Len(todo) \in Nat
    BY <1>0, <1>1, AtIs DEF IInv
  <2> QED BY <1>1, <2>1, ConfigsFirst DEF Watching, Watched
<1>2. CASE FindManifest /\ There(world.manifest)
  <2>1. At("manifest", 1) /\ LookNext(2) /\ UNCHANGED <<machine, found, todo>>
    BY <1>2 DEF FindManifest, LookNext, found
  <2>2. \A x, y : At(x, y)' => x = "manifest" /\ y = 2
    BY <2>1, NextLook
  <2>3. InHand'
    BY <2>2 DEF InHand
  <2> QED BY <1>0, <2>1, <2>3, LookMore
<1>3. CASE FindManifest /\ ~There(world.manifest)
  <2>1. /\ At("manifest", 1) /\ look' = 1 /\ todo' = Tail(todo) /\ UNCHANGED <<machine, subjects>>
        /\ Report(NoBroker(subjects)) /\ world.manifest.status # "ok" /\ past' = past
    BY <1>3 DEF FindManifest, Done, There, machine
  <2>2. NoBroker(subjects') \subseteq servers' /\ past'[Len(past')].manifest.status # "ok"
    BY <1>0, <2>1 DEF Report
  <2>3. Judged(Len(past), Len(past), subjects)'
    BY <2>2 DEF Judged
  <2>4. Seen("manifest")'
    BY <1>0, <1>1, <2>1, <2>3, BrokerJudged DEF Report
  <2>5. Tidy(NoBroker(subjects)) /\ \A t \in NoBroker(subjects) : Of(t.id) = "manifest"
    BY <1>1, <2>1, BrokerTidy
  <2> QED BY <1>0, <1>1, <2>1, <2>4, <2>5, LookDone
<1>4. CASE ReadManifest /\ ~Usable(world.manifest)
  <2>1. /\ At("manifest", 2) /\ look' = 1 /\ todo' = Tail(todo) /\ UNCHANGED <<machine, subjects>>
        /\ Report(ParseError(subjects)) /\ world.manifest.status # "ok" /\ past' = past
    BY <1>4 DEF ReadManifest, Done, Usable, Readable, machine
  <2>2. ParseError(subjects') \subseteq servers' /\ past'[Len(past')].manifest.status # "ok"
    BY <1>0, <2>1 DEF Report
  <2>3. Judged(Len(past), Len(past), subjects)'
    BY <2>2 DEF Judged
  <2>4. Seen("manifest")'
    BY <1>0, <1>1, <2>1, <2>3, BrokerJudged DEF Report
  <2>5. Tidy(ParseError(subjects)) /\ \A t \in ParseError(subjects) : Of(t.id) = "manifest"
    BY <1>1, <2>1, BrokerTidy
  <2> QED BY <1>0, <1>1, <2>1, <2>4, <2>5, LookDone
<1>5. ASSUME Usable(world.manifest)
      PROVE  world.manifest.status = "ok"
  BY <1>5 DEF Usable, Readable
<1>6. CASE ReadManifest /\ Usable(world.manifest) /\ Checkable(world.manifest.m) = {}
  <2> DEFINE new == audit_broker(subjects, world.manifest.m, "none")
  <2>1. /\ At("manifest", 2) /\ look' = 1 /\ todo' = Tail(todo) /\ UNCHANGED <<machine, subjects>>
        /\ Report(new) /\ past' = past
    BY <1>6 DEF ReadManifest, Done, machine
  <2>2. /\ audit_broker(subjects', past'[Len(past')].manifest.m, "none") \subseteq servers'
        /\ past'[Len(past')].manifest.status = "ok"
        /\ Checkable(past'[Len(past')].manifest.m) = {}
    BY <1>0, <1>5, <1>6, <2>1 DEF Report
  <2>3. Judged(Len(past), Len(past), subjects)'
    BY <2>2 DEF Judged
  <2>4. Seen("manifest")'
    BY <1>0, <1>1, <2>1, <2>3, BrokerJudged DEF Report
  <2>5. Tidy(new) /\ \A t \in new : Of(t.id) = "manifest"
    BY <1>1, <2>1, BrokerTidy
  <2> HIDE DEF new
  <2> QED BY <1>0, <1>1, <2>1, <2>4, <2>5, LookDone
<1>7. CASE ReadManifest /\ Usable(world.manifest) /\ Checkable(world.manifest.m) # {}
  <2>1. /\ At("manifest", 2) /\ LookNext(3) /\ UNCHANGED <<machine, found, todo, subjects>>
        /\ held' = [held EXCEPT !.manifest = world.manifest] /\ past' = past
    BY <1>7 DEF ReadManifest, found, LookNext, machine
  <2>2. \A x, y : At(x, y)' => x = "manifest" /\ y = 3
    BY <2>1, NextLook
  <2>3. held'.manifest = past'[k].manifest /\ past'[k].manifest.status = "ok" /\ k \in DOMAIN past'
    BY <1>0, <1>5, <1>7, <2>1
  <2>4. ConfigsSeen(Len(past), subjects)'
    <3>1. Extends /\ servers \subseteq servers'
      BY <2>1, StillExtends DEF found
    <3>2. ConfigsSeen(k, subjects)'
      BY <1>0, <1>1, <2>1, <3>1, ConfigsStay
    <3> QED BY <2>1, <3>2
  <2>5. InHand'
    BY <1>0, <2>1, <2>2, <2>3, <2>4 DEF InHand
  <2> QED BY <1>0, <2>1, <2>5, LookMore
<1>8. CASE ReadChain
  <2> DEFINE m == held.manifest.m
             reason(e) == ChainReason(world.chain, e)
  <2>1. PICK e \in Checkable(m) : Report(audit_broker(subjects, m, reason(e)))
    BY <1>8 DEF ReadChain
  <2>2. /\ At("manifest", 3) /\ look' = 1 /\ todo' = Tail(todo) /\ UNCHANGED <<machine, subjects>>
        /\ past' = past
    BY <1>8 DEF ReadChain, Done, machine
  <2>3. PICK i \in DOMAIN past :
          /\ ConfigsSeen(i, subjects)
          /\ held.manifest = past[i].manifest /\ past[i].manifest.status = "ok"
    BY <1>1, <2>2 DEF InHand
  <2>4. /\ audit_broker(subjects', past'[i].manifest.m, ChainReason(past'[Len(past')].chain, e)) \subseteq servers'
        /\ past'[i].manifest.status = "ok" /\ e \in Checkable(past'[i].manifest.m)
    BY <1>0, <2>1, <2>2, <2>3 DEF Report
  <2>5. Judged(i, Len(past), subjects)'
    BY <2>4 DEF Judged
  <2>6. servers \subseteq servers'
    BY <2>1 DEF Report
  <2>7. Seen("manifest")'
    BY <2>2, <2>3, <2>5, <2>6, BrokerJudged
  <2>8. Tidy(audit_broker(subjects, m, reason(e))) /\ \A t \in audit_broker(subjects, m, reason(e)) : Of(t.id) = "manifest"
    <3> HIDE DEF m, reason
    <3> QED BY <1>1, <2>2, BrokerTidy
  <2> HIDE DEF m, reason
  <2> QED BY <1>0, <1>1, <2>1, <2>2, <2>7, <2>8, LookDone
<1> QED BY <1>2, <1>3, <1>4, <1>6, <1>7, <1>8

-----------------------------------------------------------------------------
(* What an instant holds, surface by surface.                               *)

\* The servers of a config are its declared ones and its permissions.
LEMMA ConfigIds ==
  ASSUME NEW f, NEW cfg, NEW s \in audit_config(f, cfg)
  PROVE  (\E n : s.id = <<"declared", f, n>>) \/ s.id = <<"permissions", f>>
<1> DEFINE D(n) == check_server_env(cfg.servers[n], f)
                     \union check_server_auto_approve(cfg.servers[n], f)
                     \union check_server_pinning(cfg.servers[n], f)
                     \union check_tool_integrity(cfg.servers[n], f)
           P == check_permissions(cfg.allow, f)
<1>1. audit_config(f, cfg) = {Server(<<"declared", f, n>>, FALSE, D(n)) : n \in DOMAIN cfg.servers}
                               \union Surfaced(<<"permissions", f>>, FALSE, P)
  BY DEF audit_config
<1> HIDE DEF D, P
<1>2. CASE s \in Surfaced(<<"permissions", f>>, FALSE, P)
  BY <1>2 DEF Surfaced, Server
<1>3. ASSUME NEW n \in DOMAIN cfg.servers, s = Server(<<"declared", f, n>>, FALSE, D(n))
      PROVE  s.id = <<"declared", f, n>>
  BY <1>3 DEF Server
<1> QED BY <1>1, <1>2, <1>3

\* The ids of the other surfaces.
LEMMA SurfaceIds ==
  ASSUME NEW w, NEW day
  PROVE  /\ \A s \in OfDotenv(w) : s.id = <<"dotenv">>
         /\ \A s \in OfSockets(w) : \E l : s.id = <<"socket", l>>
         /\ \A s \in OfStore(day, w) : s.id = <<"store">>
         /\ \A s \in audit_process_envs(w.procs.env, w.procs.denied) : \E p : s.id = <<"process", p>>
         /\ \A s \in OfLog(day, w) : s.id = <<"telemetry">>
         /\ \A s \in OfBroker(w) : s.id = <<"broker">>
<1>1. \A s \in OfDotenv(w) : s.id = <<"dotenv">>
  BY DEF OfDotenv, audit_env_file, Server
<1>2. \A s \in OfSockets(w) : \E l : s.id = <<"socket", l>>
  BY DEF OfSockets, Surfaced, Server
<1>3. \A s \in OfStore(day, w) : s.id = <<"store">>
  BY DEF OfStore, Surfaced, Server
<1>4. \A s \in audit_process_envs(w.procs.env, w.procs.denied) : \E p : s.id = <<"process", p>>
  <2> DEFINE F(p) == {Secretly("CRED_ENV", <<p>>, k) : k \in w.procs.env[p]}
  <2>1. ASSUME NEW s \in audit_process_envs(w.procs.env, w.procs.denied)
        PROVE  \E p : s \in Surfaced(<<"process", p>>, w.procs.denied, F(p))
    BY DEF audit_process_envs
  <2> HIDE DEF F
  <2> QED BY <2>1 DEF Surfaced, Server
<1>5. \A s \in OfLog(day, w) : s.id = <<"telemetry">>
  BY DEF OfLog, Surfaced, Server
<1>6. \A s \in OfBroker(w) : s.id = <<"broker">>
  <2>1. \A D : \A s \in NoBroker(D) : s.id = <<"broker">>
    BY DEF NoBroker, Surfaced, Server
  <2>2. \A D, m, reason : \A s \in audit_broker(D, m, reason) : s.id = <<"broker">>
    BY DEF audit_broker, Surfaced, Server
  <2> QED BY <2>1, <2>2 DEF OfBroker
<1> QED BY <1>1, <1>2, <1>3, <1>4, <1>5, <1>6

\* A risk of an instant is of the surface its id names.
LEMMA InstantIs ==
  ASSUME NEW inspect, NEW day, NEW w, NEW id, NEW f, <<id, f>> \in Pairs(Instant(inspect, day, w))
  PROVE  \/ \E g \in Legible(w) : /\ (\E n : id = <<"declared", g, n>>) \/ id = <<"permissions", g>>
                                  /\ <<id, f>> \in Pairs(audit_config(g, w[g]))
         \/ id = <<"dotenv">> /\ <<id, f>> \in Pairs(OfDotenv(w))
         \/ (\E l : id = <<"socket", l>>) /\ <<id, f>> \in Pairs(OfSockets(w))
         \/ id = <<"store">> /\ "token_stores" \in inspect /\ <<id, f>> \in Pairs(OfStore(day, w))
         \/ /\ \E p : id = <<"process", p>>
            /\ "process_env" \in inspect
            /\ <<id, f>> \in Pairs(audit_process_envs(w.procs.env, w.procs.denied))
         \/ id = <<"telemetry">> /\ "telemetry" \in inspect /\ <<id, f>> \in Pairs(OfLog(day, w))
         \/ id = <<"broker">> /\ "broker" \in inspect /\ <<id, f>> \in Pairs(OfBroker(w))
<1>1. PICK s \in Instant(inspect, day, w) : s.id = id /\ f \in s.findings
  BY PairsIs
<1>2. \A R : s \in R => <<id, f>> \in Pairs(R)
  BY <1>1, PairsIs
<1>3. CASE s \in OfConfigs(w)
  <2>1. PICK g \in Legible(w) : s \in audit_config(g, w[g])
    BY <1>3 DEF OfConfigs
  <2> QED BY <1>1, <1>2, <2>1, ConfigIds
<1>4. \/ s \in OfConfigs(w) \/ s \in OfDotenv(w) \/ s \in OfSockets(w)
      \/ "token_stores" \in inspect /\ s \in OfStore(day, w)
      \/ "process_env" \in inspect /\ s \in audit_process_envs(w.procs.env, w.procs.denied)
      \/ "telemetry" \in inspect /\ s \in OfLog(day, w)
      \/ "broker" \in inspect /\ s \in OfBroker(w)
  BY <1>1 DEF Instant
<1> QED BY <1>1, <1>2, <1>3, <1>4, SurfaceIds

\* The findings about the broker.
LEMMA PostureIs ==
  ASSUME NEW D, NEW m, NEW reason, NEW f
  PROVE  f \in check_broker_posture(D, m, reason) <=>
           \/ f \in Absences(D, m.fronts)
           \/ claims_governance(m) /\ m.evidence = {} /\ f = Finding("BROKER_EVIDENCE_MISSING", <<"broker">>)
           \/ reason # "none" /\ f = Finding("BROKER_EVIDENCE_MISMATCH", <<"broker">>)
           \/ /\ ~m.signed /\ \E s \in Privileged(D) : s.id \in m.fronts
              /\ f = Finding("BROKER_MANIFEST_UNVERIFIED", <<"broker">>)
           \/ ~m.audited /\ f = Finding("BROKER_NO_AUDIT", <<"broker">>)
           \/ ~m.least_privilege /\ f = Finding("BROKER_ALLOWLIST_PERMISSIVE", <<"broker">>)
BY DEF check_broker_posture, When

\* The privileged servers nobody fronts.
LEMMA AbsencesIs ==
  ASSUME NEW D, NEW fronts, NEW f
  PROVE  f \in Absences(D, fronts) <=>
           \E s \in D : /\ is_privileged(s.decl) /\ s.id \notin fronts /\ ~routes_through_broker(s.decl)
                        /\ f = Finding("BROKER_ABSENT", s.id)
BY DEF Absences, Unbrokered, Privileged

\* What an instant says of the broker.
LEMMA OfBrokerIs ==
  ASSUME NEW w, NEW id, NEW f, <<id, f>> \in Pairs(OfBroker(w))
  PROVE  \/ w.manifest.status # "ok" /\ f \in Absences(DeclaredIn(w), {})
         \/ /\ w.manifest.status = "ok" /\ Checkable(w.manifest.m) = {}
            /\ f \in check_broker_posture(DeclaredIn(w), w.manifest.m, "none")
         \/ /\ w.manifest.status = "ok"
            /\ \E e \in Checkable(w.manifest.m) :
                 f \in check_broker_posture(DeclaredIn(w), w.manifest.m, ChainReason(w.chain, e))
<1>1. PICK s \in OfBroker(w) : s.id = id /\ f \in s.findings
  BY PairsIs
<1>2. CASE w.manifest.status # "ok"
  <2> DEFINE F == Absences(DeclaredIn(w), {})
  <2>1. s \in Surfaced(<<"broker">>, FALSE, F)
    BY <1>1, <1>2 DEF OfBroker, NoBroker
  <2> HIDE DEF F
  <2>2. f \in F
    BY <1>1, <2>1 DEF Surfaced, Server
  <2> QED BY <1>2, <2>2 DEF F
<1>3. ASSUME NEW reason, s \in audit_broker(DeclaredIn(w), w.manifest.m, reason)
      PROVE  f \in check_broker_posture(DeclaredIn(w), w.manifest.m, reason)
  BY <1>1, <1>3, SurfacedIs DEF audit_broker
<1>4. CASE w.manifest.status = "ok" /\ Checkable(w.manifest.m) = {}
  <2>1. s \in audit_broker(DeclaredIn(w), w.manifest.m, "none")
    BY <1>1, <1>4 DEF OfBroker
  <2> QED BY <1>3, <1>4, <2>1
<1>5. CASE w.manifest.status = "ok" /\ Checkable(w.manifest.m) # {}
  <2>1. \E e \in Checkable(w.manifest.m) : s \in audit_broker(DeclaredIn(w), w.manifest.m, ChainReason(w.chain, e))
    BY <1>1, <1>5 DEF OfBroker
  <2> QED BY <1>3, <1>5, <2>1
<1> QED BY <1>2, <1>4, <1>5

\* A finding tells its rule and its place.
LEMMA FindingTells ==
  ASSUME NEW rule, NEW at
  PROVE  Finding(rule, at).id = rule /\ Finding(rule, at).at = at /\ Finding(rule, at).secret = NoSecret
BY DEF Finding, Secretly

-----------------------------------------------------------------------------
(* What stood all along is told, surface by surface.                        *)

\* The report says of this risk, or says that it could not be seen.
Told(reported, id, f) ==
  \/ <<id, f>> \in Pairs(reported)
  \/ \E s \in reported :
       /\ s.id[1] = "config" /\ s.incomplete
       /\ s.id[2] \in Range(id) \union Range(f.at) \/ f.id = "BROKER_MANIFEST_UNVERIFIED"

\* It held of every instant so far.
Held(id, f) == \A i \in DOMAIN past : <<id, f>> \in Pairs(Instant(scene.inspect, now, past[i]))

\* What a risk is of does not change from one instant to another.
LEMMA HeldIs ==
  ASSUME IInv, NEW id, NEW f, Held(id, f)
  PROVE  \/ \E g \in ConfigFile :
              /\ (\E n : id = <<"declared", g, n>>) \/ id = <<"permissions", g>>
              /\ \A i \in DOMAIN past : g \in Legible(past[i]) /\ <<id, f>> \in Pairs(audit_config(g, past[i][g]))
         \/ id = <<"dotenv">> /\ \A i \in DOMAIN past : <<id, f>> \in Pairs(OfDotenv(past[i]))
         \/ (\E l : id = <<"socket", l>>) /\ \A i \in DOMAIN past : <<id, f>> \in Pairs(OfSockets(past[i]))
         \/ /\ id = <<"store">> /\ "token_stores" \in scene.inspect
            /\ \A i \in DOMAIN past : <<id, f>> \in Pairs(OfStore(now, past[i]))
         \/ /\ \E p : id = <<"process", p>>
            /\ "process_env" \in scene.inspect
            /\ \A i \in DOMAIN past : <<id, f>> \in Pairs(audit_process_envs(past[i].procs.env, past[i].procs.denied))
         \/ /\ id = <<"telemetry">> /\ "telemetry" \in scene.inspect
            /\ \A i \in DOMAIN past : <<id, f>> \in Pairs(OfLog(now, past[i]))
         \/ /\ id = <<"broker">> /\ "broker" \in scene.inspect
            /\ \A i \in DOMAIN past : <<id, f>> \in Pairs(OfBroker(past[i]))
<1>0. 1 \in DOMAIN past
  BY Latest
<1>1. \A i \in DOMAIN past : <<id, f>> \in Pairs(Instant(scene.inspect, now, past[i]))
  BY DEF Held
<1> DEFINE C(i, g) == /\ (\E n : id = <<"declared", g, n>>) \/ id = <<"permissions", g>>
                      /\ <<id, f>> \in Pairs(audit_config(g, past[i][g]))
<1>2. ASSUME NEW i \in DOMAIN past
      PROVE  /\ id[1] \in {"declared", "permissions"} => id[2] \in Legible(past[i]) /\ C(i, id[2])
             /\ id[1] = "dotenv" => id = <<"dotenv">> /\ <<id, f>> \in Pairs(OfDotenv(past[i]))
             /\ id[1] = "socket" => (\E l : id = <<"socket", l>>) /\ <<id, f>> \in Pairs(OfSockets(past[i]))
             /\ id[1] = "store" => /\ id = <<"store">> /\ "token_stores" \in scene.inspect
                                   /\ <<id, f>> \in Pairs(OfStore(now, past[i]))
             /\ id[1] = "process" =>
                  /\ \E p : id = <<"process", p>>
                  /\ "process_env" \in scene.inspect
                  /\ <<id, f>> \in Pairs(audit_process_envs(past[i].procs.env, past[i].procs.denied))
             /\ id[1] = "telemetry" => /\ id = <<"telemetry">> /\ "telemetry" \in scene.inspect
                                       /\ <<id, f>> \in Pairs(OfLog(now, past[i]))
             /\ id[1] = "broker" => /\ id = <<"broker">> /\ "broker" \in scene.inspect
                                    /\ <<id, f>> \in Pairs(OfBroker(past[i]))
             /\ id[1] \in {"declared", "permissions", "dotenv", "socket", "store", "process", "telemetry", "broker"}
  <2>1. <<id, f>> \in Pairs(Instant(scene.inspect, now, past[i]))
    BY <1>1
  <2>2. ASSUME NEW g \in Legible(past[i]), C(i, g)
        PROVE  id[1] \in {"declared", "permissions"} /\ id[2] = g
    BY <2>2
  <2>3. \/ \E g \in Legible(past[i]) : C(i, g)
        \/ id = <<"dotenv">> /\ <<id, f>> \in Pairs(OfDotenv(past[i]))
        \/ (\E l : id = <<"socket", l>>) /\ <<id, f>> \in Pairs(OfSockets(past[i]))
        \/ id = <<"store">> /\ "token_stores" \in scene.inspect /\ <<id, f>> \in Pairs(OfStore(now, past[i]))
        \/ /\ \E p : id = <<"process", p>>
           /\ "process_env" \in scene.inspect
           /\ <<id, f>> \in Pairs(audit_process_envs(past[i].procs.env, past[i].procs.denied))
        \/ id = <<"telemetry">> /\ "telemetry" \in scene.inspect /\ <<id, f>> \in Pairs(OfLog(now, past[i]))
        \/ id = <<"broker">> /\ "broker" \in scene.inspect /\ <<id, f>> \in Pairs(OfBroker(past[i]))
    BY <2>1, InstantIs
  <2>4. CASE \E g \in Legible(past[i]) : C(i, g)
    <3>1. PICK g \in Legible(past[i]) : C(i, g)
      BY <2>4
    <3>2. id[1] \in {"declared", "permissions"} /\ id[2] = g
      BY <2>2, <3>1
    <3> HIDE DEF C
    <3> QED BY <3>1, <3>2
  <2>5. CASE id = <<"dotenv">> /\ <<id, f>> \in Pairs(OfDotenv(past[i]))
    BY <2>5
  <2>6. CASE (\E l : id = <<"socket", l>>) /\ <<id, f>> \in Pairs(OfSockets(past[i]))
    <3>1. id[1] = "socket"
      BY <2>6
    <3> QED BY <2>6, <3>1
  <2>7. CASE id = <<"store">> /\ "token_stores" \in scene.inspect /\ <<id, f>> \in Pairs(OfStore(now, past[i]))
    BY <2>7
  <2>8. CASE /\ \E p : id = <<"process", p>>
             /\ "process_env" \in scene.inspect
             /\ <<id, f>> \in Pairs(audit_process_envs(past[i].procs.env, past[i].procs.denied))
    <3>1. id[1] = "process"
      BY <2>8
    <3> QED BY <2>8, <3>1
  <2>9. CASE id = <<"telemetry">> /\ "telemetry" \in scene.inspect /\ <<id, f>> \in Pairs(OfLog(now, past[i]))
    BY <2>9
  <2>10. CASE id = <<"broker">> /\ "broker" \in scene.inspect /\ <<id, f>> \in Pairs(OfBroker(past[i]))
    BY <2>10
  <2> QED BY <2>3, <2>4, <2>5, <2>6, <2>7, <2>8, <2>9, <2>10
<1>3. id[1] \in {"declared", "permissions", "dotenv", "socket", "store", "process", "telemetry", "broker"}
  BY <1>0, <1>2
<1>4. CASE id[1] \in {"declared", "permissions"}
  <2>1. \A i \in DOMAIN past : id[2] \in Legible(past[i]) /\ C(i, id[2])
    BY <1>2, <1>4
  <2>2. id[2] \in ConfigFile
    BY <1>0, <2>1 DEF Legible
  <2>3. (\E n : id = <<"declared", id[2], n>>) \/ id = <<"permissions", id[2]>>
    BY <1>0, <2>1
  <2> QED BY <2>1, <2>2, <2>3
<1>5. CASE id[1] = "dotenv"
  BY <1>0, <1>2, <1>5
<1>6. CASE id[1] = "socket"
  BY <1>0, <1>2, <1>6
<1>7. CASE id[1] = "store"
  BY <1>0, <1>2, <1>7
<1>8. CASE id[1] = "process"
  BY <1>0, <1>2, <1>8
<1>9. CASE id[1] = "telemetry"
  BY <1>0, <1>2, <1>9
<1>10. CASE id[1] = "broker"
  BY <1>0, <1>2, <1>10
<1> QED BY <1>3, <1>4, <1>5, <1>6, <1>7, <1>8, <1>9, <1>10

\* When the report is assembled, every surface that was wanted has been seen.
LEMMA AllSeen ==
  ASSUME IInv, Watching, NEW n, At("sockets", n)
  PROVE  Len(todo) = 6 /\ Tidy(servers) /\ Watched /\ \A s \in Wanted(scene.inspect) : Seen(s)
<1>1. Len(todo) = 6
  <2>1. "sockets" \in DOMAIN Place /\ Place["sockets"] = 6
    BY DEF Place
  <2> QED BY <2>1, AtIs DEF IInv
<1>2. InOrder(todo, 1, 13) /\ Tidy(servers) /\ Watched /\ todo # <<>> /\ Head(todo) = "sockets"
  BY <1>1 DEF Watching, At
<1>3. ASSUME NEW s \in Wanted(scene.inspect), s \in Range(todo) PROVE FALSE
  <2>1. Turn["sockets"] <= Turn[s]
    BY <1>2, <1>3, Leaving
  <2>2. \A x \in Surface : Turn["sockets"] <= Turn[x] => FALSE
    BY DEF Turn, Surface
  <2> QED BY <2>1, <2>2 DEF Wanted
<1> QED BY <1>1, <1>2, <1>3 DEF Watched

\* A finding reported is told.
LEMMA ToldBy ==
  ASSUME NEW X, NEW R, R \subseteq X, NEW id, NEW f, <<id, f>> \in Pairs(R)
  PROVE  Told(X, id, f)
<1>1. <<id, f>> \in Pairs(X)
  BY PairsIs
<1> QED BY <1>1 DEF Told

\* A file that could not be inspected is told to be.
LEMMA ToldUnseen ==
  ASSUME NEW X, NEW g, config_failure_server(g) \in X, NEW id, NEW f,
         g \in Range(id) \union Range(f.at) \/ f.id = "BROKER_MANIFEST_UNVERIFIED"
  PROVE  Told(X, id, f)
<1> DEFINE s == config_failure_server(g)
<1>1. s.id[1] = "config" /\ s.id[2] = g /\ s.incomplete
  BY DEF config_failure_server, Server
<1> HIDE DEF s
<1>2. s \in X
  BY DEF s
<1> QED BY <1>1, <1>2 DEF Told

\* Risks of a config.
LEMMA ConfigTold ==
  ASSUME IInv, Watching, NEW n, At("sockets", n), NEW X, servers \subseteq X,
         NEW g \in ConfigFile, NEW id, NEW f, (\E d : id = <<"declared", g, d>>) \/ id = <<"permissions", g>>,
         \A i \in DOMAIN past : g \in Legible(past[i]) /\ <<id, f>> \in Pairs(audit_config(g, past[i][g]))
  PROVE  Told(X, id, f)
<1>1. Seen("user") /\ Seen("project")
  <2>1. {"user", "project"} \subseteq Wanted(scene.inspect)
    BY DEF Wanted, Surface, Optional
  <2> QED BY <2>1, AllSeen
<1>2. \E i \in DOMAIN past : ReadAt(g, i, subjects)
  <2>1. CASE g = "user"
    BY <1>1, <2>1 DEF Seen
  <2>2. CASE g = "project"
    <3>1. PICK k \in DOMAIN past : ConfigsSeen(k, subjects)
      BY <1>1 DEF Seen
    <3>2. 1..k \subseteq DOMAIN past
      BY Latest
    <3> QED BY <2>2, <3>1, <3>2 DEF ConfigsSeen
  <2> QED BY <2>1, <2>2 DEF ConfigFile
<1>3. PICK i \in DOMAIN past : ReadAt(g, i, subjects)
  BY <1>2
<1>4. past[i][g].status \in {"ok", "refused"} /\ <<id, f>> \in Pairs(audit_config(g, past[i][g]))
  BY DEF Legible
<1>5. CASE audit_config(g, past[i][g]) \subseteq servers
  <2>1. audit_config(g, past[i][g]) \subseteq X
    BY <1>5
  <2> QED BY <1>4, <2>1, ToldBy
<1>6. CASE config_failure_server(g) \in servers
  <2>1. g \in Range(id)
    BY DEF Range
  <2> QED BY <1>6, <2>1, ToldUnseen
<1> QED BY <1>3, <1>4, <1>5, <1>6 DEF ReadAt

\* Risks of .env: the secrets, their mode and what git says, each seen at some instant.
LEMMA DotenvTold ==
  ASSUME IInv, Watching, NEW n, At("sockets", n), NEW X, servers \subseteq X, NEW f,
         \A i \in DOMAIN past : <<<<"dotenv">>, f>> \in Pairs(OfDotenv(past[i]))
  PROVE  Told(X, <<"dotenv">>, f)
<1> DEFINE A(secrets, open, tracked) == {Secretly("CRED_PLAINTEXT", <<"dotenv">>, k) : k \in secrets}
                                          \union check_secret_at_rest(secrets, open, tracked)
<1>0. \A secrets, open, tracked : /\ audit_env_file(secrets, open, tracked).id = <<"dotenv">>
                                  /\ audit_env_file(secrets, open, tracked).findings = A(secrets, open, tracked)
  <2> HIDE DEF A
  <2> QED BY DEF audit_env_file, Server, A
<1>1. ASSUME NEW i \in DOMAIN past
      PROVE  There(past[i].dotenv) /\ f \in A(past[i].dotenv.secrets, past[i].dotenv_open, past[i].dotenv_tracked)
  <2>1. PICK s \in OfDotenv(past[i]) : f \in s.findings
    BY PairsIs
  <2>2. There(past[i].dotenv)
        /\ s = audit_env_file(past[i].dotenv.secrets, past[i].dotenv_open, past[i].dotenv_tracked)
    BY <2>1 DEF OfDotenv
  <2> HIDE DEF A
  <2> QED BY <1>0, <2>1, <2>2
<1>2. DotenvSeen
  <2>1. "dotenv" \in Wanted(scene.inspect)
    BY DEF Wanted, Surface, Optional
  <2> QED BY <2>1, AllSeen DEF Seen
<1>3. CASE config_failure_server("dotenv") \in servers
  <2>1. "dotenv" \in Range(<<"dotenv">>)
    BY DEF Range
  <2> QED BY <1>3, <2>1, ToldUnseen
<1>4. ASSUME NEW i \in DOMAIN past, NEW j \in DOMAIN past, NEW k \in DOMAIN past,
             audit_env_file(past[i].dotenv.secrets, There(past[j].dotenv) /\ past[j].dotenv_open,
                            past[k].dotenv_tracked) \in servers
      PROVE  Told(X, <<"dotenv">>, f)
  <2> DEFINE S == past[i].dotenv.secrets
             open == There(past[j].dotenv) /\ past[j].dotenv_open
             tracked == past[k].dotenv_tracked
             s == audit_env_file(S, open, tracked)
  <2>1. f \in A(S, open, tracked)
    <3>1. \A secrets, o, t : f \in A(secrets, o, t) <=>
            \/ \E x \in secrets : f = Secretly("CRED_PLAINTEXT", <<"dotenv">>, x)
            \/ secrets # {} /\ o /\ f = Finding("CRED_PERMS", <<"dotenv">>)
            \/ secrets # {} /\ t /\ f = Finding("CRED_GIT", <<"dotenv">>)
      BY DEF check_secret_at_rest, When
    <3>2. /\ Secretly("CRED_PERMS", <<"dotenv">>, NoSecret).id = "CRED_PERMS"
          /\ Secretly("CRED_GIT", <<"dotenv">>, NoSecret).id = "CRED_GIT"
          /\ Finding("CRED_PERMS", <<"dotenv">>).id = "CRED_PERMS"
          /\ Finding("CRED_GIT", <<"dotenv">>).id = "CRED_GIT"
          /\ \A x : Secretly("CRED_PLAINTEXT", <<"dotenv">>, x).id = "CRED_PLAINTEXT"
      BY FindingIs
    <3>3. /\ f \in A(S, past[i].dotenv_open, past[i].dotenv_tracked)
          /\ f \in A(past[j].dotenv.secrets, past[j].dotenv_open, past[j].dotenv_tracked) /\ There(past[j].dotenv)
          /\ f \in A(past[k].dotenv.secrets, past[k].dotenv_open, tracked)
      BY <1>1
    <3> HIDE DEF A
    <3>4. \/ \E x \in S : f = Secretly("CRED_PLAINTEXT", <<"dotenv">>, x)
          \/ S # {} /\ f = Finding("CRED_PERMS", <<"dotenv">>)
          \/ S # {} /\ f = Finding("CRED_GIT", <<"dotenv">>)
      BY <3>1, <3>3
    <3>5. f.id = "CRED_PERMS" => open
      BY <3>1, <3>2, <3>3
    <3>6. f.id = "CRED_GIT" => tracked
      BY <3>1, <3>2, <3>3
    <3> HIDE DEF S, open, tracked
    <3> QED BY <3>1, <3>2, <3>4, <3>5, <3>6
  <2>2. s \in X /\ s.id = <<"dotenv">> /\ s.findings = A(S, open, tracked)
    <3> HIDE DEF A
    <3> QED BY <1>0, <1>4
  <2> HIDE DEF s, A, S, open, tracked
  <2>3. <<<<"dotenv">>, f>> \in Pairs(X)
    BY <2>1, <2>2, PairsIs
  <2> QED BY <2>3 DEF Told
<1> QED BY <1>1, <1>2, <1>3, <1>4 DEF DotenvSeen

\* Risks of the token store: its mode and its contents, each seen at some instant.
LEMMA StoreTold ==
  ASSUME IInv, Watching, NEW n, At("sockets", n), NEW X, servers \subseteq X, NEW f, "token_stores" \in scene.inspect,
         \A i \in DOMAIN past : <<<<"store">>, f>> \in Pairs(OfStore(now, past[i]))
  PROVE  Told(X, <<"store">>, f)
<1> DEFINE E(w) == IF w.store.status = "ok" THEN w.store.exp ELSE {}
<1>0. \A open, exp : f \in check_token_store(open, exp, now) <=>
        \/ open /\ f = Finding("TOKEN_STORE_PERMS", <<"store">>)
        \/ (\E d \in exp : d < now) /\ f = Finding("TOKEN_STORE_EXPIRED", <<"store">>)
  BY DEF check_token_store, When
<1>1. ASSUME NEW i \in DOMAIN past
      PROVE  There(past[i].store) /\ f \in check_token_store(past[i].store_open, E(past[i]), now)
  <2>1. PICK s \in OfStore(now, past[i]) : f \in s.findings
    BY PairsIs
  <2> QED BY <2>1 DEF OfStore, Surfaced, Server
<1>2. StoreSeen
  <2>1. "store" \in Wanted(scene.inspect)
    BY DEF Wanted, Surface, Optional
  <2> QED BY <2>1, AllSeen DEF Seen
<1>3. ASSUME NEW i \in DOMAIN past, NEW j \in DOMAIN past,
             Surfaced(<<"store">>, FALSE,
                      check_token_store(There(past[i].store) /\ past[i].store_open,
                                        IF Readable(past[j].store) THEN past[j].store.exp ELSE {}, now)) \subseteq servers
      PROVE  Told(X, <<"store">>, f)
  <2> DEFINE open == There(past[i].store) /\ past[i].store_open
             exp == IF Readable(past[j].store) THEN past[j].store.exp ELSE {}
             F == check_token_store(open, exp, now)
             R == Surfaced(<<"store">>, FALSE, F)
  <2>1. /\ Finding("TOKEN_STORE_PERMS", <<"store">>).id = "TOKEN_STORE_PERMS"
        /\ Finding("TOKEN_STORE_EXPIRED", <<"store">>).id = "TOKEN_STORE_EXPIRED"
    BY FindingIs
  <2>2. f = Finding("TOKEN_STORE_PERMS", <<"store">>) => open
    BY <1>0, <1>1, <2>1
  <2>3. f = Finding("TOKEN_STORE_EXPIRED", <<"store">>) => \E d \in exp : d < now
    <3>1. E(past[j]) \subseteq exp
      BY DEF Readable
    <3>2. f \in check_token_store(past[j].store_open, E(past[j]), now)
      BY <1>1
    <3> HIDE DEF E, exp
    <3> QED BY <1>0, <2>1, <3>1, <3>2
  <2>4. \/ f = Finding("TOKEN_STORE_PERMS", <<"store">>)
        \/ f = Finding("TOKEN_STORE_EXPIRED", <<"store">>)
    BY <1>0, <1>1
  <2> HIDE DEF open, exp
  <2>5. f \in F
    BY <1>0, <2>2, <2>3, <2>4
  <2>6. R \subseteq X
    BY <1>3 DEF R, F, open, exp
  <2>7. <<<<"store">>, f>> \in Pairs(R)
    <3> HIDE DEF F
    <3> QED BY <2>5, SurfacedIs
  <2> QED BY <2>6, <2>7, ToldBy
<1> QED BY <1>1, <1>2, <1>3 DEF StoreSeen

\* Risks of the processes, all seen in one look.
LEMMA ProcessesTold ==
  ASSUME IInv, Watching, NEW n, At("sockets", n), NEW X, servers \subseteq X, NEW id, NEW f,
         "process_env" \in scene.inspect,
         \A i \in DOMAIN past : <<id, f>> \in Pairs(audit_process_envs(past[i].procs.env, past[i].procs.denied))
  PROVE  Told(X, id, f)
<1>1. ProcsSeen
  <2>1. "procs" \in Wanted(scene.inspect)
    BY DEF Wanted, Surface, Optional
  <2> QED BY <2>1, AllSeen DEF Seen
<1>2. PICK i \in DOMAIN past : audit_process_envs(past[i].procs.env, past[i].procs.denied) \subseteq servers
  BY <1>1 DEF ProcsSeen
<1>3. audit_process_envs(past[i].procs.env, past[i].procs.denied) \subseteq X
  BY <1>2
<1> QED BY <1>3, ToldBy

\* Risks of the tool log.
LEMMA LogTold ==
  ASSUME IInv, Watching, NEW n, At("sockets", n), NEW X, servers \subseteq X, NEW f, "telemetry" \in scene.inspect,
         \A i \in DOMAIN past : <<<<"telemetry">>, f>> \in Pairs(OfLog(now, past[i]))
  PROVE  Told(X, <<"telemetry">>, f)
<1>1. ASSUME NEW i \in DOMAIN past
      PROVE  f \in check_telemetry(past[i].log.present, past[i].log.open, {past[i].log.mtime}, now)
  <2>1. PICK s \in OfLog(now, past[i]) : f \in s.findings
    BY PairsIs
  <2> QED BY <2>1 DEF OfLog, Surfaced, Server
<1>2. LogSeen
  <2>1. "log" \in Wanted(scene.inspect)
    BY DEF Wanted, Surface, Optional
  <2> QED BY <2>1, AllSeen DEF Seen
<1>3. \A present, open, mtime : f \in check_telemetry(present, open, mtime, now) <=>
        \/ ~present /\ f = Finding("TELEMETRY_ABSENT", <<"log">>)
        \/ present /\ open /\ f = Finding("TELEMETRY_PERMS", <<"log">>)
        \/ present /\ (\E t \in mtime : now - t > StaleAfter) /\ f = Finding("TELEMETRY_STALE", <<"log">>)
  BY DEF check_telemetry, When
<1>4. /\ Finding("TELEMETRY_ABSENT", <<"log">>).id = "TELEMETRY_ABSENT"
      /\ Finding("TELEMETRY_PERMS", <<"log">>).id = "TELEMETRY_PERMS"
      /\ Finding("TELEMETRY_STALE", <<"log">>).id = "TELEMETRY_STALE"
  BY FindingIs
<1>5. ASSUME NEW present, NEW open, NEW mtime, f \in check_telemetry(present, open, mtime, now),
             Surfaced(<<"telemetry">>, FALSE, check_telemetry(present, open, mtime, now)) \subseteq servers
      PROVE  Told(X, <<"telemetry">>, f)
  <2> DEFINE F == check_telemetry(present, open, mtime, now)
             R == Surfaced(<<"telemetry">>, FALSE, F)
  <2>1. f \in F /\ R \subseteq X
    BY <1>5
  <2> HIDE DEF F
  <2>2. <<<<"telemetry">>, f>> \in Pairs(R)
    BY <2>1, SurfacedIs
  <2> QED BY <2>1, <2>2, ToldBy
<1>6. ASSUME NEW i \in DOMAIN past, ~past[i].log.present,
             Surfaced(<<"telemetry">>, FALSE, check_telemetry(FALSE, FALSE, {}, now)) \subseteq servers
      PROVE  Told(X, <<"telemetry">>, f)
  <2>1. f = Finding("TELEMETRY_ABSENT", <<"log">>)
    <3>1. f \in check_telemetry(past[i].log.present, past[i].log.open, {past[i].log.mtime}, now)
      BY <1>1
    <3> QED BY <1>3, <1>6, <3>1
  <2>2. f \in check_telemetry(FALSE, FALSE, {}, now)
    BY <2>1 DEF check_telemetry, When
  <2> QED BY <1>5, <1>6, <2>2
<1>7. ASSUME NEW i \in DOMAIN past, NEW j \in DOMAIN past, past[i].log.present,
             Surfaced(<<"telemetry">>, FALSE,
                      check_telemetry(TRUE, past[j].log.present /\ past[j].log.open,
                                      IF past[j].log.present THEN {past[j].log.mtime} ELSE {}, now)) \subseteq servers
      PROVE  Told(X, <<"telemetry">>, f)
  <2> DEFINE open == past[j].log.present /\ past[j].log.open
             mtime == IF past[j].log.present THEN {past[j].log.mtime} ELSE {}
  <2>1. f # Finding("TELEMETRY_ABSENT", <<"log">>)
    BY <1>1, <1>3, <1>4, <1>7
  <2>2. past[j].log.present /\ f \in check_telemetry(past[j].log.present, past[j].log.open, {past[j].log.mtime}, now)
    BY <1>1, <1>3, <2>1
  <2>3. \/ f = Finding("TELEMETRY_PERMS", <<"log">>) /\ open
        \/ f = Finding("TELEMETRY_STALE", <<"log">>) /\ \E t \in mtime : now - t > StaleAfter
    <3>1. mtime = {past[j].log.mtime} /\ (past[j].log.open => open)
      BY <2>2
    <3> HIDE DEF open, mtime
    <3>2. f \in check_telemetry(past[j].log.present, past[j].log.open, mtime, now)
      BY <2>2, <3>1
    <3> QED BY <1>3, <2>1, <3>1, <3>2
  <2> HIDE DEF open, mtime
  <2>4. f \in check_telemetry(TRUE, open, mtime, now)
    BY <1>3, <2>3
  <2>5. Surfaced(<<"telemetry">>, FALSE, check_telemetry(TRUE, open, mtime, now)) \subseteq servers
    BY <1>7 DEF open, mtime
  <2> QED BY <1>5, <2>4, <2>5
<1> QED BY <1>2, <1>6, <1>7 DEF LogSeen

\* Every rule about the broker, as an instant bears it.
LEMMA BrokerRules ==
  ASSUME NEW w, NEW id, NEW f, <<id, f>> \in Pairs(OfBroker(w))
  PROVE  LET m == w.manifest.m IN
         \/ \E s \in DeclaredIn(w) :
              /\ is_privileged(s.decl) /\ ~routes_through_broker(s.decl)
              /\ f = Finding("BROKER_ABSENT", s.id)
              /\ w.manifest.status = "ok" => s.id \notin m.fronts
         \/ /\ w.manifest.status = "ok" /\ claims_governance(m) /\ m.evidence = {}
            /\ f = Finding("BROKER_EVIDENCE_MISSING", <<"broker">>)
         \/ /\ w.manifest.status = "ok" /\ f = Finding("BROKER_EVIDENCE_MISMATCH", <<"broker">>)
            /\ \E e \in Checkable(m) : ChainReason(w.chain, e) # "none"
         \/ /\ w.manifest.status = "ok" /\ ~m.signed /\ f = Finding("BROKER_MANIFEST_UNVERIFIED", <<"broker">>)
            /\ \E s \in DeclaredIn(w) : is_privileged(s.decl) /\ s.id \in m.fronts
         \/ w.manifest.status = "ok" /\ ~m.audited /\ f = Finding("BROKER_NO_AUDIT", <<"broker">>)
         \/ w.manifest.status = "ok" /\ ~m.least_privilege /\ f = Finding("BROKER_ALLOWLIST_PERMISSIVE", <<"broker">>)
<1> DEFINE m == w.manifest.m
           D == DeclaredIn(w)
<1>1. ASSUME NEW fronts, f \in Absences(D, fronts), w.manifest.status = "ok" => fronts = m.fronts
      PROVE  \E s \in D : /\ is_privileged(s.decl) /\ ~routes_through_broker(s.decl)
                          /\ f = Finding("BROKER_ABSENT", s.id)
                          /\ w.manifest.status = "ok" => s.id \notin m.fronts
  <2>1. PICK s \in D : /\ is_privileged(s.decl) /\ s.id \notin fronts /\ ~routes_through_broker(s.decl)
                       /\ f = Finding("BROKER_ABSENT", s.id)
    BY <1>1, AbsencesIs
  <2> QED BY <1>1, <2>1
<1>2. ASSUME NEW reason, f \in check_broker_posture(D, m, reason)
      PROVE  \/ f \in Absences(D, m.fronts)
             \/ claims_governance(m) /\ m.evidence = {} /\ f = Finding("BROKER_EVIDENCE_MISSING", <<"broker">>)
             \/ reason # "none" /\ f = Finding("BROKER_EVIDENCE_MISMATCH", <<"broker">>)
             \/ /\ ~m.signed /\ \E s \in D : is_privileged(s.decl) /\ s.id \in m.fronts
                /\ f = Finding("BROKER_MANIFEST_UNVERIFIED", <<"broker">>)
             \/ ~m.audited /\ f = Finding("BROKER_NO_AUDIT", <<"broker">>)
             \/ ~m.least_privilege /\ f = Finding("BROKER_ALLOWLIST_PERMISSIVE", <<"broker">>)
  BY <1>2, PostureIs DEF Privileged
<1>3. \/ w.manifest.status # "ok" /\ f \in Absences(D, {})
      \/ /\ w.manifest.status = "ok" /\ f \in check_broker_posture(D, m, "none")
      \/ /\ w.manifest.status = "ok"
         /\ \E e \in Checkable(m) : f \in check_broker_posture(D, m, ChainReason(w.chain, e))
  BY OfBrokerIs
<1> HIDE DEF D, m
<1>4. CASE w.manifest.status # "ok" /\ f \in Absences(D, {})
  BY <1>1, <1>4 DEF D, m
<1>5. CASE w.manifest.status = "ok" /\ f \in check_broker_posture(D, m, "none")
  <2>1. f \in Absences(D, m.fronts) => \E s \in D : /\ is_privileged(s.decl) /\ ~routes_through_broker(s.decl)
                                                    /\ f = Finding("BROKER_ABSENT", s.id)
                                                    /\ w.manifest.status = "ok" => s.id \notin m.fronts
    BY <1>1
  <2> QED BY <1>2, <1>5, <2>1 DEF D, m
<1>6. CASE /\ w.manifest.status = "ok"
           /\ \E e \in Checkable(m) : f \in check_broker_posture(D, m, ChainReason(w.chain, e))
  <2>1. f \in Absences(D, m.fronts) => \E s \in D : /\ is_privileged(s.decl) /\ ~routes_through_broker(s.decl)
                                                    /\ f = Finding("BROKER_ABSENT", s.id)
                                                    /\ w.manifest.status = "ok" => s.id \notin m.fronts
    BY <1>1
  <2>2. PICK e \in Checkable(m) : f \in check_broker_posture(D, m, ChainReason(w.chain, e))
    BY <1>6
  <2> QED BY <1>2, <1>6, <2>1, <2>2 DEF D, m
<1> QED BY <1>3, <1>4, <1>5, <1>6

\* The rule of a finding about the broker tells what bears it out.
LEMMA BrokerRule ==
  ASSUME NEW w, NEW id, NEW f, <<id, f>> \in Pairs(OfBroker(w))
  PROVE  /\ f.id = "BROKER_ABSENT" =>
              \E s \in DeclaredIn(w) :
                /\ is_privileged(s.decl) /\ ~routes_through_broker(s.decl)
                /\ f = Finding("BROKER_ABSENT", s.id)
                /\ w.manifest.status = "ok" => s.id \notin w.manifest.m.fronts
         /\ f.id # "BROKER_ABSENT" => w.manifest.status = "ok"
         /\ f.id = "BROKER_EVIDENCE_MISMATCH" =>
              /\ f = Finding("BROKER_EVIDENCE_MISMATCH", <<"broker">>)
              /\ \E e \in Checkable(w.manifest.m) : ChainReason(w.chain, e) # "none"
         /\ f.id = "BROKER_MANIFEST_UNVERIFIED" =>
              /\ ~w.manifest.m.signed /\ f = Finding("BROKER_MANIFEST_UNVERIFIED", <<"broker">>)
              /\ \E s \in DeclaredIn(w) : is_privileged(s.decl) /\ s.id \in w.manifest.m.fronts
         /\ f.id \notin {"BROKER_ABSENT", "BROKER_EVIDENCE_MISMATCH", "BROKER_MANIFEST_UNVERIFIED"} =>
              \/ /\ claims_governance(w.manifest.m) /\ w.manifest.m.evidence = {}
                 /\ f = Finding("BROKER_EVIDENCE_MISSING", <<"broker">>)
              \/ ~w.manifest.m.audited /\ f = Finding("BROKER_NO_AUDIT", <<"broker">>)
              \/ ~w.manifest.m.least_privilege /\ f = Finding("BROKER_ALLOWLIST_PERMISSIVE", <<"broker">>)
<1> DEFINE Absent == \E s \in DeclaredIn(w) :
                       /\ is_privileged(s.decl) /\ ~routes_through_broker(s.decl)
                       /\ f = Finding("BROKER_ABSENT", s.id)
                       /\ w.manifest.status = "ok" => s.id \notin w.manifest.m.fronts
           Missing == claims_governance(w.manifest.m) /\ w.manifest.m.evidence = {}
           Mismatch == \E e \in Checkable(w.manifest.m) : ChainReason(w.chain, e) # "none"
           Unverified == \E s \in DeclaredIn(w) : is_privileged(s.decl) /\ s.id \in w.manifest.m.fronts
<1>1. \/ Absent
      \/ w.manifest.status = "ok" /\ Missing /\ f = Finding("BROKER_EVIDENCE_MISSING", <<"broker">>)
      \/ w.manifest.status = "ok" /\ f = Finding("BROKER_EVIDENCE_MISMATCH", <<"broker">>) /\ Mismatch
      \/ /\ w.manifest.status = "ok" /\ ~w.manifest.m.signed
         /\ f = Finding("BROKER_MANIFEST_UNVERIFIED", <<"broker">>) /\ Unverified
      \/ /\ w.manifest.status = "ok" /\ ~w.manifest.m.audited
         /\ f = Finding("BROKER_NO_AUDIT", <<"broker">>)
      \/ /\ w.manifest.status = "ok" /\ ~w.manifest.m.least_privilege
         /\ f = Finding("BROKER_ALLOWLIST_PERMISSIVE", <<"broker">>)
  BY BrokerRules
<1>2. Absent => f.id = "BROKER_ABSENT"
  BY FindingTells
<1>3. /\ Finding("BROKER_EVIDENCE_MISSING", <<"broker">>).id = "BROKER_EVIDENCE_MISSING"
      /\ Finding("BROKER_EVIDENCE_MISMATCH", <<"broker">>).id = "BROKER_EVIDENCE_MISMATCH"
      /\ Finding("BROKER_MANIFEST_UNVERIFIED", <<"broker">>).id = "BROKER_MANIFEST_UNVERIFIED"
      /\ Finding("BROKER_NO_AUDIT", <<"broker">>).id = "BROKER_NO_AUDIT"
      /\ Finding("BROKER_ALLOWLIST_PERMISSIVE", <<"broker">>).id = "BROKER_ALLOWLIST_PERMISSIVE"
  BY FindingTells
<1> HIDE DEF Absent, Missing, Mismatch, Unverified
<1>4. /\ f.id = "BROKER_ABSENT" => Absent
      /\ f.id # "BROKER_ABSENT" => w.manifest.status = "ok"
      /\ f.id = "BROKER_EVIDENCE_MISMATCH" => f = Finding("BROKER_EVIDENCE_MISMATCH", <<"broker">>) /\ Mismatch
      /\ f.id = "BROKER_MANIFEST_UNVERIFIED" =>
           /\ ~w.manifest.m.signed /\ f = Finding("BROKER_MANIFEST_UNVERIFIED", <<"broker">>)
           /\ Unverified
      /\ f.id \notin {"BROKER_ABSENT", "BROKER_EVIDENCE_MISMATCH", "BROKER_MANIFEST_UNVERIFIED"} =>
           \/ Missing /\ f = Finding("BROKER_EVIDENCE_MISSING", <<"broker">>)
           \/ ~w.manifest.m.audited /\ f = Finding("BROKER_NO_AUDIT", <<"broker">>)
           \/ ~w.manifest.m.least_privilege /\ f = Finding("BROKER_ALLOWLIST_PERMISSIVE", <<"broker">>)
  BY <1>1, <1>2, <1>3
<1> QED BY <1>4 DEF Absent, Missing, Mismatch, Unverified

\* What the report says of the broker, of a finding that the declared servers and the
\* files that were read deserve.
LEMMA JudgedTells ==
  ASSUME NEW k, NEW l, NEW D, Judged(k, l, D), NEW X, servers \subseteq X, NEW f,
         \/ past[k].manifest.status # "ok" /\ f \in Absences(D, {})
         \/ /\ past[k].manifest.status = "ok"
            /\ Checkable(past[k].manifest.m) = {} => f \in check_broker_posture(D, past[k].manifest.m, "none")
            /\ \A e \in Checkable(past[k].manifest.m) :
                 f \in check_broker_posture(D, past[k].manifest.m, ChainReason(past[l].chain, e))
  PROVE  <<<<"broker">>, f>> \in Pairs(X)
<1> DEFINE m == past[k].manifest.m
<1>1. ASSUME NEW reason, f \in check_broker_posture(D, m, reason), audit_broker(D, m, reason) \subseteq servers
      PROVE  <<<<"broker">>, f>> \in Pairs(X)
  <2> DEFINE F == check_broker_posture(D, m, reason)
             s == Server(<<"broker">>, reason # "none", F)
  <2>1. audit_broker(D, m, reason) = IF F = {} THEN {} ELSE {s}
    BY DEF audit_broker, Surfaced
  <2>2. f \in F
    BY <1>1
  <2>3. s.id = <<"broker">> /\ s.findings = F
    BY DEF Server
  <2> HIDE DEF F, s
  <2>4. s \in X
    BY <1>1, <2>1, <2>2
  <2> QED BY <2>2, <2>3, <2>4, PairsIs
<1>2. ASSUME f \in Absences(D, {}), NoBroker(D) \subseteq servers \/ ParseError(D) \subseteq servers
      PROVE  <<<<"broker">>, f>> \in Pairs(X)
  <2> DEFINE F == Absences(D, {})
             G == F \union {Finding("BROKER_PARSE_ERROR", <<"broker">>)}
             s == Server(<<"broker">>, FALSE, F)
             t == Server(<<"broker">>, TRUE, G)
  <2>1. NoBroker(D) = (IF F = {} THEN {} ELSE {s}) /\ ParseError(D) = {t}
    BY DEF NoBroker, ParseError, Surfaced
  <2>2. f \in F /\ f \in G
    BY <1>2
  <2>3. s.id = <<"broker">> /\ s.findings = F /\ t.id = <<"broker">> /\ t.findings = G
    BY DEF Server
  <2> HIDE DEF F, G, s, t
  <2>4. s \in X \/ t \in X
    BY <1>2, <2>1, <2>2
  <2> QED BY <2>2, <2>3, <2>4, PairsIs
<1> HIDE DEF m
<1> QED BY <1>1, <1>2 DEF Judged, m

\* A server declared by a config that could be read was among those judged, or the
\* report says that the config was not inspected.
LEMMA JudgedServer ==
  ASSUME NEW g, NEW x, NEW D, ReadAt(g, x, D), NEW X, servers \subseteq X,
         NEW w, w[g] = past[x][g], g \in Legible(w), NEW s \in Declares(g, w)
  PROVE  s \in D \/ config_failure_server(g) \in X
<1>1. past[x][g].status \in {"ok", "refused"} /\ Declares(g, past[x]) = Declares(g, w)
  BY DEF Legible, Declares
<1> QED BY <1>1 DEF ReadAt

\* The servers of an instant are declared by its configs.
LEMMA DeclaredBy ==
  ASSUME NEW w, NEW s \in DeclaredIn(w)
  PROVE  \E g \in Legible(w) : g \in ConfigFile /\ s \in Declares(g, w) /\ s.id[2] = g /\ g \in Range(s.id)
<1>1. PICK g \in Legible(w) : s \in Declares(g, w)
  BY DEF DeclaredIn, Declares
<1>2. PICK n \in DOMAIN w[g].servers : s = [id |-> <<"declared", g, n>>, decl |-> w[g].servers[n]]
  BY <1>1 DEF Declares
<1>3. s.id[2] = g /\ g \in Range(s.id)
  BY <1>2 DEF Range
<1> QED BY <1>1, <1>3 DEF Legible

\* A glimpse has the user config of one instant, the project's of another, and the
\* broker's files of two more.
LEMMA GlimpseIs ==
  ASSUME IInv, NEW i \in DOMAIN past, NEW j, NEW k, NEW l
  PROVE  /\ Glimpse(i, j, k, l).user = past[i].user /\ Glimpse(i, j, k, l).project = past[j].project
         /\ Glimpse(i, j, k, l).manifest = past[k].manifest /\ Glimpse(i, j, k, l).chain = past[l].chain
<1>1. DOMAIN past[i] = Part
  BY Latest
<1> QED BY <1>1 DEF Glimpse, Part

\* Risks of the broker.
LEMMA BrokerTold ==
  ASSUME IInv, Watching, NEW n, At("sockets", n), NEW X, servers \subseteq X, NEW f, "broker" \in scene.inspect,
         \A i \in DOMAIN past : <<<<"broker">>, f>> \in Pairs(OfBroker(past[i])),
         f.id \in Joined =>
           \A l \in DOMAIN past : \A k \in 1..l : \A j \in 1..k : \A i \in 1..j :
             <<<<"broker">>, f>> \in Pairs(OfBroker(Glimpse(i, j, k, l)))
  PROVE  Told(X, <<"broker">>, f)
<1>1. BrokerSeen
  <2>1. "manifest" \in Wanted(scene.inspect)
    BY DEF Wanted, Surface, Optional
  <2> QED BY <2>1, AllSeen DEF Seen
<1>2. PICK D \in SUBSET subjects, l \in DOMAIN past : \E k \in 1..l : ConfigsSeen(k, D) /\ Judged(k, l, D)
  BY <1>1 DEF BrokerSeen
<1>3. PICK k \in 1..l : ConfigsSeen(k, D) /\ Judged(k, l, D)
  BY <1>2
<1>4. PICK j \in 1..k : \E i \in 1..j : ReadAt("user", i, D) /\ ReadAt("project", j, D)
  BY <1>3 DEF ConfigsSeen
<1>5. PICK i \in 1..j : ReadAt("user", i, D) /\ ReadAt("project", j, D)
  BY <1>4
<1>6. k \in DOMAIN past /\ j \in DOMAIN past /\ i \in DOMAIN past
  BY Latest
<1> DEFINE file == past[k].manifest
           m == file.m
           w == Glimpse(i, j, k, l)
<1>7. \A x \in DOMAIN past : <<<<"broker">>, f>> \in Pairs(OfBroker(past[x]))
  OBVIOUS
<1>8. ASSUME f \in Absences(D, IF file.status = "ok" THEN m.fronts ELSE {}) PROVE Told(X, <<"broker">>, f)
  <2>1. CASE file.status = "ok"
    <3>1. \A reason : f \in check_broker_posture(D, m, reason)
      BY <1>8, <2>1, PostureIs
    <3>2. <<<<"broker">>, f>> \in Pairs(X)
      BY <1>3, <2>1, <3>1, JudgedTells
    <3> QED BY <3>2 DEF Told
  <2>2. CASE file.status # "ok"
    <3>1. <<<<"broker">>, f>> \in Pairs(X)
      BY <1>3, <1>8, <2>2, JudgedTells
    <3> QED BY <3>1 DEF Told
  <2> QED BY <2>1, <2>2
<1>9. ASSUME file.status = "ok", \A reason : f \in check_broker_posture(D, m, reason)
      PROVE  Told(X, <<"broker">>, f)
  <2>1. <<<<"broker">>, f>> \in Pairs(X)
    BY <1>3, <1>9, JudgedTells
  <2> QED BY <2>1 DEF Told
<1>10. /\ \A s : Finding("BROKER_ABSENT", s.id).id = "BROKER_ABSENT" /\ Finding("BROKER_ABSENT", s.id).at = s.id
       /\ Finding("BROKER_EVIDENCE_MISSING", <<"broker">>).id = "BROKER_EVIDENCE_MISSING"
       /\ Finding("BROKER_EVIDENCE_MISMATCH", <<"broker">>).id = "BROKER_EVIDENCE_MISMATCH"
       /\ Finding("BROKER_MANIFEST_UNVERIFIED", <<"broker">>).id = "BROKER_MANIFEST_UNVERIFIED"
       /\ Finding("BROKER_NO_AUDIT", <<"broker">>).id = "BROKER_NO_AUDIT"
       /\ Finding("BROKER_ALLOWLIST_PERMISSIVE", <<"broker">>).id = "BROKER_ALLOWLIST_PERMISSIVE"
  BY FindingTells
<1> DEFINE Absent(x) == \E s \in DeclaredIn(past[x]) :
                          /\ is_privileged(s.decl) /\ ~routes_through_broker(s.decl)
                          /\ f = Finding("BROKER_ABSENT", s.id)
                          /\ past[x].manifest.status = "ok" => s.id \notin past[x].manifest.m.fronts
<1>11. ASSUME NEW x \in DOMAIN past, f.id = "BROKER_ABSENT" PROVE Absent(x)
  BY <1>7, <1>11, BrokerRule
<1>12. CASE f.id = "BROKER_ABSENT"
  <2>1. Absent(1) /\ Absent(i) /\ Absent(j) /\ Absent(k)
    BY <1>6, <1>11, <1>12, Latest
  <2>2. file.status = "ok" => f.at \notin m.fronts
    BY <1>10, <2>1
  <2>3. f.at[2] \in ConfigFile /\ f.at[2] \in Range(f.at) /\ f = Finding("BROKER_ABSENT", f.at)
    <3>1. PICK s \in DeclaredIn(past[1]) : f = Finding("BROKER_ABSENT", s.id)
      BY <2>1
    <3>2. f.at = s.id
      BY <1>10, <3>1
    <3> QED BY <3>1, <3>2, DeclaredBy
  <2>4. ASSUME NEW x \in DOMAIN past, NEW g, g = f.at[2], ReadAt(g, x, D) PROVE Told(X, <<"broker">>, f)
    <3>1. PICK s \in DeclaredIn(past[x]) : /\ is_privileged(s.decl) /\ ~routes_through_broker(s.decl)
                                           /\ f = Finding("BROKER_ABSENT", s.id)
      BY <1>11, <1>12, <2>4
    <3>2. PICK h \in Legible(past[x]) : h \in ConfigFile /\ s \in Declares(h, past[x]) /\ s.id[2] = h
      BY DeclaredBy
    <3>3. f.at = s.id
      BY <1>10, <3>1
    <3>4. h = g
      BY <2>4, <3>2, <3>3
    <3>5. s \in D \/ config_failure_server(g) \in X
      BY <2>4, <3>2, <3>4, JudgedServer
    <3>6. CASE s \in D
      <4>1. f \in Absences(D, IF file.status = "ok" THEN m.fronts ELSE {})
        BY <2>2, <3>1, <3>3, <3>6, AbsencesIs
      <4> QED BY <1>8, <4>1
    <3>7. CASE config_failure_server(g) \in X
      BY <2>3, <2>4, <3>7, ToldUnseen
    <3> QED BY <3>5, <3>6, <3>7
  <2> QED BY <1>5, <1>6, <2>3, <2>4 DEF ConfigFile
<1>13. CASE f.id \in Joined
  <2>1. <<<<"broker">>, f>> \in Pairs(OfBroker(w))
    BY <1>13
  <2>2. w.user = past[i].user /\ w.project = past[j].project /\ w.manifest = file /\ w.chain = past[l].chain
    BY <1>6, GlimpseIs
  <2>3. \/ /\ file.status = "ok" /\ f = Finding("BROKER_EVIDENCE_MISMATCH", <<"broker">>)
           /\ \E e \in Checkable(m) : ChainReason(past[l].chain, e) # "none"
        \/ /\ file.status = "ok" /\ ~m.signed /\ f = Finding("BROKER_MANIFEST_UNVERIFIED", <<"broker">>)
           /\ \E s \in DeclaredIn(w) : is_privileged(s.decl) /\ s.id \in m.fronts
    <3> HIDE DEF w
    <3> QED BY <1>13, <2>1, <2>2, BrokerRule DEF Joined
  <2>4. CASE /\ file.status = "ok" /\ f = Finding("BROKER_EVIDENCE_MISMATCH", <<"broker">>)
             /\ \E e \in Checkable(m) : ChainReason(past[l].chain, e) # "none"
    <3>1. PICK e \in Checkable(m) : ChainReason(past[l].chain, e) # "none"
      BY <2>4
    <3>2. \A d \in Checkable(m) : d = e
      <4>1. Fits(past[k]) /\ "manifest" \in DOMAIN past[k]
        BY <1>6, Latest DEF Part
      <4>2. \A d, c \in m.evidence : d = c
        BY <2>4, <4>1 DEF Fits
      <4> QED BY <4>2 DEF Checkable
    <3>3. \A reason : reason # "none" => f \in check_broker_posture(D, m, reason)
      BY <2>4, PostureIs
    <3>4. \A d \in Checkable(m) : f \in check_broker_posture(D, m, ChainReason(past[l].chain, d))
      BY <3>1, <3>2, <3>3
    <3>5. Checkable(m) # {}
      BY <3>1
    <3>6. <<<<"broker">>, f>> \in Pairs(X)
      BY <1>3, <2>4, <3>4, <3>5, JudgedTells
    <3> QED BY <3>6 DEF Told
  <2>5. CASE /\ file.status = "ok" /\ ~m.signed /\ f = Finding("BROKER_MANIFEST_UNVERIFIED", <<"broker">>)
             /\ \E s \in DeclaredIn(w) : is_privileged(s.decl) /\ s.id \in m.fronts
    <3>1. PICK s \in DeclaredIn(w) : is_privileged(s.decl) /\ s.id \in m.fronts
      BY <2>5
    <3>2. PICK g \in Legible(w) : g \in ConfigFile /\ s \in Declares(g, w)
      BY DeclaredBy
    <3>3. s \in D \/ config_failure_server(g) \in X
      <4>1. CASE g = "user"
        BY <1>5, <2>2, <3>2, <4>1, JudgedServer
      <4>2. CASE g = "project"
        BY <1>5, <2>2, <3>2, <4>2, JudgedServer
      <4> QED BY <3>2, <4>1, <4>2 DEF ConfigFile
    <3>4. CASE s \in D
      <4>1. \A reason : f \in check_broker_posture(D, m, reason)
        BY <2>5, <3>1, <3>4, PostureIs DEF Privileged
      <4> QED BY <1>9, <2>5, <4>1
    <3>5. CASE config_failure_server(g) \in X
      <4>1. f.id = "BROKER_MANIFEST_UNVERIFIED"
        BY <1>10, <2>5
      <4> QED BY <3>5, <4>1, ToldUnseen
    <3> QED BY <3>3, <3>4, <3>5
  <2> QED BY <2>3, <2>4, <2>5
<1>14. CASE f.id # "BROKER_ABSENT" /\ f.id \notin Joined
  <2>1. <<<<"broker">>, f>> \in Pairs(OfBroker(past[k]))
    BY <1>6, <1>7
  <2>2. file.status = "ok" /\
        \/ claims_governance(m) /\ m.evidence = {} /\ f = Finding("BROKER_EVIDENCE_MISSING", <<"broker">>)
        \/ ~m.audited /\ f = Finding("BROKER_NO_AUDIT", <<"broker">>)
        \/ ~m.least_privilege /\ f = Finding("BROKER_ALLOWLIST_PERMISSIVE", <<"broker">>)
    BY <1>14, <2>1, BrokerRule DEF Joined
  <2>3. \A reason : f \in check_broker_posture(D, m, reason)
    BY <2>2, PostureIs
  <2> QED BY <1>9, <2>2, <2>3
<1> QED BY <1>12, <1>13, <1>14

\* Risks of the sockets, enumerated last.
LEMMA SocketsTold ==
  ASSUME IInv, NEW X, OfSockets(world) \subseteq X, NEW id, NEW f,
         \A i \in DOMAIN past : <<id, f>> \in Pairs(OfSockets(past[i]))
  PROVE  Told(X, id, f)
<1>1. Len(past) \in DOMAIN past /\ past[Len(past)] = world
  BY Latest
<1>2. <<id, f>> \in Pairs(OfSockets(world))
  BY <1>1
<1> QED BY <1>2, ToldBy

\* All of them.
LEMMA StandingTold ==
  ASSUME IInv, Watching, NEW n, At("sockets", n), NEW X, servers \subseteq X, OfSockets(world) \subseteq X,
         NEW id, NEW f, <<id, f>> \in Standing
  PROVE  Told(X, id, f)
<1>1. Held(id, f)
  BY DEF Held, Standing, Risks
<1>2. ASSUME id = <<"broker">>, f.id \in Joined,
             NEW l \in DOMAIN past, NEW k \in 1..l, NEW j \in 1..k, NEW i \in 1..j
      PROVE  <<<<"broker">>, f>> \in Pairs(OfBroker(Glimpse(i, j, k, l)))
  <2>1. <<id, f>> \in Pairs(Instant(scene.inspect, now, Glimpse(i, j, k, l)))
    BY <1>2 DEF Standing, Risks
  <2>2. /\ \A g, d : id # <<"declared", g, d>> /\ id # <<"permissions", g>>
        /\ id # <<"dotenv">> /\ id # <<"store">> /\ id # <<"telemetry">>
        /\ \A p : id # <<"process", p>> /\ id # <<"socket", p>>
    <3>1. id[1] = "broker"
      BY <1>2
    <3> QED BY <3>1, IdIs
  <2> DEFINE w == Glimpse(i, j, k, l)
  <2> HIDE DEF w
  <2>3. <<id, f>> \in Pairs(OfBroker(w))
    BY <2>1, <2>2, InstantIs DEF w
  <2> QED BY <1>2, <2>3 DEF w
<1>3. \/ \E g \in ConfigFile :
           /\ (\E d : id = <<"declared", g, d>>) \/ id = <<"permissions", g>>
           /\ \A i \in DOMAIN past : g \in Legible(past[i]) /\ <<id, f>> \in Pairs(audit_config(g, past[i][g]))
      \/ id = <<"dotenv">> /\ \A i \in DOMAIN past : <<id, f>> \in Pairs(OfDotenv(past[i]))
      \/ (\E l : id = <<"socket", l>>) /\ \A i \in DOMAIN past : <<id, f>> \in Pairs(OfSockets(past[i]))
      \/ /\ id = <<"store">> /\ "token_stores" \in scene.inspect
         /\ \A i \in DOMAIN past : <<id, f>> \in Pairs(OfStore(now, past[i]))
      \/ /\ \E p : id = <<"process", p>>
         /\ "process_env" \in scene.inspect
         /\ \A i \in DOMAIN past : <<id, f>> \in Pairs(audit_process_envs(past[i].procs.env, past[i].procs.denied))
      \/ /\ id = <<"telemetry">> /\ "telemetry" \in scene.inspect
         /\ \A i \in DOMAIN past : <<id, f>> \in Pairs(OfLog(now, past[i]))
      \/ /\ id = <<"broker">> /\ "broker" \in scene.inspect
         /\ \A i \in DOMAIN past : <<id, f>> \in Pairs(OfBroker(past[i]))
  BY <1>1, HeldIs
<1>4. CASE \E g \in ConfigFile :
             /\ (\E d : id = <<"declared", g, d>>) \/ id = <<"permissions", g>>
             /\ \A i \in DOMAIN past : g \in Legible(past[i]) /\ <<id, f>> \in Pairs(audit_config(g, past[i][g]))
  BY <1>4, ConfigTold
<1>5. CASE id = <<"dotenv">> /\ \A i \in DOMAIN past : <<id, f>> \in Pairs(OfDotenv(past[i]))
  BY <1>5, DotenvTold
<1>6. CASE (\E l : id = <<"socket", l>>) /\ \A i \in DOMAIN past : <<id, f>> \in Pairs(OfSockets(past[i]))
  BY <1>6, SocketsTold
<1>7. CASE /\ id = <<"store">> /\ "token_stores" \in scene.inspect
           /\ \A i \in DOMAIN past : <<id, f>> \in Pairs(OfStore(now, past[i]))
  BY <1>7, StoreTold
<1>8. CASE /\ \E p : id = <<"process", p>>
           /\ "process_env" \in scene.inspect
           /\ \A i \in DOMAIN past : <<id, f>> \in Pairs(audit_process_envs(past[i].procs.env, past[i].procs.denied))
  BY <1>8, ProcessesTold
<1>9. CASE /\ id = <<"telemetry">> /\ "telemetry" \in scene.inspect
           /\ \A i \in DOMAIN past : <<id, f>> \in Pairs(OfLog(now, past[i]))
  BY <1>9, LogTold
<1>10. CASE /\ id = <<"broker">> /\ "broker" \in scene.inspect
            /\ \A i \in DOMAIN past : <<id, f>> \in Pairs(OfBroker(past[i]))
  BY <1>2, <1>10, BrokerTold
<1> QED BY <1>3, <1>4, <1>5, <1>6, <1>7, <1>8, <1>9, <1>10

-----------------------------------------------------------------------------
(* The report.                                                              *)

\* What there is when the report is assembled, and what reuse adds to each server.
Shown == servers \union OfSockets(world)
Reuse(s) == {Secretly("CRED_REUSE", g.at, g.secret) : g \in {h \in s.findings : h.secret \in Reused(Shown)}}

\* The report is what was shown, with what reuse adds.
LEMMA AssembleIs ==
  ASSUME IInv, Watching, Assemble
  PROVE  /\ At("sockets", 1) /\ UNCHANGED machine
         /\ InOrder(todo', 1, 13) /\ Len(todo') = 5
         /\ Tidy(Shown) /\ IsFiniteSet(servers')
         /\ \A t \in servers' : \E s \in Shown : /\ t.id = s.id /\ t.incomplete = s.incomplete
                                                 /\ t.findings = s.findings \union Reuse(s)
         /\ \A s \in Shown : \E t \in servers' : /\ t.id = s.id /\ t.incomplete = s.incomplete
                                                 /\ t.findings = s.findings \union Reuse(s)
         /\ \A s, t \in servers' : s.id = t.id => s = t
<1>1. /\ At("sockets", 1) /\ UNCHANGED machine
      /\ servers' = assemble_report(Shown) /\ todo' = Tail(todo)
  BY DEF Assemble, Done, OfSockets, Shown
<1>2. Len(todo) = 6 /\ Len(todo') = 5
  <2>1. "sockets" \in DOMAIN Place /\ Place["sockets"] = 6
    BY DEF Place
  <2>2. Len(todo) = 6 /\ Len(Tail(todo)) = Len(todo) - 1
    BY <1>1, <2>1, AtIs DEF IInv
  <2> QED BY <1>1, <2>2
<1>3. InOrder(todo, 1, 13) /\ Tidy(servers) /\ Watched /\ todo # <<>> /\ Head(todo) = "sockets"
  BY <1>1, <1>2 DEF Watching, At
<1>4. InOrder(todo', 1, 13) /\ "sockets" \in Range(todo)
  BY <1>1, <1>3, Leaving
<1>5. Fits(world) /\ "sockets" \in DOMAIN world
  BY Latest DEF Part
<1>6. Tidy(Shown)
  <2>1. Tidy(OfSockets(world)) /\ \A t \in OfSockets(world) : Of(t.id) = "sockets"
    BY <1>5, SocketsTidy DEF Fits
  <2>2. \A s \in servers : Of(s.id) \notin Range(todo)
    BY <1>3 DEF Watched
  <2>3. \A s \in servers : \A t \in OfSockets(world) : s.id # t.id
    BY <1>4, <2>1, <2>2
  <2> QED BY <1>3, <2>1, <2>3, TidyUnion DEF Shown
<1>7. \A s \in Shown : DOMAIN s = {"id", "incomplete", "findings"}
  <2>1. Proper(OfSockets(world))
    <3>1. \A s \in world.sockets.open :
            Proper(Surfaced(<<"socket", s>>, world.sockets.partial, check_socket_exposure(s, Loopback)))
      BY <1>5, SurfaceProper DEF Fits
    <3> QED BY <3>1 DEF Proper, OfSockets
  <2> QED BY <2>1 DEF Proper, IInv, Reported, Shown
<1> DEFINE Fuller(s) == [s EXCEPT !.findings = s.findings \union Reuse(s)]
<1>8. servers' = {Fuller(s) : s \in Shown}
  BY <1>1 DEF assemble_report, Reuse
<1>9. ASSUME NEW s \in Shown
      PROVE  /\ Fuller(s).id = s.id /\ Fuller(s).incomplete = s.incomplete
             /\ Fuller(s).findings = s.findings \union Reuse(s)
  <2>1. DOMAIN s = {"id", "incomplete", "findings"}
    BY <1>7
  <2> QED BY <2>1
<1>10. IsFiniteSet(servers')
  <2> DEFINE h == [s \in Shown |-> Fuller(s)]
  <2>1. h \in Surjection(Shown, servers')
    <3> HIDE DEF Fuller
    <3> QED BY <1>8 DEF Surjection
  <2> HIDE DEF h
  <2> QED BY <1>6, <2>1, FS_Surjection DEF Tidy
<1> HIDE DEF Fuller
<1>11. \A t \in servers' : \E s \in Shown : /\ t.id = s.id /\ t.incomplete = s.incomplete
                                            /\ t.findings = s.findings \union Reuse(s)
  BY <1>8, <1>9
<1>12. \A s \in Shown : \E t \in servers' : /\ t.id = s.id /\ t.incomplete = s.incomplete
                                            /\ t.findings = s.findings \union Reuse(s)
  BY <1>8, <1>9
<1>13. \A s, t \in servers' : s.id = t.id => s = t
  <2>1. \A a, b \in Shown : a.id = b.id => a = b
    BY <1>6 DEF Tidy
  <2> QED BY <1>8, <1>9, <2>1
<1> QED BY <1>1, <1>2, <1>4, <1>6, <1>10, <1>11, <1>12, <1>13

\* The worst of some grades is no better than any of them.
LEMMA WorstIs ==
  ASSUME NEW G \in SUBSET Grade, NEW h \in G
  PROVE  GradeRank[worst_grade(G)] >= GradeRank[h] /\ worst_grade(G) \in Grade
<1> DEFINE T == {4 - GradeRank[g] : g \in G}
<1>1. \A g \in Grade : GradeRank[g] \in 0..4
  BY DEF Grade, GradeRank
<1> HIDE DEF GradeRank
<1>2. T \in SUBSET Nat /\ T # {}
  BY <1>1
<1>3. \E x \in T : \A y \in T : x <= y
  <2> HIDE DEF T
  <2> QED BY <1>2, LeastMember
<1>4. \E g \in G : \A k \in G : 4 - GradeRank[g] <= 4 - GradeRank[k]
  BY <1>3
<1>5. \E g \in G : \A k \in G : GradeRank[k] <= GradeRank[g]
  BY <1>1, <1>4
<1>6. worst_grade(G) \in G /\ \A k \in G : GradeRank[k] <= GradeRank[worst_grade(G)]
  BY <1>5 DEF worst_grade
<1> QED BY <1>1, <1>6

\* Two members are more than one.
LEMMA MoreThanOne ==
  ASSUME NEW S, IsFiniteSet(S), NEW a \in S, NEW b \in S, a # b
  PROVE  Cardinality(S) > 1
<1> DEFINE A == {a}
<1>1. IsFiniteSet(A) /\ Cardinality(A) = 1 /\ b \notin A /\ A \union {b} \subseteq S
  BY FS_Singleton
<1> HIDE DEF A
<1>2. IsFiniteSet(A \union {b}) /\ Cardinality(A \union {b}) = Cardinality(A) + 1
  BY <1>1, FS_AddElement
<1>3. Cardinality(A \union {b}) <= Cardinality(S) /\ Cardinality(S) \in Nat
  BY <1>1, FS_Subset, FS_CardinalityType
<1> QED BY <1>1, <1>2, <1>3

\* A credential of two servers shown is reused.
LEMMA ReusedIs ==
  ASSUME IsFiniteSet(Shown), NEW k, k # NoSecret,
         NEW s \in Shown, NEW g \in s.findings, g.secret = k,
         NEW t \in Shown, NEW h \in t.findings, h.secret = k, s.id # t.id
  PROVE  k \in Reused(Shown)
<1> DEFINE H == {u \in Shown : \E f \in u.findings : f.secret = k}
           S == {u.id : u \in H}
           i == [u \in H |-> u.id]
<1>1. IsFiniteSet(H)
  BY FS_Subset
<1>2. i \in Surjection(H, S)
  BY DEF Surjection
<1>3. s.id \in S /\ t.id \in S
  OBVIOUS
<1>4. IsFiniteSet(S)
  <2> HIDE DEF H, S, i
  <2> QED BY <1>1, <1>2, FS_Surjection
<1>5. Cardinality(S) > 1
  <2> HIDE DEF S
  <2> QED BY <1>3, <1>4, MoreThanOne
<1>6. k \in {f.secret : f \in UNION {u.findings : u \in Shown}} \ {NoSecret}
  OBVIOUS
<1> QED BY <1>5, <1>6 DEF Reused

\* The findings a report adds are finite.
LEMMA ReuseFinite ==
  ASSUME NEW s, IsFiniteSet(s.findings)
  PROVE  IsFiniteSet(s.findings \union Reuse(s))
<1> DEFINE H == {h \in s.findings : h.secret \in Reused(Shown)}
           i == [g \in H |-> Secretly("CRED_REUSE", g.at, g.secret)]
<1>1. IsFiniteSet(H)
  BY FS_Subset
<1>2. i \in Surjection(H, Reuse(s))
  BY DEF Surjection, Reuse
<1>3. IsFiniteSet(Reuse(s))
  <2> HIDE DEF H, i
  <2> QED BY <1>1, <1>2, FS_Surjection
<1> QED BY <1>3, UnionFinite

\* The report tells what stood, is graded by the worst server, and tells reuse.
LEMMA AssembleWatching ==
  ASSUME IInv, Watching, Assemble
  PROVE  Watching'
<1>1. /\ At("sockets", 1) /\ UNCHANGED machine
      /\ InOrder(todo', 1, 13) /\ Len(todo') = 5
      /\ Tidy(Shown) /\ IsFiniteSet(servers')
      /\ \A t \in servers' : \E s \in Shown : /\ t.id = s.id /\ t.incomplete = s.incomplete
                                              /\ t.findings = s.findings \union Reuse(s)
      /\ \A s \in Shown : \E t \in servers' : /\ t.id = s.id /\ t.incomplete = s.incomplete
                                              /\ t.findings = s.findings \union Reuse(s)
      /\ \A s, t \in servers' : s.id = t.id => s = t
  BY AssembleIs
<1>2. Tidy(servers')
  <2>1. ASSUME NEW t \in servers' PROVE IsFiniteSet(t.findings)
    <3>1. PICK s \in Shown : t.findings = s.findings \union Reuse(s)
      BY <1>1, <2>1
    <3>2. IsFiniteSet(s.findings)
      BY <1>1 DEF Tidy
    <3> QED BY <3>1, <3>2, ReuseFinite
  <2> QED BY <1>1, <2>1 DEF Tidy
<1>3. StandingSeen'
  <2>1. Extends /\ Standing' \subseteq Standing
    BY <1>1, StillExtends, StandingShrinks
  <2>2. ASSUME NEW r \in Standing' PROVE r \in Pairs(servers') \/ Unseen(r)'
    <3>1. r \in Standing /\ r \in Pairs(Instant(scene.inspect, now, past[1]))
      BY <2>1, <2>2 DEF Standing, Risks
    <3>2. PICK u \in Instant(scene.inspect, now, past[1]) : r \in {<<u.id, f>> : f \in u.findings}
      BY <3>1 DEF Pairs
    <3>3. PICK f \in u.findings : r = <<u.id, f>>
      BY <3>2
    <3>4. Told(Shown, u.id, f)
      BY <1>1, <3>1, <3>3, StandingTold DEF Shown
    <3>5. CASE <<u.id, f>> \in Pairs(Shown)
      <4>1. PICK s \in Shown : s.id = u.id /\ f \in s.findings
        BY <3>5, PairsIs
      <4>2. PICK t \in servers' : t.id = s.id /\ t.findings = s.findings \union Reuse(s)
        BY <1>1
      <4>3. t.id = u.id /\ f \in t.findings
        BY <4>1, <4>2
      <4> QED BY <3>3, <4>3, PairsIs
    <3>6. CASE \E s \in Shown :
                 /\ s.id[1] = "config" /\ s.incomplete
                 /\ s.id[2] \in Range(u.id) \union Range(f.at) \/ f.id = "BROKER_MANIFEST_UNVERIFIED"
      <4>1. PICK s \in Shown :
              /\ s.id[1] = "config" /\ s.incomplete
              /\ s.id[2] \in Range(u.id) \union Range(f.at) \/ f.id = "BROKER_MANIFEST_UNVERIFIED"
        BY <3>6
      <4>2. PICK t \in servers' : t.id = s.id /\ t.incomplete = s.incomplete
        BY <1>1
      <4>3. r[1] = u.id /\ r[2] = f
        BY <3>3
      <4> QED BY <4>1, <4>2, <4>3 DEF Unseen
    <3> QED BY <3>3, <3>4, <3>5, <3>6 DEF Told
  <2> QED BY <2>2 DEF StandingSeen
<1>4. GradeWorst'
  <2> DEFINE G == {grade_server(s.findings, s.incomplete) : s \in servers'}
  <2>1. grade' = worst_grade(G)
    BY DEF Assemble
  <2>2. G \in SUBSET Grade
    BY GradeType
  <2>3. ASSUME NEW s \in servers'
        PROVE  GradeRank[grade'] >= GradeRank[grade_server(s.findings, s.incomplete)]
    <3>1. grade_server(s.findings, s.incomplete) \in G
      OBVIOUS
    <3> HIDE DEF G
    <3> QED BY <2>1, <2>2, <3>1, WorstIs
  <2> QED BY <2>3 DEF GradeWorst
<1>5. ReuseTold'
  <2> SUFFICES ASSUME NEW q \in Pairs(servers'), NEW r \in Pairs(servers'),
                      q[1] # r[1], q[2].secret = r[2].secret, q[2].secret # NoSecret
               PROVE  \E p \in Pairs(servers') : /\ p[1] = q[1] /\ p[2].id = "CRED_REUSE"
                                                 /\ p[2].secret = q[2].secret
    BY DEF ReuseTold
  <2> DEFINE k == q[2].secret
  <2>1. ASSUME NEW x \in Pairs(servers'), x[2].secret = k
        PROVE  \E s \in Shown : \E g \in s.findings : s.id = x[1] /\ g.secret = k
    <3>1. PICK t \in servers' : x \in {<<t.id, f>> : f \in t.findings}
      BY DEF Pairs
    <3>2. PICK f \in t.findings : x = <<t.id, f>>
      BY <3>1
    <3>3. PICK s \in Shown : t.id = s.id /\ t.findings = s.findings \union Reuse(s)
      BY <1>1
    <3>4. x[1] = s.id /\ x[2] = f
      BY <3>2, <3>3
    <3>5. CASE f \in s.findings
      BY <2>1, <3>4, <3>5
    <3>6. CASE f \in Reuse(s)
      <4>1. PICK g \in s.findings : f = Secretly("CRED_REUSE", g.at, g.secret)
        BY <3>6 DEF Reuse
      <4>2. g.secret = k
        BY <2>1, <3>4, <4>1, FindingIs
      <4> QED BY <3>4, <4>2
    <3> QED BY <3>2, <3>3, <3>5, <3>6
  <2>2. PICK s \in Shown : \E g \in s.findings : s.id = q[1] /\ g.secret = k
    BY <2>1
  <2>3. PICK t \in Shown : \E g \in t.findings : t.id = r[1] /\ g.secret = k
    BY <2>1
  <2>4. PICK g \in s.findings : s.id = q[1] /\ g.secret = k
    BY <2>2
  <2>5. k \in Reused(Shown)
    <3> HIDE DEF k
    <3>1. k # NoSecret
      BY DEF k
    <3> QED BY <1>1, <2>3, <2>4, <3>1, ReusedIs DEF Tidy
  <2>6. PICK u \in servers' : u.id = s.id /\ u.findings = s.findings \union Reuse(s)
    BY <1>1
  <2> DEFINE f == Secretly("CRED_REUSE", g.at, g.secret)
  <2>7. f \in u.findings /\ f.id = "CRED_REUSE" /\ f.secret = k
    BY <2>4, <2>5, <2>6, FindingIs DEF Reuse
  <2> HIDE DEF f, k
  <2>8. <<u.id, f>> \in Pairs(servers')
    BY <2>7, PairsIs
  <2>9. <<u.id, f>>[1] = q[1] /\ <<u.id, f>>[2] = f
    BY <2>4, <2>6
  <2> QED BY <2>7, <2>8, <2>9 DEF k
<1>6. ~(Len(todo') > 5)
  BY <1>1
<1> QED BY <1>1, <1>2, <1>3, <1>4, <1>5, <1>6 DEF Watching

\* Every step keeps watch.
LEMMA KeepsWatching ==
  ASSUME IInv, Known, Watching, [Next]_vars
  PROVE  Watching'
<1>1. ASSUME NEW e PROVE Become([x \in DOMAIN world |-> IF x \in DOMAIN e THEN e[x] ELSE world[x]]) => Watching'
  BY EditWatching
<1>2. CASE Change
  BY <1>1, <1>2 DEF Change
<1>3. CASE BrokerAppends
  BY <1>3, EditWatching DEF BrokerAppends
<1>4. CASE BrokerRefreshes
  BY <1>4, EditWatching DEF BrokerRefreshes
<1>5. CASE Ended \/ UNCHANGED vars
  BY <1>5, EditWatching DEF Ended
<1>6. ASSUME NEW f \in ConfigFile, ReadConfig(f) PROVE Watching'
  BY <1>6, ReadConfigWatching
<1>7. ASSUME NEW f \in ConfigFile \union {"dotenv"}, LookAgain(f) PROVE Watching'
  BY <1>7, LookAgainWatching
<1>8. CASE ReadDotenv \/ DotenvMode \/ DotenvTracked
  BY <1>8, DotenvWatching
<1>9. CASE FindStore \/ StoreMode \/ ReadStore
  BY <1>9, StoreWatching
<1>10. CASE ReadProcesses
  BY <1>10, ProcessesWatching
<1>11. CASE FindLog \/ LogFacts
  BY <1>11, LogWatching
<1>12. CASE FindManifest \/ ReadManifest \/ ReadChain
  BY <1>12, ManifestWatching
<1>13. CASE Assemble
  BY <1>13, AssembleWatching
<1>14. CASE ReadLedger \/ ApplyLedger \/ WriteReports \/ Gate \/ EmitAlerts
  BY <1>14, StageWatching
<1>15. CASE LookRaises
  BY <1>15, LookRaisesWatching
<1> QED BY <1>2, <1>3, <1>4, <1>5, <1>6, <1>7, <1>8, <1>9, <1>10, <1>11, <1>12, <1>13, <1>14, <1>15
        DEF Next, Step, Edit

\* What is watched makes the report complete.
LEMMA ToldIsComplete ==
  ASSUME IInv, Watching
  PROVE  StandingRiskReported
<1> SUFFICES ASSUME Assembled PROVE StandingRiskReported
  BY DEF StandingRiskReported
<1>1. StandingSeen /\ GradeWorst /\ ReuseTold /\ Tidy(servers)
  BY DEF IInv, Staged, Assembled, Watching
<1>2. ASSUME NEW s \in servers, NEW F \in SUBSET s.findings
      PROVE  /\ GradeRank[grade_server(F, FALSE)] <= GradeRank[grade]
             /\ s.incomplete => GradeRank["C"] <= GradeRank[grade]
  <2>1. IsFiniteSet(s.findings) /\ s.incomplete \in BOOLEAN /\ \A f \in s.findings : f.severity \in Severity
    <3>1. \A rule \in DOMAIN Rule : Rule[rule].severity \in Severity
      BY Rules DEF Tabled
    <3> QED BY <1>1, <3>1 DEF Tidy, IInv, Reported, Proper, Graded
  <2> DEFINE g == grade_server(s.findings, s.incomplete)
  <2>2. /\ GradeRank[grade_server(F, FALSE)] <= GradeRank[g]
        /\ s.incomplete => GradeRank["C"] <= GradeRank[g]
    BY <2>1, GradeFalls
  <2>3. GradeRank[grade] >= GradeRank[g]
    BY <1>1 DEF GradeWorst
  <2>4. /\ GradeRank[g] \in Int /\ GradeRank[grade_server(F, FALSE)] \in Int
        /\ GradeRank["C"] \in Int /\ GradeRank[grade] \in Int
    <3>1. \A x \in Grade : GradeRank[x] \in Int
      BY DEF Grade, GradeRank
    <3>2. g \in Grade /\ grade_server(F, FALSE) \in Grade /\ "C" \in Grade
      BY GradeType DEF Grade
    <3>3. grade \in Grade
      BY DEF IInv, Staged, Assembled
    <3> QED BY <3>1, <3>2, <3>3
  <2> HIDE DEF g
  <2> DEFINE a == GradeRank[grade_server(F, FALSE)]
             b == GradeRank[g]
             c == GradeRank["C"]
             d == GradeRank[grade]
  <2> HIDE DEF a, b, c, d
  <2>5. a <= b /\ (s.incomplete => c <= b) /\ d >= b /\ a \in Int /\ b \in Int /\ c \in Int /\ d \in Int
    BY <2>2, <2>3, <2>4 DEF a, b, c, d
  <2>6. a <= d /\ (s.incomplete => c <= d)
    BY <2>5
  <2> QED BY <2>6 DEF a, c, d
<1>3. ASSUME NEW r \in Standing
      PROVE  /\ r \in Pairs(servers) \/ Unseen(r)
             /\ GradeRank[grade] >=
                  GradeRank[IF r \in Pairs(servers)
                            THEN grade_server({q[2] : q \in {x \in Standing : x[1] = r[1] /\ x \in Pairs(servers)}},
                                              FALSE)
                            ELSE "C"]
  <2> DEFINE F == {q[2] : q \in {x \in Standing : x[1] = r[1] /\ x \in Pairs(servers)}}
  <2>1. r \in Pairs(servers) \/ Unseen(r)
    BY <1>1 DEF StandingSeen
  <2>2. \A x \in Grade : GradeRank[x] \in Int
    BY DEF Grade, GradeRank
  <2>3. grade \in Grade /\ grade_server(F, FALSE) \in Grade /\ "C" \in Grade
    BY GradeType DEF IInv, Staged, Assembled, Grade
  <2>4. CASE r \in Pairs(servers)
    <3>1. PICK s \in servers : r \in {<<s.id, f>> : f \in s.findings}
      BY <2>4 DEF Pairs
    <3>2. r[1] = s.id
      BY <3>1
    <3>3. ASSUME NEW x \in Pairs(servers), x[1] = r[1] PROVE x[2] \in s.findings
      <4>1. PICK t \in servers : x \in {<<t.id, f>> : f \in t.findings}
        BY DEF Pairs
      <4>2. PICK f \in t.findings : x = <<t.id, f>>
        BY <4>1
      <4>3. t.id = s.id
        BY <3>2, <3>3, <4>2
      <4>4. t = s
        BY <1>1, <4>3 DEF Tidy
      <4> QED BY <4>2, <4>4
    <3>4. F \in SUBSET s.findings
      BY <3>3
    <3> HIDE DEF F
    <3>5. GradeRank[grade_server(F, FALSE)] <= GradeRank[grade]
      BY <1>2, <3>4
    <3>6. GradeRank[grade] >= GradeRank[grade_server(F, FALSE)]
      BY <2>2, <2>3, <3>5
    <3> QED BY <2>1, <2>4, <3>6 DEF F
  <2>5. CASE r \notin Pairs(servers)
    <3>1. PICK s \in servers : s.incomplete
      BY <2>1, <2>5 DEF Unseen
    <3>2. GradeRank["C"] <= GradeRank[grade]
      BY <1>2, <3>1
    <3>3. GradeRank[grade] >= GradeRank["C"]
      BY <2>2, <2>3, <3>2
    <3> QED BY <2>1, <2>5, <3>3
  <2> QED BY <2>4, <2>5
<1>4. ASSUME NEW q \in Standing, NEW r \in Standing,
             q[1] # r[1], q[2].secret = r[2].secret, q[2].secret # NoSecret, {q, r} \subseteq Pairs(servers)
      PROVE  \E p \in Pairs(servers) : p[1] = q[1] /\ p[2].id = "CRED_REUSE" /\ p[2].secret = q[2].secret
  BY <1>1, <1>4 DEF ReuseTold
<1> QED BY <1>3, <1>4 DEF StandingRiskReported

\* A risk that stood from the first look to the report is in it, or the report says what
\* it did not see; the grade is no better than those risks deserve, and reuse is told of
\* both servers (engine.scan, scoring.py, checks/secrets.py).
THEOREM StandingRisksReported == Spec => []StandingRiskReported
<1>1. IInv /\ Known /\ [Next]_vars => Known'
  BY KeepsKnown
<1>2. IInv /\ Known /\ Watching /\ [Next]_vars => Watching'
  BY KeepsWatching
<1>3. IInv /\ Watching => StandingRiskReported
  BY ToldIsComplete
<1> QED BY <1>1, <1>2, <1>3, Invariance, InitKnown, InitWatching, PTL DEF Spec

-----------------------------------------------------------------------------
(* What a broker's evidence is worth.                                       *)

\* A record of the chain, whole and in its place.
Whole(lines, n) == n \in DOMAIN lines /\ lines[n] = Record(n)

\* The places a chain that starts with these lines has or will have.
Places(lines) == DOMAIN lines \union 1..MaxRecords

\* The evidence names no record of the broker's before it is written.
NotAhead(evidence, start, lines) ==
  \A e \in evidence : e.tip \in Places(start) /\ e.hash = e.tip => Whole(lines, e.tip)

\* The broker's chain is its own: it numbers its records, nobody else writes them, and
\* no manifest put in place names a record that has not been written.
OwnChain(s) ==
  LET start == s.world.chain.lines
  IN  /\ \A n \in DOMAIN start : start[n] \in {Record(n), Torn, NoObject}
      /\ s.world.manifest.status = "ok" => NotAhead(s.world.manifest.m.evidence, start, start)
      /\ \A e \in s.may :
           /\ "chain" \notin DOMAIN e
           /\ "manifest" \in DOMAIN e /\ e.manifest.status = "ok" =>
                NotAhead(e.manifest.m.evidence, start, start)

\* An instant with such a chain.
Genuine(start, w) ==
  /\ DOMAIN w.chain.lines \subseteq Places(start)
  /\ \A n \in DOMAIN w.chain.lines : w.chain.lines[n] \in {Record(n), Torn, NoObject}
  /\ w.manifest.status = "ok" => NotAhead(w.manifest.m.evidence, start, w.chain.lines)

\* No record is lost from one instant to another.
Grows(v, w) ==
  /\ Len(v.chain.lines) <= Len(w.chain.lines)
  /\ \A n \in DOMAIN v.chain.lines : Whole(v.chain.lines, n) => Whole(w.chain.lines, n)

History ==
  /\ Grows(scene.world, world)
  /\ \A i \in DOMAIN past : Genuine(scene.world.chain.lines, past[i]) /\ Grows(past[i], world)

\* The chain that was read bore the evidence in hand out, when its manifest was there.
Verified ==
  held.manifest.status = "ok" /\ held.reason = "none" =>
    \/ At("manifest", 3)
    \/ \E i \in DOMAIN past : past[i].manifest = held.manifest /\ Bound(past[i])

Verifying == OwnChain(scene) => History /\ Verified

\* What a chain is, at every instant.
LEMMA LinesAre ==
  ASSUME NEW w, DOMAIN w = Part, Fits(w)
  PROVE  /\ "chain" \in DOMAIN w /\ "lines" \in DOMAIN w.chain
         /\ w.chain.lines \in Seq([id : Int, hash : Int]) /\ Len(w.chain.lines) \in Nat
         /\ DOMAIN w.chain.lines = 1..Len(w.chain.lines)
<1>1. "chain" \in DOMAIN w
  BY DEF Part
<1>2. "lines" \in DOMAIN w.chain /\ w.chain.lines \in Seq([id : Int, hash : Int])
  BY <1>1 DEF Fits
<1> DEFINE Line == [id : Int, hash : Int]
<1> HIDE DEF Line
<1>3. w.chain.lines \in Seq(Line)
  BY <1>2 DEF Line
<1>4. Len(w.chain.lines) \in Nat /\ DOMAIN w.chain.lines = 1..Len(w.chain.lines)
  BY <1>3
<1> QED BY <1>1, <1>2, <1>4

\* A record is no line cut short, and no other record.
LEMMA RecordsApart ==
  /\ \A n \in Nat : Record(n) # Torn /\ Record(n) # NoObject /\ Record(n).id = n /\ Record(n).hash = n
  /\ Torn # NoObject
<1>1. \A n \in Nat : Record(n).id = n /\ Record(n).hash = n
  BY DEF Record
<1>2. Torn.id = -1 /\ NoObject.id = -2
  BY DEF Torn, NoObject
<1>3. \A n \in Nat : n # -1 /\ n # -2
  OBVIOUS
<1> QED BY <1>1, <1>2, <1>3

\* The reason is none for the last record only, which the evidence then names.
LEMMA ReasonIs ==
  ASSUME NEW chain, NEW e, ChainReason(chain, e) = "none",
         NEW N \in Nat, Len(chain.lines) = N, DOMAIN chain.lines = 1..N, chain.lines # <<>> => N # 0,
         \A n \in DOMAIN chain.lines : chain.lines[n] \in {Record(n), Torn, NoObject}
  PROVE  N # 0 /\ chain.lines[N] = Record(N) /\ e.tip = N /\ e.hash = N
<1> DEFINE lines == chain.lines
           tip == lines[N]
<1>1. verify_chain_tip(lines, e) = "none" /\ Len(lines) = N
  BY DEF ChainReason
<1>2. lines # <<>> /\ N # 0 /\ N \in DOMAIN lines
  BY <1>1 DEF verify_chain_tip
<1>3. tip \in {Record(N), Torn, NoObject}
  BY <1>2
<1> HIDE DEF lines
<1>4. tip # Torn
  BY <1>1, <1>2 DEF verify_chain_tip
<1>5. tip # NoObject
  BY <1>1, <1>2, <1>4 DEF verify_chain_tip
<1>6. tip.id = e.tip
  BY <1>1, <1>2, <1>4, <1>5 DEF verify_chain_tip
<1>7. tip.hash = e.hash
  BY <1>1, <1>2, <1>4, <1>5, <1>6 DEF verify_chain_tip
<1> QED BY <1>2, <1>3, <1>4, <1>5, <1>6, <1>7, RecordsApart DEF lines

\* No record is lost over two changes, nor over none.
LEMMA GrowsOn ==
  ASSUME NEW u, NEW v, NEW w, Grows(u, v), Grows(v, w),
         Len(u.chain.lines) \in Nat, Len(v.chain.lines) \in Nat, Len(w.chain.lines) \in Nat
  PROVE  Grows(u, w)
BY DEF Grows, Whole

\* The history, as the machine changes.
LEMMA HistoryGrows ==
  ASSUME IInv, IInv', History, NEW w, Become(w),
         Genuine(scene.world.chain.lines, w), Grows(world, w)
  PROVE  History'
<1> DEFINE start == scene.world.chain.lines
<1>1. past' = Append(past, w) /\ world' = w /\ scene' = scene
  BY DEF Become
<1>2. PICK S : past \in Seq(S)
  BY DEF IInv, Timeline
<1>3. /\ DOMAIN past' = 1..(Len(past) + 1) /\ past'[Len(past) + 1] = w
      /\ \A i \in 1..Len(past) : past'[i] = past[i]
  <2>1. past \in Seq(S \cup {w}) /\ w \in S \cup {w}
    BY <1>2
  <2>2. /\ Len(Append(past, w)) = Len(past) + 1 /\ DOMAIN Append(past, w) = 1..(Len(past) + 1)
        /\ Append(past, w)[Len(past) + 1] = w
        /\ \A k \in 1..Len(past) : Append(past, w)[k] = past[k]
    BY <2>1
  <2> QED BY <1>1, <2>2
<1>4. Len(past) \in Nat /\ DOMAIN past = 1..Len(past) /\ Len(past) \in DOMAIN past /\ world = past[Len(past)]
  BY Latest
<1>5. \A v : DOMAIN v = Part /\ Fits(v) => Len(v.chain.lines) \in Nat
  BY LinesAre
<1>6. /\ Len(w.chain.lines) \in Nat /\ Len(world.chain.lines) \in Nat /\ Len(scene.world.chain.lines) \in Nat
      /\ \A i \in DOMAIN past : Len(past[i].chain.lines) \in Nat
  <2>1. DOMAIN w = Part /\ Fits(w)
    <3>1. \A i \in DOMAIN past' : DOMAIN past'[i] = Part /\ Fits(past'[i])
      BY DEF IInv, Timeline
    <3>2. Len(past) + 1 \in DOMAIN past'
      BY <1>3, <1>4
    <3> QED BY <1>3, <3>1, <3>2
  <2>2. \A i \in DOMAIN past : DOMAIN past[i] = Part /\ Fits(past[i])
    BY Latest
  <2>3. DOMAIN scene.world = Part /\ Fits(scene.world)
    BY SceneAssumption DEF IInv, Timeline
  <2> QED BY <1>4, <1>5, <2>1, <2>2, <2>3
<1>7. \A i \in DOMAIN past : Genuine(start, past[i]) /\ Grows(past[i], world)
  BY DEF History
<1>8. \A i \in DOMAIN past : Grows(past[i], w)
  BY <1>6, <1>7, GrowsOn
<1>9. Grows(scene.world, w)
  BY <1>6, GrowsOn DEF History
<1>10. Grows(w, w)
  BY <1>6 DEF Grows
<1>11. ASSUME NEW i \in DOMAIN past'
       PROVE  Genuine(start, past'[i]) /\ Grows(past'[i], w)
  <2>1. i \in DOMAIN past \/ i = Len(past) + 1
    BY <1>3, <1>4
  <2> QED BY <1>3, <1>4, <1>7, <1>8, <1>10, <2>1
<1> QED BY <1>1, <1>9, <1>11 DEF History

\* What is genuine in one machine is so in the next, when the manifest stays or is put
\* in place as it should be.
LEMMA NotAheadStays ==
  ASSUME NEW evidence, NEW start, NEW v, NEW w, Grows(v, w), NotAhead(evidence, start, v.chain.lines)
  PROVE  NotAhead(evidence, start, w.chain.lines)
BY DEF NotAhead, Grows, Whole

\* Somebody else's edit leaves the chain alone.
LEMMA ChangeHistory ==
  ASSUME IInv, OwnChain(scene), History, Change
  PROVE  History'
<1> DEFINE start == scene.world.chain.lines
<1>1. PICK e \in scene.may :
        Become([x \in DOMAIN world |-> IF x \in DOMAIN e THEN e[x] ELSE world[x]])
  BY DEF Change
<1> DEFINE w == [x \in DOMAIN world |-> IF x \in DOMAIN e THEN e[x] ELSE world[x]]
<1>2. IInv'
  BY ChangeStep
<1>3. DOMAIN world = Part /\ "chain" \notin DOMAIN e /\ Genuine(start, world) /\ Grows(scene.world, world)
  BY Latest DEF OwnChain, History
<1>4. w.chain = world.chain /\ w.manifest = IF "manifest" \in DOMAIN e THEN e.manifest ELSE world.manifest
  BY <1>3 DEF Part
<1>5. Become(w)
  BY <1>1
<1> HIDE DEF w
<1>6. Grows(world, w)
  <2>1. Len(world.chain.lines) \in Nat
    BY Latest, LinesAre
  <2> QED BY <1>4, <2>1 DEF Grows
<1>7. w.manifest.status = "ok" => NotAhead(w.manifest.m.evidence, start, w.chain.lines)
  <2>1. CASE "manifest" \in DOMAIN e
    <3>1. e.manifest.status = "ok" => NotAhead(e.manifest.m.evidence, start, start)
      BY <2>1 DEF OwnChain
    <3>2. e.manifest.status = "ok" => NotAhead(e.manifest.m.evidence, start, world.chain.lines)
      BY <1>3, <3>1, NotAheadStays
    <3> QED BY <1>4, <2>1, <3>2
  <2>2. CASE "manifest" \notin DOMAIN e
    BY <1>3, <1>4, <2>2 DEF Genuine
  <2> QED BY <2>1, <2>2
<1>8. Genuine(start, w)
  BY <1>3, <1>4, <1>7 DEF Genuine
<1> QED BY <1>2, <1>5, <1>6, <1>8, HistoryGrows

\* The broker completes its last line, or starts another.
LEMMA AppendsHistory ==
  ASSUME IInv, OwnChain(scene), History, BrokerAppends
  PROVE  History'
<1> DEFINE start == scene.world.chain.lines
           lines == world.chain.lines
           n == Len(lines)
           Line == [id : Int, hash : Int]
<1>1. IInv'
  BY BrokerAppendsStep
<1>2. /\ DOMAIN world = Part /\ "chain" \in DOMAIN world /\ "lines" \in DOMAIN world.chain
      /\ lines \in Seq(Line) /\ n \in Nat /\ DOMAIN lines = 1..n
  BY Latest, LinesAre
<1>3. Genuine(start, world)
  BY Latest DEF History
<1>4. ASSUME NEW c, Become([world EXCEPT !.chain.lines = c]), n <= Len(c),
             DOMAIN c \subseteq Places(start), \A k \in DOMAIN c : c[k] \in {Record(k), Torn, NoObject},
             \A k \in DOMAIN lines : Whole(lines, k) => Whole(c, k)
      PROVE  History'
  <2> DEFINE w == [world EXCEPT !.chain.lines = c]
  <2>1. w.chain.lines = c /\ w.manifest = world.manifest
    BY <1>2 DEF Part
  <2>2. Become(w)
    BY <1>4
  <2> HIDE DEF w
  <2>3. Grows(world, w)
    BY <1>4, <2>1 DEF Grows
  <2>4. Genuine(start, w)
    <3>1. w.manifest.status = "ok" => NotAhead(w.manifest.m.evidence, start, w.chain.lines)
      BY <1>3, <2>1, <2>3, NotAheadStays DEF Genuine
    <3> QED BY <1>4, <2>1, <3>1 DEF Genuine
  <2> QED BY <1>1, <2>2, <2>3, <2>4, HistoryGrows
<1>5. Torn \in Line /\ \A k \in Nat : Record(k) \in Line
  BY DEF Torn, Record
<1>6. /\ DOMAIN lines \subseteq Places(start)
      /\ \A k \in DOMAIN lines : lines[k] \in {Record(k), Torn, NoObject}
  BY <1>3 DEF Genuine
<1>7. CASE n > 0 /\ lines[n] = Torn
  <2> DEFINE c == [lines EXCEPT ![n] = Record(n)]
  <2>1. Become([world EXCEPT !.chain.lines = [lines EXCEPT ![n] = Record(n)]])
    BY <1>7 DEF BrokerAppends
  <2>2. Become([world EXCEPT !.chain.lines = c])
    BY <2>1
  <2>3. DOMAIN c = DOMAIN lines /\ c[n] = Record(n) /\ \A k \in DOMAIN lines : k # n => c[k] = lines[k]
    BY <1>2, <1>7
  <2>4. Len(c) = n
    <3>1. c \in Seq(Line)
      <4> HIDE DEF Line, lines
      <4>1. n \in 1..n /\ Record(n) \in Line
        BY <1>2, <1>5, <1>7
      <4> QED BY <1>2, <4>1, ExceptSeq DEF n
    <3> HIDE DEF Line, c
    <3>2. DOMAIN c = 1..Len(c) /\ Len(c) \in Nat
      BY <3>1
    <3> QED BY <1>2, <2>3, <3>2
  <2> HIDE DEF c
  <2>5. \A k \in DOMAIN c : c[k] \in {Record(k), Torn, NoObject}
    BY <1>6, <2>3
  <2>6. ASSUME NEW k \in DOMAIN lines, Whole(lines, k) PROVE Whole(c, k)
    <3>1. k # n
      BY <1>2, <1>7, <2>6, RecordsApart DEF Whole
    <3> QED BY <2>3, <2>6, <3>1 DEF Whole
  <2>7. n <= Len(c) /\ DOMAIN c \subseteq Places(start)
    BY <1>2, <1>6, <2>3, <2>4
  <2> QED BY <1>4, <2>2, <2>5, <2>6, <2>7
<1>8. CASE ~(n > 0 /\ lines[n] = Torn)
  <2> DEFINE c == Append(lines, Torn)
  <2>1. n < MaxRecords /\ Become([world EXCEPT !.chain.lines = Append(lines, Torn)])
    BY <1>8 DEF BrokerAppends
  <2>2. Become([world EXCEPT !.chain.lines = c])
    BY <2>1
  <2>3. /\ Len(c) = n + 1 /\ DOMAIN c = 1..(n + 1) /\ c[n + 1] = Torn
        /\ \A k \in 1..n : c[k] = lines[k]
    <3> HIDE DEF Line, lines
    <3> QED BY <1>2, <1>5 DEF n
  <2> HIDE DEF c
  <2>4. n + 1 \in Places(start)
    BY <1>2, <2>1, BoundsAssumption DEF Places
  <2>5. ASSUME NEW k \in DOMAIN c
        PROVE  k \in Places(start) /\ c[k] \in {Record(k), Torn, NoObject}
    <3>1. k \in 1..n \/ k = n + 1
      BY <1>2, <2>3
    <3> QED BY <1>2, <1>6, <2>3, <2>4, <3>1
  <2>6. \A k \in DOMAIN lines : Whole(lines, k) => Whole(c, k)
    BY <1>2, <2>3 DEF Whole
  <2>7. n <= Len(c) /\ DOMAIN c \subseteq Places(start)
    BY <1>2, <2>3, <2>5
  <2> QED BY <1>4, <2>2, <2>5, <2>6, <2>7
<1> QED BY <1>7, <1>8

\* The broker names its last record.
LEMMA RefreshesHistory ==
  ASSUME IInv, OwnChain(scene), History, BrokerRefreshes
  PROVE  History'
<1> DEFINE start == scene.world.chain.lines
           lines == world.chain.lines
           n == Len(lines)
           tip == lines[n]
           Renewed(e) == [e EXCEPT !.tip = tip.id, !.hash = tip.hash]
           E == {Renewed(e) : e \in world.manifest.m.evidence}
<1>1. IInv'
  BY BrokerRefreshesStep
<1>2. /\ DOMAIN world = Part /\ Fits(world) /\ lines \in Seq([id : Int, hash : Int])
      /\ n \in Nat /\ DOMAIN lines = 1..n
  BY Latest, LinesAre
<1>3. Genuine(start, world)
  BY Latest DEF History
<1>4. Become([world EXCEPT !.manifest.m.evidence = E]) /\ world.manifest.status = "ok" /\ lines # <<>> /\ tip # Torn
  BY DEF BrokerRefreshes
<1>5. /\ {"status", "m"} \subseteq DOMAIN world.manifest /\ "evidence" \in DOMAIN world.manifest.m
      /\ world.manifest.m.evidence \subseteq [tip : Int, hash : Int, chained : BOOLEAN]
  BY <1>2, <1>4 DEF Fits, Part
<1>6. n \in DOMAIN lines
  <2> DEFINE Line == [id : Int, hash : Int]
  <2>1. lines \in Seq(Line) /\ lines # <<>>
    BY <1>2, <1>4
  <2> HIDE DEF lines, Line
  <2>2. Len(lines) \in Nat \ {0}
    BY <2>1, EmptySeq
  <2> QED BY <1>2, <2>2 DEF n
<1>7. ASSUME NEW d \in E, d.tip \in Places(start), d.hash = d.tip PROVE Whole(lines, d.tip)
  <2>1. PICK e \in world.manifest.m.evidence : d = Renewed(e)
    BY <1>7
  <2>2. d.tip = tip.id /\ d.hash = tip.hash
    <3>1. e \in [tip : Int, hash : Int, chained : BOOLEAN]
      BY <1>5
    <3> HIDE DEF tip
    <3> QED BY <2>1, <3>1
  <2>3. tip \in {Record(n), NoObject}
    BY <1>3, <1>4, <1>6 DEF Genuine
  <2>4. CASE tip = NoObject
    <3>1. NoObject.id = -2 /\ NoObject.hash = 0
      BY DEF NoObject
    <3>2. d.tip = -2 /\ d.hash = 0
      BY <2>2, <2>4, <3>1
    <3> HIDE DEF E
    <3> QED BY <1>7, <3>2
  <2>5. CASE tip = Record(n)
    <3>1. d.tip = n
      BY <1>2, <2>2, <2>5, RecordsApart
    <3> QED BY <1>6, <2>5, <3>1 DEF Whole
  <2> QED BY <2>3, <2>4, <2>5
<1> HIDE DEF E
<1> DEFINE w == [world EXCEPT !.manifest.m.evidence = E]
<1>8. w.chain = world.chain /\ w.manifest.m.evidence = E
  BY <1>2, <1>5 DEF Part
<1>9. Become(w)
  BY <1>4
<1> HIDE DEF w
<1>10. Grows(world, w)
  BY <1>2, <1>8 DEF Grows
<1>11. Genuine(start, w)
  BY <1>3, <1>7, <1>8 DEF Genuine, NotAhead
<1> QED BY <1>1, <1>9, <1>10, <1>11, HistoryGrows

\* A tip that bears the evidence out now was the last record when the manifest was read.
LEMMA CleanIsBound ==
  ASSUME IInv, History, NEW j \in DOMAIN past, past[j].manifest.status = "ok",
         NEW e \in past[j].manifest.m.evidence, ChainReason(world.chain, e) = "none"
  PROVE  Bound(past[j])
<1> DEFINE start == scene.world.chain.lines
           then == past[j].chain.lines
           lines == world.chain.lines
           N == Len(lines)
<1>1. /\ Len(then) \in Nat /\ DOMAIN then = 1..Len(then)
      /\ N \in Nat /\ DOMAIN lines = 1..N
      /\ world = past[Len(past)] /\ Len(past) \in DOMAIN past
  <2>1. /\ DOMAIN world = Part /\ Fits(world) /\ DOMAIN past[j] = Part /\ Fits(past[j])
        /\ world = past[Len(past)] /\ Len(past) \in DOMAIN past
    BY Latest
  <2> QED BY <2>1, LinesAre
<1>2. Genuine(start, past[j]) /\ Genuine(start, world) /\ Grows(past[j], world)
  BY <1>1 DEF History
<1>3. lines # <<>> /\ N # 0
  <2>1. lines # <<>>
    BY DEF ChainReason, verify_chain_tip
  <2>2. PICK S : lines \in Seq(S)
    BY Latest, LinesAre
  <2> HIDE DEF lines
  <2> QED BY <2>1, <2>2, EmptySeq DEF N
<1>4. N # 0 /\ lines[N] = Record(N) /\ e.tip = N /\ e.hash = N
  <2>1. \A n \in DOMAIN world.chain.lines : world.chain.lines[n] \in {Record(n), Torn, NoObject}
    BY <1>2 DEF Genuine
  <2> QED BY <1>1, <1>3, <2>1, ReasonIs
<1>5. N \in Places(start)
  BY <1>1, <1>2, <1>4 DEF Genuine
<1>6. Whole(then, N)
  BY <1>2, <1>4, <1>5 DEF Genuine, NotAhead
<1>7. Len(then) = N
  <2>1. Len(then) <= N
    BY <1>2 DEF Grows
  <2>2. N \in 1..Len(then)
    BY <1>1, <1>6 DEF Whole
  <2> QED BY <1>1, <2>1, <2>2
<1>8. then # <<>> /\ then[Len(then)] = Record(N)
  <2>1. Len(<<>>) = 0
    OBVIOUS
  <2> HIDE DEF then
  <2> QED BY <1>4, <1>6, <1>7, <2>1 DEF Whole
<1>9. Record(N) = [id |-> e.tip, hash |-> e.hash]
  BY <1>4 DEF Record
<1> HIDE DEF N
<1> QED BY <1>8, <1>9 DEF Bound

\* What was verified stays so, when what is held of it does.
LEMMA VerifiedStays ==
  ASSUME Extends, Verified, held'.manifest = held.manifest, held'.reason = held.reason,
         At("manifest", 3) => At("manifest", 3)'
  PROVE  Verified'
<1>1. \A i \in DOMAIN past : i \in DOMAIN past' /\ past'[i] = past[i]
  BY DEF Extends
<1>2. \A i \in DOMAIN past : Bound(past[i]) => Bound(past'[i])
  BY <1>1
<1> QED BY <1>1, <1>2 DEF Verified

\* A step of the scan keeps the history, and what was verified.
LEMMA StepVerifying ==
  ASSUME IInv, Known, OwnChain(scene), History, Verified, Step
  PROVE  History' /\ Verified'
<1>1. UNCHANGED machine
  BY DEF Step, ReadConfig, LookAgain, ReadDotenv, DotenvMode, DotenvTracked, FindStore, StoreMode, ReadStore,
         ReadProcesses, FindLog, LogFacts, FindManifest, ReadManifest, ReadChain, Assemble, ReadLedger,
         ApplyLedger, WriteReports, Gate, EmitAlerts, LookRaises
<1>2. Extends /\ History'
  BY <1>1, StillExtends DEF machine, History
<1> SUFFICES Verified'
  BY <1>2
<1>3. DOMAIN held = {"secrets", "open", "reason", "manifest"}
  BY DEF Known, Memory, Nothing
<1>4. ASSUME ~At("manifest", 3), held'.manifest = held.manifest, held'.reason = held.reason
      PROVE  Verified'
  BY <1>2, <1>4, VerifiedStays
<1>5. ASSUME NEW s, NEW m, At(s, m), s # "manifest" \/ m # 3
      PROVE  ~At("manifest", 3)
  BY <1>5 DEF At
<1>6. CASE held' = Nothing
  BY <1>6 DEF Verified, Nothing
<1>7. CASE UNCHANGED held /\ \E s, m : At(s, m) /\ (s # "manifest" \/ m # 3)
  BY <1>4, <1>5, <1>7
<1>8. CASE ReadDotenv \/ DotenvMode \/ StoreMode
  <2>1. ~At("manifest", 3)
    BY <1>5, <1>8 DEF ReadDotenv, DotenvMode, StoreMode
  <2>2. held'.manifest = held.manifest /\ held'.reason = held.reason
    BY <1>3, <1>8 DEF ReadDotenv, DotenvMode, StoreMode
  <2> QED BY <1>4, <2>1, <2>2
<1>9. CASE ReadManifest
  <2>1. At("manifest", 2) /\ (UNCHANGED held \/ (LookNext(3) /\ UNCHANGED exit))
    BY <1>9 DEF ReadManifest, verdict
  <2>2. CASE UNCHANGED held
    BY <1>7, <2>1, <2>2
  <2>3. CASE LookNext(3) /\ UNCHANGED exit
    <3>1. At("manifest", 3)'
      BY <2>1, <2>3 DEF At, LookNext
    <3> QED BY <3>1 DEF Verified
  <2> QED BY <2>1, <2>2, <2>3
<1>10. CASE ReadChain
  <2>1. At("manifest", 3)
    BY <1>10 DEF ReadChain
  <2>2. PICK j \in DOMAIN past : held.manifest = past[j].manifest /\ past[j].manifest.status = "ok"
    BY <2>1 DEF Known, Memory
  <2>3. PICK e \in Checkable(held.manifest.m) : held' = [held EXCEPT !.reason = ChainReason(world.chain, e)]
    BY <1>10 DEF ReadChain
  <2>4. held'.manifest = held.manifest /\ held'.reason = ChainReason(world.chain, e)
    BY <1>3, <2>3
  <2>5. e \in past[j].manifest.m.evidence
    BY <2>2, <2>3 DEF Checkable
  <2>6. held'.reason = "none" => Bound(past[j])
    BY <2>2, <2>4, <2>5, CleanIsBound
  <2>7. past' = past
    BY <1>1 DEF machine
  <2> QED BY <2>2, <2>4, <2>6, <2>7 DEF Verified
<1>11. \/ held' = Nothing
       \/ UNCHANGED held /\ \E s, m : At(s, m) /\ (s # "manifest" \/ m # 3)
       \/ ReadDotenv \/ DotenvMode \/ StoreMode
       \/ ReadManifest
       \/ ReadChain
  <2>1. ASSUME NEW f \in ConfigFile, ReadConfig(f)
        PROVE  UNCHANGED held /\ \E s, m : At(s, m) /\ (s # "manifest" \/ m # 3)
    BY <2>1 DEF ReadConfig
  <2>2. ASSUME NEW f \in ConfigFile \union {"dotenv"}, LookAgain(f)
        PROVE  UNCHANGED held /\ \E s, m : At(s, m) /\ (s # "manifest" \/ m # 3)
    BY <2>2 DEF LookAgain
  <2>3. CASE DotenvTracked \/ ReadStore
    BY <2>3 DEF DotenvTracked, ReadStore
  <2>4. CASE FindStore
    BY <2>4 DEF FindStore
  <2>5. CASE ReadProcesses
    BY <2>5 DEF ReadProcesses
  <2>6. CASE FindLog
    BY <2>6 DEF FindLog
  <2>7. CASE LogFacts
    BY <2>7 DEF LogFacts
  <2>8. CASE FindManifest
    BY <2>8 DEF FindManifest
  <2>9. CASE Assemble \/ ReadLedger \/ ApplyLedger \/ WriteReports \/ Gate \/ EmitAlerts
    BY <2>9 DEF Assemble, ReadLedger, ApplyLedger, WriteReports, Gate, EmitAlerts
  <2>10. CASE LookRaises
    BY <2>10 DEF LookRaises
  <2> QED BY <2>1, <2>2, <2>3, <2>4, <2>5, <2>6, <2>7, <2>8, <2>9, <2>10 DEF Step
<1> QED BY <1>6, <1>7, <1>8, <1>9, <1>10, <1>11

\* So does an edit.
LEMMA EditVerifying ==
  ASSUME IInv, OwnChain(scene), History, Verified, Edit
  PROVE  History' /\ Verified'
<1>1. PICK w : Become(w)
  BY DEF Edit, Change, BrokerAppends, BrokerRefreshes
<1>2. past' = Append(past, w) /\ UNCHANGED <<scene, now, exit, todo, look, held>>
  BY <1>1 DEF Become, found, verdict
<1>3. PICK S : past \in Seq(S)
  BY DEF IInv, Timeline
<1>4. Extends
  <2>1. past \in Seq(S \cup {w}) /\ w \in S \cup {w}
    BY <1>3
  <2>2. /\ Len(Append(past, w)) = Len(past) + 1 /\ DOMAIN Append(past, w) = 1..(Len(past) + 1)
        /\ \A k \in 1..Len(past) : Append(past, w)[k] = past[k]
    BY <2>1
  <2> QED BY <1>2, <2>2, Latest DEF Extends
<1>5. Verified'
  BY <1>2, <1>4, VerifiedStays DEF At
<1> QED BY <1>5, ChangeHistory, AppendsHistory, RefreshesHistory DEF Edit

\* All steps.
LEMMA KeepsVerifying ==
  ASSUME IInv, Known, Verifying, [Next]_vars
  PROVE  Verifying'
<1> SUFFICES ASSUME OwnChain(scene') PROVE History' /\ Verified'
  BY DEF Verifying
<1>1. scene' = scene
  BY DEF Next, Step, Edit, Ended, Change, BrokerAppends, BrokerRefreshes, Become, machine, vars,
         ReadConfig, LookAgain, ReadDotenv, DotenvMode, DotenvTracked, FindStore, StoreMode, ReadStore,
         ReadProcesses, FindLog, LogFacts, FindManifest, ReadManifest, ReadChain, Assemble, ReadLedger,
         ApplyLedger, WriteReports, Gate, EmitAlerts, LookRaises
<1>2. OwnChain(scene) /\ History /\ Verified
  BY <1>1 DEF Verifying
<1>3. CASE Step
  BY <1>2, <1>3, StepVerifying
<1>4. CASE Edit
  BY <1>2, <1>4, EditVerifying
<1>5. CASE UNCHANGED vars
  BY <1>2, <1>5 DEF vars, History, Verified, At
<1> QED BY <1>3, <1>4, <1>5 DEF Next, Ended

\* The first instant.
LEMMA InitVerifying == Init => Verifying
<1> SUFFICES ASSUME Init, OwnChain(scene) PROVE History /\ Verified
  BY DEF Verifying
<1>1. world = scene.world /\ past = <<world>> /\ held = Nothing /\ IInv
  BY Initialization DEF Init
<1>2. Verified
  BY <1>1 DEF Verified, Nothing
<1>3. Len(world.chain.lines) \in Nat
  BY <1>1, Latest, LinesAre
<1>4. Grows(world, world)
  BY <1>3 DEF Grows
<1>5. Genuine(scene.world.chain.lines, world)
  BY <1>1 DEF Genuine, OwnChain, Places
<1>6. \A i \in DOMAIN past : past[i] = world
  BY <1>1
<1> QED BY <1>1, <1>2, <1>4, <1>5, <1>6 DEF History

\* A broker that owns its chain, and whose manifests name no record before it is written,
\* has evidence that passes only if the chain bore it out at an instant when that manifest
\* was in place, however reads and appends interleave (engine._audit_broker,
\* checks/broker.py).
THEOREM CleanEvidenceWasBound == Spec => [](OwnChain(scene) => CleanWasBound)
<1>1. IInv /\ Known /\ [Next]_vars => Known'
  BY KeepsKnown
<1>2. IInv /\ Known /\ Verifying /\ [Next]_vars => Verifying'
  BY KeepsVerifying
<1>3. IInv /\ Verifying => (OwnChain(scene) => CleanWasBound)
  <2> SUFFICES ASSUME IInv, Verified, Assembled, held.manifest.status = "ok", held.reason = "none"
               PROVE  \E i \in DOMAIN past : past[i].manifest = held.manifest /\ Bound(past[i])
    BY DEF Verifying, CleanWasBound
  <2>1. ~At("manifest", 3)
    <3>1. Len(todo) <= 5 /\ Len(todo) \in Nat
      BY DEF IInv, Staged, Assembled, Agenda
    <3>2. At("manifest", 3) => Len(todo) > 6
      BY AtIs DEF IInv, Surface
    <3> QED BY <3>1, <3>2
  <2> QED BY <2>1 DEF Verified
<1> QED BY <1>1, <1>2, <1>3, Invariance, InitKnown, InitVerifying, PTL DEF Spec
=============================================================================
