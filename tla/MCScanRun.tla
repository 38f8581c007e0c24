------------------------------ MODULE MCScanRun ------------------------------
(***************************************************************************)
(* Four families of small machines: credentials moving between configs and *)
(* .env; a broker at work, or one whose files others touch; a ledger       *)
(* edited while the day turns; and the surfaces looked at only on request. *)
(***************************************************************************)
EXTENDS ScanRun

MCLoopback == {"local"}
MCEndings == ("s1" :> {"s1"}) @@ ("s2" :> {"s2"}) @@ ("x#s1" :> {"x#s1", "s1"})

Decl(env, approve, floating, launch) ==
    [env |-> env, approve |-> approve, floating |-> floating,
     tampered |-> IF floating THEN {"hidden", "injection"} ELSE {}, launch |-> launch]

Plain == Decl({}, {}, FALSE, "other")
Config(status, decls, allow) == [status |-> status, servers |-> decls, allow |-> allow]
NoConfig == Config("absent", <<>>, {})
One(status, name, decl) == Config(status, name :> decl, {})

Dotenv(status, secrets) == [status |-> status, secrets |-> secrets]

NoManifest ==
    [status |-> "absent",
     m |-> [fronts |-> {}, least_privilege |-> FALSE, signed |-> FALSE, audited |-> FALSE, evidence |-> {}]]

Empty ==
    [user |-> NoConfig, project |-> NoConfig,
     dotenv |-> Dotenv("absent", {}), dotenv_open |-> FALSE, dotenv_tracked |-> FALSE,
     store |-> [status |-> "absent", exp |-> {}], store_open |-> FALSE,
     procs |-> [env |-> <<>>, denied |-> FALSE],
     log |-> [present |-> TRUE, open |-> FALSE, mtime |-> 0],
     manifest |-> NoManifest, chain |-> [status |-> "ok", lines |-> <<>>],
     sockets |-> [open |-> {"local"}, partial |-> FALSE],
     accept |-> [status |-> "absent", entries |-> {}], day |-> 0]

Scene(machine0, inspect, failOn, sinks, broker, may) ==
    [world |-> machine0, inspect |-> inspect, failOn |-> failOn, sinks |-> sinks,
     broker |-> broker, may |-> may]

-----------------------------------------------------------------------------
(* Credentials that move while the files that hold them come and go.       *)

Holding(env) == Decl(env, {}, FALSE, "other")

FileEdits ==
    {[user |-> One("ok", "s1", Plain)], [user |-> One("refused", "s1", Holding({"k1"}))],
     [project |-> One("ok", "s2", Holding({"k1"}))], [project |-> NoConfig],
     [dotenv |-> Dotenv("ok", {})], [dotenv |-> Dotenv("absent", {})], [dotenv |-> Dotenv("refused", {"k1"})],
     [dotenv_open |-> TRUE]}

FileScenes ==
    {Scene([user |-> u, project |-> p, dotenv |-> d, dotenv_tracked |-> t] @@ Empty,
           {}, "high", {}, FALSE, may) :
        u \in {One("ok", "s1", Holding({"k1"})), One("refused", "s1", Holding({"k1"})), NoConfig},
        p \in {One("ok", "s2", Holding({"k1"})), One("malformed", "s2", Plain)},
        d \in {Dotenv("ok", {"k1"}), Dotenv("absent", {})},
        t \in BOOLEAN,
        may \in {{e, f} : e, f \in FileEdits}}

-----------------------------------------------------------------------------
(* Brokers.                                                                *)

Tip(i, h, chained) == {[tip |-> i, hash |-> h, chained |-> chained]}
Manifest(fronts, good, evidence) ==
    [status |-> "ok", m |-> [fronts |-> fronts, least_privilege |-> good, signed |-> good,
                             audited |-> good, evidence |-> evidence]]
S1 == <<"declared", "user", "s1">>
S2 == <<"declared", "project", "s2">>

Privy(launch) == One("ok", "s1", Decl({}, {"dangerous"}, FALSE, launch))

Brokered(user, manifest, lines) ==
    [user |-> user, manifest |-> manifest, chain |-> [status |-> "ok", lines |-> lines]] @@ Empty

\* A broker names a record it has written, or one that is in no chain of its.
Named(e, lines) == e = Tip(1, 1, TRUE) => lines # <<>>

LiveBrokers ==
    {s \in {Scene(Brokered(Privy("other"), Manifest({S1}, TRUE, e), lines),
           {"broker"}, "high", {}, TRUE, may) :
        e \in {Tip(1, 1, TRUE), Tip(9, 9, TRUE), Tip(1, 9, TRUE)},
        lines \in {<<Record(1)>>, <<Record(1), Torn>>, <<Record(1), Record(2)>>, <<>>},
        may \in {{}, {[user |-> NoConfig]}, {[manifest |-> NoManifest]}}} :
        Named(s.world.manifest.m.evidence, s.world.chain.lines)}

StillEdits ==
    {{[user |-> Privy("wrapper path")], [manifest |-> Manifest({}, TRUE, Tip(1, 1, FALSE))]},
     {[user |-> Privy("other")], [manifest |-> NoManifest]},
     {[manifest |-> [NoManifest EXCEPT !.status = "malformed"]], [chain |-> [status |-> "absent", lines |-> <<>>]]},
     {[chain |-> [status |-> "ok", lines |-> <<[id |-> 1, hash |-> 7]>>]], [user |-> One("refused", "s1", Plain)]}}

StillBrokers ==
    {Scene(Brokered(Privy(launch), m, lines), {"broker"}, "high", {}, FALSE, may) :
        launch \in {"other", "runner of wrapper path", "wrapper name"},
        m \in {NoManifest, Manifest({S1}, FALSE, Tip(1, 1, TRUE)), Manifest({S1}, TRUE, {}),
               Manifest({}, FALSE, {}), [NoManifest EXCEPT !.status = "refused"]},
        lines \in {<<Record(1)>>, <<NoObject>>},
        may \in StillEdits}

\* What a manifest fronts moves from one config to the other.
MovedServers ==
    {Scene([project |-> One("ok", "s2", Decl({}, {"wildcard"}, FALSE, "other"))]
             @@ Brokered(NoConfig, Manifest({S1, S2}, FALSE, {}), <<>>),
           {"broker"}, "high", {}, FALSE, {[user |-> u], [project |-> NoConfig]}) :
        u \in {Privy("other"), One("refused", "s1", Plain)}}

-----------------------------------------------------------------------------
(* Gates.                                                                  *)

Entry(rule, server, expires) ==
    [finding |-> rule, server |-> server, expires |-> expires, whole |-> TRUE]
Ledger(entries) == [status |-> "ok", entries |-> entries]

Waived == {Entry("SCOPE_DANGEROUS_AUTOAPPROVE", <<"#", "s1">>, 0)}
Renewed == Waived \union {Entry("SCOPE_DANGEROUS_AUTOAPPROVE", S1, 1)}
Broken == {[e EXCEPT !.whole = FALSE] : e \in Renewed}
Everything == Renewed \union {Entry("CRED_PLAINTEXT", <<"#", "s1">>, 1), Entry("PIN_UNPINNED", S1, 1),
                              Entry("SCOPE_DANGEROUS_ALLOW", <<"#", "permissions">>, 1),
                              Entry("SCOPE_WILDCARD", <<"permissions", "user">>, 1),
                              Entry("CONFIG_UNREADABLE", <<"config", "project">>, 1)}

Gated == {Config("ok", "s1" :> Decl({}, {"dangerous"}, TRUE, "other"), {}),
          Config("ok", "s1" :> Decl({"k1"}, {"dangerous", "wildcard"}, FALSE, "other"), {}),
          Config("ok", "s1" :> Decl({}, {"dangerous"}, FALSE, "other"), {"dangerous", "wildcard"}),
          One("ok", "x#s1", Decl({}, {"dangerous"}, FALSE, "other"))}

GateScenes ==
    {Scene([user |-> u, project |-> p, accept |-> a] @@ Empty,
           {}, failOn, sinks, FALSE, may) :
        u \in Gated, p \in {NoConfig, One("malformed", "s2", Plain)},
        a \in {Ledger(Waived), Ledger(Renewed), Ledger(Everything)},
        failOn \in {"high", "medium"},
        sinks \in {{}, {"ndjson", "webhook", "syslog"}},
        may \in {{[day |-> 1], [accept |-> Ledger(Broken)]},
                 {[day |-> 1], [day |-> 2]},
                 {[accept |-> [status |-> "malformed", entries |-> {}]], [accept |-> Ledger(Renewed)]}}}

-----------------------------------------------------------------------------
(* Surfaces looked at on request.                                          *)

Store(status, exp) == [status |-> status, exp |-> exp]
Log(present, open, mtime) == [present |-> present, open |-> open, mtime |-> mtime]

AskedScenes ==
    {Scene([store |-> s, store_open |-> o, procs |-> [env |-> p, denied |-> d], log |-> l,
            sockets |-> [open |-> {"local", "wide"}, partial |-> d], day |-> 3] @@ Empty,
           {"token_stores", "process_env", "telemetry"}, "low", {}, FALSE, may) :
        s \in {Store("ok", {2}), Store("refused", {2}), Store("malformed", {}), Store("ok", {})}, o \in BOOLEAN,
        p \in {"p1" :> {"k1"} @@ "p2" :> {"k1"}, "p1" :> {}}, d \in BOOLEAN,
        l \in {Log(TRUE, FALSE, 1), Log(TRUE, TRUE, 3), Log(FALSE, FALSE, 0)},
        may \in {{[store |-> Store("absent", {})], [store_open |-> TRUE]},
                 {[log |-> Log(FALSE, FALSE, 0)], [log |-> Log(TRUE, TRUE, 3)]},
                 {[sockets |-> [open |-> {"wide"}, partial |-> FALSE]],
                  [procs |-> [env |-> "p1" :> {"k1"}, denied |-> TRUE]]}}}

MCScenes == FileScenes \union LiveBrokers \union StillBrokers \union MovedServers
                \union GateScenes \union AskedScenes
=============================================================================
