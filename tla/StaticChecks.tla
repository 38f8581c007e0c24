---------------------------- MODULE StaticChecks ----------------------------
(***************************************************************************)
(* The checks a scan makes of one surface at a time (src/mcpscan/checks/), *)
(* as pure operators from what a look at the surface returned to the       *)
(* findings it deserves, and the joins over servers and ledger entries.    *)
(*                                                                         *)
(* A finding is [id, at, secret, dimension, severity]; a server is [id,    *)
(* incomplete, findings].  Ids of servers are tuples: <<"declared", f, n>> *)
(* stands for `f#n', <<"permissions", f>> for `f#permissions', <<"config", *)
(* f>> for `config://f', and so on.  A credential stands for the           *)
(* fingerprint of its value.                                               *)
(***************************************************************************)
EXTENDS Scoring, Sequences

CONSTANT Endings   \* [name -> itself and the names m it ends in as `#m']: x#s1 ends in s1

ASSUME EndingsAssumption == \A n \in DOMAIN Endings : n \in Endings[n]

NoSecret == "no secret"

Grading(dimension, severity) == [dimension |-> dimension, severity |-> severity]

\* The rules of each check with their dimension and severity; `-' in an id is `_' here.
SecretGrades ==
    [CRED_PLAINTEXT |-> Grading("credential", "critical"),
     CRED_ENV       |-> Grading("credential", "high"),
     CRED_PERMS     |-> Grading("credential", "high"),
     CRED_GIT       |-> Grading("credential", "high"),
     CRED_REUSE     |-> Grading("credential", "medium")]

StoreGrades ==
    [TOKEN_STORE_PERMS   |-> Grading("credential", "high"),
     TOKEN_STORE_EXPIRED |-> Grading("credential", "info")]

PinGrades ==
    [PIN_UNPINNED |-> Grading("pinning", "medium")]

ScopeGrades ==
    [SCOPE_DANGEROUS_ALLOW       |-> Grading("tool_scope", "high"),
     SCOPE_WILDCARD              |-> Grading("tool_scope", "medium"),
     SCOPE_DANGEROUS_AUTOAPPROVE |-> Grading("tool_scope", "high"),
     SCOPE_AUTOAPPROVE_WILDCARD  |-> Grading("tool_scope", "medium")]

IntegrityGrades ==
    [TOOL_HIDDEN_UNICODE |-> Grading("tool_scope", "medium"),
     TOOL_INJECTION_TEXT |-> Grading("tool_scope", "medium")]

HealthGrades ==
    [CONFIG_UNREADABLE |-> Grading("tool_scope", "medium")]

TelemetryGrades ==
    [TELEMETRY_ABSENT |-> Grading("exposure", "low"),
     TELEMETRY_PERMS  |-> Grading("exposure", "medium"),
     TELEMETRY_STALE  |-> Grading("exposure", "info")]

ListenerGrades ==
    [LISTENER_OBSERVED |-> Grading("exposure", "info")]

BrokerGrades ==
    [BROKER_ABSENT               |-> Grading("tool_scope", "high"),
     BROKER_MANIFEST_UNVERIFIED  |-> Grading("tool_scope", "high"),
     BROKER_NO_AUDIT             |-> Grading("tool_scope", "medium"),
     BROKER_ALLOWLIST_PERMISSIVE |-> Grading("tool_scope", "medium"),
     BROKER_PARSE_ERROR          |-> Grading("tool_scope", "low"),
     BROKER_EVIDENCE_MISSING     |-> Grading("tool_scope", "high"),
     BROKER_EVIDENCE_MISMATCH    |-> Grading("tool_scope", "high")]

\* Every rule, as the check that reports it grades it.
Rule ==
    LET Tables == {SecretGrades, StoreGrades, PinGrades, ScopeGrades, IntegrityGrades, HealthGrades,
                   TelemetryGrades, ListenerGrades, BrokerGrades}
    IN  [rule \in UNION {DOMAIN table : table \in Tables} |->
            (CHOOSE table \in Tables : rule \in DOMAIN table)[rule]]

Secretly(rule, at, secret) ==
    [id |-> rule, at |-> at, secret |-> secret,
     dimension |-> Rule[rule].dimension, severity |-> Rule[rule].severity]

Finding(rule, at) == Secretly(rule, at, NoSecret)

Server(id, incomplete, findings) ==
    [id |-> id, incomplete |-> incomplete, findings |-> findings]

\* A server that is in the report only for what was found on it.
Surfaced(id, incomplete, findings) ==
    IF findings = {} THEN {} ELSE {Server(id, incomplete, findings)}

\* The findings of `rule' when `holds', none otherwise.
When(holds, rule, at) == IF holds THEN {Finding(rule, at)} ELSE {}

-----------------------------------------------------------------------------
(* Host configs.  A declaration is the credentials of its env block, what  *)
(* its autoApprove grants, whether its package floats, what its strings    *)
(* hide and how it is launched.  An entry that is dangerous is not also    *)
(* reported a wildcard.                                                    *)

check_server_env(decl, f) == {Secretly("CRED_PLAINTEXT", <<f>>, k) : k \in decl.env}

check_server_auto_approve(decl, f) ==
    When("dangerous" \in decl.approve, "SCOPE_DANGEROUS_AUTOAPPROVE", <<f>>)
    \union When("wildcard" \in decl.approve, "SCOPE_AUTOAPPROVE_WILDCARD", <<f>>)

check_server_pinning(decl, f) == When(decl.floating, "PIN_UNPINNED", <<f>>)

check_tool_integrity(decl, f) ==
    When("hidden" \in decl.tampered, "TOOL_HIDDEN_UNICODE", <<f>>)
    \union When("injection" \in decl.tampered, "TOOL_INJECTION_TEXT", <<f>>)

check_permissions(allow, f) ==
    When("dangerous" \in allow, "SCOPE_DANGEROUS_ALLOW", <<f>>)
    \union When("wildcard" \in allow, "SCOPE_WILDCARD", <<f>>)

audit_config(f, cfg) ==
    {Server(<<"declared", f, n>>, FALSE,
            check_server_env(cfg.servers[n], f)
              \union check_server_auto_approve(cfg.servers[n], f)
              \union check_server_pinning(cfg.servers[n], f)
              \union check_tool_integrity(cfg.servers[n], f)) : n \in DOMAIN cfg.servers}
    \union Surfaced(<<"permissions", f>>, FALSE, check_permissions(cfg.allow, f))

\* config_failure_server with check_config_readable: there, and not inspected.
config_failure_server(f) ==
    Server(<<"config", f>>, TRUE, {Finding("CONFIG_UNREADABLE", <<f>>)})

-----------------------------------------------------------------------------
(* The .env file, token stores, process environments, logs and listeners.  *)

check_secret_at_rest(secrets, open, tracked) ==
    IF secrets = {} THEN {}
    ELSE When(open, "CRED_PERMS", <<"dotenv">>) \union When(tracked, "CRED_GIT", <<"dotenv">>)

audit_env_file(secrets, open, tracked) ==
    Server(<<"dotenv">>, FALSE,
           {Secretly("CRED_PLAINTEXT", <<"dotenv">>, k) : k \in secrets}
             \union check_secret_at_rest(secrets, open, tracked))

\* `exp' is the day the first token in the store runs out, or absent.
check_token_store(open, exp, now) ==
    When(open, "TOKEN_STORE_PERMS", <<"store">>)
    \union When(\E d \in exp : d < now, "TOKEN_STORE_EXPIRED", <<"store">>)

\* `env' gives the credentials of every process that could be read.
audit_process_envs(env, incomplete) ==
    UNION {Surfaced(<<"process", p>>, incomplete, {Secretly("CRED_ENV", <<p>>, k) : k \in env[p]}) :
              p \in DOMAIN env}

StaleAfter == 1

check_telemetry(present, open, mtime, now) ==
    IF ~present THEN {Finding("TELEMETRY_ABSENT", <<"log">>)}
    ELSE When(open, "TELEMETRY_PERMS", <<"log">>)
         \union When(\E t \in mtime : now - t > StaleAfter, "TELEMETRY_STALE", <<"log">>)

\* A listener beyond loopback, whose identity a scan never verifies.
check_socket_exposure(sock, loopback) == When(sock \notin loopback, "LISTENER_OBSERVED", <<sock>>)

-----------------------------------------------------------------------------
(* The joins.                                                              *)

\* check_secret_reuse: credentials seen on two servers or more.
Reused(servers) ==
    {k \in {f.secret : f \in UNION {s.findings : s \in servers}} \ {NoSecret} :
        Cardinality({s.id : s \in {t \in servers : \E f \in t.findings : f.secret = k}}) > 1}

assemble_report(servers) ==
    {[s EXCEPT !.findings =
        @ \union {Secretly("CRED_REUSE", f.at, f.secret) :
                     f \in {g \in @ : g.secret \in Reused(servers)}}] : s \in servers}

\* server_matches: the id itself, or a name it ends in after a `#'.
server_matches(id, server) ==
    \/ id = server
    \/ /\ Len(server) = 2 /\ server[1] = "#"
       /\ \/ id[1] = "declared" /\ server[2] \in Endings[id[3]]
          \/ id[1] = "permissions" /\ server[2] = "permissions"

acceptance_expired(entry, today) == today > entry.expires

\* Entries for credentials, exposure and pinning are honoured too.
apply_acceptances_to_all(servers, entries, today) ==
    UNION {{<<s.id, f>> : f \in {g \in s.findings :
               \E e \in entries : /\ e.finding = g.id
                                  /\ server_matches(s.id, e.server)
                                  /\ ~acceptance_expired(e, today)}} : s \in servers}

\* A lapsed entry hides the renewal added after it.
apply_acceptances_first(servers, entries, today) ==
    UNION {{<<s.id, f>> : f \in {g \in s.findings :
               /\ g.dimension = "tool_scope"
               /\ \E e \in entries : e.finding = g.id /\ server_matches(s.id, e.server)
               /\ \A e \in entries : e.finding = g.id /\ server_matches(s.id, e.server)
                      => ~acceptance_expired(e, today)}} : s \in servers}

\* apply_acceptances: the findings an unexpired entry shields from the gate.
apply_acceptances(servers, entries, today) ==
    UNION {{<<s.id, f>> : f \in {g \in s.findings :
               /\ g.dimension = "tool_scope"
               /\ \E e \in entries : /\ e.finding = g.id
                                     /\ server_matches(s.id, e.server)
                                     /\ ~acceptance_expired(e, today)}} : s \in servers}
=============================================================================
