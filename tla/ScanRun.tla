------------------------------- MODULE ScanRun -------------------------------
(***************************************************************************)
(* `mcpscan scan' from the first look at the machine to its exit code      *)
(* (engine.scan, cli._run_scan).  The command looks at one surface after   *)
(* another, at some of them more than once, while users, hosts and the     *)
(* broker go on changing them; what it joins at the end (reuse of a        *)
(* credential, posture of the broker, acceptances) it saw at different     *)
(* instants.  `past' remembers every state the machine has been in since   *)
(* the command started.                                                    *)
(***************************************************************************)
EXTENDS BrokerPosture, SequencesExt

CONSTANTS
    Scenes,     \* the machines and command lines considered
    Loopback,   \* listeners bound to loopback
    ChainCap,   \* records of a chain a bounded read can hold
    MaxEdits,   \* bound: changes of the machine during a scan
    MaxRecords  \* bound: records of a chain

ASSUME BoundsAssumption ==
    /\ MaxEdits \in Nat
    /\ ChainCap \in Nat /\ MaxRecords \in Nat

Part == {"user", "project", "dotenv", "dotenv_open", "dotenv_tracked", "store", "store_open",
         "procs", "log", "manifest", "chain", "sockets", "accept", "day"}

\* Parts of a machine, all of them or those an edit replaces: what a look can find is
\* finite, a manifest names one piece of evidence at most, a store that does not decode
\* tells no expiry, and a row of the ledger names a server and a day.
Fits(w) ==
    /\ DOMAIN w \subseteq Part
    /\ \A x \in DOMAIN w \cap {"user", "project", "dotenv", "store", "manifest"} :
          "status" \in DOMAIN w[x] /\ w[x].status \in {"absent", "refused", "malformed", "ok"}
    /\ \A f \in DOMAIN w \cap {"user", "project"} :
          w[f].status = "ok" => /\ IsFiniteSet(DOMAIN w[f].servers)
                                /\ \A n \in DOMAIN w[f].servers : IsFiniteSet(w[f].servers[n].env)
    /\ "dotenv" \in DOMAIN w => IsFiniteSet(w.dotenv.secrets)
    /\ "store" \in DOMAIN w /\ w.store.status = "malformed" => w.store.exp = {}
    /\ "procs" \in DOMAIN w =>
          /\ w.procs.denied \in BOOLEAN /\ IsFiniteSet(DOMAIN w.procs.env)
          /\ \A p \in DOMAIN w.procs.env : IsFiniteSet(w.procs.env[p])
    /\ "manifest" \in DOMAIN w /\ w.manifest.status = "ok" =>
          /\ "m" \in DOMAIN w.manifest /\ "evidence" \in DOMAIN w.manifest.m
          /\ w.manifest.m.evidence \subseteq [tip : Int, hash : Int, chained : BOOLEAN]
          /\ \A d, e \in w.manifest.m.evidence : d = e
    /\ "chain" \in DOMAIN w =>
          "lines" \in DOMAIN w.chain /\ w.chain.lines \in Seq([id : Int, hash : Int])
    /\ "sockets" \in DOMAIN w => w.sockets.partial \in BOOLEAN /\ IsFiniteSet(w.sockets.open)
    /\ "accept" \in DOMAIN w =>
          \A e \in w.accept.entries : e.server \in Seq(STRING) /\ e.expires \in Nat
    /\ "day" \in DOMAIN w => w.day \in Nat

ASSUME SceneAssumption ==
    \A s \in Scenes :
        /\ DOMAIN s.world = Part /\ Fits(s.world)
        /\ \A e \in s.may : Fits(e)
        /\ s.failOn \in Severity \ {"info"}

VARIABLES
    scene,     \* what is looked at, how the gate is set, what may change
    world,     \* the machine
    past,      \* history: what the machine has been since the start, in order
    edits,     \* changes so far
    todo,      \* surfaces and stages left, the one under way first
    look,      \* which of the looks at it comes next
    held,      \* what the earlier looks at it returned
    now,       \* the day read at the start
    subjects,  \* declared servers of the configs read
    servers,   \* servers of the report
    grade,     \* overall grade, "none" before the report is assembled
    ledger,    \* acceptances read
    applied,   \* the day they were applied on, -1 before
    shielded,  \* findings they keep from the gate
    exit,      \* "running", "pass", "fail" or "crash"
    alerts     \* what each sink reached was told

vars == <<scene, world, past, edits, todo, look, held, now, subjects, servers, grade,
          ledger, applied, shielded, exit, alerts>>

found == <<subjects, servers>>
verdict == <<grade, ledger, applied, shielded, exit, alerts>>
machine == <<scene, world, past, edits, now>>

-----------------------------------------------------------------------------
(* The machine.  Every surface is a field of `world':                      *)
(*   user, project   host configs [status, servers, allow]                 *)
(*   dotenv          [status, secrets], with its bits and its git status   *)
(*   store           [status, exp], with its bits                          *)
(*   procs           [env, denied], the agent processes                    *)
(*   log             [present, open, mtime]                                *)
(*   manifest        [status, m], the broker's                             *)
(*   chain           [status, lines], the broker's                         *)
(*   sockets         [open, partial], what the enumeration can show        *)
(*   accept          [status, entries], the acceptance ledger              *)
(*   day             the clock                                             *)
(* A status is "absent", "refused" (there, and the reader declines it),    *)
(* "malformed" or "ok"; a refused file has its content all the same.       *)

ConfigFile == {"user", "project"}

There(file) == file.status # "absent"

\* safe_read_text returns the text, and the adapter finds servers in it.
Readable(file) == file.status \in {"ok", "malformed"}
Parses(file) == file.status = "ok"

Become(w) ==
    /\ exit = "running"
    /\ edits < MaxEdits
    /\ w # world
    /\ world' = w
    /\ past' = Append(past, w)
    /\ edits' = edits + 1
    /\ UNCHANGED <<scene, todo, look, held, now, found, verdict>>

\* A user or a host rewrites, moves or removes something, or a day passes.
Change == \E e \in scene.may : Become([x \in DOMAIN world |-> IF x \in DOMAIN e THEN e[x] ELSE world[x]])

Record(i) == [id |-> i, hash |-> i]

\* The broker appends a decision; a reader may see the line half written.
BrokerAppends ==
    /\ scene.broker
    /\ LET lines == world.chain.lines
           n     == Len(lines)
       IN  IF n > 0 /\ lines[n] = Torn
           THEN Become([world EXCEPT !.chain.lines[n] = Record(n)])
           ELSE n < MaxRecords /\ Become([world EXCEPT !.chain.lines = Append(@, Torn)])

\* The broker names the tip of its chain in its manifest.
BrokerRefreshes ==
    /\ scene.broker
    /\ world.manifest.status = "ok"
    /\ LET lines == world.chain.lines
       IN  /\ lines # <<>> /\ lines[Len(lines)] # Torn
           /\ Become([world EXCEPT !.manifest.m.evidence =
                  {[e EXCEPT !.tip = lines[Len(lines)].id, !.hash = lines[Len(lines)].hash] : e \in @}])

-----------------------------------------------------------------------------
(* The command's steps.                                                    *)

Optional == [store |-> "token_stores", procs |-> "process_env",
             log |-> "telemetry", manifest |-> "broker"]

\* A look made when it was asked for.
Asked(inspect, s) == IF Optional[s] \in inspect THEN <<s>> ELSE <<>>

\* What every command does last.
Closing == <<"sockets", "ledger", "apply", "write", "gate", "alert">>

\* The broker is graded before the configs have been read.
PlanBrokerFirst(inspect) ==
    Asked(inspect, "manifest") \o <<"user", "project", "dotenv">> \o Asked(inspect, "store")
        \o Asked(inspect, "procs") \o Asked(inspect, "log") \o Closing

Plan(inspect) ==
    <<"user", "project", "dotenv">> \o Asked(inspect, "store") \o Asked(inspect, "procs")
        \o Asked(inspect, "log") \o Asked(inspect, "manifest") \o Closing

Nothing == [secrets |-> {}, open |-> FALSE, reason |-> "none",
            manifest |-> [status |-> "absent"]]

Init ==
    /\ scene \in Scenes
    /\ world = scene.world
    /\ past = <<world>>
    /\ edits = 0
    /\ todo = Plan(scene.inspect) /\ look = 1 /\ held = Nothing
    /\ now = world.day
    /\ subjects = {} /\ servers = {}
    /\ grade = "none" /\ ledger = {} /\ applied = -1 /\ shielded = {}
    /\ exit = "running" /\ alerts = {}

At(s, n) == exit = "running" /\ todo # <<>> /\ Head(todo) = s /\ look = n

\* The surface under way is left without going back to the first look.
DoneKeepsLook == todo' = Tail(todo) /\ look' = look

Done == todo' = Tail(todo) /\ look' = 1
LookNext(n) == todo' = todo /\ look' = n

\* An exception that nothing catches: what is left to do stays undone.
Crash == exit' = "crash" /\ UNCHANGED <<todo, look>>

Report(new) == servers' = servers \union new

\* A host config: read, and parsed when it could be.
ReadConfig(f) ==
    /\ At(f, 1)
    /\ LET cfg == world[f]
       IN  \/ /\ Readable(cfg) /\ Parses(cfg)
              /\ Report(audit_config(f, cfg))
              /\ subjects' = subjects \union
                     {[id |-> <<"declared", f, n>>, decl |-> cfg.servers[n]] : n \in DOMAIN cfg.servers}
              /\ Done
           \/ /\ Readable(cfg) /\ ~Parses(cfg)
              /\ Report({config_failure_server(f)})
              /\ UNCHANGED subjects
              /\ Done
           \/ /\ ~Readable(cfg)
              /\ LookNext(2)
              /\ UNCHANGED found
    /\ UNCHANGED <<machine, held, verdict>>

\* Every read that failed is reported, of a file that is not there too.
LookAgainAlways(f) ==
    /\ At(f, 2)
    /\ Report({config_failure_server(f)})
    /\ Done
    /\ UNCHANGED <<machine, held, subjects, verdict>>

\* The second look of _read_config_or_failure, after a read that failed: a file
\* that is there then is reported, one that is not is not.
LookAgain(f) ==
    /\ At(f, 2)
    /\ Report({config_failure_server(g) : g \in {h \in {f} : There(world[h])}})
    /\ Done
    /\ UNCHANGED <<machine, held, subjects, verdict>>

ReadDotenv ==
    /\ At("dotenv", 1)
    /\ IF Readable(world.dotenv)
       THEN held' = [held EXCEPT !.secrets = world.dotenv.secrets] /\ LookNext(3)
       ELSE LookNext(2) /\ UNCHANGED held
    /\ UNCHANGED <<machine, found, verdict>>

\* A file that is gone by now has no mode.
DotenvMode ==
    /\ At("dotenv", 3)
    /\ held' = [held EXCEPT !.open = There(world.dotenv) /\ world.dotenv_open]
    /\ LookNext(4)
    /\ UNCHANGED <<machine, found, verdict>>

DotenvTracked ==
    /\ At("dotenv", 4)
    /\ Report({audit_env_file(held.secrets, held.open, world.dotenv_tracked)})
    /\ held' = Nothing
    /\ Done
    /\ UNCHANGED <<machine, subjects, verdict>>

FindStore ==
    /\ At("store", 1)
    /\ IF There(world.store) THEN LookNext(2) ELSE Done
    /\ UNCHANGED <<machine, held, found, verdict>>

StoreMode ==
    /\ At("store", 2)
    /\ held' = [held EXCEPT !.open = There(world.store) /\ world.store_open]
    /\ LookNext(3)
    /\ UNCHANGED <<machine, found, verdict>>

ReadStore ==
    /\ At("store", 3)
    /\ LET exp == IF Readable(world.store) THEN world.store.exp ELSE {}
       IN  Report(Surfaced(<<"store">>, FALSE, check_token_store(held.open, exp, now)))
    /\ held' = Nothing
    /\ Done
    /\ UNCHANGED <<machine, subjects, verdict>>

\* A look raises what nothing in the command catches: PermissionError, where a file is in a
\* directory the user may not search (is_symlink, exists, is_file), or RecursionError, where
\* the claims of a stored token are nested too deep (the first decode_jwt_unverified).
LookRaises ==
    /\ \/ \E f \in ConfigFile \union {"dotenv"} : At(f, 2) /\ world[f].status = "refused"
       \/ \E f \in {"store", "manifest"} : At(f, 1) /\ world[f].status = "refused"
       \/ At("store", 3) /\ world.store.status = "malformed"
    /\ Crash
    /\ UNCHANGED <<machine, held, found, grade, ledger, applied, shielded, alerts>>

\* A process that ends, or belongs to another user, leaves its mark on the others.
ReadProcesses ==
    /\ At("procs", 1)
    /\ Report(audit_process_envs(world.procs.env, world.procs.denied))
    /\ Done
    /\ UNCHANGED <<machine, held, subjects, verdict>>

FindLog ==
    /\ At("log", 1)
    /\ IF world.log.present
       THEN LookNext(2) /\ UNCHANGED servers
       ELSE Done /\ Report(Surfaced(<<"telemetry">>, FALSE, check_telemetry(FALSE, FALSE, {}, now)))
    /\ UNCHANGED <<machine, held, subjects, verdict>>

\* A log rotated away between the looks is there, without mode or time.
LogFacts ==
    /\ At("log", 2)
    /\ LET log  == world.log
           mtime == IF log.present THEN {log.mtime} ELSE {}
       IN  Report(Surfaced(<<"telemetry">>, FALSE,
                           check_telemetry(TRUE, log.present /\ log.open, mtime, now)))
    /\ Done
    /\ UNCHANGED <<machine, held, subjects, verdict>>

FindManifest ==
    /\ At("manifest", 1)
    /\ IF There(world.manifest)
       THEN LookNext(2) /\ UNCHANGED servers
       ELSE Done /\ Report(NoBroker(subjects))
    /\ UNCHANGED <<machine, held, subjects, verdict>>

\* parse_broker_manifest of a text that could be read is a manifest.
Usable(file) == Readable(file) /\ file.status # "malformed"

ReadManifest ==
    /\ At("manifest", 2)
    /\ LET file == world.manifest
       IN  \/ /\ ~Usable(file)
              /\ Report(ParseError(subjects))
              /\ Done
              /\ UNCHANGED held
           \/ /\ Usable(file) /\ Checkable(file.m) = {}
              /\ Report(audit_broker(subjects, file.m, "none"))
              /\ Done
              /\ UNCHANGED held
           \/ /\ Usable(file) /\ Checkable(file.m) # {}
              /\ held' = [held EXCEPT !.manifest = file]
              /\ LookNext(3)
              /\ UNCHANGED servers
    /\ UNCHANGED <<machine, subjects, verdict>>

\* A chain the bounded reader declines, one too long included, is unreadable.
ChainReadable(chain) == Readable(chain) /\ Len(chain.lines) <= ChainCap

ChainReason(chain, evidence) ==
    IF ChainReadable(chain) THEN verify_chain_tip(chain.lines, evidence) ELSE "chain_unreadable"

ReadChain ==
    /\ At("manifest", 3)
    /\ LET m == held.manifest.m
       IN  \E e \in Checkable(m) :
               /\ Report(audit_broker(subjects, m, ChainReason(world.chain, e)))
               /\ held' = [held EXCEPT !.reason = ChainReason(world.chain, e)]
    /\ Done
    /\ UNCHANGED <<machine, subjects, verdict>>

\* enumerate_listening, then the report: joins first, then the grades.
Assemble ==
    /\ At("sockets", 1)
    /\ LET shown == UNION {Surfaced(<<"socket", s>>, world.sockets.partial,
                                    check_socket_exposure(s, Loopback)) : s \in world.sockets.open}
       IN  servers' = assemble_report(servers \union shown)
    /\ grade' = worst_grade({grade_server(s.findings, s.incomplete) : s \in servers'})
    /\ Done
    /\ UNCHANGED <<machine, held, subjects, ledger, applied, shielded, exit, alerts>>

\* An unreadable or malformed ledger, or entry, is warned about and skipped.
ReadLedger ==
    /\ At("ledger", 1)
    /\ ledger' = IF world.accept.status = "ok" THEN {e \in world.accept.entries : e.whole} ELSE {}
    /\ Done
    /\ UNCHANGED <<machine, held, found, grade, applied, shielded, exit, alerts>>

\* The day is read now, after the ledger; grades stand.
ApplyLedger ==
    /\ At("apply", 1)
    /\ applied' = world.day
    /\ shielded' = apply_acceptances(servers, ledger, world.day)
    /\ Done
    /\ UNCHANGED <<machine, held, found, grade, ledger, exit, alerts>>

\* A report that cannot be printed or written, or a fix that fails, ends the command before
\* its gate and alerts.
WriteReports ==
    /\ At("write", 1)
    /\ \/ Done /\ UNCHANGED exit
       \/ Crash
    /\ UNCHANGED <<machine, held, found, grade, ledger, applied, shielded, alerts>>

Blocking ==
    UNION {{<<s.id, f>> : f \in {g \in s.findings : g.severity \in blocking(scene.failOn)}} :
              s \in servers}

exit_code == IF Blocking \subseteq shielded THEN "pass" ELSE "fail"

\* The gate, for a command with sinks before its alerts, for another at its end.
Gate ==
    /\ At("gate", 1)
    /\ IF scene.sinks = {}
       THEN exit' = exit_code /\ todo' = <<>> /\ UNCHANGED look
       ELSE Done /\ UNCHANGED exit
    /\ UNCHANGED <<machine, held, found, grade, ledger, applied, shielded, alerts>>

\* build_emit_payload.
Payload(sink) ==
    [sink |-> sink, gate_failed |-> exit_code = "fail", grade |-> grade,
     findings |-> UNION {s.findings : s \in servers}]

\* The order of the sinks, and those that may raise what they do not catch: a line that is
\* no UTF-8 (ndjson), an HTTPException or a URL that urlsplit refuses (webhook).
SinkOrder == [ndjson |-> 1, webhook |-> 2, syslog |-> 3]
Raising == {"ndjson", "webhook"}

\* The sinks called by the time this one returns or raises.
Reached(last) == {s \in scene.sinks : SinkOrder[s] <= SinkOrder[last]}

\* A sink takes the payload or fails with a warning, and the next one is called. One that
\* raises, its alert sent or not, ends the command.
EmitAlerts ==
    /\ At("alert", 1)
    /\ \/ /\ exit' = exit_code /\ todo' = <<>> /\ UNCHANGED look
          /\ \E told \in SUBSET scene.sinks : alerts' = {Payload(s) : s \in told}
       \/ /\ Crash
          /\ \E last \in scene.sinks \cap Raising : \E told \in SUBSET Reached(last) :
                alerts' = {Payload(s) : s \in told}
    /\ UNCHANGED <<machine, held, found, grade, ledger, applied, shielded>>

Ended == exit # "running" /\ UNCHANGED vars

Step ==
    \/ \E f \in ConfigFile : ReadConfig(f)
    \/ \E f \in ConfigFile \union {"dotenv"} : LookAgain(f)
    \/ ReadDotenv \/ DotenvMode \/ DotenvTracked
    \/ FindStore \/ StoreMode \/ ReadStore
    \/ LookRaises
    \/ ReadProcesses
    \/ FindLog \/ LogFacts
    \/ FindManifest \/ ReadManifest \/ ReadChain
    \/ Assemble
    \/ ReadLedger \/ ApplyLedger
    \/ WriteReports \/ Gate \/ EmitAlerts

Edit == Change \/ BrokerAppends \/ BrokerRefreshes

Next == Step \/ Edit \/ Ended

Spec == Init /\ [][Next]_vars

-----------------------------------------------------------------------------
(* What is true of the machine at one instant.                             *)

\* The configs a scan of this instant would read, those that refuse included.
Legible(w) == {f \in ConfigFile : w[f].status \in {"ok", "refused"}}

DeclaredIn(w) ==
    UNION {{[id |-> <<"declared", f, n>>, decl |-> w[f].servers[n]] : n \in DOMAIN w[f].servers} :
              f \in Legible(w)}

OfConfigs(w) == UNION {audit_config(f, w[f]) : f \in Legible(w)}

OfDotenv(w) ==
    IF There(w.dotenv) THEN {audit_env_file(w.dotenv.secrets, w.dotenv_open, w.dotenv_tracked)} ELSE {}

OfStore(day, w) ==
    IF There(w.store)
    THEN Surfaced(<<"store">>, FALSE,
                  check_token_store(w.store_open, IF w.store.status = "ok" THEN w.store.exp ELSE {}, day))
    ELSE {}

OfLog(day, w) ==
    Surfaced(<<"telemetry">>, FALSE, check_telemetry(w.log.present, w.log.open, {w.log.mtime}, day))

OfBroker(w) ==
    LET m == w.manifest
    IN  IF m.status # "ok" THEN NoBroker(DeclaredIn(w))
        ELSE IF Checkable(m.m) = {} THEN audit_broker(DeclaredIn(w), m.m, "none")
        ELSE UNION {audit_broker(DeclaredIn(w), m.m, ChainReason(w.chain, e)) : e \in Checkable(m.m)}

OfSockets(w) ==
    UNION {Surfaced(<<"socket", l>>, w.sockets.partial, check_socket_exposure(l, Loopback)) :
              l \in w.sockets.open}

\* The servers a scan would report that took no time and that no config and no
\* .env file refused.
Instant(inspect, day, w) ==
    OfConfigs(w) \union OfDotenv(w) \union OfSockets(w)
        \union (IF "token_stores" \in inspect THEN OfStore(day, w) ELSE {})
        \union (IF "process_env" \in inspect THEN audit_process_envs(w.procs.env, w.procs.denied) ELSE {})
        \union (IF "telemetry" \in inspect THEN OfLog(day, w) ELSE {})
        \union (IF "broker" \in inspect THEN OfBroker(w) ELSE {})

Pairs(reported) == UNION {{<<s.id, f>> : f \in s.findings} : s \in reported}

Risks(w) == Pairs(Instant(scene.inspect, now, w))

\* The rules that relate servers of both configs, the manifest and the chain, and the
\* machine as looks at these four may find it, one after another.
Joined == {"BROKER_MANIFEST_UNVERIFIED", "BROKER_EVIDENCE_MISMATCH"}

Glimpse(i, j, k, l) ==
    [past[i] EXCEPT !.project = past[j].project, !.manifest = past[k].manifest,
                    !.chain = past[l].chain]

\* The risks that held at every instant of the command so far; one that relates
\* several surfaces, however they are taken from instants in the order of the looks.
Standing ==
    {r \in Risks(past[1]) :
        /\ \A i \in DOMAIN past : r \in Risks(past[i])
        /\ r[2].id \in Joined =>
              \A l \in DOMAIN past : \A k \in 1..l : \A j \in 1..k : \A i \in 1..j :
                  r \in Risks(Glimpse(i, j, k, l))}

\* The report says that what this risk is about was not inspected.
Unseen(r) ==
    \E s \in servers :
        /\ s.id[1] = "config" /\ s.incomplete
        /\ \/ s.id[2] \in Range(r[1]) \union Range(r[2].at)
           \/ r[2].id = "BROKER_MANIFEST_UNVERIFIED"

\* The machine put together from surfaces of v and others, seen later, of w.
Mixed(v, w, later) == [x \in DOMAIN v |-> IF x \in later THEN w[x] ELSE v[x]]

\* The surface a joined rule sees last.
Later ==
    [CRED_PERMS |-> {"dotenv_open"}, CRED_GIT |-> {"dotenv_tracked"},
     BROKER_ABSENT |-> {"manifest"}, BROKER_MANIFEST_UNVERIFIED |-> {"manifest"},
     BROKER_EVIDENCE_MISMATCH |-> {"chain"}]

\* The machine as it was, v and later w, bears the finding out.
Bears(inspect, day, v, w, id, f) ==
    CASE f.id = "CONFIG_UNREADABLE" ->
           \/ v[id[2]].status = "malformed"
           \/ v[id[2]].status \in {"absent", "refused"} /\ There(w[id[2]])
      [] f.id = "BROKER_PARSE_ERROR" ->
           There(v.manifest) /\ w.manifest.status # "ok"
      [] f.id \in DOMAIN Later -> <<id, f>> \in Pairs(Instant(inspect, day, Mixed(v, w, Later[f.id])))
      [] OTHER -> <<id, f>> \in Pairs(Instant(inspect, day, v))

\* Some instants do, in the order of the looks; reuse is of two servers reported.
Grounded(id, f) ==
    IF f.id = "CRED_REUSE"
    THEN \E s, t \in {u \in servers : \E g \in u.findings : g.secret = f.secret} : s # t
    ELSE \E j \in DOMAIN past : \E i \in 1..j : Bears(scene.inspect, now, past[i], past[j], id, f)

\* The evidence in the manifest is the last record of the chain, whole.
Bound(w) ==
    \E e \in w.manifest.m.evidence :
        /\ w.chain.lines # <<>>
        /\ w.chain.lines[Len(w.chain.lines)] = [id |-> e.tip, hash |-> e.hash]

\* Entry e names this finding of this server, and may.
Owns(e, id, f) ==
    /\ e.whole /\ e.finding = f.id /\ f.dimension = "tool_scope"
    /\ \/ e.server = id
       \/ id[1] = "declared" /\ \E n \in Endings[id[3]] : e.server = <<"#", n>>
       \/ id[1] = "permissions" /\ e.server = <<"#", "permissions">>

EntriesAt(i) == IF past[i].accept.status = "ok" THEN past[i].accept.entries ELSE {}

-----------------------------------------------------------------------------
(* Properties.                                                             *)

Looks == [user |-> 2, project |-> 2, dotenv |-> 4, store |-> 3, log |-> 2, manifest |-> 3]

\* Type invariant, with what relates the parts: the history is the machine's, a
\* surface is left by its last look only, the day of the ledger is a day of the
\* command, what the ledger shields is in the report.
TypeOK ==
    /\ edits \in 0..MaxEdits /\ Len(past) = edits + 1 /\ world = past[Len(past)]
    /\ IsSuffix(todo, Plan(scene.inspect))
    /\ look \in 1..4
    /\ todo # <<>> => look \in 1..(IF Head(todo) \in DOMAIN Looks THEN Looks[Head(todo)] ELSE 1)
    /\ \A s \in servers : s.incomplete \in BOOLEAN /\ \A f \in s.findings : f.id \in DOMAIN Rule
    /\ grade \in Grade \union {"none"}
    /\ applied \in {-1} \union {past[i].day : i \in DOMAIN past}
    /\ shielded \subseteq Pairs(servers)
    /\ exit \in {"running", "pass", "fail", "crash"}
    /\ \A a \in alerts : a.sink \in scene.sinks

Assembled == grade # "none"

\* A risk that was there from the first look to the report is in the report, or
\* the report says its surface was not inspected, whatever else changed and
\* whichever look was refused; and the grade is no better than those risks, or a
\* surface left uninspected, deserve.  Two servers that held one credential
\* throughout are both told so.
StandingRiskReported ==
    Assembled =>
        /\ \A r \in Standing : r \in Pairs(servers) \/ Unseen(r)
        /\ \A r \in Standing :
              GradeRank[grade] >=
                  GradeRank[IF r \in Pairs(servers)
                            THEN grade_server({q[2] : q \in {x \in Standing : x[1] = r[1]
                                                                /\ x \in Pairs(servers)}}, FALSE)
                            ELSE "C"]
        /\ \A q, r \in Standing :
              /\ q[1] # r[1] /\ q[2].secret = r[2].secret /\ q[2].secret # NoSecret
              /\ {q, r} \subseteq Pairs(servers)
              => \E p \in Pairs(servers) : p[1] = q[1] /\ p[2].id = "CRED_REUSE"
                                           /\ p[2].secret = q[2].secret

\* Every finding in the report was true of the machine during the command; one
\* that joins several looks, of the surfaces as they were at instants in the
\* order of the looks.
NothingInvented == Assembled => \A r \in Pairs(servers) : Grounded(r[1], r[2])

\* A broker's evidence that passes was borne out by the chain at an instant when
\* that manifest was in place, although the two files are read one after the
\* other while the broker appends and refreshes.
CleanWasBound ==
    Assembled /\ held.manifest.status = "ok" /\ held.reason = "none"
        => \E i \in DOMAIN past : past[i].manifest = held.manifest /\ Bound(past[i])

\* A gate that passes has an owner for every finding at or above the threshold:
\* an entry that stood in the ledger during the command and had not lapsed on
\* the day it was applied; never for a credential, exposure or pinning finding.
\* No alert tells another verdict than the exit code, unless the command crashed.
VerdictIsOwned ==
    /\ exit = "pass" =>
          \A r \in Pairs(servers) :
              weight[r[2].severity] >= weight[scene.failOn] =>
                  \E i \in DOMAIN past : \E e \in EntriesAt(i) :
                      Owns(e, r[1], r[2]) /\ applied <= e.expires
    /\ exit # "crash" => \A a \in alerts : a.gate_failed <=> exit = "fail"

\* A gate that fails has a finding that nobody owned from the first day of the
\* command to the last: a lapsed entry does not hide the renewal beside it, and
\* the day may turn while the command runs.
OwnedRiskPasses ==
    exit = "fail" =>
        \E r \in Pairs(servers) :
            /\ weight[r[2].severity] >= weight[scene.failOn]
            /\ ~\E e \in EntriesAt(1) :
                   /\ Owns(e, r[1], r[2])
                   /\ \A i \in DOMAIN past : e \in EntriesAt(i) /\ past[i].day <= e.expires

-----------------------------------------------------------------------------
(* What the documentation says and the code does not do.                   *)

\* emit.py: "Each sink swallows its own failure (warns to stderr, never raises), so a broken
\* alert channel can never crash the scan it is reporting on."
SinksNeverCrash == [][At("alert", 1) /\ exit' # exit => exit' = exit_code]_vars
=============================================================================
