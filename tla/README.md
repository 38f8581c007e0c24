# TLA+ models of mcpscan

`mcpscan` (package `src/mcpscan`, the repository IANUA-Broker) audits a machine's
AI-agent configuration: it reads host configs, sockets, processes, token stores and
broker evidence, grades what it finds, and compares scans over time. Most of it is
sequential, read-only Python. The parts kept here are those where it writes, waits,
sends packets, or runs beside another process, and where a wrong order of steps would
make a report say something false, and the two places where much is computed from little: the
joins and verdict of a scan, and the search of the attack-path graph. Paths below are relative to the repository.

## 1. Inventory

| Component | State it keeps | Operations | Hard behaviour | What makes it correct |
|---|---|---|---|---|
| **LAN assessment** `lan/*`, `cli._run_lan` | one run: gate passed, resolved hosts, loop position, connection counter, results, exposed servers | `load_manifest`, `is_expired`, `verify_manifest`, `resolve_scope`, dry run, probe loop, `build_audit_record` | abort thrown by another thread, deadline and cooldowns, budgets at their limits, an expiry that passes during the run, a peer that drags out its answer, a range too long to list | no packet before every gate; none outside the authorization; ceilings kept; the report complete or cut short for a reason; audit and report agree |
| **Fixer** `fix.py`, `cli._apply_fixes`, `io_safe.py` | on disk: config, `.mcpscan.bak`, `.mcpscan.tmp`, permission bits | discover, read, plan, `copy2`, write tmp, `os.replace`, cleanup | two commands at once, a user who saves meanwhile, failing calls, kills, re-runs | never a torn config; only unsafe grants go, and all of those it looks at; the last save recoverable |
| **Data-pack channel** `datapack.py`, `cli._run_update_datapack`, `engine._active_secret_and_agent_catalogs`, `report/writer.py` | published pack and signature, local store and its bits | verify, install, two permission looks, load or fall back | publisher replaces two files one at a time, kill inside a write, drifting bits, two looks at one file | only signed packs installed; an installed pack is used; a refused store is reported; a scan ends |
| **Live capture** `discovery/live_tools.py`, `discovery/stdio_sandbox.py` | session ids and cursor, queue of lines, tools kept, truncation mark, child process | handshake, paginated `tools/list`, pump thread, terminate | hostile or slow child, late answers, full queue and pipe, deadline, Ctrl-C | the mark tells whole from cut; the answers are taken in the order of the requests; the call returns |
| **Drift** `drift/*`, `cli._run_diff`, `_run_baseline` | the baseline file | snapshot, sign, load, diff, ledger waiver, staleness | facts collapse by key; a scan that saw nothing; several changes in one scan | a worsening is a regression; lost visibility never reads as an improvement |
| **Acceptance and gate** `acceptance.py`, `cli._exit_code` | the ledger | parse, match, expire, gate | day boundaries; renewals beside lapsed entries | only unexpired tool-scope acceptances shield; grades are unaffected |
| **Engine and scoring** `engine.py`, `scoring.py` | none | collectors, grades, the shared-credential join | a machine that changes between the looks, surfaces looked at twice, a collector that fails as a whole | what stood during the whole scan is in the report or marked uninspected; incomplete inspection never grades above C |
| **Broker posture** `checks/broker.py`, `engine._audit_broker` | reads manifest, evidence, chain | parse, verify tip | the broker appends between two reads | what passes was bound; a mismatch was one |
| **Attack-path graph** `graph/*` | none | collect, build, bounded enumeration, rank | ceilings on paths and hops | nothing left out without the truncation mark; the worst chains survive the caps |
| **Trust profiles** `trust/*` | none | per-server factors, shared credentials | joins by fingerprint over distinct servers | judges the servers as the graph does |
| **Alert sinks** `emit.py` | an append-only log | ndjson, webhook, syslog | failures swallowed, but for a few that are not | an alert tells the verdict of the exit code, and a sink that warns never changes it |
| **Static checks** `checks/*` | none | which finding, where, how severe | each is one look; the joins are the engine's | no rule fires on what was not so |
| **Inventory** `inventory/*` | none | classify and collapse listeners, list what configs declare | one row stands for several | the graph's entries are its listeners |
| **Adapters**, **discovery** | none | bounded reads, parsing, thin OS reads | a file that goes or comes between two looks | there but not read is told from absent |
| **Reports**, **schedule**, **self-test**, **atlas**, **enrichment** | none | formatting, tables, one lookup per package | - | unit-test territory |

Interactions. `cli.main` calls one command and exits. `scan` asks the data-pack channel
for its catalogs, runs the collectors (live capture among them), grades, applies the
ledger, writes reports through `write_report`, and only then, with `--fix`, the fixer;
the gate's exit code is that of the report made before the fix. `diff` runs a scan and
compares it with the baseline file. `lan` shares grading and rendering with `scan` but
none of its collectors. Components never call back into each other; they meet on disk:
the data-pack store (update / scan), the configs (fix / users / hosts / scan), the
baseline and ledger files (users / diff / scan), the broker's chain (broker / scan).
There are two sources of concurrency inside a process, the pump thread of live capture
and the abort callback of a LAN run; everything else that runs at once is another process.

`PROJECT.json` lists every component with its status, and the hazards with the lines at
which they bite.

## 2. Plan

Order, the most consequential behaviour first:

1. `LanRun` with the abstract `LanAuthority`: the only code that sends packets to other
   machines. *Done; safety and refinement proved.*
2. `FixApply`: the only code that edits the user's files. *Done; safety and action
   properties proved.*
3. `DatapackStore`: the file that decides what every scan detects. *Done; safety proved.*
4. `StdioCapture`: the one client/thread/child protocol. *Done; safety proved.*
5. `PostureDiff` and `Drift`: what a scan and a comparison make of a machine, and the
   baseline and diff commands over a machine that changes. *Done; safety proved.*
6. `ScanRun` over `BrokerPosture`, `StaticChecks` and `Scoring`: a whole scan, from its
   first look to its exit code and alerts, while configs, broker, ledger and day move on.
   *Done; type correctness, the gate and the grounding of the report proved.*
7. `AttackPaths` over `TrustGraph` and `Scoring`: the bounded search against the set of
   simple paths. *Done; all its safety properties proved.*
8. Proofs of what is left of `ScanRun`: `StandingRiskReported`, with an invariant that names
   for each surface the instants at which it was looked at and what the report has of them, and
   `CleanWasBound` for a broker that alone writes its chain. *Done.*

Composition: commands meet only on disk, and each module models the other parties of its
files itself (users and hosts in `FixApply` and `ScanRun`, scans and publisher in
`DatapackStore`, the broker in `ScanRun`). Inside a command the modules compose:
`ScanRun` runs its looks over the operators of `BrokerPosture`, which extends
`StaticChecks`, which extends `Scoring`; `AttackPaths` searches the graph that `TrustGraph`
builds from the same `Scoring`; `Drift` runs its two commands over `PostureDiff`; `LanRun`
instantiates `LanAuthority` for refinement.

## 3. Modules

| Module | Role |
|---|---|
| `LanAuthority` | what a LAN run promises: permitted endpoints, a ceiling, a decision, packets |
| `LanRun` | `run_lan` step by step |
| `MCLanRun` | a network of three hosts, five targets, thirteen manifests |
| `LanRunProofs` | theorems about `LanRun`, proved by TLAPS |
| `FixApply`, `MCFixApply` | `--fix` on a shared disk |
| `FixApplyProofs` | theorems about `FixApply` |
| `DatapackStore`, `MCDatapackStore` | update-datapack, the store, and the scans |
| `DatapackStoreProofs` | theorems about `DatapackStore` |
| `StdioCapture`, `MCStdioCapture` | the capture of a manifest over stdio |
| `StdioCaptureProofs` | theorems about `StdioCapture` |
| `PostureDiff` | pure operators: the facts of a scan, the comparison of two, lockfile pins, waivers |
| `Drift`, `MCDrift` | the baseline and diff commands over a machine that changes |
| `DriftProofs` | theorems about `PostureDiff` and `Drift` |
| `Scoring` | pure operators: weights, letters, the cap for incomplete inspection, thresholds |
| `TrustGraph` | pure operators: trust profiles, the inventory's listeners, the graph's nodes and edges |
| `AttackPaths`, `MCAttackPaths` | the search for attack chains, and its report |
| `AttackPathsProofs` | theorems about `AttackPaths` and the graph of `TrustGraph` |
| `StaticChecks` | pure operators: rules, the checks of each surface, reuse, acceptances |
| `BrokerPosture` | pure operators: the broker's manifest, chain tip and findings |
| `ScanRun`, `MCScanRun` | the scan command over a machine that changes |
| `ScanRunProofs` | theorems about `ScanRun`: types, the gate, the alerts |
| `ScanReportProofs` | theorems about its report: it invents nothing and leaves nothing out, and clean evidence was bound |

Definitions named `...OffByOne`, `...Unflushed` and the like beside an action are
wrong variants of it: each one breaks one property, which shows that the property says
something about the code. `PROJECT.json` pairs them ("mutants"). No specification uses them.

### 3.1 LanRun

`phase` is the program counter of `run_lan`: five gates (`ParseManifest`, `CheckExpiry`,
`VerifySignature`, `ResolveScope`, `Plan`), then a loop of `CheckLimits`, `Probe` and
`Cooldown`. Two phases may last for ever: `stalled`, a probe whose peer keeps sending
(`Trickle`; each receive has a timeout, the answer has none) until it ends (`Relent`), and
`listing`, a range whose addresses are all listed before they are counted (`ListHosts`; the
`Endless` targets). `hosts`, `connections`, `results` and `servers` are the code's variables;
`h`, `p` the position in the two `for` loops; `clock` the time since the caller's `now`,
moved by whatever takes time. `wire`, `late` and `stall` (what the last peer cost beyond
a probe) are history. A target is an opaque name
with the hosts `ip_network` would give it, and three facts the code asks of it (refused
by the parser, exact, private). The order of `scope.hosts` is left open, so every result
holds for the code's. `RaiseAbort` stands for `should_abort`, `Interrupt` for a
`KeyboardInterrupt` or a kill.

`LanAuthority` knows nothing of gates: a `permitted` set and a `ceiling` are fixed, a
`decision` goes from pending to granted to over, and a packet goes to a permitted
endpoint while granted. The refinement mapping gives `permitted` from the documents'
words (listed, private or covered by policy, exact for an agent; nothing at all for an
unsigned, expired, malformed or dry run) and not from the code's predicates.

### 3.2 FixApply

The disk is `config`, `mode`, `backup`, `tmp` and `tmpMode`; a fixer has a program
counter and a path index, the text `copy2` is reading, its plan and its open descriptor.
Steps are split wherever another process can see the difference: `CopyOpen`/`CopyDone`
(truncation and end of the backup), `OpenTmp`, `Write`, `Replace`, `Cleanup`. A document is
its lists of grants, of which the fixer looks at some, `Reached` (`permissions.allow` and
`mcpServers`), and a scan grades all. `Raise` is an exception, after which the temporary
file has been removed or, when that fails as well, has not. A
descriptor follows its file through a rename (`Relinked`), which is how a second command
comes to write the config itself. `Edit` is a save by rename at any time. `raced` and
`stirred` are history: they say which files two parties were at, and the properties for
a lone command are conditional on them.

### 3.3 DatapackStore

`packFile`/`sigFile` are what the publisher offers, `store`/`loose` the installed file
and whether others may write it. An installer reads the pack once and keeps the bytes
(`held`), verifies them against the signature file as it is then, truncates the store,
writes, and sets the bits. A scan looks at the bits for the finding, again for the
refusal, and then reads. Text is one of: a pack (signed or not), malformed, undecodable;
a cut file is one of the last two. `expected`, `foreign`, `contested`, `installed` and
`moved` are history, each stating in the comment beside it when a promise is in force.

### 3.4 StdioCapture

Client, pump thread, child and clock. `lines` is the bounded `queue.Queue`, `output` the
child's stdout pipe; the child's lines are noise, overlong, wrong (bad JSON, an error, no
tools) or a page that answers some request, sent or still to come. `doing` and `pc` are
where `run_capture` is; `tools`, `malformed`, `truncated`, `listed_once`, `cursor` and
`next_id` are its variables, with tools counted and not kept. A page's entries are tools,
malformed, or tools whose text has a lone surrogate: encoding those for their digest raises
what `run_capture` does not catch (`GetRaises`). The way out is `CloseInput`, `Grace` (two
waits with a kill between them) and `Remove` (`rm -f` of the container): each of the last
two may leave the child, and `InterruptCleanup`, a Ctrl-C in one of these waits, skips the
rest. `taken` is history, the ids of the answers taken. A child that no longer reads blocks only a request that carries
a cursor in `Huge`: all others fit the pipe.

### 3.5 PostureDiff and Drift

`World` is the machine: what each live server advertises, what the config declares (a
launch and, per rule, the findings its checks raise), who listens beyond loopback. A scan
is given by what it *loses*: a capture that fails or is cut, a config that cannot be read,
a socket whose row or owner the enumeration does not show. `Snapshot(world, lost, live)`
is then `build_snapshot` of its report, a function from fact keys to details; `Diff`,
`Aligned`, `PinnedTools` and the directions follow `drift/diff.py` function by function,
`ImportLock` adds the pins of an mcpseal lockfile, and `AsWritten` is what an earlier
release would have written, since the comparison has rules for baselines that lack
entries. A digest stands for a whole definition; `Seal` maps it to mcpseal's, which covers
less, so two definitions may share one. `Identity` maps a launch to its `tool_identity`, which
sorts arguments and approvals first, so two launches may share one too.

`Drift` gives these operators a life: the machine changes, the baseline command scans,
truncates and writes (and may be killed in between), a named human accepts a definition
until a day, days go by, and the gate (`diff --fail-on-regression --fail-on-stale`) reads
the file, scans, applies the ledger and ends with 0, 1 or 2. A baseline is told by the
scan it was made from (`Facts` gives its content), so that a property can speak of the
machine behind it: `GreenMeansVouched` compares what the servers advertise at the diff
with what the baseline's author, a lockfile or an acceptance vouched for, not two files
with each other. A scan is one step: its parts read disjoint parts of the machine, and
each fact depends on one of them. The step of the verdict includes the scan, for nothing
between the two matters but the ledger and the day, which may move before it as well.

### 3.6 Scoring, TrustGraph and AttackPaths

A `machine` is what `graph.collect` and `trust.collect` read: declarations (variables and
the credential each holds, argument tokens, bind values, approvals), the configs that
could not be read, and the listening sockets. `TrustGraph` follows `trust/analyze.py` and
`graph/build.py`: five factors, their named combinations, the join by credential, then
nodes and edges. A credential stands for its fingerprint; servers have distinct names
within a config. Host nodes that declare nothing, labels, summaries and rationales are
left out.

`AttackPaths` runs `_enumerate`: the recursion of `visit` is the variable `stack`, one
frame per node of the chain with the successors its loop has not come to, and a step is one
successor. A sorted list that the code goes through from its head is a set here, whose first
member in the order of the sort is taken next. A target closes the chain (`VisitTarget`), a node at the depth cap is
noted and passed (`VisitAtDepth`), any other is entered (`Descend`). `Finish` ranks, cuts
and grades; the stable sort is `Ranked`, which puts each chain where the number of those
before it says. The properties compare its report with `Chains`, which knows of no order, cap
or stack: all simple paths from an entry to a target with a pivot.

### 3.7 StaticChecks, BrokerPosture and ScanRun

`world` has one field per surface a scan looks at, and `past` all the states it has been
in since the command started. The command is a list of surfaces and stages, `todo`; `look`
says which of the looks at the first of them comes next and `held` what the earlier looks
returned, because the code looks more than once at some: a config whose read failed is
looked at again to tell absent from refused, a `.env` is read, then its mode, then its
git status; a token store is found, then its mode, then read; a log is found, then its
mode and time; the broker's manifest is found, read, and its chain read after that.
`Change` rewrites any of them between two looks, `BrokerAppends` in two steps (a reader
may see half a line) and `BrokerRefreshes` in one. The day is read at the start for ages
and again when acceptances are applied.

What a look returns becomes findings by the operators of `StaticChecks` and
`BrokerPosture`, one per function of `checks/`; a table per check (`SecretGrades` to
`BrokerGrades`, together `Rule`) gives each rule its dimension and severity. `Assemble` looks at the sockets, joins reuse over all servers and grades;
`ReadLedger`, `ApplyLedger`, `WriteReports`, `Gate` and `EmitAlerts` are the tail of
`_run_scan`. A ledger entry may name a server by what its id ends in after a `#`, so one for
`s1` shields `x#s1` as well: `Endings` says in which names a name ends. An exception that
nothing catches ends the command (`Crash`): a look at a file in a directory the user may not
search, a stored token nested too deep (`LookRaises`), a report that cannot be written or a
fix that fails (`WriteReports`), a sink that raises what it does not catch (`EmitAlerts`,
which calls the sinks in `SinkOrder`). Findings are sets: one rule at one place counts once. The catalogs are
fixed (`DatapackStore` has their choice), live targets are in `StdioCapture` and
`PostureDiff`; OSV lookups add findings of their own kind and are left out; what `--fix` does to the
configs after the report is `FixApply`, and here it only may fail. The enumerations of processes and of sockets
are one look each, as is the ledger's read after its existence check.

The properties are stated against the machine, not against the report: `Risks(w)` is what
a scan that took no time would report of the state `w`. A risk that held in every state
of `past` must be in the report or be covered by the mark of an unread config
(`Unseen`, `StandingRiskReported`); one that
relates several surfaces (`Joined`: a manifest to the servers of both configs, or to the
chain) must also hold when each surface is taken from a later instant than the one before
(`Glimpse`), for that is how any scan that takes time must see it. A server that a manifest
fronts and that moves from the project's config to the user's between the two looks is
seen in neither, though it was in one of them all along: no order of looks avoids that. A
finding must be borne out by states in the order of its looks (`NothingInvented`).

## 4. Runs

| Run | Result | Distinct states | What it shows |
|---|---|---|---|
| `lan` | passes | 156,404 | refinement of `LanAuthority`, complete-or-explained reports, prompt halt, bounded overstay, audit = report, termination unless a peer or a range holds it |
| `lan_expiry` | violation | - | probes are sent after `expires_at` |
| `fix` | passes | 128,276 | one command never tears a config or loses the last save; only unsafe grants go, and all of those the fixer looks at; ends |
| `fix_two_writers` | violation | - | two commands do tear a config |
| `datapack` | passes | 632,870 | only signed packs, used once installed; refusals reported; scans end |
| `datapack_torn` | violation | - | an undecodable store ends a scan with an uncaught error |
| `capture` | passes | 741,944 | the truncation mark is exact in both directions; answers are taken in the order of the requests; returns |
| `capture_write` | violation | - | a write to a child that stopped reading outlasts the deadline |
| `drift` | passes | 3,767,116 | a passing gate has passed only what was vouched for; lost sight fails it; a machine that is unchanged or has less never does, whatever release wrote the baseline |
| `drift_blind` | violation | - | a listener the enumeration no longer shows is no regression |
| `graph` | passes | 185,322 | an unmarked report has every chain there is; the worst survive the caps; an exposed server that shares with one that can act fails the command; trust and graph agree |
| `scan` | passes | 234,002 | standing risks are reported or marked, nothing is invented, a clean broker was bound, a passing gate is owned, an owned finding passes, alerts tell the verdict of a command that did not crash |

`TypeOK` of every module is checked in its passing run, and deadlock in all of them: the
states in which a command has ended stutter by an action of their own (`Done`, `Idle`,
`Returned`, `Ended`) or, in `Drift`, start again (`Rerun`), so any other state without a successor is an error.

### The disagreements the violations show

- **Expiry** (`lan/runner.py:115`): the proposal's example (docs/proposals/LAN_SCANNING.md:61)
  says "probes after this instant are refused". The code decides once, with the caller's `now`.
- **Two fixers** (`fix.py:167`): the temporary file has one fixed name and is opened without
  `O_EXCL`, so "written atomically" (fix.py:161) is true of one command at a time only.
- **Undecodable store** (`datapack.py:465`): "can never crash a scan" (engine.py:682) fails
  for bytes that are not UTF-8, which no handler on the way up catches.
- **Blocking write** (`discovery/stdio_sandbox.py:179`): the "overall deadline"
  (stdio_sandbox.py:22) does not cover the write of a request.
- **Lost listener** (`drift/diff.py:221`): "the server is reported with an explicit
  `inspection_incomplete` flag" (docs/SPEC.md:90) fails for a socket whose row is missing:
  there is no server left to carry the flag, and the diff reads a removal and an improvement.

### Bounds, and why they are enough

- `lan`: three hosts and two ports give plans that fit and plans that break each ceiling
  alone. The ceilings stand to each other as the compiled ones do: connections below
  hosts times ports, the agent's hosts and connections below the human's. Manifests expire at `now`, during the
  run and after it. Each step takes 0 up to its longest time, so a deadline falls before,
  on and after every check. A port listed twice is included, and so is an endless range, alone
and behind what refuses the manifest first.
- `fix`: two fixers, two configs, two runs, one save, one failure or kill. A torn file takes
  two writers; a lost save takes one save and one kill or two runs; more of any repeats these.
  `q2` is unreadable so that the loop's `continue` is taken.
- `datapack`: two installs (concurrent or in turn), one scan, one publication, one drift,
  one fault. The publisher's two files need one publication to disagree; the scan's two
  looks one drift.
- `capture`: two pages and two tools put every cap at its boundary; a queue of two and a
  pipe of one fill; three lines are an answer to the handshake, a page, and one more,
  repeated, late or wrong. A page that holds more than `MAX_TOOLS`, a bad cursor, a
  repeated cursor, a malformed entry and one with a lone surrogate are all among the pages.

- `drift`: one live server with one tool that may have three definitions (two share a seal,
  one is flagged by the checks) or none, one declared server with three launches, two of one
  identity, and up to two
  findings of a rule, one listener. Facts of different servers do not meet in the comparison,
  so one of each kind is enough; an unnamed target is added in `drift_blind`. Two changes
  put one before and one after the baseline or the acceptance, or a change and its undoing;
  each scan loses at most one thing; two days are enough for an acceptance or a baseline to
  lapse, also between the start of a diff and its verdict.

- `graph`: up to three servers over two credentials and four variable names, in three
  families: every way to expose, arm and share; names and grants of every kind; listeners
  and unreadable configs. A pivot through a shared credential needs two servers, a detour
  around it a third. Four hops are the shortest chain through a shared credential, so
  `MaxHops = 4` keeps some chains and cuts longer ones; two chains kept and five explored
  are each exceeded by some machines and not by others. The compiled caps (6, 50, 1000)
  differ in size only: each is compared with a count.
- `scan`: families of small machines, each with the one or two changes that concern its
  surfaces, in any order and up to four of them with the broker's: credentials moving
  between two configs and `.env`; a broker at work (chains of up to three lines, a reader
  that holds two, so the cap on the read bites); a broker's files touched by others; a
  ledger edited while the day turns; the surfaces looked at on request; a server that a manifest fronts moving between the
  configs. Two changes suffice to put
  one before and one after a look, or to undo a change; surfaces of different families
  meet only in the join over servers, which the first family has.

Every bound is a named constant (`MaxRuns`, `MaxEdits`, `MaxFaults`, `MaxInstalls`,
`MaxScans`, `MaxPublishes`, `MaxDrifts`, `MaxLosses`, `MaxChanges`, `MaxBaselines`, `MaxAcceptances`, `MaxDay`, `MaxFlaws`, `MaxLines`,
`QueueMax`, `PipeMax`, `MaxHops`, `MaxPaths`, `Ceiling`, `ChainCap`, `MaxRecords`).

### Fairness

- `LanRun`: weak fairness of the runner. `run_lan` is straight-line code and its waits
  (signature tool, connect, one receive, sleep) have timeouts. The abort and the interrupt get
  none, nor does a peer that trickles its answer (`Relent`), and the listing of an endless
  range has no end to be fair to: `Termination` says that a run ends or stays at one of these
  two (`Held`), and no other step may hold it.
- `FixApply`: weak fairness of each started command; none of starting one, saving a file,
  failing or killing.
- `DatapackStore`: weak fairness of each started installer and scan; none of the
  publisher, the drift, faults, or starting.
- `Drift`, `AttackPaths`, `ScanRun`: none; their properties are all of safety.
- `StdioCapture`: weak fairness of the client, of the pump, and of the clock reaching the
  deadline. The child owes nothing: it may never write, read or exit.

## 5. What is proved

Eight modules, checked by TLAPS to the last leaf: the theorems hold for every value of the
constants that the named assumptions allow, not for the instances of section 4 alone. Each
module follows one plan: `IInv`, an inductive strengthening of the type invariant and the
properties; `Initialization`; one lemma per action (`...Step`, `...Known`,
`...Keeps`) that `IInv` is kept; `Invariance` by one `QED` over `Next`; then each property from `IInv`. TLC
checked every `IInv` on the instances of section 4 before it was proved, and `Known`, `Watching`
and `Verifying` of section 5.6 on all 234,002 states of `scan`; that of `AttackPaths`,
which asks for all chains of a graph in every state, on part of its run's machines (25,523
states: names and grants, listeners, and some of those with three servers). Every safety
property of a passing run is stated by a theorem below, `CleanWasBound` for scenes in which
the chain is the broker's own.

| Theorem | States | Module |
|---|---|---|
| `TypeCorrect` | `[]TypeOK`, in each of the seven | all but `ScanReportProofs` |
| `NeverCutShortByBudget` | `[]OnlyAbortOrDeadlineCutsShort` | `LanRunProofs` |
| `PromptHalt`, `RuntimeCeiling` | `[]AbortStopsWithinOneProbe`, `[]RuntimeBounded` | `LanRunProofs` |
| `AuditIsExact` | `[]ReportMatchesAudit` | `LanRunProofs` |
| `Refinement` | `ImplementsAuthority` | `LanRunProofs` |
| `ConfigStaysWhole` | `[]NeverTornAlone` | `FixApplyProofs` |
| `FixIsReversible` | `[]LastSaveRecoverable` | `FixApplyProofs` |
| `FixIsComplete`, `FixOnlyPrunes` | `[]NoGrantLeft`, `OnlyPrunes` | `FixApplyProofs` |
| `VerifyOrRefuse` | `[]OnlySignedStored` | `DatapackStoreProofs` |
| `InstalledIsUsed` | `[]InstalledPackIsUsed` | `DatapackStoreProofs` |
| `RefusalIsReported` | `[]RejectionReported` | `DatapackStoreProofs` |
| `UnmarkedCaptureIsWhole`, `MarkedCaptureIsCut` | `[]UnmarkedIsWhole`, `[]MarkedIsCut` | `StdioCaptureProofs` |
| `AnswersStayInOrder` | `[]AnswersInOrder` | `StdioCaptureProofs` |
| `PassMeansVouched` | `[]GreenMeansVouched` | `DriftProofs` |
| `LossFailsTheGate` | `[]LostSightIsRed` | `DriftProofs` |
| `UpgradeIsQuiet` | `[]LessIsNeverRed` | `DriftProofs` |
| `GateIsOwned`, `OwnersPass` | `[]VerdictIsOwned`, `[]OwnedRiskPasses` | `ScanRunProofs` |
| `ReportIsGrounded` | `[]NothingInvented` | `ScanReportProofs` |
| `StandingRisksReported` | `[]StandingRiskReported` | `ScanReportProofs` |
| `CleanEvidenceWasBound` | `[](OwnChain(scene) => CleanWasBound)` | `ScanReportProofs` |
| `NothingLeftOut` | `[]CompleteUnlessTruncated` | `AttackPathsProofs` |
| `TheWorstAreKept` | `[]WorstSurvive` | `AttackPathsProofs` |
| `ExposedPivotFails` | `[]ExposedPivotIsCritical` | `AttackPathsProofs` |
| `TrustMatchesGraph` | `[]TrustAndGraphAgree` | `AttackPathsProofs` |

### 5.1 LanRun

From `LanAssumption`: the host set is finite, the constants have their types, a valid
manifest has a port and a target (`load_manifest` refuses any other). `TypeOK` and the
properties are not inductive: nothing in them says that a run in its
loop has passed the gates, or that the counter and the position agree. `IInv` adds

- `Passed`: what each phase may rely on. In particular that in the loop `~ScopeRefused`
  holds and `hosts` lists exactly the resolved hosts;
- `Position`: `Len(wire) = connections = (h-1) * Len(ports) + (p-1)` before a probe, one
  more after it;
- `Halting`: how the clock, the abort and the phase bound each other; a stalled probe was begun
  within the ceiling, and when it ends the clock is past it by `ProbeTime + stall` at most.

The central argument is `NeverCutShortByBudget`. A plan that passed `resolve_scope` has
hosts times ports within the budget (`PlanFits`, from the cardinality of the listing); by
`Position` the counter before a probe is below that product (`InsidePlan`); so the
budget's test in the loop is never true, and only the abort or the deadline can halt. The
refinement rests on `HereIsPermitted`: in the loop the endpoint at hand is one the
authorization covers, since each refusal of `resolve_scope` negated is a clause of
`CoveredHosts`. For `AuditIsExact` the invariant `Audit` says that every probe sent lies
behind the position of the loop, so that the next one is to a new endpoint and overwrites
nothing.

### 5.2 FixApply

From `FixAssumption` (the list of paths repeats none; the texts that are no documents are
none and differ) and `DocumentAssumption` (pruning a document gives a document: it is closed
under `Fixed`, as JSON with fewer list entries is JSON). The clauses of `IInv` are the
hand-over between two commands and a user:

- `Descriptors`: who writes has an open file, and writes the config itself only where
  another command's rename has moved its temporary file there;
- `Planned`: what is planned, and what any temporary file holds, is stable under the fix or
  torn. This makes a second run harmless: it finds nothing to fix;
- `Alone`: between copy and replace, on a file nobody else met, config, backup, plan and
  temporary file are related as in a sequential run;
- `CopyIsSafe` and `Recoverable`: a config that is not what the user last saved is stable, so
  no later run overwrites the backup that holds the last save;
- `PlanFits` and `PrunedBehind`: the plan is the fix of the config it will replace, and the
  paths behind a run have nothing left to fix in the lists the fixer looks at.

That pruning removes only unsafe entries, keeps order and is idempotent (`PruneIs`,
`FixedIsStable` and the lemmas before them) is proved about `Prune` itself, for lists of any length. For this the
model defines it by positions (the n-th safe entry) where `SelectSeq` would do.

### 5.3 DatapackStore

From `DatapackAssumption` (finitely many installers; the special texts differ from packs
and from each other). `LastOpener` says that while
the store is contested by nobody it holds what its one writer put there; `Installation`
that what counts as an undisturbed installation is what the store holds; `Expectation` and
`Reporting` carry these to a scan that has looked at the bits and not yet at the file.
What is verified is what is written because an installer keeps its bytes (`held`); that is
where `OnlySignedStored` comes from, with any number of installers.

### 5.4 StdioCapture

From `CaptureAssumption` (caps and bounds are numbers, cursors are not the two marks). The
invariant counts: `Numbered` ties the next id to the exchange the client is in,
so that an answer is to the last request; `Paired` that what was taken before is of smaller
ids, in their order; `Counted` says that while the loop goes on
`tools + malformed = listed`, so that an entry is missing only after a cut; `Marked` that the
mark of a capture that is over tells exactly this. `SeenBounds` proves of the loop over a
page that it stops early exactly when there is no room left.

### 5.5 PostureDiff and Drift

From `PostureAssumption` (the kinds of servers are disjoint, seals are a function of
definitions) and `DriftAssumption` (a lockfile pins a tool once). The state machine is
small, and `IInv` only says that a verdict was computed from the
baseline held and the machine scanned (`Judgement`) and that a baseline was made by one scan
(`Pedigree`). Of `Identity` nothing is assumed, so the theorem speaks of identities and of
nothing finer. The work is in the lemmas about the comparison: which keys and which facts a
snapshot has (`SnapshotKeys`, `SnapshotFacts`), what each earlier release would have
written of them (`WrittenKeys` to `BaselineFacts`), what an imported lockfile adds
(`ImportedFacts`), and, of a comparison without regressions, what must be so of tools,
launches, findings and sight (`ToolsVouched`, `LaunchVouched`, `FindingsVouched`,
`SightVouched`). `LessIsClean` is the converse: less of what the baseline had is no
regression, whatever release wrote it.

### 5.6 ScanRun

From `BoundsAssumption` and `SceneAssumption` (a machine has all its parts, an edit some of
them, days are numbers, what a look can find is finite, and a manifest names at most one piece
of evidence, as `parse_broker_manifest` makes it). `ScanRunProofs` has the state of the command:

- `Timeline`: the history is the machine's, and all of it is machines;
- `Agenda` and `Looking`: what is left is an end of the plan, so the number of stages left
  says which they are (`AtIs`);
- `Reported`: every finding is graded by its rule;
- `Staged` and `Verdicts`: what each stage has left behind. The ledger applied is one that
  stood at an instant of the command, the day is a day of it, what is shielded is what that
  ledger shields of these servers, and exit code and alerts tell one verdict unless the
  command crashed (`CrashStep`).

`ScanReportProofs` has three invariants on top of it. `Known`, for what a report says: the servers kept for the broker check were declared by a
config that was read (`Declared`); what earlier looks returned stands for instants of the
command in their order (`Memory`); every finding reported so far is borne out
(`Groundings`). For each surface a lemma shows that what its check returns is among what an
instantaneous scan of one state, or of two states joined in the order of the looks, would
report (`Instant`, `Mixed`). `Extends` and `GroundedStays` carry it over to later states: the
history only grows. `CRED_REUSE` is apart, for it is about the report: two servers of it
hold the credential, and `Assemble` changes their findings but not who they are.

`Watching` is for what a report must not leave out. Nothing in the types says that a surface
which is no longer in `todo` was ever looked at, so it adds

- `InOrder`: what is left of the plan is in the order of the looks, and names nothing twice;
- `Watched`: each wanted surface that has been left was `Seen`: there are instants, ordered as
  the looks were, at which what its check returns is in the report (`ReadAt`, `DotenvSeen`,
  `StoreSeen`, `LogSeen`, `Judged`), or there was nothing to read, or an unread config is
  marked. `InHand` says the same of a surface between two of its looks, and no server of a
  surface still to come is in the report;
- `Tidy`: no server is reported twice and all is finite.

When the report is assembled every surface was seen (`AllSeen`), and a risk that stood in all
of `past` stood at those instants, so what they returned tells it (`StandingTold`, one lemma
per surface before it; for the broker `Glimpse` at the instants of the four looks, and
`BrokerTold`). The clause on grades needs that more findings never grade better. The score
is a fold, whose value for every set is out of reach by induction; but a fold is *some*
function that takes findings one at a time, and `SumIs` shows, by a least size at which they
would differ, that any such function is 40, 20, 10 and 3 times a count per severity. A
larger finite set has larger counts (`GradeFalls`). Each server is then graded no better than
any part of its findings, and the report no better than its worst server (`WorstIs`).

`Verifying` is for evidence that passes. `CleanWasBound` does not hold of every scene: a user who
takes the broker's manifest away and then writes the chain it named makes evidence pass that
was never bound. It is proved of the scenes in which the chain is the broker's own, `OwnChain`: the
broker numbers its records, nobody else writes the chain, and no manifest a user puts in place
names a record that has not been written (users may tear the manifest, take it away, or put
an older one back). Every scene of the run in which the broker works is one, and TLC finds
among their states clean evidence in an assembled report. There `History` says that
no record is lost (`Grows`) and that no manifest of an instant is ahead of its
chain (`Genuine`), and `Verified` that clean evidence was borne out. The argument
is `CleanIsBound`: if the last line of the chain that is read is the record the manifest
names, that record was written when the manifest was read, and as the chain has not grown
past it since, it was the last line then. A broker that named a record before writing it
would break exactly this (`Genuine`).

### 5.7 TrustGraph and AttackPaths

From `CapsAssumption` (the caps are numbers, a chain may have an edge, the ceiling is not
below what is kept) and `MachineAssumption` (what is numbered is numbered, a machine is
finite). The graph that `build_graph` makes of any such machine is finite, every edge joins
two kinds of nodes as its own kind says, and so no edge leaves a target and no two edges
join the same nodes (`EdgesAre`, `GraphIs`): the nodes of a chain tell its edges. The
invariant of the search says

- `StackOK`: the stack is a simple path, and a frame has left what leads off the path and
  not what the next frame was reached by;
- `FoundOK`: what is found is chains within the depth, no more than the ceiling;
- `Covered`: unless the ceiling was hit, each chain of the graph is found, or ahead, or
  deeper than `MaxHops`, and then `depth_capped` is set. A chain is `Ahead` if its entry is
  not yet taken, or if it follows the stack up to a frame and leaves by a successor this
  frame has left;
- `Once`: no chain is found twice or both found and ahead.

One lemma for each change of the stack says what it does to what is ahead: `PassedAhead`
(only the chains through the successor passed), `DescendedAhead` (nothing, for the new frame
has all that goes on from it), `ReturnedIs` (nothing, if the frame had nothing left),
`StartedIs` (the chains of the entry). `DepthIs` shows that the test at the depth, which asks
whether the node has a neighbour off the path, is true of every node through which a longer
chain goes. When the search is over nothing is ahead, so the list found is the set of chains,
`OverIs`; that `Chains`, defined by recursion on the length, is the set of chains of any
length is `ChainsAre`: a simple path visits no node twice, so it has fewer edges than the
graph has nodes (`SimplePathsAre`; that the recursive function exists is shown by giving it, the
walks of each length, and that it is this one by a least length at which it would not be).

`RankedIs` proves the sort by counting: the places are a permutation (`Places`), in order, and
the order of ranks is strict and total on different chains (`RankOrder`). With `SameGrade` (the
grade and the exit codes depend on the worst chain only) this gives `NothingLeftOut` and
`TheWorstAreKept`. The last two theorems go from the declarations to the report:
`EdgesHave` and `HoldersAre` relate edges to servers and credentials both ways, `LongChain`
and `ShortChain` build the chain that must be there, `ChainFound` finds it and
`GradeOfWorst` grades it.

### 5.8 What is only model-checked

- All liveness (`Termination`, `RunEnds`, `ScanEnds`, `CaptureReturns`): fairness and
  `ENABLED` are out of this prover's reach.
- `CleanWasBound` of scenes outside `OwnChain` (section 5.6): the run has such scenes, whose
  users edit the broker's files, and finds no violation among the edits they make.
- The numbers of a trust profile (`trust_score`, `trust_exit`): no property of the runs is
  about them beyond the factors that make an edge.

## 6. What is not modelled

- Cryptography, address arithmetic, JSON and TOML syntax, and the bytes of a probe: each is
  the outcome the caller acts on.
- The HTTP and SSE transport of live capture and the offline `tools.json` input: the same
  `run_capture` over a sender whose every read has a timeout.
- The patterns of the static checks (what a secret, an injection or a dangerous tool looks
  like) and each host's paths and syntax: data of the model. What a match leads to is in
  `StaticChecks`.
- Renderers, schedule, atlas, self-test: formatting, tables, a fixed fixture.
- The OSV lookups: one request per package, whose failure is a flag on the server; the TLS
  and redirect policy of the webhook sink and the datagram of the syslog sink.
- The declared assets and layout of an inventory, the parsing of `lsof` rows.
- Drift's optional signature (the verification is the one of `DatapackStore`), its asset facts
  (informational by every rule) and the causes it names.

## 7. Notes for maintainers

Seven properties are stated in the modules, fail, and are checked by no run; each with its trace:

- `FixApply.KeepsMode` ("keeping the file's original permission bits", fix.py:162): a config
  of mode 0664 is replaced by a file opened with that mode and narrowed by the umask to
  0644 (fix.py:168). Or: a run is killed after it opened its tmp, the user changes the
  config's bits, and the next run opens the tmp that is there, whose bits the `open` leaves
  alone and the rename gives to the config.
- `FixApply.RescansClean` ("a fixed config re-scans clean", fix.py:9): the fixer prunes
  `permissions.allow` and the servers of a JSON `mcpServers` (fix.py:99-147); a scan also grades
  VS Code's `servers`, Zed's `context_servers`, Continue's list and commented JSON. A config
  whose only grant stands there is passed over (`Start`, `Skip`, `Skip`), the command reports
  that all is done, and the next scan reports the grant again.
- `StdioCapture.NoChildSurvives` ("The child is always terminated before returning",
  stdio_sandbox.py:227): a Ctrl-C, and a second one during the grace of three seconds
  (`Interrupt`, `InterruptCleanup`), leaves before the kill and before the removal of the
  container. Or without any: the wait after the kill times out, and so does `rm -f`.
- `StdioCapture.NeverRaises` ("Never raises", stdio_sandbox.py:224): a page holds a tool with a
  lone surrogate in its text, which JSON may write as an escape; the encoding for its digest
  (live_tools.py:165) raises `UnicodeEncodeError`, and only `LiveToolsError` is caught.
- `Drift.NewFindingIsRed` ("a **new finding** ... is a regression", README.md:456): a declared
  server's findings have no line, so the key of a finding is its rule and its path
  (drift/snapshot.py:72). With one plaintext secret in the baseline, a second one in the
  same `env` block has the same key, the facts collapse into one, and the diff has no entry.
- `Drift.OtherLaunchIsRed` ("a rug-pull ... changes it", drift/snapshot.py:27):
  the hash is over sorted arguments and approvals, so a launch whose arguments were put in
  another order, which may be another program, has the identity of the baseline's
  (`Baseline`, `Change`, `Open`, `Write`, `ReadBaseline`, `Judge`), and the gate passes.
- `ScanRun.SinksNeverCrash` ("never raises, so a broken alert channel can never crash the
  scan", emit.py:27): the webhook catches `URLError`, `OSError` and `ValueError`, and an
  `HTTPException` (a status line that is none) is no such error; `urlsplit` is called outside
  the `try` (emit.py:236, cli.py:1583); the ndjson sink catches `OSError` and not the
  `UnicodeEncodeError` of a lone surrogate (emit.py:188). The command ends with a traceback and
  exit 1, the sinks after this one hear nothing, and an alert sent before may have said that
  the gate passed.

Behaviour met while modelling that no property states:

- A probe's timeout is one of each receive: a peer that sends a byte within each, or "100
  Continue" for ever, holds the probe, past the deadline and the abort, for as long as it
  likes (lan/probe.py:53). A range is listed in full before its hosts are counted
  (lan/scope.py:99), so a human's `fd00::/64` never comes to the budget; an agent's ranges are
  refused before that. `Termination` excepts these two.
- Ctrl-C while a request's write blocks is taken at `CloseInput`, where `stdin.close()` may
  flush and block again; the model closes at once.
- A halted LAN run's report does not say that it was halted; the audit payload lists the
  resolved hosts and the results, and only comparing the two shows it. A port listed twice is probed twice, and
  its server appears twice in the report and once in the audit.
- The abort switch (`should_abort`) exists in `run_lan` but the command passes none, and the
  audit record goes into the `--json` file only, if one is asked for; the append-only log
  of docs/proposals/LAN_SCANNING.md:82 is not written.
- A save that falls between the backup's copy and the rename of `--fix` is in neither file.
  `LastSaveRecoverable` is conditional on its absence.
- A failing system call on one config ends `--fix` with an uncaught `OSError`; the
  remaining configs are not visited. Its `finally` removes the temporary file unless that
  `unlink` fails too (fix.py:175); then it stays, and the next command truncates it. The exit code of `scan --fix` is that of the report
  made before the fix.
- A JSON log line of a captured server that holds the text `"result"` or `"error"` is taken
  for the response and ends the capture; the comment at stdio_sandbox.py:200 expects log
  noise to be skipped.
- A change of severity in a finding that stays is informational, and so passes the gate.
- Drift from an imported mcpseal pin cannot be accepted: the comparison strips the digest the
  ledger is matched by (drift/diff.py:114), though mcpseal_import.py:7 lists the ledger among
  what an import gains.
- README.md:452 shows a socket whose `exposure` goes from local to exposed. A scan reports no
  loopback socket, and the address is part of the key, so no two scans give that entry.
- A live target found through its socket vanishes, with its pinned tools, when the owner of the
  socket is not shown; the removal is informational. A target named on the command line
  stays and reads as dark (`LostSightIsRed`).
- `write_report` opens an existing file with its old bits and tightens them after the write.
- Broker. A chain that outgrows the bounded read of 5 MB is `chain_unreadable` from then on
  (engine.py:565). A read that falls inside an append finds a torn last line and reports a
  mismatch that is none (checks/broker.py:228); `NothingInvented` admits it, since the line
  was torn at that instant. Evidence without a `chain_path` is never compared with anything.
  A broker that named a record before writing it could pass with no instant at which the
  two agreed; the model's broker writes first (`CleanWasBound`).
- A server moved between two looks, from one the manifest fronts to one it does not, can be
  reported `BROKER-ABSENT` though it was governed throughout; a secret moved from one config
  to another is a reuse (`CRED_REUSE` in `Grounded` speaks of the report only, for this
  reason).
- A report that cannot be written, or a `--fix` that fails, ends the scan with exit 1 before
  its gate and its alerts (cli.py:1340-1356): the sinks hear nothing of that scan. The same is
  so of a config, store or manifest in a directory that may not be searched, where `exists`,
  `is_symlink` and `is_file` raise `PermissionError` on older Pythons (engine.py:363), and of
  a stored token nested so deep that its decoding raises `RecursionError` (token_store.py:117).
  The log's look can raise the same `PermissionError`; it is not modelled.
- A ledger entry is matched by the end of a server's id as well (acceptance.py:225): one for
  `s1` shields a server named `x#s1`. `VerdictIsOwned` counts it as an owner. Configs whose
  path holds a `#` are not modelled.
- A short write of the ndjson sink leaves a cut line, and the next scan's record is appended
  to it (emit.py:179-189).
- Losing the socket or process enumeration as a whole leaves no trace when no server is
  there to carry the flag; a token store that cannot be read is passed over; a log rotated
  between two looks is there without mode or age.
- Graph. Past the ceiling on chains explored the search stops in order of entries, so a
  critical chain of a later entry may be missing; the report is marked. The mark for the
  depth cap is also set when what lies beyond leads nowhere. A listener's entry has no
  edges, so it starts no chain. Listeners are collapsed by port and process, an unknown
  process included (inventory/collect.py:86), so an exposed address may be dropped for a
  loopback one.
- `trust` and `graph` pass over configs that cannot be read, and use the built-in secret
  catalog only, while trust/analyze.py:4 says that trust never diverges from what a scan
  would flag.
- A config whose servers are a list (adapters/base.py:126) may declare two of one name: they
  share an id, and the graph keeps the credentials of the last.
