---------------------------- MODULE PostureDiff ----------------------------
(***************************************************************************)
(* What a scan makes of a machine and what a diff makes of two scans: the   *)
(* posture facts of drift/snapshot.py, the comparison of drift/diff.py, the *)
(* pins drift/mcpseal_import.py adds to a baseline, and the waivers of       *)
(* acceptance.py. Asset facts are left out: their coming, going and changing *)
(* is informational by every rule of diff.py.                               *)
(*                                                                         *)
(* A snapshot is a function from fact keys to details, a detail a function   *)
(* from the names of its entries to their values (PostureFact.detail_map).   *)
(***************************************************************************)
EXTENDS Naturals, Sequences, Functions

CONSTANTS
  Named, Found,    \* live tool servers: named on the command line, and found by their socket
  Tool,            \* tool names
  Definition,      \* what a server may advertise under a name, NoTool for nothing
  NoTool,
  Seal,            \* [Definition -> mcpseal's digest of the parts it covers]
  Poisoned,        \* definitions whose text the live checks flag
  Decl,            \* servers a config file may declare
  Launch,          \* their (command, args, autoApprove)
  Identity,        \* [Launch -> tool_identity: the hash of it with args and autoApprove sorted]
  NoDecl,
  Rule,            \* findings the checks of a declaration may raise
  Severity,
  MaxFlaws,        \* bound on the findings of one rule in one declaration
  ConfigFile,      \* the synthetic server of a config that could not be read
  Listener         \* sockets bound to other than loopback

Live == Named \cup Found

\* The machine: what each live server advertises, what the config declares, who listens.
Flaws == UNION {[1..n -> Severity] : n \in 0..MaxFlaws}
Declaration == [launch : Launch, flaws : [Rule -> Flaws]]
World == [tools : [Live -> [Tool -> Definition \cup {NoTool}]],
          decls : [Decl -> Declaration \cup {NoDecl}],
          listening : SUBSET Listener]

\* What one scan fails to see: a live server whose capture fails or is cut short of a tool,
\* a config that cannot be read, a socket whose owner or whose very row is not shown.
Failed(s) == <<"failed", s>>
Cut(s, t) == <<"cut", s, t>>
Missed(x) == <<"missed", x>>
Refused == <<"refused">>
Losses == {Failed(s) : s \in Live} \cup {Cut(s, t) : s \in Live, t \in Tool}
            \cup {Missed(x) : x \in Found \cup Listener} \cup {Refused}

ASSUME PostureAssumption ==
  /\ NoTool \notin Definition /\ NoDecl \notin Declaration
  /\ DOMAIN Seal = Definition /\ DOMAIN Identity = Launch /\ Poisoned \subseteq Definition
  /\ MaxFlaws \in Nat
  /\ Named \cap Found = {} /\ Live \cap Decl = {} /\ Live \cap Listener = {}
  /\ Decl \cap Listener = {} /\ ConfigFile \notin Live \cup Decl \cup Listener

-----------------------------------------------------------------------------
(* Scanning: the servers of the report, their facts, findings and tools.    *)

ServerKey(s) == <<"server", s>>
FindingKey(s, r) == <<"finding", s, r>>
ToolKey(s, t) == <<"tool", s, t>>
Kind(k) == k[1]

Declared(world) == {d \in Decl : world.decls[d] # NoDecl}
Partial(lost) == \E x \in Found \cup Listener : Missed(x) \in lost
Shown(world, lost) == {l \in world.listening : Missed(l) \notin lost}
Dark(lost, s) == Failed(s) \in lost \/ \E t \in Tool : Cut(s, t) \in lost

\* The tools a capture keeps.
Kept(world, lost, s) ==
  IF Failed(s) \in lost THEN {}
  ELSE {t \in Tool : world.tools[s][t] # NoTool /\ Cut(s, t) \notin lost}

\* The servers of a report: no sockets to attribute, no target found by its socket.
Inspected(lost, live) == {s \in live : Missed(s) \notin lost}
Read(world, lost) == IF Refused \in lost THEN {} ELSE Declared(world)
\* Wrong: a config that cannot be read is passed over.
ServersSkipRefused(world, lost, live) ==
  Inspected(lost, live) \cup Read(world, lost) \cup Shown(world, lost)
Servers(world, lost, live) ==
  Inspected(lost, live) \cup Read(world, lost) \cup Shown(world, lost)
    \cup (IF Refused \in lost THEN {ConfigFile} ELSE {})

\* A server's fact. Only a declared server has a launch identity; every socket carries the
\* flag of the whole enumeration.
Plain(running, incomplete) ==
  [running |-> running, exposure |-> "local", inspection_incomplete |-> incomplete]
ServerFact(world, lost, s) ==
  CASE s \in Decl -> [running |-> FALSE, exposure |-> "local", inspection_incomplete |-> FALSE,
                      tool_identity |-> Identity[world.decls[s].launch]]
    [] s \in Listener -> [Plain(TRUE, Partial(lost)) EXCEPT !.exposure = "exposed"]
    [] s \in Live -> Plain(Failed(s) \notin lost, Dark(lost, s))
    [] s = ConfigFile -> Plain(FALSE, TRUE)

\* The rules a server is reported for. A finding of a declaration or of a capture has no
\* line, so those of one rule share a key.
RulesOf(world, lost, s) ==
  CASE s \in Decl -> {r \in Rule : world.decls[s].flaws[r] # <<>>}
    [] s \in Listener -> {"EXPOSE-BIND"}
    [] s = ConfigFile -> {"CONFIG-UNREADABLE"}
    [] s \in Live /\ Failed(s) \in lost -> {"LIVE-TOOLS-UNAVAILABLE"}
    [] OTHER -> {r \in {"LIVE-TOOLS-INCOMPLETE"} : Dark(lost, s)}
                  \cup {r \in {"LIVE-TOOL-INJECTION-TEXT"} :
                          \E t \in Kept(world, lost, s) : world.tools[s][t] \in Poisoned}

\* by_key keeps the last of the facts that share a key.
FindingFact(world, s, r) ==
  IF s \in Decl THEN LET flaws == world.decls[s].flaws[r] IN [severity |-> flaws[Len(flaws)]]
  ELSE [severity |-> r]

ToolFact(def) == [digest |-> def, mcpseal |-> Seal[def]]

\* build_snapshot of the report of a scan that lost what is in lost and was asked to inspect
\* the servers in live.
Snapshot(world, lost, live) ==
  LET servers == Servers(world, lost, live)
      keys == {ServerKey(s) : s \in servers}
                \cup (UNION {{FindingKey(s, r) : r \in RulesOf(world, lost, s)} : s \in servers})
                \cup (UNION {{ToolKey(s, t) : t \in Kept(world, lost, s)} :
                               s \in Inspected(lost, live)})
  IN  [k \in keys |->
         CASE Kind(k) = "server" -> ServerFact(world, lost, k[2])
           [] Kind(k) = "finding" -> FindingFact(world, k[2], k[3])
           [] Kind(k) = "tool" -> ToolFact(world.tools[k[2]][k[3]])]

-----------------------------------------------------------------------------
(* Baselines: what is written, what earlier releases wrote, what a lockfile adds. *)

Without(fact, names) == Restrict(fact, DOMAIN fact \ names)

\* The snapshot as an earlier release writes it: before tools had a seal; before they had
\* facts, when a live server had the identity of its manifest; and before identities and
\* inspection_incomplete.
Eras == {"current", "unsealed", "manifest", "first"}
AsWritten(era, facts) ==
  LET keys == CASE era \in {"current", "unsealed"} -> DOMAIN facts
                [] era = "manifest" -> {k \in DOMAIN facts : Kind(k) # "tool"}
                [] era = "first" -> {k \in DOMAIN facts : k[2] \notin Live}
      Written(k, fact) ==
        CASE Kind(k) = "tool" /\ era = "unsealed" -> Without(fact, {"mcpseal"})
          [] Kind(k) = "server" /\ era = "manifest" /\ k[2] \in Live ->
               [n \in DOMAIN fact \cup {"tool_identity"} |->
                  IF n = "tool_identity" THEN "manifest" ELSE fact[n]]
          [] Kind(k) = "server" /\ era = "first" ->
               Without(fact, {"tool_identity", "inspection_incomplete"})
          [] OTHER -> fact
  IN  [k \in keys |-> Written(k, facts[k])]

\* _import_mcp_lock: pins of a lockfile, records of a server, a tool and a seal, for the keys
\* the scan has not pinned, and the fact of a server that has any.
ImportLock(facts, lock) ==
  LET pins == {ToolKey(p.server, p.tool) : p \in lock}
      servers == {ServerKey(p.server) : p \in lock}
      Pinned(k) == CHOOSE p \in lock : ToolKey(p.server, p.tool) = k
  IN  [k \in DOMAIN facts \cup pins \cup servers |->
         CASE k \in DOMAIN facts -> facts[k]
           [] k \in servers \ DOMAIN facts -> Plain(TRUE, FALSE)
           [] OTHER -> [mcpseal |-> Pinned(k).seal, provenance |-> "mcpseal-import"]]

-----------------------------------------------------------------------------
(* diff_snapshots.                                                          *)

ValueOr(fact, name, default) == IF name \in DOMAIN fact THEN fact[name] ELSE default
Incomplete(fact) == ValueOr(fact, "inspection_incomplete", FALSE)
Exposed(fact) == fact.exposure = "exposed"
Imported(k, fact) == Kind(k) = "tool" /\ "provenance" \in DOMAIN fact

Comparable(k, fact) ==
  IF Kind(k) # "server" THEN fact
  ELSE [n \in DOMAIN fact \cup {"inspection_incomplete"} |-> ValueOr(fact, n, FALSE)]

\* The entries of before and after that are compared: those a lockfile vouches for if either
\* was imported, else all but the optional ones either of them lacks.
CompatOptional == {"tool_identity", "mcpseal"}
\* Wrong: entries an older baseline lacks count as changed.
AlignedStrict(k, before, after) == [before |-> before, after |-> after]
Aligned(k, before, after) ==
  LET b == Comparable(k, before)
      a == Comparable(k, after)
      Compared(fact) == IF Imported(k, before) \/ Imported(k, after)
                        THEN Restrict(fact, DOMAIN fact \cap {"mcpseal"})
                        ELSE Without(fact, CompatOptional \ (DOMAIN b \cap DOMAIN a))
  IN  [before |-> Compared(b), after |-> Compared(a)]

\* _server_pinned_tools: was a tool that the baseline lacks one nobody has approved?
\* Wrong: only a server with tools at the baseline counts as pinned.
PinnedToolsByFacts(old, s) == \E t \in Tool : ToolKey(s, t) \in DOMAIN old
PinnedTools(old, s) ==
  /\ ServerKey(s) \in DOMAIN old
  /\ \/ \E t \in Tool : ToolKey(s, t) \in DOMAIN old
     \/ "tool_identity" \notin DOMAIN old[ServerKey(s)]

AddedIsRegression(old, k, fact) ==
  \/ Kind(k) = "finding"
  \/ Kind(k) = "tool" /\ PinnedTools(old, k[2])
  \/ Kind(k) = "server" /\ Exposed(fact)

IdentityChanged(before, after) ==
  /\ "tool_identity" \in DOMAIN before /\ "tool_identity" \in DOMAIN after
  /\ before.tool_identity # after.tool_identity

\* A changed server: a regression outranks an improvement.
ServerDirection(before, after) ==
  IF \/ ~Incomplete(before) /\ Incomplete(after)
     \/ Exposed(after) /\ ~Exposed(before)
     \/ IdentityChanged(before, after)
  THEN "regression"
  ELSE IF \/ Exposed(before) /\ ~Exposed(after)
          \/ Incomplete(before) /\ ~Incomplete(after)
       THEN "improvement"
       ELSE "informational"

Direction(k, before, after) ==
  CASE Kind(k) = "tool" -> "regression"
    [] Kind(k) = "finding" -> "informational"
    [] Kind(k) = "server" -> ServerDirection(before, after)

\* An entry of the report: its key, its direction, and the detail it shows as new.
Entry(k, direction, detail) == [key |-> k, direction |-> direction, after |-> detail]
Added(old, new) ==
  {Entry(k, IF AddedIsRegression(old, k, new[k]) THEN "regression" ELSE "informational",
         Comparable(k, new[k])) : k \in DOMAIN new \ DOMAIN old}
Removed(old, new) ==
  {Entry(k, IF Kind(k) = "finding" THEN "improvement" ELSE "informational", <<>>) :
     k \in DOMAIN old \ DOMAIN new}
Changed(old, new) ==
  LET Pair(k) == Aligned(k, old[k], new[k])
  IN  {Entry(k, Direction(k, old[k], new[k]), Pair(k).after) :
         k \in {x \in DOMAIN old \cap DOMAIN new : Pair(x).before # Pair(x).after}}

Diff(old, new) == Added(old, new) \cup Removed(old, new) \cup Changed(old, new)

-----------------------------------------------------------------------------
(* The ledger and the exit code.                                            *)

\* An acceptance names a server, a tool, the digest of its new definition and the last day it
\* holds.
Lapsed(acceptance, today) == today > acceptance.expires
\* Wrong: an acceptance covers the tool, whatever its definition.
WaivesAnyDigest(acceptance, entry, today) ==
  /\ Kind(entry.key) = "tool" /\ entry.direction = "regression"
  /\ entry.key = ToolKey(acceptance.server, acceptance.tool)
  /\ ~Lapsed(acceptance, today)
Waives(acceptance, entry, today) ==
  /\ Kind(entry.key) = "tool" /\ entry.direction = "regression"
  /\ entry.key = ToolKey(acceptance.server, acceptance.tool)
  /\ "digest" \in DOMAIN entry.after /\ entry.after.digest = acceptance.digest
  /\ ~Lapsed(acceptance, today)

\* The entries that are regressions still, once the ledger has been applied.
Regressions(entries, ledger, today) ==
  {e \in entries : e.direction = "regression" /\ ~\E acc \in ledger : Waives(acc, e, today)}
=============================================================================
