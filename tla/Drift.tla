------------------------------- MODULE Drift -------------------------------
(***************************************************************************)
(* baseline and diff over a machine that changes: one command scans and      *)
(* writes the baseline file, and a gate run (diff --fail-on-regression) reads *)
(* it, scans in its turn, applies the ledger and ends with an exit code. A    *)
(* scan may fail to see a part of the machine, a write may be killed, and     *)
(* days go by.                                                               *)
(***************************************************************************)
EXTENDS PostureDiff, FiniteSets

CONSTANTS
  InitialWorld,
  Lock,               \* pins of an mcpseal lockfile
  FailOnStale, MaxAge,   \* --fail-on-stale, --max-age-days
  MaxLosses,          \* bounds: losses of one scan,
  MaxChanges, MaxBaselines, MaxAcceptances, MaxDay   \* and what may happen in a behaviour

ASSUME DriftAssumption ==
  /\ InitialWorld \in World
  /\ Lock \subseteq [server : Named, tool : Tool, seal : {Seal[d] : d \in Definition}]
  /\ \A p, q \in Lock : p.server = q.server /\ p.tool = q.tool => p = q
  /\ FailOnStale \in BOOLEAN
  /\ {MaxAge, MaxLosses, MaxChanges, MaxBaselines, MaxAcceptances, MaxDay} \subseteq Nat

VARIABLES
  world, changes,     \* the machine, and how often it has changed
  day,
  baseline,           \* the baseline file
  writer, draft,      \* the baseline command, and the text it has rendered
  ledger,             \* tool acceptances of .mcpscan-accept.json
  gate, held, current, exit,   \* the diff command: the baseline it read, its scan, its code
  began, today        \* the days on which it judged the baseline's age, and the ledger

machine == <<world, changes, day>>
files == <<baseline, ledger>>
writing == <<writer, draft>>
gating == <<gate, held, current, exit, began, today>>
vars == <<machine, files, writing, gating>>

\* A baseline is told by the scan it was made from; no numbers the texts written, and whole is
\* FALSE of a text cut short.
Nothing == [no |-> 0]
Losts == {lost \in SUBSET Losses : Cardinality(lost) <= MaxLosses}
Scans == [world : World, lost : Losts]
Baselines == [no : 1..MaxBaselines, whole : BOOLEAN, created : 0..MaxDay, era : Eras,
              imported : BOOLEAN, live : {Live, {}}, world : World, lost : Losts]
Acceptances == [server : Live, tool : Tool, digest : Definition, expires : 0..MaxDay]

\* Its facts.
Facts(b) ==
  LET facts == AsWritten(b.era, Snapshot(b.world, b.lost, b.live))
  IN  IF b.imported THEN ImportLock(facts, Lock) ELSE facts

Init ==
  /\ world = InitialWorld /\ changes = 0 /\ day = 0
  /\ baseline = Nothing /\ ledger = {}
  /\ writer = "idle" /\ draft = Nothing
  /\ gate = "idle" /\ held = Nothing /\ current = Nothing
  /\ exit = 0 /\ began = 0 /\ today = 0

-----------------------------------------------------------------------------
(* The machine, its owner, and time.                                        *)

Change ==
  /\ changes < MaxChanges /\ changes' = changes + 1
  /\ \/ \E s \in Live, t \in Tool, d \in Definition \cup {NoTool} :
          world' = [world EXCEPT !.tools[s][t] = d]
     \/ \E d \in Decl, new \in Declaration \cup {NoDecl} :
          world' = [world EXCEPT !.decls[d] = new]
     \/ \E l \in Listener :
          world' = [world EXCEPT !.listening = (@ \ {l}) \cup ({l} \ @)]
  /\ world' # world
  /\ UNCHANGED <<day, files, writing, gating>>

NextDay ==
  /\ day < MaxDay /\ day' = day + 1
  /\ UNCHANGED <<world, changes, files, writing, gating>>

\* A named human accepts one definition of a tool, the one it has now, until a day.
Accept ==
  /\ Cardinality(ledger) < MaxAcceptances
  /\ \E s \in Live, t \in Tool, last \in day..MaxDay :
       /\ world.tools[s][t] # NoTool
       /\ ledger' = ledger \cup {[server |-> s, tool |-> t, digest |-> world.tools[s][t],
                                  expires |-> last]}
  /\ UNCHANGED <<machine, baseline, writing, gating>>

-----------------------------------------------------------------------------
(* baseline: a scan, perhaps pins from a lockfile, and write_report.        *)

\* An earlier release knows no lockfile; a run may leave the live servers alone.
\* Wrong: the local date, a day ahead of UTC.
BaselineLocalDate(lost, live, era, imported) ==
  /\ writer = "idle" /\ baseline.no < MaxBaselines
  /\ draft' = [no |-> baseline.no + 1, whole |-> TRUE, created |-> day + 1, era |-> era,
               imported |-> imported, live |-> live, world |-> world, lost |-> lost]
  /\ writer' = "open"
  /\ UNCHANGED <<machine, files, gating>>
Baseline(lost, live, era, imported) ==
  /\ writer = "idle" /\ baseline.no < MaxBaselines
  /\ imported => era = "current"
  /\ \A s \in Live \ live : ~Dark(lost, s)
  /\ draft' = [no |-> baseline.no + 1, whole |-> TRUE, created |-> day, era |-> era,
               imported |-> imported, live |-> live, world |-> world, lost |-> lost]
  /\ writer' = "open"
  /\ UNCHANGED <<machine, files, gating>>

Open ==
  /\ writer = "open" /\ writer' = "write"
  /\ baseline' = [draft EXCEPT !.whole = FALSE]
  /\ UNCHANGED <<machine, ledger, draft, gating>>

Write ==
  /\ writer = "write" /\ writer' = "idle"
  /\ baseline' = draft /\ draft' = Nothing
  /\ UNCHANGED <<machine, ledger, gating>>

Killed ==
  /\ writer \in {"open", "write"} /\ writer' = "idle"
  /\ draft' = Nothing
  /\ UNCHANGED <<machine, files, gating>>

-----------------------------------------------------------------------------
(* diff: _run_diff.                                                         *)

\* The bytes are read, parsed and checked against their digest; the day is noted.
ReadBaseline ==
  /\ gate = "idle"
  /\ IF baseline # Nothing /\ baseline.whole
     THEN gate' = "scan" /\ held' = baseline /\ began' = day /\ exit' = exit
     ELSE gate' = "done" /\ exit' = 2 /\ UNCHANGED <<held, began>>
  /\ UNCHANGED <<machine, files, writing, current, today>>

Stale(b, on) == on - b.created > MaxAge

\* The scan, the comparison and the ledger. Nothing that happens between the scan and the
\* verdict matters to it but the ledger and the day, which may as well have moved before.
Judge(lost) ==
  /\ gate = "scan" /\ gate' = "done"
  /\ current' = [world |-> world, lost |-> lost]
  /\ today' = day
  /\ LET entries == Diff(Facts(held), Snapshot(world, lost, Live))
     IN  exit' = IF \/ Regressions(entries, ledger, day) # {}
                    \/ FailOnStale /\ Stale(held, began)
                 THEN 1 ELSE 0
  /\ UNCHANGED <<machine, files, writing, held, began>>

\* The next run of the gate.
Rerun ==
  /\ gate = "done" /\ gate' = "idle"
  /\ held' = Nothing /\ current' = Nothing /\ exit' = 0 /\ began' = 0 /\ today' = 0
  /\ UNCHANGED <<machine, files, writing>>

Next ==
  \/ Change \/ NextDay \/ Accept
  \/ \E lost \in Losts, live \in {Live, {}}, era \in Eras, imported \in BOOLEAN :
       Baseline(lost, live, era, imported)
  \/ Open \/ Write \/ Killed
  \/ ReadBaseline \/ (\E lost \in Losts : Judge(lost)) \/ Rerun

Spec == Init /\ [][Next]_vars

-----------------------------------------------------------------------------
(* Properties.                                                              *)

\* The types of the variables, and the bounds of the dates the two commands note.
TypeOK ==
  /\ world \in World /\ changes \in 0..MaxChanges /\ day \in 0..MaxDay
  /\ baseline \in Baselines \cup {Nothing} /\ draft \in Baselines \cup {Nothing}
  /\ writer \in {"idle", "open", "write"}
  /\ ledger \subseteq Acceptances /\ Cardinality(ledger) <= MaxAcceptances
  /\ gate \in {"idle", "scan", "done"}
  /\ held \in Baselines \cup {Nothing} /\ current \in Scans \cup {Nothing}
  /\ exit \in {0, 1, 2} /\ {began, today} \subseteq 0..MaxDay

Judged == gate = "done" /\ exit \in {0, 1}
Green == gate = "done" /\ exit = 0

\* What the baseline vouches for: the tools its scan kept or, of those it has not, a lockfile
\* has pinned; the identity and the rules of the servers declared in a config it could read.
Pins(b, s) == IF b.imported THEN {p \in Lock : p.server = s} ELSE {}
PinsTools(b, s) == /\ b.era \in {"current", "unsealed"}
                   /\ s \in Inspected(b.lost, b.live) \/ Pins(b, s) # {}
Scanned(b, s, t) == s \in Inspected(b.lost, b.live) /\ t \in Kept(b.world, b.lost, s)
Approved(b, s, t) ==
  (IF Scanned(b, s, t) THEN {b.world.tools[s][t]}
   ELSE {d \in Definition : \E p \in Pins(b, s) : p.tool = t /\ p.seal = Seal[d]})
    \cup {acc.digest : acc \in {a \in ledger :
                               a.server = s /\ a.tool = t /\ today <= a.expires}}

\* What a verdict on the machine must answer for: all a named server advertises and all a
\* config declares, where the baseline saw them in full, and elsewhere what the scan saw.
Advertised(s) ==
  {t \in Tool : /\ current.world.tools[s][t] # NoTool
               /\ \/ s \in Named /\ ~(s \in held.live /\ Dark(held.lost, s))
                  \/ s \in Inspected(current.lost, Live) /\ t \in Kept(current.world, current.lost, s)}
Present == IF Refused \in held.lost THEN Read(current.world, current.lost)
           ELSE Declared(current.world)

\* A gate that passes has passed only what somebody vouched for: every tool definition of a
\* server whose tools the baseline pins is the one it has, or one accepted until today or
\* later; no declared server has another command, or other arguments or approvals than those
\* it had, in whatever order, or is reported for another rule; nobody else is seen to listen;
\* and the baseline is young enough. What the gate's scan failed to see and the baseline's
\* had seen is no excuse.
GreenMeansVouched ==
  Green =>
    /\ \A s \in Live : PinsTools(held, s) =>
         \A t \in Advertised(s) : current.world.tools[s][t] \in Approved(held, s, t)
    /\ \A d \in Present :
         /\ (d \in Read(held.world, held.lost) /\ held.era # "first") =>
              Identity[current.world.decls[d].launch] = Identity[held.world.decls[d].launch]
         /\ RulesOf(current.world, {}, d) \subseteq
              (IF d \in Read(held.world, held.lost) THEN RulesOf(held.world, {}, d) ELSE {})
    /\ Shown(current.world, current.lost) \subseteq Shown(held.world, held.lost)
    /\ FailOnStale => began <= held.created + MaxAge

\* The gate fails when its scan lost sight of a named server or of a config the baseline's had
\* seen, even if nothing there has changed (diff.py: the scanner lost visibility it had).
LostSightIsRed ==
  Judged =>
    /\ \A s \in Named :
         (PinsTools(held, s) /\ ~Dark(held.lost, s) /\ Dark(current.lost, s)) => exit = 1
    /\ (Refused \notin held.lost /\ Refused \in current.lost) => exit = 1

\* Where both scans saw everything and the machine is what it was or has less (a tool, a
\* declared server, a finding, a listener gone), the gate passes, whatever release wrote the
\* baseline: an upgrade makes no regression of its own.
Less(new, old) ==
  /\ \A s \in Live, t \in Tool : new.tools[s][t] \in {old.tools[s][t], NoTool}
  /\ \A d \in Declared(new) :
       /\ d \in Declared(old) /\ Identity[new.decls[d].launch] = Identity[old.decls[d].launch]
       /\ \A r \in Rule : Len(new.decls[d].flaws[r]) <= Len(old.decls[d].flaws[r])
  /\ new.listening \subseteq old.listening
LessIsNeverRed ==
  (/\ Judged /\ held.lost = {} /\ current.lost = {} /\ Less(current.world, held.world)
   /\ held.live = Live
   /\ held.era = "first" =>
        \A s \in Live, t \in Tool : current.world.tools[s][t] \notin Poisoned
   /\ FailOnStale => began <= held.created + MaxAge)
  => exit = 0

-----------------------------------------------------------------------------
(* What the documentation says and the code does not do.                    *)

\* README.md: "a new finding ... is a regression".
NewFindingIsRed ==
  (Judged /\ held.lost = {} /\ current.lost = {}) =>
    \A d \in Declared(current.world) \cap Declared(held.world), r \in Rule :
      Len(current.world.decls[d].flaws[r]) > Len(held.world.decls[d].flaws[r]) => exit = 1

\* snapshot.py: "a rug-pull (same name, changed code/tools) changes" the identity: a launch
\* that is not the one of the baseline, be it in the order of its arguments.
OtherLaunchIsRed ==
  (Judged /\ held.era # "first") =>
    \A d \in Read(current.world, current.lost) \cap Read(held.world, held.lost) :
      current.world.decls[d].launch # held.world.decls[d].launch => exit = 1

\* model.py: a scanner that "lost visibility it previously had" is a regression.
LostListenerIsRed ==
  (Judged /\ held.lost = {}) =>
    \A l \in held.world.listening \cap current.world.listening :
      Missed(l) \in current.lost => exit = 1
=============================================================================
