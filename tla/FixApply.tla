------------------------------ MODULE FixApply ------------------------------
(***************************************************************************)
(* `mcpscan scan --fix` (cli._apply_fixes, fix.py): for each discovered     *)
(* config, read it, plan the removal of over-broad grants, copy the file to *)
(* `<path>.mcpscan.bak`, write `<path>.mcpscan.tmp` and rename it over the  *)
(* config. Several commands may run at once, a user may save a config at    *)
(* any time, a system call may fail, and the command may be killed.         *)
(*                                                                          *)
(* A config is a record of allow-lists, each a sequence of entries: the     *)
(* lists a scan grades, wherever a host keeps them. The fixer looks at some *)
(* of them only (Reached). `Torn` is the text of a file opened and          *)
(* truncated, or written in part: it does not parse.                        *)
(***************************************************************************)
EXTENDS Naturals, Sequences, FiniteSets

CONSTANTS
  Fixer,        \* commands that may run --fix
  Path,         \* discovered configs, in the order discover_host_config_files gives
  List,         \* the allow-lists a scan grades
  Reached,      \* those the fixer looks at: permissions.allow, and autoApprove of the
                \* servers in a JSON object mcpServers. Lists under `servers` or
                \* `context_servers`, and all lists of a JSONC or YAML file, are not
  Entry,        \* entries of a list
  Unsafe,       \* entries _rule_for names: dangerous tools and broad wildcards
  Document,     \* configs a user may save, [List -> Seq(Entry)]
  Unparsable,   \* text that is no JSON object
  Torn,         \* text of a file not written to its end
  Absent,       \* no such file
  Unreadable,   \* paths safe_read_text refuses: symlink out, too large, no access
  Mode,         \* permission bits
  Masked,       \* [Mode -> Mode]: what open() leaves of the bits under the umask
  MaxRuns, MaxEdits, MaxFaults    \* bounds on runs, saves, failures and kills

Paths == {Path[i] : i \in DOMAIN Path}

\* The n-th smallest of a set of positions.
Nth(S, n) == CHOOSE i \in S : Cardinality({j \in S : j <= i}) = n

\* _prune_list: the unsafe entries go, the rest keeps its order.
Kept(list) == {i \in DOMAIN list : list[i] \notin Unsafe}
Prune(list) == [n \in 1..Cardinality(Kept(list)) |-> list[Nth(Kept(list), n)]]

\* Prunes permissions.allow and leaves the servers' autoApprove lists.
FixedAllowOnly(doc) ==
  [l \in List |-> IF l = CHOOSE k \in Reached : TRUE THEN Prune(doc[l]) ELSE doc[l]]

\* plan_config_fixes: the document without the unsafe grants of the lists it looks at.
Fixed(doc) == [l \in List |-> IF l \in Reached THEN Prune(doc[l]) ELSE doc[l]]

\* A document with an unsafe grant in one of these lists.
Granting(doc, lists) == \E l \in lists : \E i \in DOMAIN doc[l] : doc[l][i] \in Unsafe

ASSUME FixAssumption ==
  /\ IsFiniteSet(Fixer)
  /\ Path \in Seq(Paths) /\ Path # <<>>
  /\ \A i, j \in DOMAIN Path : Path[i] = Path[j] => i = j
  /\ Unsafe \subseteq Entry /\ Reached \subseteq List
  /\ Document \subseteq [List -> Seq(Entry)]
  /\ {Unparsable, Torn, Absent} \cap Document = {}
  /\ Unparsable # Torn /\ Unparsable # Absent /\ Torn # Absent
  /\ Unreadable \subseteq Paths
  /\ Masked \in [Mode -> Mode]
  /\ MaxRuns \in Nat /\ MaxEdits \in Nat /\ MaxFaults \in Nat

\* What a fix makes of a document is a document a user may save.
ASSUME DocumentAssumption == \A d \in Document : Fixed(d) \in Document

Text == Document \cup {Unparsable, Torn}
Outside == {"idle", "done", "failed", "killed"}
AtFile == {"copy", "copying", "open", "writing", "replace", "cleanup"}
Window == {"copying", "open", "writing", "replace"}

VARIABLES
  config, mode,       \* each config's text and permission bits
  backup,             \* each `.mcpscan.bak`
  tmp, tmpMode,       \* each `.mcpscan.tmp`
  pc,                 \* where each fixer is
  pos,                \* index of its current path
  source,             \* the text its copy2 reads
  planned,            \* its plan's new_text
  fd,                 \* the name of the file its descriptor writes: tmp, config or none
  runs, edits, faults,
  saved,              \* history: the last text a user saved, per path
  raced,              \* history: that save fell between a copy and its replace, or
                      \* two commands have been at the file at once since
  stirred             \* history: paths saved or replaced by others since a run began

vars == <<config, mode, backup, tmp, tmpMode, pc, pos, source, planned, fd,
          runs, edits, faults, saved, raced, stirred>>
disk == <<config, mode, backup, tmp, tmpMode>>
locals == <<pos, source, planned, fd>>
history == <<edits, saved, raced, stirred>>

Others(f, q) == {g \in Fixer \ {f} : pc[g] \in AtFile /\ Path[pos[g]] = q}
Meet(f, q) == raced' = [raced EXCEPT ![q] = @ \/ Others(f, q) # {}]

here(f) == Path[pos[f]]

Init ==
  /\ config \in [Paths -> Document \cup {Unparsable}]
  /\ mode \in [Paths -> Mode]
  /\ backup = [q \in Paths |-> Absent]
  /\ tmp = [q \in Paths |-> Absent]
  /\ tmpMode = mode
  /\ pc = [f \in Fixer |-> "idle"]
  /\ pos = [f \in Fixer |-> 1]
  /\ source = [f \in Fixer |-> Unparsable]
  /\ planned = [f \in Fixer |-> Unparsable]
  /\ fd = [f \in Fixer |-> "none"]
  /\ runs = 0 /\ edits = 0 /\ faults = 0
  /\ saved = config
  /\ raced = [q \in Paths |-> FALSE]
  /\ stirred = [f \in Fixer |-> {}]

-----------------------------------------------------------------------------
(* The command, one action per step another process can see.                *)

Step(f, from, to) == pc[f] = from /\ pc' = [pc EXCEPT ![f] = to]

\* Goes one path too far.
NextPathTooFar(f, from) ==
  /\ Step(f, from, IF pos[f] <= Len(Path) THEN "read" ELSE "done")
  /\ pos' = [pos EXCEPT ![f] = IF @ <= Len(Path) THEN @ + 1 ELSE @]

\* The next discovered path, or the end of the run.
NextPath(f, from) ==
  /\ Step(f, from, IF pos[f] < Len(Path) THEN "read" ELSE "done")
  /\ pos' = [pos EXCEPT ![f] = IF @ < Len(Path) THEN @ + 1 ELSE @]

Start(f) ==
  /\ pc[f] \in Outside
  /\ runs < MaxRuns
  /\ runs' = runs + 1
  /\ pc' = [pc EXCEPT ![f] = "read"]
  /\ pos' = [pos EXCEPT ![f] = 1]
  /\ stirred' = [stirred EXCEPT ![f] = {}]
  /\ UNCHANGED <<disk, source, planned, fd, faults, edits, saved, raced>>

\* The plan changes the file: readable, a JSON object, an unsafe grant in it.
Changed(q) ==
  /\ q \notin Unreadable
  /\ config[q] \in Document
  /\ Fixed(config[q]) # config[q]

\* Tries a file that does not parse again instead of moving on.
SkipRetries(f) ==
  /\ ~Changed(here(f))
  /\ IF config[here(f)] = Unparsable THEN Step(f, "read", "read") /\ UNCHANGED pos
                               ELSE NextPath(f, "read")
  /\ UNCHANGED <<disk, source, planned, fd, runs, faults, history>>

Skip(f) ==
  /\ ~Changed(here(f))
  /\ NextPath(f, "read")
  /\ UNCHANGED <<disk, source, planned, fd, runs, faults, history>>

ReadAndPlan(f) ==
  /\ Changed(here(f))
  /\ Step(f, "read", "copy")
  /\ planned' = [planned EXCEPT ![f] = Fixed(config[here(f)])]
  /\ Meet(f, here(f))
  /\ UNCHANGED <<disk, pos, source, fd, runs, faults, edits, saved, stirred>>

\* shutil.copy2 opens the config, then truncates the backup.
CopyOpen(f) ==
  /\ Step(f, "copy", "copying")
  /\ source' = [source EXCEPT ![f] = config[here(f)]]
  /\ backup' = [backup EXCEPT ![here(f)] = Torn]
  /\ Meet(f, here(f))
  /\ UNCHANGED <<config, mode, tmp, tmpMode, pos, planned, fd, runs, faults,
                 edits, saved, stirred>>

\* The backup receives the new text instead of the original.
CopyDonePlanned(f) ==
  /\ Step(f, "copying", "open")
  /\ backup' = [backup EXCEPT ![here(f)] = planned[f]]
  /\ UNCHANGED <<config, mode, tmp, tmpMode, locals, runs, faults, history>>

CopyDone(f) ==
  /\ Step(f, "copying", "open")
  /\ backup' = [backup EXCEPT ![here(f)] = source[f]]
  /\ UNCHANGED <<config, mode, tmp, tmpMode, locals, runs, faults, history>>

\* Truncates the config itself and writes it in place.
OpenInPlace(f) ==
  /\ Step(f, "open", "writing")
  /\ config' = [config EXCEPT ![here(f)] = Torn]
  /\ fd' = [fd EXCEPT ![f] = "config"]
  /\ UNCHANGED <<mode, backup, tmp, tmpMode, pos, source, planned, runs, faults, history>>

\* os.open(tmp, O_WRONLY | O_CREAT | O_TRUNC, mode): the bits count only for a file
\* that open creates, and the umask applies to them.
OpenTmp(f) ==
  LET q == here(f) IN
  /\ Step(f, "open", "writing")
  /\ tmp' = [tmp EXCEPT ![q] = Torn]
  /\ tmpMode' = [tmpMode EXCEPT ![q] = IF tmp[q] = Absent THEN Masked[mode[q]] ELSE @]
  /\ fd' = [fd EXCEPT ![f] = "tmp"]
  /\ UNCHANGED <<config, mode, backup, pos, source, planned, runs, faults, history>>

\* What a file holds once f's text is written over `old` from its start.
Overwritten(f, old) == IF old \in {Torn, planned[f]} THEN {planned[f]} ELSE {planned[f], Torn}

\* Renames before the text is flushed.
WriteUnflushed(f) ==
  /\ Step(f, "writing", "replace")
  /\ fd' = [fd EXCEPT ![f] = "none"]
  /\ UNCHANGED <<disk, pos, source, planned, runs, faults, history>>

\* The write and the close, through the descriptor.
Write(f) ==
  LET q == here(f) IN
  /\ Step(f, "writing", "replace")
  /\ \/ /\ fd[f] = "tmp"
        /\ \E t \in Overwritten(f, tmp[q]) : tmp' = [tmp EXCEPT ![q] = t]
        /\ UNCHANGED config
     \/ /\ fd[f] = "config"
        /\ \E t \in Overwritten(f, config[q]) : config' = [config EXCEPT ![q] = t]
        /\ UNCHANGED tmp
     \/ fd[f] = "none" /\ UNCHANGED <<tmp, config>>
  /\ fd' = [fd EXCEPT ![f] = "none"]
  /\ UNCHANGED <<mode, backup, tmpMode, pos, source, planned, runs, faults, history>>

\* Descriptors held on q's files after a rename of tmp over the config, when
\* `renamed`, or after the removal of tmp.
Relinked(f, q, renamed) ==
  [g \in Fixer |-> IF g \notin Others(f, q) THEN IF g = f THEN "none" ELSE fd[g]
                   ELSE IF renamed THEN IF fd[g] = "tmp" THEN "config" ELSE "none"
                   ELSE IF fd[g] = "tmp" THEN "none" ELSE fd[g]]

\* os.replace(tmp, path).
Replace(f) ==
  LET q == here(f) IN
  /\ tmp[q] # Absent
  /\ Step(f, "replace", "cleanup")
  /\ config' = [config EXCEPT ![q] = tmp[q]]
  /\ mode' = [mode EXCEPT ![q] = tmpMode[q]]
  /\ tmp' = [tmp EXCEPT ![q] = Absent]
  /\ fd' = Relinked(f, q, TRUE)
  /\ stirred' = [g \in Fixer |-> IF g = f THEN stirred[g] ELSE stirred[g] \cup {q}]
  /\ UNCHANGED <<backup, tmpMode, pos, source, planned, runs, faults, edits, saved, raced>>

\* `finally` after the rename: a tmp that exists by now is another command's.
Cleanup(f) ==
  /\ NextPath(f, "cleanup")
  /\ tmp' = [tmp EXCEPT ![here(f)] = Absent]
  /\ fd' = Relinked(f, here(f), FALSE)
  /\ UNCHANGED <<config, mode, backup, tmpMode, source, planned, runs, faults, history>>

\* An exception leaves the run, the remaining paths untouched. From the moment tmp is
\* open, `finally` removes it if it exists, unless that call fails as well: it is the
\* call that failed where the rename had succeeded.
Raise(f) ==
  LET q == here(f) IN
  /\ pc' = [pc EXCEPT ![f] = "failed"]
  /\ \/ /\ pc[f] \in {"writing", "replace"}
        /\ tmp' = [tmp EXCEPT ![q] = Absent]
        /\ fd' = Relinked(f, q, FALSE)
     \/ UNCHANGED tmp /\ fd' = [fd EXCEPT ![f] = "none"]
  /\ UNCHANGED <<config, mode, backup, tmpMode, pos, source, planned, runs, history>>

\* The rename finds no tmp: another command has renamed or removed it.
ReplaceMissing(f) ==
  /\ pc[f] = "replace" /\ tmp[here(f)] = Absent
  /\ Raise(f)
  /\ UNCHANGED faults

-----------------------------------------------------------------------------
(* The environment.                                                         *)

\* A system call fails: disk full, permission, read-only directory.
IOError(f) ==
  /\ pc[f] \in AtFile
  /\ faults < MaxFaults /\ faults' = faults + 1
  /\ Raise(f)

\* The command is killed between two steps.
Kill(f) ==
  /\ pc[f] \notin Outside
  /\ faults < MaxFaults /\ faults' = faults + 1
  /\ pc' = [pc EXCEPT ![f] = "killed"]
  /\ fd' = [fd EXCEPT ![f] = "none"]
  /\ UNCHANGED <<disk, pos, source, planned, runs, history>>

InWindow(q) == \E f \in Fixer : pc[f] \in Window /\ here(f) = q

\* A user or a host application saves q, by a rename of its own.
Edit(q) ==
  /\ edits < MaxEdits /\ edits' = edits + 1
  /\ \E d \in Document \cup {Unparsable} : config' = [config EXCEPT ![q] = d]
  /\ \E m \in Mode : mode' = [mode EXCEPT ![q] = m]
  /\ saved' = [saved EXCEPT ![q] = config'[q]]
  /\ raced' = [raced EXCEPT ![q] = InWindow(q)]
  /\ stirred' = [f \in Fixer |-> stirred[f] \cup {q}]
  /\ fd' = [f \in Fixer |-> IF pc[f] \in AtFile /\ here(f) = q /\ fd[f] = "config"
                              THEN "none" ELSE fd[f]]
  /\ UNCHANGED <<backup, tmp, tmpMode, pc, pos, source, planned, runs, faults>>

Fix(f) ==
  \/ Skip(f) \/ ReadAndPlan(f) \/ CopyOpen(f) \/ CopyDone(f)
  \/ OpenTmp(f) \/ Write(f) \/ Replace(f) \/ ReplaceMissing(f) \/ Cleanup(f)

Idle == (\A f \in Fixer : pc[f] \in Outside) /\ UNCHANGED vars

Next ==
  \/ \E f \in Fixer : Start(f) \/ Fix(f) \/ IOError(f) \/ Kill(f)
  \/ \E q \in Paths : Edit(q)
  \/ Idle

Spec == Init /\ [][Next]_vars

\* A started command is scheduled until it ends; nothing obliges a user to start one.
FairSpec == Spec /\ \A f \in Fixer : WF_vars(Fix(f))

-----------------------------------------------------------------------------
(* Properties.                                                              *)

TypeOK ==
  /\ config \in [Paths -> Text]
  /\ mode \in [Paths -> Mode] /\ tmpMode \in [Paths -> Mode]
  /\ backup \in [Paths -> Text \cup {Absent}]
  /\ tmp \in [Paths -> Text \cup {Absent}]
  /\ pc \in [Fixer -> Outside \cup AtFile \cup {"read"}]
  /\ pos \in [Fixer -> DOMAIN Path]
  /\ source \in [Fixer -> Text] /\ planned \in [Fixer -> Document \cup {Unparsable}]
  /\ fd \in [Fixer -> {"tmp", "config", "none"}]
  /\ runs \in 0..MaxRuns /\ edits \in 0..MaxEdits /\ faults \in 0..MaxFaults
  /\ saved \in [Paths -> Document \cup {Unparsable}]
  /\ raced \in [Paths -> BOOLEAN]
  /\ stirred \in [Fixer -> SUBSET Paths]

\* apply_fix_to_file: "the new content is written atomically via a temp file +
\* os.replace": nobody ever finds a config truncated or half written.
AlwaysWhole == \A q \in Paths : config[q] # Torn

\* The same for one command at a time on a file, whatever earlier runs left in tmp.
NeverTornAlone == \A q \in Paths : config[q] = Torn => raced[q]

\* A command changes a config only into what it was, less its unsafe grants, in one
\* step. A config saved since the run began, or one two commands work on at once, is
\* outside this promise.
OnlyPrunes ==
  [][\A q \in Paths :
       config'[q] # config[q] =>
         \/ edits' # edits \/ raced[q]
         \/ \E f \in Fixer : q \in stirred[f] /\ pc[f] = "replace" /\ here(f) = q
         \/ config[q] \in Document /\ config'[q] = Fixed(config[q])]_vars

\* README, "Reversible": what the user last saved is the config itself or its backup,
\* through kills, failures and repeated runs, as long as the save did not fall
\* between a copy and the replace that follows it and one command works at a time.
LastSaveRecoverable ==
  \A q \in Paths : ~raced[q] => saved[q] \in {config[q], backup[q]}

\* A run that ends normally leaves no unsafe grant in the lists it looks at, of a config
\* that it could read and nobody saved meanwhile.
NoGrantLeft ==
  \A f \in Fixer : pc[f] = "done" =>
    \A q \in Paths \ (Unreadable \cup stirred[f]) :
      config[q] \in Document => ~Granting(config[q], Reached)

\* The module's docstring: "a fixed config re-scans clean": none in any list a scan grades.
RescansClean ==
  \A f \in Fixer : pc[f] = "done" =>
    \A q \in Paths \ (Unreadable \cup stirred[f]) :
      config[q] \in Document => ~Granting(config[q], List)

\* A started command ends, whatever the files hold.
RunEnds == \A f \in Fixer : pc[f] = "read" ~> pc[f] \in Outside

\* apply_fix_to_file: "keeping the file's original permission bits".
KeepsMode ==
  [][\A q \in Paths : config'[q] # config[q] /\ edits' = edits => mode'[q] = mode[q]]_vars
=============================================================================
