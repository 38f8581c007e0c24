--------------------------- MODULE DatapackStore ---------------------------
(***************************************************************************)
(* The detection data-pack channel: `mcpscan update-datapack` verifies a    *)
(* signed pack and writes it over the local store; every scan looks at the  *)
(* store, uses its pack, or falls back to the built-in one. The publisher   *)
(* replaces the pack and its signature one file at a time, and the store's  *)
(* permission bits drift (a restored backup, a sync tool, an umask), after  *)
(* which other accounts may write it.                                       *)
(***************************************************************************)
EXTENDS Naturals, FiniteSets

CONSTANTS
  Installer,     \* update-datapack commands
  Scanner,       \* scans
  Good,          \* texts parse_datapack accepts
  Malformed,     \* UTF-8 text it refuses; an empty or cut file is one
  NotUtf8,       \* bytes that do not decode; a file cut inside a character is one
  None,          \* no file, no signature, no pack
  Builtin,       \* the pack shipped with the code
  Signed,        \* what the trusted signer has signed
  MaxInstalls, MaxScans, MaxPublishes, MaxDrifts, MaxFaults    \* bounds

Bytes == Good \cup {Malformed, NotUtf8}

ASSUME DatapackAssumption ==
  /\ IsFiniteSet(Installer)
  /\ Signed \subseteq Bytes
  /\ Malformed \notin Good /\ NotUtf8 \notin Good \cup {Malformed}
  /\ None \notin Bytes /\ Builtin \notin Bytes \cup {None}
  /\ {MaxInstalls, MaxScans, MaxPublishes, MaxDrifts, MaxFaults} \subseteq Nat

VARIABLES
  packFile, sigFile,  \* the published pack and what its signature signs
  store, loose,       \* the store's text, and whether others may write it
  install, held,      \* where each installer is, and the bytes it has read
  look,               \* where each scan is in choosing its catalogs
  reported,           \* it has raised DATAPACK-STORE-PERMS
  used,               \* the pack its catalogs come from
  installs, scans, publishes, drifts, faults,
  foreign,            \* history: others wrote the store since the last install opened it
  contested,          \* history: the last install began while another was writing
  installed,          \* history: the pack whose installation was completed and not disturbed
  expected,           \* history: `installed` at the scan's start, None once disturbed
  moved,              \* history: the store changed permissions or came to be between
                      \* the scan's two looks at them
  declined            \* history: the scan refused the store for its permissions

files == <<packFile, sigFile>>
disk == <<store, loose>>
updates == <<install, held>>
looks == <<look, reported, used>>
bounds == <<installs, scans, publishes, drifts, faults>>
owned == <<foreign, contested, installed>>
scanned == <<expected, moved, declined>>
vars == <<files, disk, updates, looks, bounds, owned, scanned>>

InstallEnded == {"idle", "refused", "installed", "broken"}
LookEnded == {"idle", "done", "crashed"}
Writing == {"write", "chmod"}

Init ==
  /\ packFile \in Bytes /\ sigFile \in Signed \cup {None}
  /\ \/ store = None /\ loose = FALSE
     \/ store \in Signed \cap Good /\ loose \in BOOLEAN
  /\ install = [i \in Installer |-> "idle"]
  /\ held = [i \in Installer |-> None]
  /\ look = [s \in Scanner |-> "idle"]
  /\ reported = [s \in Scanner |-> FALSE]
  /\ used = [s \in Scanner |-> None]
  /\ installs = 0 /\ scans = 0 /\ publishes = 0 /\ drifts = 0 /\ faults = 0
  /\ foreign = FALSE /\ contested = FALSE /\ installed = None
  /\ expected = [s \in Scanner |-> None]
  /\ moved = [s \in Scanner |-> FALSE]
  /\ declined = [s \in Scanner |-> FALSE]

\* Every change of the store or of its bits ends what scans could count on.
Disturbed == expected' = [s \in Scanner |-> None]
Moved == moved' = [s \in Scanner |-> moved[s] \/ look[s] \in {"perms", "gate"}]

-----------------------------------------------------------------------------
(* update-datapack.                                                         *)

To(i, from, to) == install[i] = from /\ install' = [install EXCEPT ![i] = to]

\* Reads the pack once.
ReadPack(i) ==
  /\ install[i] \in InstallEnded
  /\ installs < MaxInstalls /\ installs' = installs + 1
  /\ install' = [install EXCEPT ![i] = "verify"]
  /\ held' = [held EXCEPT ![i] = packFile]
  /\ UNCHANGED <<files, disk, looks, scans, publishes, drifts, faults, owned, scanned>>

\* Accepts what is signed without parsing it.
VerifiedUnparsed(i) == sigFile = held[i]

\* load_verified_datapack: the signature over the bytes held, then decoding, then
\* parsing; a missing signature, and a verifier that cannot run, refuse.
Verified(i) == sigFile = held[i] /\ held[i] \in Good

Verify(i) ==
  /\ To(i, "verify", IF Verified(i) THEN "open" ELSE "refused")
  /\ UNCHANGED <<files, disk, held, looks, bounds, owned, scanned>>

\* write_report, os.open(O_WRONLY | O_CREAT | O_TRUNC, 0600): a file that exists
\* keeps its bits.
OpenStore(i) ==
  /\ To(i, "open", "write")
  /\ store' = Malformed
  /\ loose' = (loose /\ store # None)
  /\ foreign' = FALSE
  /\ contested' = (\E j \in Installer \ {i} : install[j] \in Writing)
  /\ installed' = None
  /\ Disturbed /\ Moved
  /\ UNCHANGED <<files, held, looks, bounds, declined>>

\* Installs the pack file as it is now, not the bytes that were verified.
WriteStoreRereads(i) ==
  /\ To(i, "write", "chmod")
  /\ store' = packFile
  /\ Disturbed
  /\ UNCHANGED <<files, loose, held, looks, bounds, owned, moved, declined>>

\* The text over what the store holds: a longer text written meanwhile by another
\* command leaves its tail.
WriteStore(i) ==
  /\ To(i, "write", "chmod")
  /\ \/ store' = held[i]
     \/ store \notin {Malformed, held[i]} /\ store' \in {Malformed, NotUtf8}
  /\ Disturbed
  /\ UNCHANGED <<files, loose, held, looks, bounds, owned, moved, declined>>

\* Leaves the bits of a store that existed.
ChmodStoreOnlyNew(i) ==
  /\ To(i, "chmod", "installed")
  /\ installed' = IF contested \/ \E j \in Installer \ {i} : install[j] \in Writing
                    THEN None ELSE held[i]
  /\ Disturbed /\ Moved
  /\ UNCHANGED <<files, disk, held, looks, bounds, foreign, contested, declined>>

\* os.chmod(path, 0600).
ChmodStore(i) ==
  /\ To(i, "chmod", "installed")
  /\ loose' = FALSE
  /\ installed' = IF foreign \/ contested \/ \E j \in Installer \ {i} : install[j] \in Writing
                    THEN None ELSE held[i]
  /\ Disturbed /\ Moved
  /\ UNCHANGED <<files, store, held, looks, bounds, foreign, contested, declined>>

\* The write fails (disk full) with a part of the text written: `finally` still
\* sets the bits, and the error ends the command.
WriteFails(i) ==
  /\ To(i, "write", "broken")
  /\ faults < MaxFaults /\ faults' = faults + 1
  /\ store' \in {Malformed, NotUtf8}
  /\ loose' = FALSE
  /\ Disturbed /\ Moved
  /\ UNCHANGED <<files, held, looks, installs, scans, publishes, drifts, owned, declined>>

\* The command is killed, at most with a part of the text written.
KillInstall(i) ==
  /\ install[i] \notin InstallEnded
  /\ faults < MaxFaults /\ faults' = faults + 1
  /\ install' = [install EXCEPT ![i] = "broken"]
  /\ IF install[i] = "write" THEN store' \in {store, Malformed, NotUtf8} ELSE UNCHANGED store
  /\ Disturbed
  /\ UNCHANGED <<files, loose, held, looks, installs, scans, publishes, drifts, owned,
                 moved, declined>>

-----------------------------------------------------------------------------
(* _active_secret_and_agent_catalogs, one action per look at the file.      *)

Look(s, from, to) == look[s] = from /\ look' = [look EXCEPT ![s] = to]

StartScan(s) ==
  /\ look[s] \in LookEnded
  /\ scans < MaxScans /\ scans' = scans + 1
  /\ look' = [look EXCEPT ![s] = IF store = None THEN "gate" ELSE "perms"]
  /\ reported' = [reported EXCEPT ![s] = FALSE]
  /\ used' = [used EXCEPT ![s] = None]
  /\ expected' = [expected EXCEPT ![s] = installed]
  /\ moved' = [moved EXCEPT ![s] = FALSE]
  /\ declined' = [declined EXCEPT ![s] = FALSE]
  /\ UNCHANGED <<files, disk, updates, installs, publishes, drifts, faults, owned>>

\* Reports a store only when its text is a pack.
CheckPermsOfPacks(s) ==
  /\ Look(s, "perms", "gate")
  /\ reported' = [reported EXCEPT ![s] = loose /\ store \in Good]
  /\ UNCHANGED <<files, disk, updates, used, bounds, owned, scanned>>

\* check_datapack_store: the finding, from a first stat.
CheckPerms(s) ==
  /\ Look(s, "perms", "gate")
  /\ reported' = [reported EXCEPT ![s] = loose]
  /\ UNCHANGED <<files, disk, updates, used, bounds, owned, scanned>>

\* load_local_datapack: the refusal, from a second stat (a store that is not there
\* passes it).
RefuseLoose(s) ==
  LET refused == store # None /\ loose IN
  /\ Look(s, "gate", IF refused THEN "done" ELSE "load")
  /\ declined' = [declined EXCEPT ![s] = refused]
  /\ used' = [used EXCEPT ![s] = IF refused THEN Builtin ELSE @]
  /\ UNCHANGED <<files, disk, updates, reported, bounds, owned, expected, moved>>

\* A store that does not parse is read again later.
LoadWaits(s) ==
  /\ IF store = Malformed
       THEN Look(s, "load", "load") /\ UNCHANGED used
       ELSE /\ Look(s, "load", IF store = NotUtf8 THEN "crashed" ELSE "done")
            /\ used' = [used EXCEPT ![s] = IF store \in Good THEN store
                                           ELSE IF store = NotUtf8 THEN @ ELSE Builtin]
  /\ UNCHANGED <<files, disk, updates, reported, bounds, owned, scanned>>

\* read_text and parse: an OSError and a DataPackError fall back; the decoding
\* error is a ValueError and nothing catches it.
Load(s) ==
  /\ Look(s, "load", IF store = NotUtf8 THEN "crashed" ELSE "done")
  /\ used' = [used EXCEPT ![s] = IF store \in Good THEN store
                                 ELSE IF store = NotUtf8 THEN @ ELSE Builtin]
  /\ UNCHANGED <<files, disk, updates, reported, bounds, owned, scanned>>

-----------------------------------------------------------------------------
(* The environment.                                                         *)

\* The publisher replaces the pack, or the signature.
Publish ==
  /\ publishes < MaxPublishes /\ publishes' = publishes + 1
  /\ \/ packFile' \in Bytes /\ UNCHANGED sigFile
     \/ sigFile' \in Signed \cup {None} /\ UNCHANGED packFile
  /\ UNCHANGED <<disk, updates, looks, installs, scans, drifts, faults, owned, scanned>>

\* The store's bits change.
DriftPerms ==
  /\ store # None
  /\ drifts < MaxDrifts /\ drifts' = drifts + 1
  /\ loose' = ~loose
  /\ installed' = None
  /\ Disturbed /\ Moved
  /\ UNCHANGED <<files, store, updates, looks, installs, scans, publishes, faults,
                 foreign, contested, declined>>

\* Another account writes the store it may write.
OthersWrite ==
  /\ store # None /\ loose
  /\ drifts < MaxDrifts /\ drifts' = drifts + 1
  /\ store' \in Bytes
  /\ foreign' = TRUE
  /\ installed' = None
  /\ Disturbed
  /\ UNCHANGED <<files, loose, updates, looks, installs, scans, publishes, faults,
                 contested, moved, declined>>

Install(i) == Verify(i) \/ OpenStore(i) \/ WriteStore(i) \/ ChmodStore(i)
Scan(s) == CheckPerms(s) \/ RefuseLoose(s) \/ Load(s)

Idle ==
  /\ \A i \in Installer : install[i] \in InstallEnded
  /\ \A s \in Scanner : look[s] \in LookEnded
  /\ UNCHANGED vars

Next ==
  \/ \E i \in Installer : ReadPack(i) \/ Install(i) \/ WriteFails(i) \/ KillInstall(i)
  \/ \E s \in Scanner : StartScan(s) \/ Scan(s)
  \/ Publish \/ DriftPerms \/ OthersWrite \/ Idle

Spec == Init /\ [][Next]_vars

\* Started commands are scheduled; nobody need start one, and the files may rest.
FairSpec ==
  /\ Spec
  /\ \A i \in Installer : WF_vars(Install(i))
  /\ \A s \in Scanner : WF_vars(Scan(s))

-----------------------------------------------------------------------------
(* Properties.                                                              *)

TypeOK ==
  /\ packFile \in Bytes /\ sigFile \in Signed \cup {None}
  /\ store \in Bytes \cup {None} /\ loose \in BOOLEAN
  /\ install \in [Installer -> InstallEnded \cup Writing \cup {"verify", "open"}]
  /\ held \in [Installer -> Bytes \cup {None}]
  /\ \A i \in Installer : install[i] \in Writing \cup {"open"} => held[i] \in Signed \cap Good
  /\ look \in [Scanner -> LookEnded \cup {"perms", "gate", "load"}]
  /\ reported \in [Scanner -> BOOLEAN]
  /\ used \in [Scanner -> Good \cup {Builtin, None}]
  /\ installs \in 0..MaxInstalls /\ scans \in 0..MaxScans
  /\ publishes \in 0..MaxPublishes /\ drifts \in 0..MaxDrifts /\ faults \in 0..MaxFaults
  /\ foreign \in BOOLEAN /\ contested \in BOOLEAN
  /\ installed \in Good \cup {None}
  /\ expected \in [Scanner -> Good \cup {None}]
  /\ moved \in [Scanner -> BOOLEAN] /\ declined \in [Scanner -> BOOLEAN]

\* update-datapack, "verify-or-refuse": a store nobody else wrote holds no pack the
\* signer has not signed, whatever is published while the command runs and wherever
\* it is killed.
OnlySignedStored == ~foreign /\ store \in Good => store \in Signed

\* "later scans pick it up": a scan that begins after an installation, undisturbed
\* since, runs on the installed pack, even when the store had drifted before.
InstalledPackIsUsed ==
  \A s \in Scanner : look[s] = "done" /\ expected[s] # None => used[s] = expected[s]

\* load_local_datapack, "a rejected store is not silent": a scan that refuses the
\* store for its permissions has raised the finding, unless they changed between its
\* two stats; and the finding without the refusal has the same only cause.
RejectionReported ==
  \A s \in Scanner : look[s] = "done" /\ ~moved[s] => (declined[s] <=> reported[s])

\* A scan ends whatever the store holds and does meanwhile.
ScanEnds == \A s \in Scanner : look[s] \in {"perms", "gate"} ~> look[s] \in LookEnded

\* engine: "a corrupt or tampered store can never crash a scan".
ScanNeverCrashes == \A s \in Scanner : look[s] # "crashed"
=============================================================================
