------------------------ MODULE DatapackStoreProofs ------------------------
(***************************************************************************)
(* Proofs about DatapackStore, for any number of installers and scans, any *)
(* packs, and any bounds on installations, publications and faults.        *)
(***************************************************************************)
EXTENDS DatapackStore, TLAPS

\* The store comes to be by an installer's open, with its bits tight, and is never
\* removed.
StoreKept ==
  /\ store = None => ~loose
  /\ \A i \in Installer : install[i] \in Writing => store # None

\* While no command but the last to open the store is writing it, and no other
\* account has, the store holds what that command has put there.
LastOpener ==
  ~contested =>
    /\ \A i, j \in Installer : install[i] \in Writing /\ install[j] \in Writing => i = j
    /\ ~foreign => \A i \in Installer :
         /\ install[i] = "write" => store = Malformed
         /\ install[i] = "chmod" => store = held[i]

\* An installation that counts as undisturbed is what the store holds, tight, with
\* nobody writing.
Installation ==
  installed # None =>
    /\ store = installed /\ ~loose
    /\ \A i \in Installer : install[i] \notin Writing

\* What a scan expects is the installation that stands, and its second look lets it
\* through.
Expectation ==
  \A s \in Scanner :
    /\ look[s] \in {"perms", "gate", "load"} /\ expected[s] # None => expected[s] = installed
    /\ look[s] = "done" /\ expected[s] # None => used[s] = expected[s]

\* The finding raised by the first look is about the bits the second one finds,
\* unless the scan's history says otherwise.
Reporting ==
  \A s \in Scanner : ~moved[s] =>
    /\ look[s] = "gate" => reported[s] = loose
    /\ look[s] \in {"load", "done"} => declined[s] = reported[s]

IInv ==
  /\ TypeOK /\ StoreKept /\ OnlySignedStored
  /\ LastOpener /\ Installation /\ Expectation /\ Reporting

-----------------------------------------------------------------------------
\* Before any command, with no store or a signed one, the invariant holds.
THEOREM Initialization == Init => IInv
<1> SUFFICES ASSUME Init PROVE IInv
  OBVIOUS
<1> USE DatapackAssumption DEF Init
<1>1. TypeOK
  <2>1. store \in Bytes \cup {None} /\ loose \in BOOLEAN /\ installed \in Good \cup {None}
    BY DEF Bytes
  <2>2. /\ foreign \in BOOLEAN /\ contested \in BOOLEAN
        /\ reported \in [Scanner -> BOOLEAN] /\ moved \in [Scanner -> BOOLEAN]
        /\ declined \in [Scanner -> BOOLEAN]
    OBVIOUS
  <2>3. QED
    BY <2>1, <2>2 DEF TypeOK, InstallEnded, LookEnded, Writing
<1>2. StoreKept /\ OnlySignedStored
  <2>1. store = None \/ store \in Signed
    OBVIOUS
  <2>2. store = None => loose = FALSE
    OBVIOUS
  <2>3. \A i \in Installer : install[i] \notin Writing
    BY DEF Writing
  <2>4. QED
    BY <2>1, <2>2, <2>3 DEF StoreKept, OnlySignedStored, Bytes
<1>3. LastOpener /\ Installation
  <2>1. installed = None /\ \A i \in Installer : install[i] \notin Writing
    BY DEF Writing
  <2>2. \A i \in Installer : install[i] # "write" /\ install[i] # "chmod"
    OBVIOUS
  <2>3. QED
    BY <2>1, <2>2 DEF LastOpener, Installation
<1>4. Expectation /\ Reporting
  BY DEF Expectation, Reporting
<1>5. QED
  BY <1>1, <1>2, <1>3, <1>4 DEF IInv

\* Reading the published pack touches no file.
LEMMA ReadPackStep ==
  ASSUME IInv, NEW i \in Installer, ReadPack(i)
  PROVE  IInv'
<1> USE DatapackAssumption DEF IInv, ReadPack, files, disk, looks, owned, scanned
<1>1. TypeOK'
  BY DEF TypeOK, Bytes, InstallEnded, Writing, LookEnded
<1>2. StoreKept' /\ OnlySignedStored'
  BY DEF TypeOK, StoreKept, OnlySignedStored, Bytes, InstallEnded, Writing
<1>3. LastOpener' /\ Installation'
  BY DEF TypeOK, LastOpener, Installation, InstallEnded, Writing
<1>4. Expectation' /\ Reporting'
  BY DEF TypeOK, Expectation, Reporting, LookEnded
<1>5. QED
  BY <1>1, <1>2, <1>3, <1>4

\* What passes verification is a pack the signer has signed.
LEMMA VerifyStep ==
  ASSUME IInv, NEW i \in Installer, Verify(i)
  PROVE  IInv'
<1> USE DatapackAssumption DEF IInv, Verify, To, files, disk, looks, bounds, owned, scanned
<1>1. TypeOK'
  <2>1. install' \in [Installer -> InstallEnded \cup Writing \cup {"verify", "open"}]
    BY DEF TypeOK, InstallEnded, Writing
  <2>2. install'[i] = "open" => held[i] \in Signed \cap Good
    BY DEF TypeOK, Verified, Bytes
  <2>3. \A j \in Installer : install'[j] \in Writing \cup {"open"} => held'[j] \in Signed \cap Good
    BY <2>2 DEF TypeOK, Writing
  <2>4. QED
    BY <2>1, <2>3 DEF TypeOK
<1>2. StoreKept' /\ OnlySignedStored'
  BY DEF TypeOK, StoreKept, OnlySignedStored, Bytes, InstallEnded, Writing
<1>3. LastOpener' /\ Installation'
  BY DEF TypeOK, LastOpener, Installation, InstallEnded, Writing
<1>4. Expectation' /\ Reporting'
  BY DEF TypeOK, Expectation, Reporting, LookEnded
<1>5. QED
  BY <1>1, <1>2, <1>3, <1>4

\* Opening the store empties it, and ends every earlier claim about it.
LEMMA OpenStoreStep ==
  ASSUME IInv, NEW i \in Installer, OpenStore(i)
  PROVE  IInv'
<1> USE DatapackAssumption DEF IInv, OpenStore, To, Disturbed, Moved, files, looks, bounds
<1>1. TypeOK'
  BY DEF TypeOK, Bytes, InstallEnded, Writing, LookEnded
<1>2. StoreKept' /\ OnlySignedStored'
  BY DEF TypeOK, StoreKept, OnlySignedStored, Bytes, InstallEnded, Writing
<1>3. LastOpener' /\ Installation'
  BY DEF TypeOK, LastOpener, Installation, InstallEnded, Writing
<1>4. Expectation' /\ Reporting'
  BY DEF TypeOK, Expectation, Reporting, LookEnded
<1>5. QED
  BY <1>1, <1>2, <1>3, <1>4

\* A write puts the verified bytes into the store, or leaves no pack there.
LEMMA WriteStoreStep ==
  ASSUME IInv, NEW i \in Installer, WriteStore(i)
  PROVE  IInv'
<1> USE DatapackAssumption DEF IInv, WriteStore, To, Disturbed, files, looks, bounds, owned
<1>1. TypeOK'
  BY DEF TypeOK, Bytes, InstallEnded, Writing, LookEnded
<1>2. StoreKept' /\ OnlySignedStored'
  BY DEF TypeOK, StoreKept, OnlySignedStored, Bytes, InstallEnded, Writing
<1>3. LastOpener' /\ Installation'
  BY DEF TypeOK, LastOpener, Installation, InstallEnded, Writing
<1>4. Expectation' /\ Reporting'
  BY DEF TypeOK, Expectation, Reporting, LookEnded
<1>5. QED
  BY <1>1, <1>2, <1>3, <1>4

\* The bits are set last: an undisturbed installation is complete here.
LEMMA ChmodStoreStep ==
  ASSUME IInv, NEW i \in Installer, ChmodStore(i)
  PROVE  IInv'
<1> USE DatapackAssumption DEF IInv, ChmodStore, To, Disturbed, Moved, files, looks, bounds
<1>1. TypeOK'
  BY DEF TypeOK, Bytes, InstallEnded, Writing, LookEnded
<1>2. StoreKept' /\ OnlySignedStored'
  BY DEF TypeOK, StoreKept, OnlySignedStored, Bytes, InstallEnded, Writing
<1>3. LastOpener'
  BY DEF TypeOK, LastOpener, Bytes, InstallEnded, LookEnded, Writing
<1>4. Installation'
  <2>1. SUFFICES ASSUME ~foreign, ~contested, \A j \in Installer \ {i} : install[j] \notin Writing
                 PROVE  Installation'
    BY DEF TypeOK, Installation
  <2>2. store' = held[i] /\ installed' = held[i] /\ ~loose'
    BY <2>1 DEF LastOpener
  <2>3. \A j \in Installer : install'[j] \notin Writing
    BY <2>1 DEF TypeOK, Writing
  <2>4. QED
    BY <2>2, <2>3 DEF Installation
<1>5. Expectation' /\ Reporting'
  BY DEF TypeOK, Expectation, Reporting, LookEnded
<1>6. QED
  BY <1>1, <1>2, <1>3, <1>4, <1>5

\* A failing write leaves no pack, with tight bits.
LEMMA WriteFailsStep ==
  ASSUME IInv, NEW i \in Installer, WriteFails(i)
  PROVE  IInv'
<1> USE DatapackAssumption DEF IInv, WriteFails, To, Disturbed, Moved, files, looks, owned
<1>1. TypeOK'
  <2>1. install' \in [Installer -> InstallEnded \cup Writing \cup {"verify", "open"}]
    BY DEF TypeOK, InstallEnded, Writing
  <2>2. \A j \in Installer : install'[j] \in Writing \cup {"open"} => held'[j] \in Signed \cap Good
    BY DEF TypeOK, Writing
  <2>3. store' \in Bytes \cup {None} /\ faults' \in 0..MaxFaults /\ moved' \in [Scanner -> BOOLEAN]
    BY DEF TypeOK, Bytes
  <2>4. QED
    BY <2>1, <2>2, <2>3 DEF TypeOK
<1>2. StoreKept' /\ OnlySignedStored'
  BY DEF TypeOK, StoreKept, OnlySignedStored, Bytes, InstallEnded, Writing
<1>3. LastOpener' /\ Installation'
  BY DEF TypeOK, LastOpener, Installation, InstallEnded, Writing
<1>4. Expectation' /\ Reporting'
  BY DEF TypeOK, Expectation, Reporting, LookEnded
<1>5. QED
  BY <1>1, <1>2, <1>3, <1>4

\* A kill leaves what was there, or no pack.
LEMMA KillInstallStep ==
  ASSUME IInv, NEW i \in Installer, KillInstall(i)
  PROVE  IInv'
<1> USE DatapackAssumption DEF IInv, KillInstall, Disturbed, files, looks, owned
<1>1. TypeOK'
  BY DEF TypeOK, Bytes, InstallEnded, Writing, LookEnded
<1>2. StoreKept' /\ OnlySignedStored'
  BY DEF TypeOK, StoreKept, OnlySignedStored, Bytes, InstallEnded, Writing
<1>3. LastOpener' /\ Installation'
  BY DEF TypeOK, LastOpener, Installation, InstallEnded, Writing
<1>4. Expectation' /\ Reporting'
  BY DEF TypeOK, Expectation, Reporting, LookEnded
<1>5. QED
  BY <1>1, <1>2, <1>3, <1>4

\* A scan begins with what is installed.
LEMMA StartScanStep ==
  ASSUME IInv, NEW s \in Scanner, StartScan(s)
  PROVE  IInv'
<1> USE DatapackAssumption DEF IInv, StartScan, files, disk, updates, owned
<1>1. TypeOK'
  BY DEF TypeOK, Bytes, InstallEnded, Writing, LookEnded
<1>2. StoreKept' /\ OnlySignedStored'
  BY DEF TypeOK, StoreKept, OnlySignedStored, Bytes, InstallEnded, Writing
<1>3. LastOpener' /\ Installation'
  BY DEF TypeOK, LastOpener, Installation, InstallEnded, Writing
<1>4. Expectation'
  BY DEF TypeOK, Expectation, Bytes, InstallEnded, LookEnded, Writing
<1>5. Reporting'
  <2>1. look'[s] = "gate" => ~reported'[s] /\ ~loose'
    BY DEF TypeOK, StoreKept
  <2>2. QED
    BY <2>1 DEF TypeOK, Reporting
<1>6. QED
  BY <1>1, <1>2, <1>3, <1>4, <1>5

\* The first look.
LEMMA CheckPermsStep ==
  ASSUME IInv, NEW s \in Scanner, CheckPerms(s)
  PROVE  IInv'
<1> USE DatapackAssumption DEF IInv, CheckPerms, Look, files, disk, updates, bounds, owned, scanned
<1>1. TypeOK'
  BY DEF TypeOK, Bytes, InstallEnded, Writing, LookEnded
<1>2. StoreKept' /\ OnlySignedStored'
  BY DEF TypeOK, StoreKept, OnlySignedStored, Bytes, InstallEnded, Writing
<1>3. LastOpener' /\ Installation'
  BY DEF TypeOK, LastOpener, Installation, InstallEnded, Writing
<1>4. Expectation' /\ Reporting'
  BY DEF TypeOK, Expectation, Reporting, LookEnded
<1>5. QED
  BY <1>1, <1>2, <1>3, <1>4

\* The second look.
LEMMA RefuseLooseStep ==
  ASSUME IInv, NEW s \in Scanner, RefuseLoose(s)
  PROVE  IInv'
<1> USE DatapackAssumption DEF IInv, RefuseLoose, Look, files, disk, updates, bounds, owned
<1>1. TypeOK'
  BY DEF TypeOK, Bytes, InstallEnded, Writing, LookEnded
<1>2. StoreKept' /\ OnlySignedStored'
  BY DEF TypeOK, StoreKept, OnlySignedStored, Bytes, InstallEnded, Writing
<1>3. LastOpener' /\ Installation'
  BY DEF TypeOK, LastOpener, Installation, InstallEnded, Writing
<1>4. Expectation'
  <2>1. ~(store # None /\ loose) => look'[s] = "load" /\ used' = used
    BY DEF TypeOK
  <2>2. store # None /\ loose => installed = None /\ look'[s] = "done"
    BY DEF TypeOK, Installation
  <2>3. \A t \in Scanner \ {s} : look'[t] = look[t] /\ used'[t] = used[t]
    BY DEF TypeOK
  <2>4. expected' = expected /\ installed' = installed
    OBVIOUS
  <2>5. expected[s] # None => expected[s] = installed
    BY DEF Expectation
  <2>6. QED
    BY <2>1, <2>2, <2>3, <2>4, <2>5 DEF Expectation
<1>5. Reporting'
  <2>1. declined'[s] = loose /\ look'[s] \in {"load", "done"}
    BY DEF TypeOK, StoreKept
  <2>2. \A t \in Scanner \ {s} : look'[t] = look[t] /\ declined'[t] = declined[t]
    BY DEF TypeOK
  <2>3. reported' = reported /\ moved' = moved /\ (~moved[s] => reported[s] = loose)
    BY DEF Reporting
  <2>4. QED
    BY <2>1, <2>2, <2>3 DEF Reporting
<1>6. QED
  BY <1>1, <1>2, <1>3, <1>4, <1>5

\* The load, or the fall back.
LEMMA LoadStep ==
  ASSUME IInv, NEW s \in Scanner, Load(s)
  PROVE  IInv'
<1> USE DatapackAssumption DEF IInv, Load, Look, files, disk, updates, bounds, owned, scanned
<1>1. TypeOK'
  BY DEF TypeOK, Bytes, InstallEnded, Writing, LookEnded
<1>2. StoreKept' /\ OnlySignedStored'
  BY DEF TypeOK, StoreKept, OnlySignedStored, Bytes, InstallEnded, Writing
<1>3. LastOpener' /\ Installation'
  BY DEF TypeOK, LastOpener, Installation, InstallEnded, Writing
<1>4. Expectation'
  <2>1. expected[s] # None => store = expected[s] /\ store \in Good
    BY DEF TypeOK, Expectation, Installation
  <2>2. store \in Good => used'[s] = store /\ look'[s] = "done"
    BY DEF TypeOK, Bytes
  <2>3. look'[s] \in {"done", "crashed"}
    BY DEF TypeOK
  <2>4. \A t \in Scanner \ {s} : look'[t] = look[t] /\ used'[t] = used[t]
    BY DEF TypeOK
  <2>5. QED
    BY <2>1, <2>2, <2>3, <2>4 DEF Expectation
<1>5. Reporting'
  BY DEF TypeOK, Reporting, Bytes, InstallEnded, LookEnded, Writing
<1>6. QED
  BY <1>1, <1>2, <1>3, <1>4, <1>5

\* Publication touches neither the store nor any command.
LEMMA PublishStep ==
  ASSUME IInv, Publish
  PROVE  IInv'
<1> USE DatapackAssumption DEF IInv, Publish, disk, updates, looks, owned, scanned
<1>1. TypeOK'
  BY DEF TypeOK, Bytes, InstallEnded, Writing, LookEnded
<1>2. StoreKept' /\ OnlySignedStored'
  BY DEF TypeOK, StoreKept, OnlySignedStored, Bytes, InstallEnded, Writing
<1>3. LastOpener' /\ Installation'
  BY DEF TypeOK, LastOpener, Installation, InstallEnded, Writing
<1>4. Expectation' /\ Reporting'
  BY DEF TypeOK, Expectation, Reporting, LookEnded
<1>5. QED
  BY <1>1, <1>2, <1>3, <1>4

\* A change of bits ends an installation and every expectation.
LEMMA DriftPermsStep ==
  ASSUME IInv, DriftPerms
  PROVE  IInv'
<1> USE DatapackAssumption DEF IInv, DriftPerms, Disturbed, Moved, files, updates, looks
<1>1. TypeOK'
  BY DEF TypeOK, Bytes, InstallEnded, Writing, LookEnded
<1>2. StoreKept' /\ OnlySignedStored'
  BY DEF TypeOK, StoreKept, OnlySignedStored, Bytes, InstallEnded, Writing
<1>3. LastOpener' /\ Installation'
  BY DEF TypeOK, LastOpener, Installation, InstallEnded, Writing
<1>4. Expectation' /\ Reporting'
  BY DEF TypeOK, Expectation, Reporting, LookEnded
<1>5. QED
  BY <1>1, <1>2, <1>3, <1>4

\* So does a write by another account, which also voids the signer's word.
LEMMA OthersWriteStep ==
  ASSUME IInv, OthersWrite
  PROVE  IInv'
<1> USE DatapackAssumption DEF IInv, OthersWrite, Disturbed, files, updates, looks
<1>1. TypeOK'
  BY DEF TypeOK, Bytes, InstallEnded, Writing, LookEnded
<1>2. StoreKept' /\ OnlySignedStored'
  BY DEF TypeOK, StoreKept, OnlySignedStored, Bytes, InstallEnded, Writing
<1>3. LastOpener' /\ Installation'
  BY DEF TypeOK, LastOpener, Installation, InstallEnded, Writing
<1>4. Expectation' /\ Reporting'
  BY DEF TypeOK, Expectation, Reporting, LookEnded
<1>5. QED
  BY <1>1, <1>2, <1>3, <1>4

\* A step that changes nothing keeps the invariant.
LEMMA StutterStep ==
  ASSUME IInv, UNCHANGED vars
  PROVE  IInv'
BY DEF IInv, TypeOK, StoreKept, OnlySignedStored, LastOpener, Installation, Expectation,
   Reporting, vars, files, disk, updates, looks, bounds, owned, scanned

\* The strengthened invariant holds whatever commands run, and whoever else touches
\* the files.
THEOREM Invariance == Spec => []IInv
<1>1. IInv /\ [Next]_vars => IInv'
  BY ReadPackStep, VerifyStep, OpenStoreStep, WriteStoreStep, ChmodStoreStep, WriteFailsStep,
     KillInstallStep, StartScanStep, CheckPermsStep, RefuseLooseStep, LoadStep, PublishStep,
     DriftPermsStep, OthersWriteStep, StutterStep DEF Next, Install, Scan, Idle
<1>2. QED
  BY <1>1, Initialization, PTL DEF Spec

-----------------------------------------------------------------------------
\* Type correctness of the channel.
THEOREM TypeCorrect == Spec => []TypeOK
<1>1. IInv => TypeOK
  BY DEF IInv
<1>2. QED
  BY <1>1, Invariance, PTL

\* update-datapack, verify-or-refuse: whatever is published while any number of
\* commands run, and wherever they are killed, a store that no other account wrote
\* holds no pack the signer has not signed.
THEOREM VerifyOrRefuse == Spec => []OnlySignedStored
<1>1. IInv => OnlySignedStored
  BY DEF IInv
<1>2. QED
  BY <1>1, Invariance, PTL

\* A scan that begins after an undisturbed installation runs on the installed pack.
THEOREM InstalledIsUsed == Spec => []InstalledPackIsUsed
<1>1. IInv => InstalledPackIsUsed
  BY DEF IInv, Expectation, InstalledPackIsUsed
<1>2. QED
  BY <1>1, Invariance, PTL

\* A refused store has been reported and a reported one refused, unless its bits
\* changed between the scan's two looks at them.
THEOREM RefusalIsReported == Spec => []RejectionReported
<1>1. IInv => RejectionReported
  BY DEF IInv, Reporting, RejectionReported
<1>2. QED
  BY <1>1, Invariance, PTL
=============================================================================
