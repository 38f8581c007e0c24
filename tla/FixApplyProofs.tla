--------------------------- MODULE FixApplyProofs ---------------------------
(***************************************************************************)
(* Proofs about FixApply, for any configs, commands, users and failures.    *)
(***************************************************************************)
EXTENDS FixApply, Integers, SequenceTheorems, FiniteSetTheorems, WellFoundedInduction, TLAPS

\* A document the fix leaves as it is.
Stable(text) == text \in Document /\ Fixed(text) = text

\* A descriptor is open while its command writes. It writes the config itself only
\* where commands have met: another's rename has moved its file there.
Descriptors ==
  \A f \in Fixer :
    /\ fd[f] # "none" => pc[f] = "writing"
    /\ fd[f] = "config" => raced[here(f)]

\* What a command at a file has planned, and what a temporary file holds, is a
\* document with nothing left to fix or a torn one.
Planned ==
  /\ \A f \in Fixer : pc[f] \in AtFile => Stable(planned[f])
  /\ \A q \in Paths : tmp[q] \in {Absent, Torn} \/ Stable(tmp[q])

\* Between its copy and its replace, a command on a file where no one has met it and no
\* one saved is alone; the config is what it copied and what the user last saved, and
\* backup and temporary file hold what it has put there.
AloneAt(f, q) ==
  /\ \A g \in Fixer \ {f} : ~(pc[g] \in AtFile /\ here(g) = q)
  /\ saved[q] = config[q] /\ source[f] = config[q]
  /\ pc[f] # "copying" => backup[q] = config[q]
  /\ pc[f] = "writing" => fd[f] = "tmp" /\ tmp[q] = Torn
  /\ pc[f] = "replace" => tmp[q] = planned[f]

Alone == \A f \in Fixer : pc[f] \in Window /\ ~raced[here(f)] => AloneAt(f, here(f))

\* The backup is overwritten only where the config is still what the user saved.
CopyIsSafe ==
  \A f \in Fixer : pc[f] = "copy" /\ ~raced[here(f)] => saved[here(f)] = config[here(f)]

\* A config that is not what the user last saved has nothing left to fix, so no later
\* run overwrites its backup.
Recoverable ==
  \A q \in Paths :
    ~raced[q] => \/ saved[q] = config[q]
                 \/ saved[q] = backup[q] /\ Stable(config[q])

\* A plan is the fix of the config it will replace, unless others changed that.
PlanFits ==
  \A f \in Fixer :
    pc[f] \in Window \cup {"copy"} /\ ~raced[here(f)] /\ here(f) \notin stirred[f] =>
      config[here(f)] \in Document /\ planned[f] = Fixed(config[here(f)])

\* The paths a run has dealt with.
Behind(f) ==
  IF pc[f] = "done" THEN DOMAIN Path
  ELSE {i \in DOMAIN Path : i < pos[f] \/ (i = pos[f] /\ pc[f] = "cleanup")}

\* A config it could read and nobody else changed since has nothing left to fix.
Settled(f, q) ==
  q \notin Unreadable \cup stirred[f] /\ config[q] \in Document => Stable(config[q])

PrunedBehind ==
  \A f \in Fixer : pc[f] \in AtFile \cup {"read", "done"} =>
    \A i \in Behind(f) : Settled(f, Path[i])

IInv ==
  /\ TypeOK /\ Descriptors /\ Planned /\ Alone /\ CopyIsSafe
  /\ Recoverable /\ PlanFits /\ NeverTornAlone /\ PrunedBehind

-----------------------------------------------------------------------------
(* The operators.                                                           *)

\* The positions and the names of the paths.
LEMMA PathType ==
  /\ DOMAIN Path = 1..Len(Path) /\ Len(Path) \in Nat \ {0}
  /\ \A i \in DOMAIN Path : Path[i] \in Paths
  /\ \A q \in Paths : \E i \in DOMAIN Path : q = Path[i]
<1>1. Path \in Seq(Paths) /\ Path # <<>>
  BY FixAssumption
<1>2. DOMAIN Path = 1..Len(Path) /\ Len(Path) \in Nat
  BY <1>1, LenProperties
<1>3. Len(Path) # 0
  BY <1>1, EmptySeq
<1>4. QED
  BY <1>2, <1>3 DEF Paths

\* Where a command is.
LEMMA HereType ==
  ASSUME TypeOK, NEW f \in Fixer
  PROVE  pos[f] \in DOMAIN Path /\ here(f) \in Paths
BY PathType DEF TypeOK, here

\* A set of numbers has a least element.
LEMMA Least ==
  ASSUME NEW T \in SUBSET Nat, T # {}
  PROVE  \E x \in T : \A y \in T : x <= y
<1>1. PICK x \in T : \A y \in T : <<y, x>> \notin OpToRel(<, Nat)
  BY NatLessThanWellFounded, WFMin
<1>2. \A y \in T : ~(y < x)
  BY <1>1 DEF OpToRel
<1> QED BY <1>2

\* The n-th position of a set is one of it, and as many are up to it.
LEMMA NthIs ==
  ASSUME NEW b \in Nat, NEW S \in SUBSET (1..b), NEW n \in 1..Cardinality(S)
  PROVE  Nth(S, n) \in S /\ Cardinality({j \in S : j <= Nth(S, n)}) = n
<1> DEFINE Upto(m) == {j \in S : j <= m}
           T == {m \in Nat : n <= Cardinality(Upto(m))}
<1>0. S \subseteq 1..b /\ \A j \in S : j \in Nat /\ 1 <= j /\ j <= b
  OBVIOUS
<1>1. IsFiniteSet(S) /\ Cardinality(S) \in Nat
  <2>1. IsFiniteSet(1..b)
    BY FS_Interval
  <2> QED BY <1>0, <2>1, FS_Subset, FS_CardinalityType
<1>2. \A m \in Nat : IsFiniteSet(Upto(m)) /\ Cardinality(Upto(m)) \in Nat
  BY <1>1, FS_Subset, FS_CardinalityType
<1>3. b \in T
  <2>1. Upto(b) = S
    BY <1>0
  <2> QED BY <1>1, <2>1
<1>4. PICK m \in T : \A k \in T : m <= k
  <2> HIDE DEF T
  <2> QED BY <1>3, Least DEF T
<1>5. m # 0
  <2>0. \A j \in S : ~(j <= 0)
    BY <1>0
  <2>1. Upto(0) = {}
    BY <2>0
  <2> QED BY <1>4, <2>1, FS_EmptySet
<1>6. m - 1 \in Nat /\ Cardinality(Upto(m - 1)) < n
  <2>1. m \in Nat /\ m - 1 \in Nat /\ ~(m <= m - 1)
    BY <1>4, <1>5
  <2>2. ~(n <= Cardinality(Upto(m - 1)))
    <3> HIDE DEF Upto
    <3> QED BY <1>4, <2>1
  <2> HIDE DEF Upto, T
  <2> QED BY <1>2, <2>1, <2>2
<1>7. Upto(m) = IF m \in S THEN Upto(m - 1) \cup {m} ELSE Upto(m - 1)
  <2>1. \A j \in S : j <= m <=> j <= m - 1 \/ j = m
    BY <1>0, <1>4, <1>6
  <2>2. m <= m
    BY <1>4
  <2> QED BY <2>1, <2>2
<1>8. m \notin Upto(m - 1)
  BY <1>6
<1>9. m \in S /\ Cardinality(Upto(m)) = n
  <2> HIDE DEF Upto
  <2>1. m \in S
    BY <1>4, <1>6, <1>7 
  <2>2. Cardinality(Upto(m)) = Cardinality(Upto(m - 1)) + 1
    BY <1>2, <1>6, <1>7, <1>8, <2>1, FS_AddElement
  <2> QED BY <1>2, <1>4, <1>6, <2>1, <2>2
<1> QED BY <1>9 DEF Nth

\* A pruned list holds no unsafe entry, and one without any is left as it is.
LEMMA PruneIs ==
  ASSUME NEW A, NEW list \in Seq(A)
  PROVE  /\ Prune(list) \in Seq(A)
         /\ \A n \in DOMAIN Prune(list) : Prune(list)[n] \notin Unsafe
         /\ (\A i \in DOMAIN list : list[i] \notin Unsafe) => Prune(list) = list
<1>1. Kept(list) \in SUBSET (1..Len(list)) /\ Len(list) \in Nat
  BY DEF Kept
<1>2. Cardinality(Kept(list)) \in Nat
  <2>1. IsFiniteSet(1..Len(list))
    BY <1>1, FS_Interval
  <2> QED BY <1>1, <2>1, FS_Subset, FS_CardinalityType
<1>3. \A n \in 1..Cardinality(Kept(list)) : Nth(Kept(list), n) \in Kept(list)
  BY <1>1, NthIs
<1>4. DOMAIN Prune(list) = 1..Cardinality(Kept(list))
  BY DEF Prune
<1>5. \A n \in DOMAIN Prune(list) : Prune(list)[n] \in A \ Unsafe
  BY <1>1, <1>3 DEF Prune, Kept
<1>6. Prune(list) \in Seq(A)
  BY <1>2, <1>4, <1>5 DEF Prune
<1>7. ASSUME \A i \in DOMAIN list : list[i] \notin Unsafe
      PROVE  Prune(list) = list
  <2>1. Kept(list) = 1..Len(list)
    BY <1>7 DEF Kept
  <2>2. Cardinality(Kept(list)) = Len(list)
    BY <1>1, <2>1, FS_Interval
  <2>3. ASSUME NEW n \in 1..Len(list)
        PROVE  Nth(Kept(list), n) = n
    <3> DEFINE i == Nth(Kept(list), n)
    <3>1. i \in 1..Len(list) /\ Cardinality({j \in Kept(list) : j <= i}) = n
      BY <1>1, <2>1, <2>2, NthIs
    <3>2. {j \in Kept(list) : j <= i} = 1..i
      BY <1>1, <2>1, <3>1
    <3>3. Cardinality(1..i) = i
      BY <1>1, <3>1, FS_Interval
    <3> QED BY <3>1, <3>2, <3>3
  <2> QED BY <2>1, <2>2, <2>3 DEF Prune
<1> QED BY <1>5, <1>6, <1>7

\* A fixed document grants nothing unsafe in the lists the fixer looks at, and one that
\* grants nothing there is left as it is.
LEMMA FixedIs ==
  ASSUME NEW d \in Document
  PROVE  /\ Fixed(d) \in Document
         /\ ~Granting(Fixed(d), Reached)
         /\ ~Granting(d, Reached) => Fixed(d) = d
<1>1. d \in [List -> Seq(Entry)] /\ Fixed(d) \in Document
  BY FixAssumption, DocumentAssumption
<1>2. /\ \A l \in Reached : Fixed(d)[l] = Prune(d[l]) /\ d[l] \in Seq(Entry)
      /\ \A l \in List \ Reached : Fixed(d)[l] = d[l]
  BY <1>1, FixAssumption DEF Fixed
<1>3. ~Granting(Fixed(d), Reached)
  BY <1>2, PruneIs DEF Granting
<1>4. ASSUME ~Granting(d, Reached)
      PROVE  Fixed(d) = d
  <2>1. \A l \in Reached : Prune(d[l]) = d[l]
    BY <1>2, <1>4, PruneIs DEF Granting
  <2> QED BY <1>1, <2>1 DEF Fixed
<1> QED BY <1>1, <1>3, <1>4

\* A fixed document stays as it is under a fix.
LEMMA FixedIsStable ==
  ASSUME NEW d \in Document
  PROVE  Stable(Fixed(d))
BY FixedIs DEF Stable

\* What a write leaves of a file.
LEMMA OverwrittenIs ==
  ASSUME NEW f \in Fixer, NEW old, NEW t \in Overwritten(f, old)
  PROVE  t \in {planned[f], Torn} /\ (old = Torn => t = planned[f])
BY DEF Overwritten

\* Nothing is fixed, and no copy is kept, at first.
THEOREM Initialization == Init => IInv
<1> SUFFICES ASSUME Init PROVE IInv
  OBVIOUS
<1> USE FixAssumption DEF Init
<1>1. TypeOK
  BY PathType DEF TypeOK, Text, Outside
<1>2. Descriptors /\ Planned /\ Alone /\ CopyIsSafe
  BY DEF Descriptors, Planned, Alone, CopyIsSafe, AtFile, Window
<1>3. Recoverable /\ PlanFits /\ PrunedBehind
  BY DEF Recoverable, PlanFits, PrunedBehind, AtFile, Window
<1>4. NeverTornAlone
  BY DEF NeverTornAlone
<1>5. QED
  BY <1>1, <1>2, <1>3, <1>4 DEF IInv

-----------------------------------------------------------------------------
(* The command.                                                             *)

\* A step of f leaves alone: the other commands but for the descriptors on its file, the
\* other files, what users saved and, once set, the marks of the history.
Elsewhere(f) ==
  /\ \A g \in Fixer \ {f} :
       /\ pc'[g] = pc[g] /\ pos'[g] = pos[g]
       /\ source'[g] = source[g] /\ planned'[g] = planned[g]
       /\ here(g) # here(f) => fd'[g] = fd[g]
       /\ stirred[g] \subseteq stirred'[g]
  /\ \A q \in Paths \ {here(f)} :
       config'[q] = config[q] /\ backup'[q] = backup[q] /\ tmp'[q] = tmp[q]
  /\ \A q \in Paths : raced[q] => raced'[q]
  /\ saved' = saved

\* Two commands at a file, one of them in its window, have met.
LEMMA Met ==
  ASSUME IInv, NEW f \in Fixer, NEW g \in Fixer \ {f},
         pc[g] \in Window, pc[f] \in AtFile, here(f) = here(g)
  PROVE  raced[here(g)]
BY DEF IInv, Alone, AloneAt

\* A step of f keeps what is known of the others in their windows, if it leaves those on
\* its own file marked as met.
LEMMA AloneKept ==
  ASSUME IInv, NEW f \in Fixer, Elsewhere(f),
         pc'[f] \in AtFile => here(f)' = here(f),
         \A g \in Fixer \ {f} :
           pc[g] \in Window /\ here(g) = here(f) => raced'[here(f)],
         pc'[f] \in Window /\ ~raced'[here(f)'] => AloneAt(f, here(f))'
  PROVE  Alone'
<1> SUFFICES ASSUME NEW g \in Fixer, pc'[g] \in Window, ~raced'[here(g)']
             PROVE  AloneAt(g, here(g))'
  BY DEF Alone, Window
<1>1. CASE g = f
  BY <1>1
<1>2. CASE g # f
  <2>1. here(g)' = here(g) /\ here(g) \in Paths /\ pc'[g] = pc[g]
    BY <1>2, HereType DEF IInv, Elsewhere, here
  <2>2. ~raced[here(g)] /\ here(g) # here(f)
    BY <1>2, <2>1 DEF Elsewhere
  <2>3. AloneAt(g, here(g))
    BY <2>1, <2>2 DEF IInv, Alone
  <2>4. \A k \in Fixer \ {g} : ~(pc'[k] \in AtFile /\ here(k)' = here(g))
    <3> SUFFICES ASSUME NEW k \in Fixer \ {g}, pc'[k] \in AtFile, here(k)' = here(g)
                 PROVE  FALSE
      OBVIOUS
    <3>1. CASE k = f
      BY <2>2, <3>1
    <3>2. CASE k # f
      BY <2>3, <3>2 DEF Elsewhere, AloneAt, here
    <3>3. QED
      BY <3>1, <3>2
  <2>5. QED
    BY <1>2, <2>1, <2>2, <2>3, <2>4 DEF AloneAt, Elsewhere
<1>3. QED
  BY <1>1, <1>2

\* A step of f that changes no config but where commands have met, or where no other
\* is, keeps what is known of the commands about to copy and of the plans.
LEMMA ConfigKept ==
  ASSUME IInv, NEW f \in Fixer, Elsewhere(f),
         \/ config'[here(f)] = config[here(f)]
         \/ raced'[here(f)]
         \/ /\ config'[here(f)] # Torn
            /\ \A g \in Fixer \ {f} : ~(pc[g] \in AtFile /\ here(g) = here(f)),
         pc'[f] = "copy" /\ ~raced'[here(f)'] => saved[here(f)'] = config'[here(f)'],
         pc'[f] \in Window \cup {"copy"} =>
           /\ here(f)' = here(f) /\ stirred'[f] = stirred[f]
           /\ ~raced'[here(f)] /\ here(f) \notin stirred[f] =>
                config'[here(f)] \in Document /\ planned'[f] = Fixed(config'[here(f)])
  PROVE  CopyIsSafe' /\ PlanFits' /\ NeverTornAlone'
<1>1. CopyIsSafe'
  <2> SUFFICES ASSUME NEW g \in Fixer, pc'[g] = "copy", ~raced'[here(g)']
               PROVE  saved'[here(g)'] = config'[here(g)']
    BY DEF CopyIsSafe
  <2>1. CASE g = f
    BY <2>1 DEF Elsewhere
  <2>2. CASE g # f
    <3>1. here(g)' = here(g) /\ here(g) \in Paths /\ pc[g] = "copy"
      BY <2>2, HereType DEF IInv, Elsewhere, here
    <3>2. QED
      BY <2>2, <3>1 DEF IInv, CopyIsSafe, Elsewhere, AtFile
  <2>3. QED
    BY <2>1, <2>2
<1>2. PlanFits'
  <2> SUFFICES ASSUME NEW g \in Fixer, pc'[g] \in Window \cup {"copy"}, ~raced'[here(g)'],
                      here(g)' \notin stirred'[g]
               PROVE  config'[here(g)'] \in Document /\ planned'[g] = Fixed(config'[here(g)'])
    BY DEF PlanFits, Window, Fixed
  <2>1. CASE g = f
    BY <2>1 DEF Elsewhere, Window
  <2>2. CASE g # f
    <3>1. here(g)' = here(g) /\ here(g) \in Paths /\ pc[g] = pc'[g]
      BY <2>2, HereType DEF IInv, Elsewhere, here
    <3>2. ~raced[here(g)] /\ here(g) \notin stirred[g] /\ planned'[g] = planned[g]
      BY <2>2, <3>1 DEF Elsewhere
    <3>3. QED
      BY <2>2, <3>1, <3>2 DEF IInv, PlanFits, Elsewhere, AtFile, Window, Fixed
  <2>3. QED
    BY <2>1, <2>2
<1>3. NeverTornAlone'
  BY DEF IInv, NeverTornAlone, Elsewhere
<1>4. QED
  BY <1>1, <1>2, <1>3

\* What a command has dealt with stays settled when a step of f puts at most a fixed
\* document in its file, and f itself leaves behind only what is settled.
LEMMA BehindKept ==
  ASSUME IInv, NEW f \in Fixer, Elsewhere(f),
         \/ config'[here(f)] = config[here(f)]
         \/ config'[here(f)] \in Document => Stable(config'[here(f)]),
         pc'[f] \in AtFile \cup {"read", "done"} =>
           \A i \in Behind(f)' : Settled(f, Path[i])'
  PROVE  PrunedBehind'
<1> SUFFICES ASSUME NEW g \in Fixer, pc'[g] \in AtFile \cup {"read", "done"},
                    NEW i \in Behind(g)'
             PROVE  Settled(g, Path[i])'
  BY DEF PrunedBehind, AtFile
<1>1. CASE g = f
  BY <1>1
<1>2. CASE g # f
  <2>1. pc[g] \in AtFile \cup {"read", "done"} /\ i \in Behind(g) /\ i \in DOMAIN Path
    BY <1>2 DEF Elsewhere, Behind
  <2>2. Settled(g, Path[i]) /\ Path[i] \in Paths
    BY <2>1, PathType DEF IInv, PrunedBehind
  <2>3. stirred[g] \subseteq stirred'[g]
    BY <1>2 DEF Elsewhere
  <2>4. \/ config'[Path[i]] = config[Path[i]]
        \/ config'[Path[i]] \in Document => Stable(config'[Path[i]])
    BY <2>2 DEF Elsewhere
  <2>5. QED
    BY <2>2, <2>3, <2>4 DEF Settled, Stable, Fixed
<1>3. QED
  BY <1>1, <1>2

\* A step at a file that does not end there, and changes no config, settles nothing new.
LEMMA BehindStill ==
  ASSUME IInv, NEW f \in Fixer, Elsewhere(f), UNCHANGED <<config, stirred>>,
         pc[f] \in AtFile \cup {"read"}, pc[f] # "cleanup", pos'[f] = pos[f],
         pc'[f] \notin {"cleanup", "done"}
  PROVE  PrunedBehind'
<1>1. Behind(f)' \subseteq Behind(f)
  BY DEF Behind, AtFile
<1>2. \A i \in Behind(f)' : Settled(f, Path[i])'
  BY <1>1 DEF IInv, PrunedBehind, Settled, Stable, Fixed
<1>3. QED
  BY <1>2, BehindKept

-----------------------------------------------------------------------------
(* The command.                                                             *)

\* A new run: nothing is behind it yet.
LEMMA StartStep ==
  ASSUME IInv, NEW f \in Fixer, Start(f)
  PROVE  IInv'
<1> USE FixAssumption, HereType, PathType
    DEF IInv, TypeOK, AtFile, Window, Outside, here, disk, Start
<1>1. TypeOK'
  OBVIOUS
<1>2. Descriptors' /\ Planned'
  BY DEF Descriptors, Planned
<1>3. Alone'
  BY DEF Alone, AloneAt
<1>4. CopyIsSafe' /\ PlanFits'
  BY DEF CopyIsSafe, PlanFits
<1>5. Recoverable' /\ NeverTornAlone'
  BY DEF Recoverable, NeverTornAlone
<1>6. PrunedBehind'
  BY DEF PrunedBehind, Behind, Settled
<1>7. QED
  BY <1>1, <1>2, <1>3, <1>4, <1>5, <1>6

\* A path left as it is: it is unreadable, does not parse, or has nothing to fix.
LEMMA SkipStep ==
  ASSUME IInv, NEW f \in Fixer, Skip(f)
  PROVE  IInv'
<1> USE DEF IInv, Skip, NextPath, Step, disk, history
<1>1. TypeOK' /\ here(f) \in Paths /\ pos[f] \in 1..Len(Path)
  BY HereType, PathType DEF TypeOK, Outside, AtFile
<1>2. Elsewhere(f) /\ pc'[f] \in {"read", "done"}
  BY HereType DEF Elsewhere, TypeOK, here
<1>3. Descriptors' /\ Planned'
  BY <1>2 DEF Descriptors, Planned, TypeOK, AtFile, here
<1>4. Alone'
  <2> SUFFICES ASSUME NEW g \in Fixer, pc'[g] \in Window, ~raced'[here(g)']
               PROVE  AloneAt(g, here(g))'
    BY DEF Alone, Window
  <2>1. g # f /\ pc[g] \in Window /\ ~raced[here(g)] /\ here(g)' = here(g)
    BY <1>2 DEF Elsewhere, Window, here
  <2>2. AloneAt(g, here(g))
    BY <2>1 DEF Alone
  <2>3. \A k \in Fixer \ {g} : ~(pc'[k] \in AtFile /\ here(k)' = here(g))
    BY <1>2, <2>2 DEF AloneAt, Elsewhere, AtFile, here
  <2>4. QED
    BY <2>1, <2>2, <2>3 DEF AloneAt
<1>5. CopyIsSafe' /\ PlanFits' /\ NeverTornAlone'
  BY <1>2, ConfigKept DEF Window
<1>6. Recoverable'
  BY DEF Recoverable
<1>7. PrunedBehind'
  <2>1. \A i \in Behind(f)' : i \in Behind(f) \/ i = pos[f]
    BY <1>1, <1>2, PathType DEF Behind, TypeOK
  <2>2. Settled(f, here(f))
    BY DEF Settled, Changed, Stable
  <2>3. \A i \in Behind(f)' : Settled(f, Path[i])
    BY <2>1, <2>2 DEF PrunedBehind, here
  <2>4. \A i \in Behind(f)' : Settled(f, Path[i])'
    BY <2>3 DEF Settled, Stable, Fixed
  <2>5. QED
    BY <1>2, <2>4, BehindKept
<1>8. QED
  BY <1>1, <1>3, <1>4, <1>5, <1>6, <1>7

\* Arriving at a file marks it where another is in its window. A plan is made for a
\* config that has something to fix, so for one the user saved last.
LEMMA ReadAndPlanStep ==
  ASSUME IInv, NEW f \in Fixer, ReadAndPlan(f)
  PROVE  IInv'
<1> DEFINE q == here(f)
<1> USE DEF IInv, ReadAndPlan, Step, Meet, disk
<1>1. q \in Paths /\ config[q] \in Document /\ Fixed(config[q]) # config[q]
  BY HereType DEF Changed
<1>2. Fixed(config[q]) \in Document /\ Stable(Fixed(config[q]))
  BY <1>1, FixedIs, FixedIsStable
<1>3. TypeOK'
  BY <1>1, <1>2 DEF TypeOK, AtFile
<1>4. Elsewhere(f) /\ pc'[f] = "copy" /\ here(f)' = q
  BY <1>1 DEF Elsewhere, TypeOK, here
<1>5. Descriptors' /\ Planned'
  <2>1. Descriptors'
    BY <1>1, <1>4 DEF Descriptors, TypeOK, here
  <2>2. Planned'
    BY <1>2 DEF Planned, TypeOK
  <2>3. QED
    BY <2>1, <2>2
<1>6. \A g \in Fixer \ {f} : pc[g] \in Window /\ here(g) = q => raced'[q]
  BY <1>1 DEF Others, TypeOK, Window, AtFile, here
<1>7. Alone'
  BY <1>4, <1>6, AloneKept DEF Window
<1>8. ~raced'[q] => saved[q] = config[q]
  BY <1>1 DEF TypeOK, Recoverable, Stable
<1>9. CopyIsSafe' /\ PlanFits' /\ NeverTornAlone'
  <2>1. planned'[f] = Fixed(config[q])
    BY DEF TypeOK
  <2>2. QED
    BY <1>1, <1>4, <1>8, <2>1, ConfigKept
<1>10. Recoverable'
  BY <1>4 DEF Recoverable, Elsewhere
<1>11. PrunedBehind'
  BY <1>4, BehindStill DEF TypeOK
<1>12. QED
  BY <1>3, <1>5, <1>7, <1>9, <1>10, <1>11

\* The backup is cut, and the config it will hold is the one the user saved last.
LEMMA CopyOpenStep ==
  ASSUME IInv, NEW f \in Fixer, CopyOpen(f)
  PROVE  IInv'
<1> DEFINE q == here(f)
<1> USE DEF IInv, CopyOpen, Step, Meet
<1>1. q \in Paths
  BY HereType
<1>2. TypeOK'
  BY <1>1, FixAssumption DEF TypeOK, AtFile, Text
<1>3. Elsewhere(f) /\ pc[f] = "copy" /\ pc'[f] = "copying" /\ here(f)' = q
  BY <1>1 DEF Elsewhere, TypeOK, here
<1>4. Descriptors' /\ Planned'
  BY <1>1, <1>3 DEF Descriptors, Planned, TypeOK, AtFile, here
<1>5. \A g \in Fixer \ {f} : pc[g] \in AtFile /\ here(g) = q => raced'[q]
  BY <1>1 DEF Others, TypeOK, here
<1>6. ~raced'[q] => saved[q] = config[q]
  BY <1>1, <1>3 DEF TypeOK, CopyIsSafe
<1>7. ~raced'[q] => AloneAt(f, q)'
  BY <1>1, <1>3, <1>5, <1>6 DEF AloneAt, Elsewhere, TypeOK, here
<1>8. Alone'
  BY <1>3, <1>5, <1>7, AloneKept DEF Window, AtFile
<1>9. CopyIsSafe' /\ PlanFits' /\ NeverTornAlone'
  <2>1. ~raced'[q] /\ q \notin stirred[f] => config[q] \in Document /\ planned[f] = Fixed(config[q])
    BY <1>1, <1>3 DEF PlanFits, TypeOK
  <2>2. QED
    BY <1>3, <2>1, ConfigKept
<1>10. Recoverable'
  BY <1>3, <1>6 DEF Recoverable, Elsewhere
<1>11. PrunedBehind'
  BY <1>3, BehindStill DEF AtFile
<1>12. QED
  BY <1>2, <1>4, <1>8, <1>9, <1>10, <1>11

\* The backup holds the config, which has not changed meanwhile.
LEMMA CopyDoneStep ==
  ASSUME IInv, NEW f \in Fixer, CopyDone(f)
  PROVE  IInv'
<1> DEFINE q == here(f)
<1> USE DEF IInv, CopyDone, Step, locals, history
<1>1. q \in Paths
  BY HereType
<1>2. TypeOK'
  BY <1>1 DEF TypeOK, AtFile
<1>3. Elsewhere(f) /\ pc[f] = "copying" /\ pc'[f] = "open" /\ here(f)' = q
  BY <1>1 DEF Elsewhere, TypeOK, here
<1>4. Descriptors' /\ Planned'
  BY <1>1, <1>3 DEF Descriptors, Planned, TypeOK, AtFile, here
<1>5. \A g \in Fixer \ {f} : pc[g] \in AtFile /\ here(g) = q => raced[q]
  BY <1>3, Met DEF Window, Alone, AloneAt
<1>6. ~raced[q] => saved[q] = config[q] /\ source[f] = config[q]
  BY <1>3 DEF Window, Alone, AloneAt
<1>7. ~raced[q] => AloneAt(f, q)'
  BY <1>1, <1>3, <1>5, <1>6 DEF AloneAt, Elsewhere, TypeOK, here
<1>8. Alone'
  BY <1>3, <1>5, <1>7, AloneKept DEF Window, AtFile
<1>9. CopyIsSafe' /\ PlanFits' /\ NeverTornAlone'
  <2>1. ~raced[q] /\ q \notin stirred[f] => config[q] \in Document /\ planned[f] = Fixed(config[q])
    BY <1>1, <1>3 DEF PlanFits, TypeOK, Window
  <2>2. QED
    BY <1>3, <2>1, ConfigKept
<1>10. Recoverable'
  BY <1>3, <1>6 DEF Recoverable, Elsewhere
<1>11. PrunedBehind'
  BY <1>3, BehindStill DEF AtFile
<1>12. QED
  BY <1>2, <1>4, <1>8, <1>9, <1>10, <1>11

\* The temporary file is empty, whatever an earlier run left in it.
LEMMA OpenTmpStep ==
  ASSUME IInv, NEW f \in Fixer, OpenTmp(f)
  PROVE  IInv'
<1> DEFINE q == here(f)
<1> USE DEF IInv, OpenTmp, Step, history
<1>1. q \in Paths
  BY HereType
<1>2. TypeOK'
  BY <1>1, FixAssumption DEF TypeOK, AtFile, Text
<1>3. /\ Elsewhere(f) /\ pc[f] = "open" /\ pc'[f] = "writing" /\ here(f)' = q
      /\ fd'[f] = "tmp" /\ tmp'[q] = Torn
  BY <1>1 DEF Elsewhere, TypeOK, here
<1>4. Descriptors' /\ Planned'
  BY <1>1, <1>3 DEF Descriptors, Planned, TypeOK, AtFile, here
<1>5. \A g \in Fixer \ {f} : pc[g] \in AtFile /\ here(g) = q => raced[q]
  BY <1>3 DEF Window, Alone, AloneAt
<1>6. ~raced[q] => AloneAt(f, q)
  BY <1>3 DEF Window, Alone
<1>7. ~raced[q] => AloneAt(f, q)'
  BY <1>1, <1>3, <1>6 DEF AloneAt, Elsewhere, TypeOK, here
<1>8. Alone'
  BY <1>3, <1>5, <1>7, AloneKept DEF Window, AtFile
<1>9. CopyIsSafe' /\ PlanFits' /\ NeverTornAlone'
  <2>1. ~raced[q] /\ q \notin stirred[f] => config[q] \in Document /\ planned[f] = Fixed(config[q])
    BY <1>1, <1>3 DEF PlanFits, TypeOK, Window
  <2>2. QED
    BY <1>3, <2>1, ConfigKept
<1>10. Recoverable'
  BY DEF Recoverable
<1>11. PrunedBehind'
  BY <1>3, BehindStill DEF AtFile
<1>12. QED
  BY <1>2, <1>4, <1>8, <1>9, <1>10, <1>11

\* A command that no one has met writes the temporary file it opened; the config is
\* written only through a descriptor another's rename has moved there.
LEMMA WriteStep ==
  ASSUME IInv, NEW f \in Fixer, Write(f)
  PROVE  IInv'
<1> DEFINE q == here(f)
<1> USE DEF IInv, Write, Step, history
<1>1. q \in Paths /\ pc[f] = "writing" /\ planned[f] \in Document /\ Stable(planned[f])
  BY HereType DEF Planned, Stable, AtFile
<1>2. \/ /\ fd[f] = "tmp" /\ config' = config
         /\ \E t \in Overwritten(f, tmp[q]) : tmp' = [tmp EXCEPT ![q] = t]
      \/ /\ fd[f] = "config" /\ tmp' = tmp /\ raced[q]
         /\ \E t \in Overwritten(f, config[q]) : config' = [config EXCEPT ![q] = t]
      \/ fd[f] = "none" /\ config' = config /\ tmp' = tmp
  BY DEF Descriptors
<1>3. /\ \/ config' = config
         \/ /\ raced[q]
            /\ \E t \in {planned[f], Torn} : config' = [config EXCEPT ![q] = t]
      /\ \/ tmp' = tmp
         \/ \E t \in {planned[f], Torn} : tmp' = [tmp EXCEPT ![q] = t]
  <2>1. Overwritten(f, tmp[q]) \cup Overwritten(f, config[q]) \subseteq {planned[f], Torn}
    BY OverwrittenIs
  <2>2. QED
    BY <1>2, <2>1
<1>4. TypeOK'
  <2>1. {planned[f], Torn} \subseteq Text
    BY <1>1 DEF Text
  <2>2. config' \in [Paths -> Text]
    BY <1>3, <2>1 DEF TypeOK
  <2>3. tmp' \in [Paths -> Text \cup {Absent}]
    BY <1>3, <2>1 DEF TypeOK
  <2>4. QED
    BY <2>2, <2>3 DEF TypeOK, AtFile
<1>5. Elsewhere(f) /\ pc'[f] = "replace" /\ here(f)' = q
  BY <1>1, <1>3 DEF Elsewhere, TypeOK, here
<1>6. Descriptors' /\ Planned'
  <2>1. Descriptors'
    BY <1>1, <1>5 DEF Descriptors, TypeOK, here
  <2>2. Planned'
    BY <1>1, <1>3 DEF Planned, TypeOK, AtFile, Stable, Fixed
  <2>3. QED
    BY <2>1, <2>2
<1>7. \A g \in Fixer \ {f} : pc[g] \in AtFile /\ here(g) = q => raced[q]
  BY <1>1 DEF Window, Alone, AloneAt
<1>8. ~raced[q] => AloneAt(f, q)'
  <2> SUFFICES ASSUME ~raced[q] PROVE AloneAt(f, q)'
    OBVIOUS
  <2>1. AloneAt(f, q)
    BY <1>1 DEF Window, Alone
  <2>2. tmp'[q] = planned[f] /\ config' = config
    <3>1. fd[f] = "tmp" /\ tmp[q] = Torn
      BY <1>1, <2>1 DEF AloneAt
    <3>2. PICK t \in Overwritten(f, tmp[q]) : tmp' = [tmp EXCEPT ![q] = t]
      BY <1>2, <3>1
    <3>3. QED
      BY <1>1, <1>2, <3>1, <3>2, OverwrittenIs DEF TypeOK
  <2>3. QED
    BY <1>1, <1>5, <2>1, <2>2 DEF AloneAt, Elsewhere, TypeOK, here
<1>9. Alone'
  BY <1>5, <1>7, <1>8, AloneKept DEF Window, AtFile
<1>10. CopyIsSafe' /\ PlanFits' /\ NeverTornAlone'
  <2>1. ~raced[q] /\ q \notin stirred[f] => config[q] \in Document /\ planned[f] = Fixed(config[q])
    BY <1>1 DEF PlanFits, Window
  <2>2. ~raced[q] => config' = config
    BY <1>3
  <2>3. QED
    BY <1>5, <2>1, <2>2, ConfigKept
<1>11. Recoverable'
  BY <1>3, <1>5 DEF Recoverable, Elsewhere, Stable, Fixed
<1>12. PrunedBehind'
  <2>1. \A p \in Paths :
          config'[p] = config[p] \/ (config'[p] \in Document => Stable(config'[p]))
    BY <1>1, <1>3, FixAssumption DEF TypeOK
  <2>2. Behind(f)' \subseteq Behind(f)
    BY <1>1, <1>5 DEF Behind
  <2>3. \A i \in Behind(f) : Settled(f, Path[i]) /\ Path[i] \in Paths
    BY <1>1, PathType DEF PrunedBehind, Behind, AtFile
  <2>4. \A i \in Behind(f)' : Settled(f, Path[i])'
    BY <2>1, <2>2, <2>3 DEF Settled, Stable, Fixed
  <2>5. QED
    BY <1>1, <1>5, <2>1, <2>4, BehindKept
<1>13. QED
  BY <1>4, <1>6, <1>9, <1>10, <1>11, <1>12

\* The rename puts the plan in place of a config the backup holds; where commands have
\* met, any fixed or torn text. A descriptor another holds on the file follows it.
LEMMA ReplaceStep ==
  ASSUME IInv, NEW f \in Fixer, Replace(f)
  PROVE  IInv'
<1> DEFINE q == here(f)
<1> USE DEF IInv, Replace, Step
<1>1. q \in Paths /\ pc[f] = "replace" /\ tmp[q] # Absent
  BY HereType
<1>2. config' = [config EXCEPT ![q] = tmp[q]] /\ (tmp[q] = Torn \/ Stable(tmp[q]))
  BY <1>1 DEF Planned
<1>3. fd' \in [Fixer -> {"tmp", "config", "none"}] /\ fd'[f] = "none"
  BY DEF TypeOK, Relinked, Others
<1>4. TypeOK'
  <2>1. config' \in [Paths -> Text] /\ tmp' \in [Paths -> Text \cup {Absent}]
    BY <1>1 DEF TypeOK
  <2>2. mode' \in [Paths -> Mode] /\ stirred' \in [Fixer -> SUBSET Paths]
    BY <1>1 DEF TypeOK
  <2>3. QED
    BY <1>3, <2>1, <2>2 DEF TypeOK, AtFile
<1>5. Elsewhere(f) /\ pc'[f] = "cleanup" /\ here(f)' = q /\ stirred'[f] = stirred[f]
  BY <1>1 DEF Elsewhere, TypeOK, here, Relinked, Others
<1>6. \A g \in Fixer \ {f} : pc[g] \in AtFile /\ here(g) = q => raced[q]
  BY <1>1 DEF Window, Alone, AloneAt
<1>7. Descriptors'
  <2> SUFFICES ASSUME NEW g \in Fixer, fd'[g] # "none"
               PROVE  pc'[g] = "writing" /\ (fd'[g] = "config" => raced'[here(g)'])
    BY DEF Descriptors
  <2>1. g # f /\ fd[g] # "none" /\ pc'[g] = pc[g] /\ here(g)' = here(g)
    BY <1>3, <1>5 DEF Relinked, Elsewhere, here
  <2>2. pc[g] = "writing" /\ (fd[g] = "config" => raced[here(g)])
    BY <2>1 DEF Descriptors
  <2>3. here(g) = q => raced[q]
    BY <1>6, <2>1, <2>2 DEF AtFile
  <2>4. here(g) # q => fd'[g] = fd[g]
    BY <1>5, <2>1 DEF Elsewhere
  <2>5. QED
    BY <2>1, <2>2, <2>3, <2>4
<1>8. Planned'
  BY <1>1, <1>5 DEF Planned, TypeOK, AtFile, Stable, Fixed
<1>9. Alone'
  BY <1>5, <1>6, AloneKept DEF Window, AtFile
<1>10. ~raced[q] => AloneAt(f, q)
  BY <1>1 DEF Window, Alone
<1>11. config'[q] = tmp[q]
  BY <1>1 DEF TypeOK
<1>12. CopyIsSafe' /\ PlanFits' /\ NeverTornAlone'
  <2>1. ~raced[q] => /\ config'[q] # Torn
                     /\ \A g \in Fixer \ {f} : ~(pc[g] \in AtFile /\ here(g) = q)
    BY <1>1, <1>6, <1>10, <1>11, FixAssumption DEF AloneAt, Planned, AtFile, Stable
  <2>2. QED
    BY <1>5, <2>1, ConfigKept DEF Window
<1>13. Recoverable'
  <2>1. ~raced[q] => saved[q] = backup[q] /\ Stable(tmp[q])
    BY <1>1, <1>10 DEF AloneAt, Planned, AtFile
  <2>2. QED
    BY <1>1, <1>5, <1>11, <2>1 DEF Recoverable, Elsewhere, Stable, Fixed
<1>14. PrunedBehind'
  <2>1. config'[q] \in Document => Stable(config'[q])
    BY <1>2, <1>11, FixAssumption
  <2>2. \A i \in Behind(f)' : i \in DOMAIN Path /\ (i \in Behind(f) \/ i = pos[f])
    BY <1>1, <1>5, PathType DEF Behind, TypeOK
  <2>3. ASSUME NEW i \in Behind(f)' PROVE Settled(f, Path[i])'
    <3>1. CASE Path[i] = q
      BY <2>1, <3>1 DEF Settled, Stable, Fixed
    <3>2. CASE Path[i] # q
      <4>1. i \in Behind(f) /\ Path[i] \in Paths
        BY <2>2, <3>2, PathType DEF here
      <4>2. Settled(f, Path[i])
        BY <1>1, <4>1 DEF PrunedBehind, AtFile
      <4>3. config'[Path[i]] = config[Path[i]]
        BY <1>5, <3>2, <4>1 DEF Elsewhere
      <4>4. QED
        BY <1>5, <4>2, <4>3 DEF Settled, Stable, Fixed
    <3>3. QED
      BY <3>1, <3>2
  <2>4. QED
    BY <1>5, <2>1, <2>3, BehindKept
<1>15. QED
  BY <1>4, <1>7, <1>8, <1>9, <1>12, <1>13, <1>14

\* Removing the temporary file takes the descriptors on it away.
LEMMA UnlinkKeeps ==
  ASSUME IInv, NEW f \in Fixer, pc[f] \in AtFile,
         tmp' = [tmp EXCEPT ![here(f)] = Absent], fd' = Relinked(f, here(f), FALSE),
         \A g \in Fixer \ {f} : pc'[g] = pc[g] /\ pos'[g] = pos[g],
         UNCHANGED raced
  PROVE  /\ tmp' \in [Paths -> Text \cup {Absent}]
         /\ fd' \in [Fixer -> {"tmp", "config", "none"}]
         /\ Descriptors'
         /\ \A g \in Fixer \ {f} : here(g) # here(f) => fd'[g] = fd[g]
<1> USE DEF IInv, TypeOK
<1>1. here(f) \in Paths
  BY HereType
<1>2. tmp' \in [Paths -> Text \cup {Absent}]
  BY <1>1
<1>3. fd' \in [Fixer -> {"tmp", "config", "none"}] /\ fd'[f] = "none"
  BY DEF Relinked, Others
<1>4. \A g \in Fixer : fd'[g] # "none" => g # f /\ fd'[g] = fd[g]
  BY <1>3 DEF Relinked
<1>5. Descriptors'
  BY <1>4 DEF Descriptors, here
<1>6. \A g \in Fixer \ {f} : here(g) # here(f) => fd'[g] = fd[g]
  BY DEF Relinked, Others, here
<1>7. QED
  BY <1>2, <1>3, <1>5, <1>6

\* After the rename the temporary file, another's by now if there is one, is removed.
LEMMA CleanupStep ==
  ASSUME IInv, NEW f \in Fixer, Cleanup(f)
  PROVE  IInv'
<1> DEFINE q == here(f)
<1> USE DEF IInv, Cleanup, NextPath, Step, history
<1>1. q \in Paths /\ pos[f] \in 1..Len(Path) /\ pc[f] = "cleanup"
  BY HereType, PathType
<1>2. pc'[f] \in {"read", "done"} /\ \A g \in Fixer \ {f} : pc'[g] = pc[g] /\ pos'[g] = pos[g]
  BY DEF TypeOK
<1>3. /\ tmp' \in [Paths -> Text \cup {Absent}]
      /\ fd' \in [Fixer -> {"tmp", "config", "none"}]
      /\ Descriptors'
      /\ \A g \in Fixer \ {f} : here(g) # q => fd'[g] = fd[g]
  BY <1>1, <1>2, UnlinkKeeps DEF AtFile
<1>4. TypeOK'
  <2>1. pos' \in [Fixer -> DOMAIN Path]
    BY <1>1, PathType DEF TypeOK
  <2>2. pc' \in [Fixer -> Outside \cup AtFile \cup {"read"}]
    BY DEF TypeOK, Outside
  <2>3. QED
    BY <1>3, <2>1, <2>2 DEF TypeOK
<1>5. Elsewhere(f)
  BY <1>1, <1>2, <1>3 DEF Elsewhere, TypeOK
<1>6. Planned'
  BY <1>1, <1>2, <1>5 DEF Planned, TypeOK, AtFile
<1>7. Alone'
  BY <1>1, <1>2, <1>5, AloneKept, Met DEF AtFile, Window
<1>8. CopyIsSafe' /\ PlanFits' /\ NeverTornAlone'
  BY <1>2, <1>5, ConfigKept DEF Window
<1>9. Recoverable'
  BY DEF Recoverable
<1>10. PrunedBehind'
  <2>1. \A i \in Behind(f)' : i \in Behind(f)
    BY <1>1, <1>2, PathType DEF Behind, TypeOK
  <2>2. \A i \in Behind(f)' : Settled(f, Path[i])'
    BY <1>1, <2>1 DEF PrunedBehind, Settled, Stable, Fixed, AtFile
  <2>3. QED
    BY <1>5, <2>2, BehindKept
<1>11. QED
  BY <1>3, <1>4, <1>6, <1>7, <1>8, <1>9, <1>10

\* An error at a file: the temporary file goes or is left.
LEMMA RaiseStep ==
  ASSUME IInv, NEW f \in Fixer, Raise(f), pc[f] \in AtFile, faults' \in 0..MaxFaults
  PROVE  IInv'
<1> DEFINE q == here(f)
<1> USE DEF IInv, Raise, history
<1>1. q \in Paths
  BY HereType
<1>2. /\ pc'[f] = "failed" /\ pos' = pos
      /\ \A g \in Fixer \ {f} : pc'[g] = pc[g] /\ pos'[g] = pos[g]
  BY DEF TypeOK
<1>3. /\ tmp' \in [Paths -> Text \cup {Absent}]
      /\ fd' \in [Fixer -> {"tmp", "config", "none"}]
      /\ Descriptors'
      /\ \A g \in Fixer \ {f} : here(g) # q => fd'[g] = fd[g]
      /\ tmp' = tmp \/ tmp' = [tmp EXCEPT ![q] = Absent]
  <2>1. CASE tmp' = [tmp EXCEPT ![q] = Absent] /\ fd' = Relinked(f, q, FALSE)
    BY <1>2, <2>1, UnlinkKeeps
  <2>2. CASE tmp' = tmp /\ fd' = [fd EXCEPT ![f] = "none"]
    BY <1>2, <2>2 DEF TypeOK, Descriptors, here
  <2>3. QED
    BY <2>1, <2>2
<1>4. TypeOK'
  BY <1>3 DEF TypeOK, Outside
<1>5. Elsewhere(f)
  BY <1>1, <1>2, <1>3 DEF Elsewhere, TypeOK
<1>6. Planned'
  BY <1>1, <1>2, <1>3, <1>5 DEF Planned, TypeOK, AtFile
<1>7. Alone'
  BY <1>1, <1>2, <1>5, AloneKept, Met DEF AtFile, Window
<1>8. CopyIsSafe' /\ PlanFits' /\ NeverTornAlone'
  BY <1>2, <1>5, ConfigKept DEF Window
<1>9. Recoverable'
  BY DEF Recoverable
<1>10. PrunedBehind'
  BY <1>2, <1>5, BehindKept DEF AtFile
<1>11. QED
  BY <1>3, <1>4, <1>6, <1>7, <1>8, <1>9, <1>10

\* A kill leaves everything as it is, the temporary file too.
LEMMA KillStep ==
  ASSUME IInv, NEW f \in Fixer, Kill(f)
  PROVE  IInv'
<1> USE DEF IInv, Kill, disk, history
<1>1. /\ pc'[f] = "killed" /\ fd'[f] = "none"
      /\ \A g \in Fixer \ {f} : pc'[g] = pc[g] /\ fd'[g] = fd[g]
  BY DEF TypeOK
<1>2. TypeOK'
  BY FixAssumption DEF TypeOK, Outside
<1>3. Descriptors' /\ Planned'
  BY <1>1 DEF Descriptors, Planned, AtFile, here
<1>4. Alone' /\ CopyIsSafe'
  BY <1>1 DEF Alone, AloneAt, CopyIsSafe, Window, AtFile, here
<1>5. Recoverable' /\ NeverTornAlone'
  BY DEF Recoverable, NeverTornAlone
<1>6. PlanFits' /\ PrunedBehind'
  BY <1>1 DEF PlanFits, PrunedBehind, Behind, Settled, Window, AtFile, here
<1>7. QED
  BY <1>2, <1>3, <1>4, <1>5, <1>6

-----------------------------------------------------------------------------
(* The user.                                                                *)

\* A save marks the file where a command is in its window, and elsewhere starts anew.
LEMMA EditStep ==
  ASSUME IInv, NEW q \in Paths, Edit(q)
  PROVE  IInv'
<1> USE DEF IInv, Edit
<1>1. /\ config'[q] \in Document \cup {Unparsable} /\ saved'[q] = config'[q]
      /\ raced'[q] = InWindow(q)
      /\ \A p \in Paths \ {q} :
           config'[p] = config[p] /\ saved'[p] = saved[p] /\ raced'[p] = raced[p]
      /\ \A f \in Fixer : stirred'[f] = stirred[f] \cup {q}
  BY DEF TypeOK
<1>2. TypeOK'
  <2>1. config' \in [Paths -> Text] /\ saved' \in [Paths -> Document \cup {Unparsable}]
    BY <1>1 DEF TypeOK, Text
  <2>2. raced' \in [Paths -> BOOLEAN] /\ mode' \in [Paths -> Mode]
    BY DEF TypeOK, InWindow
  <2>3. fd' \in [Fixer -> {"tmp", "config", "none"}] /\ stirred' \in [Fixer -> SUBSET Paths]
    BY DEF TypeOK
  <2>4. edits' \in 0..MaxEdits
    BY FixAssumption DEF TypeOK
  <2>5. QED
    BY <2>1, <2>2, <2>3, <2>4 DEF TypeOK
<1>3. \A f \in Fixer : pc[f] \in Window /\ here(f) = q => raced'[q]
  BY <1>1 DEF InWindow
<1>4. Descriptors' /\ Planned'
  <2>1. \A f \in Fixer : fd'[f] # "none" =>
          fd'[f] = fd[f] /\ (fd[f] = "config" => here(f) # q \/ pc[f] \notin AtFile)
    OBVIOUS
  <2>2. Descriptors'
    BY <1>1, <2>1, HereType DEF Descriptors, AtFile, here
  <2>3. Planned'
    BY DEF Planned
  <2>4. QED
    BY <2>2, <2>3
<1>5. Alone'
  <2> SUFFICES ASSUME NEW f \in Fixer, pc[f] \in Window, ~raced'[here(f)]
               PROVE  AloneAt(f, here(f))'
    BY DEF Alone, here
  <2>1. here(f) # q /\ here(f) \in Paths
    BY <1>3, HereType
  <2>2. AloneAt(f, here(f))
    BY <1>1, <2>1 DEF Alone
  <2>3. fd'[f] = fd[f]
    BY <2>1
  <2>4. QED
    BY <1>1, <2>1, <2>2, <2>3 DEF AloneAt, here
<1>6. CopyIsSafe' /\ Recoverable'
  <2>1. CopyIsSafe'
    BY <1>1, HereType DEF CopyIsSafe, here
  <2>2. ASSUME NEW p \in Paths, ~raced'[p]
        PROVE  saved'[p] = config'[p] \/ (saved'[p] = backup'[p] /\ Stable(config'[p]))
    <3>1. CASE p = q
      BY <1>1, <3>1
    <3>2. CASE p # q
      <4>1. saved'[p] = saved[p] /\ config'[p] = config[p] /\ ~raced[p] /\ backup' = backup
        BY <1>1, <2>2, <3>2
      <4>2. saved[p] = config[p] \/ (saved[p] = backup[p] /\ Stable(config[p]))
        BY <4>1 DEF Recoverable
      <4>3. QED
        BY <4>1, <4>2
    <3>3. QED
      BY <3>1, <3>2
  <2>3. Recoverable'
    BY <2>2 DEF Recoverable, Stable, Fixed
  <2>4. QED
    BY <2>1, <2>3
<1>7. PlanFits'
  <2> SUFFICES ASSUME NEW f \in Fixer, pc[f] \in Window \cup {"copy"}, ~raced'[here(f)],
                      here(f) \notin stirred'[f]
               PROVE  config'[here(f)] \in Document /\ planned[f] = Fixed(config'[here(f)])
    BY DEF PlanFits, here, Fixed
  <2>1. here(f) # q /\ here(f) \in Paths /\ here(f) \notin stirred[f]
    BY <1>1, HereType
  <2>2. QED
    BY <1>1, <2>1 DEF PlanFits
<1>8. NeverTornAlone'
  BY <1>1, FixAssumption DEF NeverTornAlone
<1>9. PrunedBehind'
  <2> SUFFICES ASSUME NEW f \in Fixer, pc[f] \in AtFile \cup {"read", "done"},
                      NEW i \in Behind(f)
               PROVE  Settled(f, Path[i])'
    BY DEF PrunedBehind, Behind
  <2>1. Settled(f, Path[i]) /\ Path[i] \in Paths
    BY PathType DEF PrunedBehind, Behind
  <2>2. QED
    BY <1>1, <2>1 DEF Settled, Stable, Fixed
<1>10. QED
  BY <1>2, <1>4, <1>5, <1>6, <1>7, <1>8, <1>9

\* Stuttering.
LEMMA StutterStep ==
  ASSUME IInv, UNCHANGED vars
  PROVE  IInv'
<1> USE DEF IInv, vars
<1>1. TypeOK' /\ Descriptors' /\ Planned'
  BY DEF TypeOK, Descriptors, Planned, here
<1>2. Alone' /\ CopyIsSafe' /\ Recoverable' /\ NeverTornAlone'
  BY DEF Alone, AloneAt, CopyIsSafe, Recoverable, NeverTornAlone, here
<1>3. PlanFits' /\ PrunedBehind'
  BY DEF PlanFits, PrunedBehind, Behind, Settled, here
<1>4. QED
  BY <1>1, <1>2, <1>3

\* What each run knows of the file and of its copies, always.
THEOREM Invariance == Spec => []IInv
<1>1. ASSUME IInv, NEW f \in Fixer, Fix(f) \/ IOError(f) PROVE IInv'
  <2>1. ASSUME ReplaceMissing(f) PROVE IInv'
    <3>1. Raise(f) /\ pc[f] \in AtFile /\ faults' \in 0..MaxFaults
      BY <1>1, <2>1 DEF ReplaceMissing, AtFile, IInv, TypeOK
    <3>2. QED
      BY <1>1, <3>1, RaiseStep
  <2>2. ASSUME IOError(f) PROVE IInv'
    <3>1. Raise(f) /\ pc[f] \in AtFile /\ faults' \in 0..MaxFaults
      BY <1>1, <2>2, FixAssumption DEF IOError, IInv, TypeOK
    <3>2. QED
      BY <1>1, <3>1, RaiseStep
  <2>3. QED
    BY <1>1, <2>1, <2>2, SkipStep, ReadAndPlanStep, CopyOpenStep, CopyDoneStep, OpenTmpStep,
       WriteStep, ReplaceStep, CleanupStep DEF Fix
<1>2. IInv /\ [Next]_vars => IInv'
  BY <1>1, StartStep, KillStep, EditStep, StutterStep DEF Next, Idle
<1>3. QED
  BY Initialization, <1>2, PTL DEF Spec

-----------------------------------------------------------------------------
(* What the command promises.                                               *)

\* The disk and the commands keep their types.
THEOREM TypeCorrect == Spec => []TypeOK
<1>1. IInv => TypeOK
  BY DEF IInv
<1>2. QED
  BY <1>1, Invariance, PTL

\* Nobody finds a config torn where commands have not met on it.
THEOREM ConfigStaysWhole == Spec => []NeverTornAlone
<1>1. IInv => NeverTornAlone
  BY DEF IInv
<1>2. QED
  BY <1>1, Invariance, PTL

\* What the user saved last is the config or its backup, through repeated runs, errors
\* and kills.
THEOREM FixIsReversible == Spec => []LastSaveRecoverable
<1>1. IInv => LastSaveRecoverable
  BY DEF IInv, Recoverable, LastSaveRecoverable
<1>2. QED
  BY <1>1, Invariance, PTL

\* A run that ends has left no unsafe grant in the lists it looks at, of a config it
\* could read and nobody saved meanwhile.
THEOREM FixIsComplete == Spec => []NoGrantLeft
<1>1. IInv => NoGrantLeft
  <2> SUFFICES ASSUME IInv, NEW f \in Fixer, pc[f] = "done",
                      NEW q \in Paths \ (Unreadable \cup stirred[f]), config[q] \in Document
               PROVE  ~Granting(config[q], Reached)
    BY DEF NoGrantLeft
  <2>1. PICK i \in DOMAIN Path : q = Path[i]
    BY PathType
  <2>2. Settled(f, q)
    BY <2>1 DEF IInv, PrunedBehind, Behind
  <2>3. QED
    BY <2>2, FixedIs DEF Settled, Stable
<1>2. QED
  BY <1>1, Invariance, PTL

\* A step that changes a config, where no one saved it or met there, only prunes it.
THEOREM FixOnlyPrunes == Spec => OnlyPrunes
<1>1. ASSUME IInv, Next, NEW q \in Paths, config'[q] # config[q], edits' = edits, ~raced[q]
      PROVE  \/ \E f \in Fixer : q \in stirred[f] /\ pc[f] = "replace" /\ here(f) = q
             \/ config[q] \in Document /\ config'[q] = Fixed(config[q])
  <2>1. \A p \in Paths : ~Edit(p)
    BY <1>1, FixAssumption DEF Edit, IInv, TypeOK
  <2>2. PICK f \in Fixer : Write(f) \/ Replace(f)
    BY <1>1, <2>1
       DEF Next, Fix, Start, Skip, ReadAndPlan, CopyOpen, CopyDone, OpenTmp, ReplaceMissing,
           Cleanup, Raise, IOError, Kill, Idle, vars, disk
  <2>3. here(f) = q
    BY <1>1, <2>2 DEF Write, Replace, IInv, TypeOK
  <2>4. CASE Write(f)
    BY <1>1, <2>3, <2>4 DEF Write, IInv, Descriptors
  <2>5. CASE Replace(f)
    <3>1. pc[f] = "replace" /\ config'[q] = tmp[q]
      BY <1>1, <2>3, <2>5 DEF Replace, Step, IInv, TypeOK
    <3>2. tmp[q] = planned[f]
      BY <1>1, <2>3, <3>1 DEF IInv, Alone, AloneAt, Window
    <3>3. q \notin stirred[f] => config[q] \in Document /\ planned[f] = Fixed(config[q])
      BY <1>1, <2>3, <3>1 DEF IInv, PlanFits, Window
    <3>4. QED
      BY <2>3, <3>1, <3>2, <3>3
  <2>6. QED
    BY <2>2, <2>4, <2>5
<1>2. IInv /\ [Next]_vars =>
        [\A q \in Paths :
           config'[q] # config[q] =>
             \/ edits' # edits \/ raced[q]
             \/ \E f \in Fixer : q \in stirred[f] /\ pc[f] = "replace" /\ here(f) = q
             \/ config[q] \in Document /\ config'[q] = Fixed(config[q])]_vars
  BY <1>1
<1>3. QED
  BY <1>2, Invariance, PTL DEF Spec, OnlyPrunes
=============================================================================
