---------------------------- MODULE LanRunProofs ----------------------------
(***************************************************************************)
(* Proofs about LanRun, for every network, manifest, policy and budget.     *)
(***************************************************************************)
EXTENDS LanRun, FiniteSetTheorems, TLAPS

\* The parts of a request, typed.
LEMMA RequestType ==
  ASSUME request \in Request
  PROVE  /\ manifest \in ManifestType
         /\ ports \in Seq(Port)
         /\ manifest.valid => ports # <<>>
         /\ manifest.targets \subseteq Target
         /\ manifest.expires_at \in Nat
         /\ budgets.max_total_connections \in Nat
         /\ budgets.max_runtime_s \in Nat
         /\ budgets.per_target_cooldown_s \in Nat
BY LanAssumption DEF Request, manifest, ports, budgets, ManifestType, Ceilings

\* The instants and durations of a run are naturals.
LEMMA TimesType ==
  ASSUME TypeOK
  PROVE  /\ VerifyTime \in Nat /\ ProbeTime \in Nat /\ StallTime \in Nat
         /\ clock \in Nat /\ started \in Nat /\ stall \in Nat
         /\ budgets.max_runtime_s \in Nat /\ budgets.per_target_cooldown_s \in Nat
<1>1. request \in Request /\ clock \in Nat /\ started \in Nat /\ stall \in Nat
  BY DEF TypeOK
<1>2. VerifyTime \in Nat /\ ProbeTime \in Nat /\ StallTime \in Nat
  BY LanAssumption
<1>3. QED
  BY <1>1, <1>2, RequestType

\* The set of resolved hosts is a finite set of hosts.
LEMMA ResolvedFinite ==
  ASSUME request \in Request
  PROVE  /\ ResolvedHosts(manifest) \subseteq Host
         /\ IsFiniteSet(ResolvedHosts(manifest))
         /\ Cardinality(ResolvedHosts(manifest)) \in Nat
<1>1. ResolvedHosts(manifest) \subseteq Host
  BY RequestType, LanAssumption DEF ResolvedHosts
<1>2. IsFiniteSet(ResolvedHosts(manifest))
  BY <1>1, FS_Subset, LanAssumption
<1>3. QED
  BY <1>1, <1>2, FS_CardinalityType

\* What every phase past a gate may rely on.
Passed ==
  /\ phase \in {"expiry", "signature", "scope", "plan"} \cup Loop \cup {"report"}
       => manifest.valid
  /\ phase \in {"signature", "scope", "plan"} \cup Loop \cup {"report"}
       => ~IsExpired(manifest, 0)
  /\ phase \in {"scope", "plan"} \cup Loop \cup {"report"} => request.signature = "good"
  /\ phase \in {"plan"} \cup Loop \cup {"report"}
       => ~ScopeRefused /\ hosts \in SetToSeqs(ResolvedHosts(manifest))
  /\ phase \in Loop \cup {"report"} => ~request.dry_run

\* The loop's counter counts the probes, and says where in the plan the loop is.
Position ==
  /\ Len(wire) = connections
  /\ phase \in Gates => wire = <<>> /\ h = 1 /\ p = 1
  /\ phase = "probe" => connections < budgets.max_total_connections
  /\ phase \in {"check", "probe"} => connections = (h - 1) * Len(ports) + (p - 1)
  /\ phase \in {"stalled", "cooldown"} => connections = (h - 1) * Len(ports) + p

\* The halting conditions.
Halting ==
  /\ OnlyAbortOrDeadlineCutsShort
  /\ late <= 1
  /\ ~aborted \/ phase = "probe" => late = 0
  /\ started <= clock
  /\ phase \in {"probe", "stalled"} => clock - started <= budgets.max_runtime_s
  /\ phase = "cooldown" => clock - started <= budgets.max_runtime_s + ProbeTime + stall
  /\ RuntimeBounded

IInv == TypeOK /\ Passed /\ Position /\ Halting

\* The listing of a finite set has the set's elements and its cardinality.
LEMMA ListingType ==
  ASSUME NEW S, IsFiniteSet(S), NEW s \in SetToSeqs(S)
  PROVE  /\ s \in Seq(S)
         /\ Len(s) = Cardinality(S)
         /\ Cardinality(S) \in Nat
         /\ \A i \in 1..Len(s) : s[i] \in S
<1>1. Cardinality(S) \in Nat
  BY FS_CardinalityType
<1>2. s \in [1..Cardinality(S) -> S]
  BY DEF SetToSeqs
<1>3. QED
  BY <1>1, <1>2

\* Row h, column p of a plan lies inside it.
LEMMA InsidePlan ==
  ASSUME NEW H \in Nat, NEW P \in Nat, NEW i \in Nat \ {0}, NEW j \in Nat \ {0},
         i <= H, j <= P
  PROVE  /\ (i - 1) * P + j \in Nat
         /\ (i - 1) * P + j <= H * P
         /\ (i - 1) * P + (j - 1) < H * P
         /\ j = P => (i - 1) * P + j = i * P
<1>1. H * P = (i - 1) * P + (H - (i - 1)) * P
  OBVIOUS
<1>2. PICK k \in Nat : H - (i - 1) = k + 1
  <2>1. H - i \in Nat OBVIOUS
  <2>2. QED BY <2>1
<1>3. (k + 1) * P = k * P + P /\ k * P \in Nat
  OBVIOUS
<1>4. (i - 1) * P \in Nat
  <2>1. i - 1 \in Nat OBVIOUS
  <2>2. QED BY <2>1
<1>5. QED
  BY <1>1, <1>2, <1>3, <1>4

-----------------------------------------------------------------------------
\* The first state of run_lan, before any gate, satisfies the invariant.
THEOREM Initialization == Init => IInv
<1> SUFFICES ASSUME Init PROVE IInv
  OBVIOUS
<1>1. TypeOK
  <2>1. DOMAIN results = {}
    BY DEF Init
  <2>2. hosts \in Seq(Host) /\ servers \in Seq(Endpoint) /\ wire \in Seq(Endpoint)
    BY DEF Init
  <2>3. /\ request \in Request /\ phase = "parse" /\ clock = 0 /\ aborted = FALSE
        /\ started = 0 /\ h = 1 /\ p = 1 /\ connections = 0 /\ late = 0 /\ stall = 0
    BY DEF Init
  <2>4. DOMAIN results \subseteq Endpoint /\ \A e \in DOMAIN results : results[e] \in Answer
    BY <2>1
  <2>5. phase \in Gates /\ phase \notin Loop
    BY <2>3 DEF Gates, Loop
  <2>6. clock \in Nat /\ started \in Nat /\ connections \in Nat /\ late \in Nat
        /\ stall \in Nat /\ h \in Nat \ {0} /\ p \in Nat \ {0}
    BY <2>3
  <2>7. aborted \in BOOLEAN
    BY <2>3, Zenon
  <2>8. QED
    BY <2>2, <2>3, <2>4, <2>5, <2>6, <2>7 DEF TypeOK
<1>2. Passed /\ Position
  BY RequestType DEF Init, Passed, Position, Gates, Loop
<1>3. Halting
  BY RequestType, LanAssumption DEF Init, Halting, OnlyAbortOrDeadlineCutsShort, RuntimeBounded, Loop
<1>4. QED
  BY <1>1, <1>2, <1>3 DEF IInv

\* The gates of parsing, expiry and signature send nothing and record what they passed.
LEMMA GateStep ==
  ASSUME IInv, ParseManifest \/ CheckExpiry \/ VerifySignature
  PROVE  IInv'
<1> USE DEF IInv
<1>1. phase \in {"parse", "expiry", "signature"} /\ phase' \in Gates \cup {"refused"}
  BY DEF ParseManifest, CheckExpiry, VerifySignature, Gate, Gates
<1>2. UNCHANGED <<request, aborted, scope, found>> /\ clock' \in Nat /\ clock <= clock'
  BY LanAssumption DEF TypeOK, ParseManifest, CheckExpiry, VerifySignature
<1> USE DEF scope, found, sent
<1>3. TypeOK'
  BY <1>1, <1>2 DEF TypeOK, Gates, Loop, Ended
<1>4. Passed'
  <2>1. UNCHANGED <<manifest, ResolvedHosts(manifest), ScopeRefused>>
    BY <1>2 DEF manifest, ResolvedHosts, ScopeRefused, ports, budgets, TargetRefused, Allowed
  <2>2. CASE ParseManifest
    BY <1>2, <2>1, <2>2 DEF Passed, ParseManifest, Gate, Loop, manifest
  <2>3. CASE CheckExpiry
    BY <1>2, <2>1, <2>3 DEF Passed, CheckExpiry, Gate, Loop, manifest, IsExpired
  <2>4. CASE VerifySignature
    BY <1>2, <2>1, <2>4 DEF Passed, VerifySignature, Gate, Loop, manifest, IsExpired
  <2>5. QED
    BY <2>2, <2>3, <2>4
<1>5. Position'
  BY <1>1, <1>2 DEF Position, Gates, Loop, Ended, ports, budgets, manifest
<1>6. Halting'
  BY <1>1, <1>2 DEF Halting, TypeOK, OnlyAbortOrDeadlineCutsShort, RuntimeBounded, Gates, Loop
<1>7. QED
  BY <1>3, <1>4, <1>5, <1>6

\* resolve_scope: the plan that passes is listed, and fits every ceiling.
LEMMA ResolveScopeStep ==
  ASSUME IInv, ResolveScope
  PROVE  IInv'
<1> USE DEF IInv
<1>1. /\ phase = "scope" /\ phase' \in {"plan", "refused"}
      /\ UNCHANGED <<request, clock, aborted, h, p, started, connections, results,
                     servers, wire, late, stall>>
  BY DEF ResolveScope, Gate, found, sent
<1>2. UNCHANGED <<manifest, ports, budgets, ResolvedHosts(manifest), ScopeRefused>>
  BY <1>1 DEF manifest, ResolvedHosts, ScopeRefused, ports, budgets, TargetRefused, Allowed
<1>3. hosts' \in Seq(Host)
  <2>1. CASE ScopeRefused \/ ListsForever
    BY <2>1 DEF ResolveScope, TypeOK
  <2>2. CASE ~ScopeRefused /\ ~ListsForever
    <3>1. hosts' \in SetToSeqs(ResolvedHosts(manifest))
      BY <2>2 DEF ResolveScope
    <3>2. hosts' \in Seq(ResolvedHosts(manifest))
      BY <3>1, ResolvedFinite, ListingType DEF TypeOK
    <3>3. QED
      BY <3>2, ResolvedFinite DEF TypeOK
  <2>3. QED
    BY <2>1, <2>2
<1>4. TypeOK'
  BY <1>1, <1>2, <1>3 DEF TypeOK, Gates, Loop, Ended
<1>5. Passed'
  BY <1>1, <1>2 DEF Passed, ResolveScope, Gate, Loop, IsExpired
<1>6. Position' /\ Halting'
  BY <1>1, <1>2 DEF Position, Halting, TypeOK, OnlyAbortOrDeadlineCutsShort, RuntimeBounded,
     Gates, Loop
<1>7. QED
  BY <1>4, <1>5, <1>6

\* A listing that is under way has passed the signature and nothing more.
LEMMA ListHostsStep ==
  ASSUME IInv, ListHosts
  PROVE  IInv'
<1> USE DEF IInv
<1>1. /\ phase = "scope" /\ phase' = "listing"
      /\ UNCHANGED <<request, clock, aborted, hosts, h, p, started, connections, results,
                     servers, wire, late, stall>>
  BY DEF ListHosts, scope, found, sent
<1>2. UNCHANGED <<manifest, ports, budgets>>
  BY <1>1 DEF manifest, ports, budgets
<1>3. TypeOK'
  BY <1>1, <1>2 DEF TypeOK, Gates, Loop, Ended
<1>4. Passed'
  BY <1>1, <1>2 DEF Passed, Loop, IsExpired
<1>5. Position' /\ Halting'
  BY <1>1, <1>2 DEF Position, Halting, TypeOK, OnlyAbortOrDeadlineCutsShort, RuntimeBounded,
     Gates, Loop
<1>6. QED
  BY <1>3, <1>4, <1>5

\* The step into the loop finds its first endpoint and starts the deadline clock.
LEMMA PlanStep ==
  ASSUME IInv, Plan
  PROVE  IInv'
<1> USE DEF IInv
<1>1. /\ phase = "plan" /\ phase' \in {"check", "dry_run"}
      /\ UNCHANGED <<request, clock, aborted, hosts, h, p, connections, results,
                     servers, wire, late, stall>>
  BY DEF Plan, found, sent
<1>2. UNCHANGED <<manifest, ports, budgets, ResolvedHosts(manifest), ScopeRefused>>
  BY <1>1 DEF manifest, ResolvedHosts, ScopeRefused, ports, budgets, TargetRefused, Allowed
<1>3. h = 1 /\ p = 1 /\ wire = <<>> /\ connections = 0
  BY <1>1 DEF Position, Gates
<1>4. h <= Len(hosts) /\ p <= Len(ports)
  <2>1. Len(hosts) = Cardinality(ResolvedHosts(manifest)) /\ ~ScopeRefused
    BY <1>1, ResolvedFinite, ListingType DEF Passed, TypeOK
  <2>2. Cardinality(ResolvedHosts(manifest)) # 0
    BY <2>1, ResolvedFinite, FS_EmptySet DEF ScopeRefused, TypeOK
  <2>3. manifest.valid
    BY <1>1 DEF Passed
  <2>4. ports \in Seq(Port) /\ ports # <<>>
    BY <2>3, RequestType DEF TypeOK
  <2>5. Len(ports) \in Nat \ {0}
    BY <2>4
  <2>6. QED
    BY <1>3, <2>1, <2>2, <2>5, ResolvedFinite DEF TypeOK
<1>5. TypeOK'
  BY <1>1, <1>2, <1>4 DEF TypeOK, Plan, Gates, Loop, Ended
<1>6. Passed'
  BY <1>1, <1>2 DEF Passed, Plan, Loop, IsExpired
<1>7. Position'
  <2>1. ports \in Seq(Port) /\ Len(ports) \in Nat
    BY RequestType DEF TypeOK
  <2>2. (h - 1) * Len(ports) + (p - 1) = 0
    BY <1>3, <2>1
  <2>3. QED
    BY <1>1, <1>2, <1>3, <2>2 DEF Position, Gates
<1>8. Halting'
  BY <1>1, <1>2, LanAssumption, RequestType DEF Halting, TypeOK, Plan,
     OnlyAbortOrDeadlineCutsShort, RuntimeBounded, Gates, Loop
<1>9. QED
  BY <1>5, <1>6, <1>7, <1>8

\* A plan that passed resolve_scope fits the connection budget.
LEMMA PlanFits ==
  ASSUME TypeOK, Passed, phase \in Loop
  PROVE  Len(hosts) * Len(ports) <= budgets.max_total_connections
<1>1. Len(hosts) = Cardinality(ResolvedHosts(manifest)) /\ ~ScopeRefused
  BY ResolvedFinite, ListingType DEF Passed, TypeOK
<1>2. Len(hosts) \in Nat /\ Len(ports) \in Nat
  BY RequestType DEF TypeOK
<1>3. Len(hosts) * Len(ports) \in Nat
  BY <1>2
<1>4. QED
  BY <1>1, <1>3, RequestType DEF ScopeRefused, TypeOK

\* The check before a probe leaves room in the budget and the deadline, or halts.
LEMMA CheckLimitsStep ==
  ASSUME IInv, CheckLimits
  PROVE  IInv'
<1> USE DEF IInv
<1>1. /\ phase = "check" /\ phase' \in {"report", "probe"}
      /\ UNCHANGED <<request, clock, aborted, hosts, h, p, started, connections, results,
                     servers, wire, late, stall>>
  BY DEF CheckLimits, scope, found, sent
<1>2. UNCHANGED <<manifest, ports, budgets, ResolvedHosts(manifest), ScopeRefused>>
  BY <1>1 DEF manifest, ResolvedHosts, ScopeRefused, ports, budgets, TargetRefused, Allowed
<1>3. TypeOK'
  BY <1>1, <1>2 DEF TypeOK, Gates, Loop, Ended
<1>4. Passed'
  BY <1>1, <1>2 DEF Passed, Loop, IsExpired
<1>5. phase' = "probe" =>
        /\ ~aborted
        /\ connections < budgets.max_total_connections
        /\ clock - started <= budgets.max_runtime_s
  BY <1>1, RequestType DEF CheckLimits, OverLimit, TypeOK
<1>6. Position'
  BY <1>1, <1>2, <1>5 DEF Position, Gates
<1>7. connections < budgets.max_total_connections
  <2>1. connections < Len(hosts) * Len(ports)
    <3>1. /\ Len(hosts) \in Nat /\ Len(ports) \in Nat
          /\ h \in Nat \ {0} /\ p \in Nat \ {0} /\ h <= Len(hosts) /\ p <= Len(ports)
      BY <1>1, RequestType DEF TypeOK, Loop
    <3>2. (h - 1) * Len(ports) + (p - 1) < Len(hosts) * Len(ports)
      BY <3>1, InsidePlan
    <3>3. QED
      BY <1>1, <3>2 DEF Position
  <2>2. Len(hosts) * Len(ports) \in Nat
    BY RequestType DEF TypeOK
  <2>3. QED
    BY <1>1, <2>1, <2>2, PlanFits, RequestType DEF TypeOK, Loop
<1>8. phase' = "report" => aborted \/ clock - started > budgets.max_runtime_s
  BY <1>1, <1>7, RequestType DEF CheckLimits, OverLimit, TypeOK
<1>9. Halting'
  BY <1>1, <1>2, <1>5, <1>8 DEF Halting, OnlyAbortOrDeadlineCutsShort, RuntimeBounded,
     Gates, Loop
<1>10. QED
  BY <1>3, <1>4, <1>6, <1>9

\* A probe counts one connection, and is the only step that does, prolonged or not.
LEMMA ProbeStep ==
  ASSUME IInv, Probe \/ Trickle
  PROVE  IInv'
<1> USE DEF IInv
<1>1. /\ phase = "probe" /\ Contact /\ stall' = 0
      /\ phase' \in {"stalled", "cooldown"} /\ (phase' = "stalled" => clock' = clock)
      /\ UNCHANGED <<request, aborted, hosts, h, p, started>>
  BY DEF Probe, Trickle, scope
<1>2. UNCHANGED <<manifest, ports, budgets, ResolvedHosts(manifest), ScopeRefused>>
  BY <1>1 DEF manifest, ResolvedHosts, ScopeRefused, ports, budgets, TargetRefused, Allowed
<1>3. here \in Endpoint
  BY <1>1, RequestType DEF here, Endpoint, TypeOK, Loop
<1>4. clock' \in Nat /\ clock <= clock' /\ clock' <= clock + ProbeTime
  <2>1. PICK d \in 0..ProbeTime : clock' = clock + d
    <3>1. CASE Probe
      BY <3>1 DEF Probe
    <3>2. CASE Trickle
      <4>1. clock' = clock + 0 /\ 0 \in 0..ProbeTime
        BY <3>2, TimesType DEF Trickle
      <4>2. QED
        BY <4>1
    <3>3. QED
      BY <3>1, <3>2
  <2>2. QED
    BY <2>1, TimesType
<1>5. wire' = Append(wire, here) /\ connections' = connections + 1
  BY <1>1 DEF Contact
<1>6. /\ DOMAIN results' = DOMAIN results \cup {here}
      /\ \A e \in DOMAIN results' : results'[e] \in Answer
      /\ servers' \in Seq(Endpoint)
  <2>1. PICK a \in Answer :
          /\ results' = [e \in DOMAIN results \cup {here} |-> IF e = here THEN a ELSE results[e]]
          /\ servers' = IF a = "mcp" THEN Append(servers, here) ELSE servers
    BY <1>1 DEF Contact
  <2>2. QED
    BY <2>1, <1>3 DEF TypeOK
<1>7. late' = IF aborted THEN late + 1 ELSE late
  BY <1>1 DEF Contact, TypeOK
<1>8. TypeOK'
  BY <1>1, <1>2, <1>3, <1>4, <1>5, <1>6, <1>7 DEF TypeOK, Gates, Loop, Ended
<1>9. Passed'
  BY <1>1, <1>2 DEF Passed, Loop, IsExpired
<1>10. Position'
  <2>1. Len(wire') = connections'
    BY <1>3, <1>5 DEF Position, TypeOK
  <2>2. connections' = (h - 1) * Len(ports) + p
    <3>1. (h - 1) * Len(ports) \in Nat
      BY <1>1, RequestType, InsidePlan DEF TypeOK, Loop
    <3>2. QED
      BY <1>1, <1>5, <3>1 DEF Position, TypeOK
  <2>3. QED
    BY <1>1, <1>2, <2>1, <2>2 DEF Position, Gates
<1>11. Halting'
  <2>1. late' <= 1 /\ (~aborted' => late' = 0)
    BY <1>1, <1>7 DEF Halting, TypeOK
  <2>2. started <= clock /\ clock - started <= budgets.max_runtime_s
    BY <1>1 DEF Halting
  <2>3. /\ started' <= clock' /\ clock' - started' <= budgets.max_runtime_s + ProbeTime + stall'
        /\ phase' = "stalled" => clock' - started' <= budgets.max_runtime_s
    BY <1>1, <1>4, <2>2, TimesType
  <2>4. RuntimeBounded' /\ OnlyAbortOrDeadlineCutsShort'
    <3>1. clock' - started'
            <= budgets.max_runtime_s + ProbeTime + stall' + budgets.per_target_cooldown_s
      BY <1>1, <1>4, <2>3, TimesType
    <3>2. QED
      BY <1>1, <1>2, <3>1 DEF RuntimeBounded, OnlyAbortOrDeadlineCutsShort
  <2>5. QED
    BY <1>1, <1>2, <2>1, <2>3, <2>4 DEF Halting
<1>12. QED
  BY <1>8, <1>9, <1>10, <1>11

\* A peer that lets go at last leaves the loop behind its deadline by what it held it.
LEMMA RelentStep ==
  ASSUME IInv, Relent
  PROVE  IInv'
<1> USE DEF IInv
<1>1. /\ phase = "stalled" /\ phase' = "cooldown"
      /\ UNCHANGED <<request, aborted, hosts, h, p, started, connections, results, servers,
                     wire, late>>
  BY DEF Relent, scope, sent
<1>2. UNCHANGED <<manifest, ports, budgets, ResolvedHosts(manifest), ScopeRefused>>
  BY <1>1 DEF manifest, ResolvedHosts, ScopeRefused, ports, budgets, TargetRefused, Allowed
<1>3. PICK d \in 0..StallTime : clock' = clock + ProbeTime + d /\ stall' = d
  BY DEF Relent
<1>4. clock' \in Nat /\ stall' \in Nat /\ clock <= clock'
  BY <1>3, TimesType
<1>5. TypeOK'
  BY <1>1, <1>2, <1>4 DEF TypeOK, Gates, Loop, Ended
<1>6. Passed' /\ Position'
  BY <1>1, <1>2 DEF Passed, Position, Gates, Loop, IsExpired
<1>7. Halting'
  <2>1. started <= clock /\ clock - started <= budgets.max_runtime_s
    BY <1>1 DEF Halting
  <2>2. /\ started' <= clock'
        /\ clock' - started' <= budgets.max_runtime_s + ProbeTime + stall'
        /\ clock' - started'
             <= budgets.max_runtime_s + ProbeTime + stall' + budgets.per_target_cooldown_s
    BY <1>1, <1>3, <2>1, TimesType
  <2>3. QED
    BY <1>1, <1>2, <2>2 DEF Halting, RuntimeBounded, OnlyAbortOrDeadlineCutsShort
<1>8. QED
  BY <1>5, <1>6, <1>7

\* The step to the next endpoint stays in the plan, or has covered it.
LEMMA CooldownStep ==
  ASSUME IInv, Cooldown
  PROVE  IInv'
<1> USE DEF IInv
<1>1. /\ phase = "cooldown" /\ phase' \in {"report", "check"}
      /\ UNCHANGED <<request, aborted, hosts, started, connections, results, servers,
                     wire, late, stall>>
  BY DEF Cooldown, found, sent
<1>2. UNCHANGED <<manifest, ports, budgets, ResolvedHosts(manifest), ScopeRefused>>
  BY <1>1 DEF manifest, ResolvedHosts, ScopeRefused, ports, budgets, TargetRefused, Allowed
<1>3. /\ Len(hosts) \in Nat /\ Len(ports) \in Nat
      /\ h \in Nat \ {0} /\ p \in Nat \ {0} /\ h <= Len(hosts) /\ p <= Len(ports)
  BY <1>1, RequestType DEF TypeOK, Loop
<1>4. clock' \in Nat /\ clock' = clock + budgets.per_target_cooldown_s
  BY RequestType DEF Cooldown, TypeOK
<1>5. \/ p < Len(ports) /\ p' = p + 1 /\ h' = h /\ phase' = "check"
      \/ p = Len(ports) /\ p' = 1 /\ h' = h + 1 /\ h < Len(hosts) /\ phase' = "check"
      \/ p = Len(ports) /\ p' = 1 /\ h' = h + 1 /\ h = Len(hosts) /\ phase' = "report"
  BY <1>3 DEF Cooldown
<1>6. TypeOK'
  BY <1>1, <1>2, <1>3, <1>4, <1>5 DEF TypeOK, Gates, Loop, Ended
<1>7. Passed'
  BY <1>1, <1>2 DEF Passed, Loop, IsExpired
<1>8. connections = (h - 1) * Len(ports) + p /\ connections = Len(wire)
  BY <1>1 DEF Position
<1>9. Position'
  <2>1. CASE p < Len(ports)
    <3>1. (h - 1) * Len(ports) \in Nat
      BY <1>3, InsidePlan
    <3>2. connections = (h' - 1) * Len(ports) + (p' - 1)
      BY <1>3, <1>5, <1>8, <2>1, <3>1
    <3>3. QED
      BY <1>1, <1>2, <1>5, <1>8, <2>1, <3>2, <1>3 DEF Position, Gates
  <2>2. CASE p = Len(ports)
    <3>1. connections = h * Len(ports) /\ h * Len(ports) \in Nat
      BY <1>3, <1>8, <2>2, InsidePlan
    <3>2. connections = (h' - 1) * Len(ports) + (p' - 1)
      BY <1>3, <1>5, <2>2, <3>1
    <3>3. QED
      BY <1>1, <1>2, <1>8, <3>2 DEF Position, Gates
  <2>3. QED
    BY <1>3, <2>1, <2>2
<1>10. Halting'
  <2>1. OnlyAbortOrDeadlineCutsShort'
    <3>1. CASE phase' = "report"
      <4>1. h = Len(hosts) /\ p = Len(ports)
        BY <1>5, <3>1
      <4>2. connections = h * Len(ports)
        BY <1>3, <1>8, <4>1, InsidePlan
      <4>3. Len(wire') = Len(hosts') * Len(ports')
        BY <1>1, <1>2, <1>8, <4>1, <4>2
      <4>4. Len(hosts') * Len(ports') \in Nat
        BY <1>1, <1>2, <1>3
      <4>5. QED
        BY <4>3, <4>4 DEF OnlyAbortOrDeadlineCutsShort
    <3>2. CASE phase' # "report"
      BY <3>2 DEF OnlyAbortOrDeadlineCutsShort
    <3>3. QED
      BY <3>1, <3>2
  <2>2. /\ started' <= clock'
        /\ clock' - started' <= budgets.max_runtime_s + ProbeTime + stall'
                                   + budgets.per_target_cooldown_s
    <3>1. started <= clock /\ clock - started <= budgets.max_runtime_s + ProbeTime + stall
      BY <1>1 DEF Halting
    <3>2. QED
      BY <1>1, <1>4, <3>1, TimesType
  <2>3. QED
    BY <1>1, <1>2, <2>1, <2>2 DEF Halting, RuntimeBounded
<1>11. QED
  BY <1>6, <1>7, <1>9, <1>10

\* The abort switch, an interrupt, and the end of the run disturb nothing.
LEMMA EnvironmentStep ==
  ASSUME IInv, RaiseAbort \/ Interrupt \/ UNCHANGED vars
  PROVE  IInv'
<1> USE DEF IInv
<1>1. UNCHANGED <<request, clock, hosts, h, p, started, connections, results, servers,
                  wire, late, stall>>
  BY DEF RaiseAbort, Interrupt, vars, scope, found, sent
<1>2. UNCHANGED <<manifest, ports, budgets, ResolvedHosts(manifest), ScopeRefused>>
  BY <1>1 DEF manifest, ResolvedHosts, ScopeRefused, ports, budgets, TargetRefused, Allowed
<1>3. \/ phase' = phase /\ aborted' = TRUE
      \/ phase' = "killed" /\ aborted' = aborted
      \/ phase' = phase /\ aborted' = aborted
  BY DEF RaiseAbort, Interrupt, vars
<1>4. TypeOK'
  BY <1>1, <1>2, <1>3 DEF TypeOK, Gates, Loop, Ended
<1>5. Passed'
  BY <1>1, <1>2, <1>3 DEF Passed, Loop, IsExpired
<1>6. Position'
  BY <1>1, <1>2, <1>3 DEF Position, Gates
<1>7. Halting'
  BY <1>1, <1>2, <1>3 DEF Halting, TypeOK, OnlyAbortOrDeadlineCutsShort, RuntimeBounded, Gates, Loop
<1>8. QED
  BY <1>4, <1>5, <1>6, <1>7

\* The strengthened invariant of run_lan holds in every state of every run.
THEOREM Invariance == Spec => []IInv
<1>1. IInv /\ [Next]_vars => IInv'
  BY GateStep, ResolveScopeStep, ListHostsStep, PlanStep, CheckLimitsStep, ProbeStep,
     RelentStep, CooldownStep, EnvironmentStep DEF Next, Runner, Done
<1>2. QED
  BY <1>1, Initialization, PTL DEF Spec

-----------------------------------------------------------------------------
\* Type correctness, for every network and every manifest.
THEOREM TypeCorrect == Spec => []TypeOK
<1>1. IInv => TypeOK
  BY DEF IInv
<1>2. QED
  BY <1>1, Invariance, PTL

\* The connection budget never cuts a run short: a report that leaves part of the
\* plan out was aborted or ran past its deadline (run_lan's loop and resolve_scope).
THEOREM NeverCutShortByBudget == Spec => []OnlyAbortOrDeadlineCutsShort
<1>1. IInv => OnlyAbortOrDeadlineCutsShort
  BY DEF IInv, Halting
<1>2. QED
  BY <1>1, Invariance, PTL

\* The abort switch lets at most the probe in flight out.
THEOREM PromptHalt == Spec => []AbortStopsWithinOneProbe
<1>1. IInv => AbortStopsWithinOneProbe
  BY DEF IInv, Halting, AbortStopsWithinOneProbe
<1>2. QED
  BY <1>1, Invariance, PTL

\* The runtime ceiling is overstayed by at most one probe and one cooldown, and by as long
\* as the peer of that one probe prolongs it.
THEOREM RuntimeCeiling == Spec => []RuntimeBounded
<1>1. IInv => RuntimeBounded
  BY DEF IInv, Halting
<1>2. QED
  BY <1>1, Invariance, PTL

-----------------------------------------------------------------------------
(* Refinement.                                                              *)

\* A run whose gates have passed has permission for the endpoint it is at, and a
\* plan that passed resolve_scope is covered by the authorization.
LEMMA HereIsPermitted ==
  ASSUME IInv, phase \in Loop
  PROVE  here \in Permitted
<1>1. /\ manifest.valid /\ 0 < manifest.expires_at /\ request.signature = "good"
      /\ ~request.dry_run /\ ~ScopeRefused
      /\ hosts \in SetToSeqs(ResolvedHosts(manifest))
  BY RequestType DEF IInv, Passed, TypeOK, IsExpired
<1>2. ResolvedHosts(manifest) \subseteq CoveredHosts
  BY <1>1 DEF ResolvedHosts, CoveredHosts, ScopeRefused, TargetRefused, Allowed
<1>3. hosts[h] \in ResolvedHosts(manifest)
  BY <1>1, ResolvedFinite, ListingType DEF IInv, TypeOK
<1>4. ports[p] \in ToSet(ports)
  BY RequestType DEF IInv, TypeOK, ToSet
<1>5. QED
  BY <1>1, <1>2, <1>3, <1>4 DEF here, Permitted

\* Appending adds the element to the set of a sequence's elements.
LEMMA AppendSet ==
  ASSUME NEW S, NEW s \in Seq(S), NEW e \in S
  PROVE  ToSet(Append(s, e)) = ToSet(s) \cup {e} /\ Len(Append(s, e)) = Len(s) + 1
<1>1. /\ Append(s, e) \in Seq(S) /\ Len(Append(s, e)) = Len(s) + 1 /\ Len(s) \in Nat
      /\ \A i \in 1..Len(s) : Append(s, e)[i] = s[i]
      /\ Append(s, e)[Len(s) + 1] = e
  OBVIOUS
<1>2. DOMAIN s = 1..Len(s) /\ DOMAIN Append(s, e) = 1..(Len(s) + 1)
  BY <1>1
<1>3. 1..(Len(s) + 1) = (1..Len(s)) \cup {Len(s) + 1}
  BY <1>1
<1>4. QED
  BY <1>1, <1>2, <1>3 DEF ToSet

\* The authorization does not change during a run.
LEMMA PermittedUnchanged ==
  ASSUME request' = request
  PROVE  Permitted' = Permitted /\ budgets' = budgets
BY DEF Permitted, CoveredHosts, manifest, ports, budgets

\* Every step of the run is a step of the promise, or changes nothing it sees.
LEMMA StepRefines ==
  ASSUME IInv, IInv', [Next]_vars
  PROVE  [Authority!ANext]_(Authority!avars)
<1> USE DEF Authority!avars
<1>1. request' = request
  BY DEF Next, Runner, RaiseAbort, Interrupt, Done, vars, ParseManifest, CheckExpiry,
     VerifySignature, ResolveScope, ListHosts, Plan, CheckLimits, Probe, Trickle, Relent, Cooldown
<1>2. CASE Probe \/ Trickle
  <2>1. here \in Permitted /\ phase = "probe" /\ phase' \in {"stalled", "cooldown"}
    BY <1>2, HereIsPermitted DEF Probe, Trickle, Loop
  <2>2. wire' = Append(wire, here) /\ here \in Endpoint
    BY <1>2, RequestType DEF Probe, Trickle, Contact, here, Endpoint, IInv, TypeOK, Loop
  <2>3. ToSet(wire') = ToSet(wire) \cup {here} /\ Len(wire') = Len(wire) + 1
    BY <2>2, AppendSet DEF IInv, TypeOK
  <2>4. Len(wire) < budgets.max_total_connections
    BY <2>1 DEF IInv, Position
  <2>5. Decision = "granted" /\ Decision' = "granted"
    BY <2>1 DEF Decision, Gates, Loop
  <2>6. Authority!Contact(here)
    BY <1>1, <2>1, <2>3, <2>4, <2>5, PermittedUnchanged DEF Authority!Contact
  <2>7. QED
    BY <2>1, <2>6 DEF Authority!ANext
<1>3. CASE wire' = wire /\ Decision' = Decision
  BY <1>1, <1>3, PermittedUnchanged
<1>4. CASE wire' = wire /\ Decision # "over" /\ Decision' = "over"
  BY <1>1, <1>4, PermittedUnchanged DEF Authority!ANext, Authority!Close
<1>5. CASE Plan /\ phase' = "check"
  <2>1. Decision = "pending" /\ Decision' = "granted" /\ wire' = wire
    BY <1>5 DEF Plan, found, sent, Decision, Gates, Loop
  <2>2. here' \in Permitted'
    <3>1. (IInv /\ phase \in Loop => here \in Permitted)'
      BY HereIsPermitted, PTL
    <3>2. QED
      BY <1>5, <3>1 DEF Loop
  <2>3. QED
    BY <1>1, <2>1, <2>2, PermittedUnchanged DEF Authority!ANext, Authority!Grant
<1>6. QED
  <2>1. wire' = wire \/ Probe \/ Trickle
    BY DEF Next, Runner, RaiseAbort, Interrupt, Done, vars, found, ParseManifest, CheckExpiry,
       VerifySignature, ResolveScope, ListHosts, Plan, CheckLimits, Relent, Cooldown, sent
  <2>2. CASE ParseManifest \/ CheckExpiry \/ VerifySignature \/ ResolveScope \/ ListHosts
    BY <1>3, <1>4, <2>1, <2>2 DEF ParseManifest, CheckExpiry, VerifySignature, ResolveScope,
       ListHosts, Gate, Decision, Gates, Loop, found, sent
  <2>3. CASE Plan
    BY <1>4, <1>5, <2>3 DEF Plan, found, sent, Decision, Gates, Loop
  <2>4. CASE CheckLimits \/ Relent \/ Cooldown
    BY <1>3, <1>4, <2>4 DEF CheckLimits, Relent, Cooldown, found, sent, Decision, Gates, Loop
  <2>5. CASE RaiseAbort \/ Interrupt \/ Done \/ UNCHANGED vars
    BY <1>3, <1>4, <2>5 DEF RaiseAbort, Interrupt, Done, vars, found, sent, Decision, Gates, Loop,
       Ended, IInv, TypeOK
  <2>6. QED
    BY <1>2, <2>2, <2>3, <2>4, <2>5 DEF Next, Runner

\* The run keeps the promise of LanAuthority: packets only after every gate, only to
\* endpoints the authorization covers, never more than the ceiling, none at the end.
THEOREM Refinement == Spec => ImplementsAuthority
<1>1. Init => Authority!AInit
  BY RequestType DEF Init, Authority!AInit, Decision, Gates, ToSet
<1>2. IInv /\ IInv' /\ [Next]_vars => [Authority!ANext]_(Authority!avars)
  BY StepRefines
<1>3. QED
  BY <1>1, <1>2, Invariance, PTL DEF Spec, ImplementsAuthority, Authority!ASpec

-----------------------------------------------------------------------------
(* The audit payload and the report.                                        *)

\* Endpoint e lies before the loop's position: an earlier host's, or an earlier port's.
Before(e) ==
  \E i \in 1..Len(hosts), j \in 1..Len(ports) :
    /\ e = <<hosts[i], ports[j]>>
    /\ \/ i < h
       \/ i = h /\ IF phase \in {"stalled", "cooldown"} THEN j <= p ELSE j < p

\* Every probe sent lies behind the loop, so the next one is to a new endpoint, and the
\* results it adds are not those of an earlier probe overwritten.
Audit ==
  /\ phase \in Loop => \A e \in ToSet(wire) : Before(e)
  /\ ReportMatchesAudit

\* No host is listed twice.
LEMMA HostsOnce ==
  ASSUME IInv, phase \in Loop, NEW i \in 1..Len(hosts), NEW j \in 1..Len(hosts),
         hosts[i] = hosts[j]
  PROVE  i = j
<1>1. hosts \in SetToSeqs(ResolvedHosts(manifest))
  BY DEF IInv, Passed
<1>2. Len(hosts) = Cardinality(ResolvedHosts(manifest))
  BY <1>1, ResolvedFinite, ListingType DEF IInv, TypeOK
<1>3. QED
  BY <1>1, <1>2 DEF SetToSeqs

\* With distinct ports, the endpoint about to be probed has not been probed.
LEMMA HereIsNew ==
  ASSUME IInv, Audit, phase = "probe", DistinctPorts
  PROVE  here \notin ToSet(wire)
<1> SUFFICES ASSUME here \in ToSet(wire) PROVE FALSE
  OBVIOUS
<1>1. PICK i \in 1..Len(hosts), j \in 1..Len(ports) :
        /\ here = <<hosts[i], ports[j]>>
        /\ i < h \/ (i = h /\ j < p)
  BY DEF Audit, Before, Loop
<1>2. hosts[i] = hosts[h] /\ ports[j] = ports[p]
  BY <1>1 DEF here
<1>3. h \in 1..Len(hosts) /\ p \in 1..Len(ports) /\ DOMAIN ports = 1..Len(ports)
  BY RequestType DEF IInv, TypeOK, Loop
<1>4. i = h
  BY <1>2, <1>3, HostsOnce DEF Loop
<1>5. j = p
  BY <1>2, <1>3 DEF DistinctPorts, IsInjective
<1>6. QED
  BY <1>1, <1>3, <1>4, <1>5

\* A probe goes to an endpoint no earlier probe has gone to.
LEMMA AuditProbe ==
  ASSUME IInv, Audit, Probe \/ Trickle
  PROVE  Audit'
<1> USE DEF IInv
<1>1. /\ phase = "probe" /\ phase' \in {"stalled", "cooldown"} /\ Contact
      /\ UNCHANGED <<hosts, h, p, ports>> /\ wire' = Append(wire, here)
  BY DEF Probe, Trickle, Contact, scope, ports, manifest
<1>2. here \in Endpoint /\ h \in 1..Len(hosts) /\ p \in 1..Len(ports)
  BY <1>1, RequestType DEF here, Endpoint, TypeOK, Loop
<1>3. ToSet(wire') = ToSet(wire) \cup {here}
  BY <1>1, <1>2, AppendSet DEF TypeOK
<1>4. \A e \in ToSet(wire') : Before(e)'
  <2> SUFFICES ASSUME NEW e \in ToSet(wire') PROVE Before(e)'
    OBVIOUS
  <2>1. CASE e = here
    <3>1. /\ h \in 1..Len(hosts) /\ p \in 1..Len(ports) /\ e = <<hosts[h], ports[p]>>
          /\ p <= p
      BY <1>2, <2>1 DEF here, TypeOK
    <3>2. QED
      BY <1>1, <3>1 DEF Before
  <2>2. CASE e \in ToSet(wire)
    <3>1. PICK i \in 1..Len(hosts), j \in 1..Len(ports) :
            /\ e = <<hosts[i], ports[j]>>
            /\ i < h \/ (i = h /\ j < p)
      BY <1>1, <2>2 DEF Audit, Before, Loop
    <3>2. i < h \/ (i = h /\ j <= p)
      BY <1>2, <3>1
    <3>3. QED
      BY <1>1, <3>1, <3>2 DEF Before
  <2>3. QED
    BY <1>3, <2>1, <2>2
<1>5. PICK a \in Answer :
        /\ results' = [e \in DOMAIN results \cup {here} |-> IF e = here THEN a ELSE results[e]]
        /\ servers' = IF a = "mcp" THEN Append(servers, here) ELSE servers
  BY <1>1 DEF Contact
<1>6. DOMAIN results' = ToSet(wire')
  BY <1>3, <1>5 DEF Audit, ReportMatchesAudit
<1>7. DistinctPorts' => ToSet(servers') = {e \in DOMAIN results' : results'[e] = "mcp"}
  <2> SUFFICES ASSUME DistinctPorts
               PROVE  ToSet(servers') = {e \in DOMAIN results' : results'[e] = "mcp"}
    BY <1>1 DEF DistinctPorts
  <2>1. here \notin DOMAIN results
    BY <1>1, HereIsNew DEF Audit, ReportMatchesAudit
  <2>2. ToSet(servers) = {e \in DOMAIN results : results[e] = "mcp"}
    BY DEF Audit, ReportMatchesAudit
  <2>3. ToSet(servers') = IF a = "mcp" THEN ToSet(servers) \cup {here} ELSE ToSet(servers)
    BY <1>2, <1>5, AppendSet DEF TypeOK
  <2>4. QED
    BY <1>5, <2>1, <2>2, <2>3
<1>8. QED
  BY <1>4, <1>6, <1>7 DEF Audit, ReportMatchesAudit

\* Every other step leaves the payloads as they are.
LEMMA AuditKept ==
  ASSUME IInv, IInv', Audit, [Next]_vars, ~Probe, ~Trickle
  PROVE  Audit'
<1> USE DEF IInv
<1>1. UNCHANGED <<request, wire, results, servers>>
  BY DEF Next, Runner, RaiseAbort, Interrupt, Done, vars, found, ParseManifest, CheckExpiry,
     VerifySignature, ResolveScope, ListHosts, Plan, CheckLimits, Relent, Cooldown, sent
<1>2. ReportMatchesAudit'
  BY <1>1 DEF Audit, ReportMatchesAudit, DistinctPorts, ports, manifest
<1>3. ASSUME phase' \in Loop, NEW e \in ToSet(wire) PROVE Before(e)'
  <2>1. phase \in Loop
    <3>1. phase \in Gates \cup Loop
      BY <1>3 DEF TypeOK, Next, Runner, RaiseAbort, Interrupt, Done, vars, ParseManifest,
         CheckExpiry, VerifySignature, ResolveScope, ListHosts, Plan, CheckLimits, Relent,
         Cooldown, Gate, Ended, Gates, Loop
    <3>2. phase \notin Gates
      BY <1>3 DEF Position, ToSet
    <3>3. QED
      BY <3>1, <3>2
  <2>2. PICK i \in 1..Len(hosts), j \in 1..Len(ports) :
          /\ e = <<hosts[i], ports[j]>>
          /\ i < h \/ (i = h /\ IF phase \in {"stalled", "cooldown"} THEN j <= p ELSE j < p)
    BY <2>1 DEF Audit, Before
  <2>3. UNCHANGED <<hosts, ports>>
    BY <1>1, <2>1 DEF Next, Runner, RaiseAbort, Interrupt, Done, vars, scope, ParseManifest,
       CheckExpiry, VerifySignature, ResolveScope, ListHosts, Plan, CheckLimits, Relent,
       Cooldown, Gate, Loop, ports, manifest
  <2>4. CASE Cooldown
    <3>1. phase = "cooldown" /\ phase' \notin {"stalled", "cooldown"}
      BY <2>4 DEF Cooldown
    <3>2. /\ Len(ports) \in Nat /\ h \in Nat /\ p \in Nat /\ p <= Len(ports)
      BY <2>1, RequestType DEF TypeOK
    <3>3. i < h' \/ (i = h' /\ j < p')
      BY <2>2, <2>4, <3>1, <3>2 DEF Cooldown
    <3>4. QED
      BY <2>2, <2>3, <3>1, <3>3 DEF Before
  <2>5. CASE ~Cooldown
    <3>1. /\ h' = h /\ p' = p
          /\ phase \in {"stalled", "cooldown"} <=> phase' \in {"stalled", "cooldown"}
      BY <1>3, <2>1, <2>5 DEF Next, Runner, RaiseAbort, Interrupt, Done, vars, scope,
         ParseManifest, CheckExpiry, VerifySignature, ResolveScope, ListHosts, Plan,
         CheckLimits, Relent, Gate, Loop
    <3>2. QED
      BY <2>2, <2>3, <3>1 DEF Before
  <2>6. QED
    BY <2>4, <2>5
<1>4. QED
  BY <1>1, <1>2, <1>3 DEF Audit

\* Every probe sent has its entry in the audit payload, and with no port listed twice the
\* report's servers are exactly the endpoints recorded as MCP.
THEOREM AuditIsExact == Spec => []ReportMatchesAudit
<1>1. Init => Audit
  BY DEF Init, Audit, ReportMatchesAudit, ToSet, Loop
<1>2. IInv /\ IInv' /\ Audit /\ [Next]_vars => Audit'
  BY AuditProbe, AuditKept
<1>3. Audit => ReportMatchesAudit
  BY DEF Audit
<1>4. QED
  BY <1>1, <1>2, <1>3, Invariance, PTL DEF Spec
=============================================================================
